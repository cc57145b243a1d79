--------------------------- MODULE ProjectProofs ---------------------------
(***************************************************************************)
(* The life of projects and reimbursements, the people of a project, its   *)
(* invoices, its money and the evidence of it, for every value of the      *)
(* constants.                                                              *)
(***************************************************************************)
EXTENDS InvoiceRecordProofs, FiniteSetTheorems

----------------------------------------------------------------------------
(* What a transaction can do to a project: nothing, create it, move its    *)
(* money, or take it one step further.                                     *)

\* Budget, people and status of a project; what is left is its money.
SameTerms(pr, pr2) ==
  /\ pr2.status = pr.status /\ pr2.budget = pr.budget /\ pr2.reviewer = pr.reviewer
  /\ pr2.applicant = pr.applicant /\ pr2.msp = pr.msp /\ pr2.org = pr.org

\* The review of the draft is behind it.
Reviewed(pr) ==
  pr.status \in {"EXECUTING", "CLOSURE_REVIEW", "FINANCIAL_SETTLEMENT", "CLOSURE_APPROVED",
                 "ARCHIVED"}

\* An operation on a project that exists; `u' is who it names, whom the code
\* lets act in the role of the operation.
Advances(p, pr, u) ==
  /\ ProjectExists(p) /\ pr.status # "ABSENT"
  /\ pr.applicant = project[p].applicant /\ pr.msp = project[p].msp /\ pr.org = project[p].org
  /\ Reviewed(project[p]) => Reviewed(pr) /\ pr.budget = project[p].budget
  /\ pr.budget = project[p].budget \/ ValidBudget(pr.budget)
  /\ \/ pr.reviewer \in {None, project[p].reviewer}
     \/ pr.reviewer = u /\ \E caller \in MSPs : RequireProjectManager(p, u, caller, "PROJECT_REVIEWER")
  /\ pr.reserved = project[p].reserved /\ pr.paid = project[p].paid

LEMMA MoneyMoves ==
  TypeOK /\ ReimbursementNext => \A p \in Projects : SameTerms(project[p], project'[p])
<1> SUFFICES ASSUME TypeOK, NEW r \in Reimbursements, NEW u \in Users, NEW caller \in MSPs,
                    NEW p \in Projects,
                    \/ \E q \in Projects, i \in Invoices : CreateReimbursement(r, q, i, u, caller)
                    \/ \E decision \in {"APPROVE", "REVISION"} :
                          ReviewReimbursement(r, decision, u, caller)
                    \/ ResubmitReimbursement(r, u, caller)
                    \/ WithdrawReimbursement(r, u, caller)
                    \/ PayReimbursement(r, u, caller)
             PROVE  SameTerms(project[p], project'[p])
  BY DEF ReimbursementNext
<1> DEFINE claim == reimbursement[r]
           pr0 == project[claim.project]
<1>1. \/ UNCHANGED project
      \/ project' = [project EXCEPT ![claim.project] = Reserve(pr0, claim.amount)]
      \/ project' = [project EXCEPT ![claim.project] = Release(pr0, claim.amount)]
      \/ project' = [project EXCEPT ![claim.project] = Pay(pr0, claim.amount)]
  BY DEF CreateReimbursement, ReviewReimbursement, ResubmitReimbursement,
         WithdrawReimbursement, PayReimbursement
<1>2. project \in [Projects -> Project]
  BY DEF TypeOK
<1>3. \A pr \in Project : \A amount :
          /\ SameTerms(pr, Reserve(pr, amount)) /\ SameTerms(pr, Release(pr, amount))
          /\ SameTerms(pr, Pay(pr, amount))
  BY DEF SameTerms, Reserve, Release, Pay, Project
<1>4. SameTerms(project[p], project[p])
  BY DEF SameTerms
<1> QED BY <1>1, <1>2, <1>3, <1>4

\* The operations that write the record of p.
ProjectOperation(p, u, caller) ==
  \/ \E budget \in Cents, org \in Orgs : CreateProject(p, budget, u, org, caller)
  \/ \E budget \in Cents : UpdateProject(p, budget, u, caller)
  \/ SubmitProject(p, u, caller)
  \/ \E decision \in {"APPROVE", "REVISION"} : ReviewProject(p, decision, u, caller)
  \/ RequestProjectClosure(p, u, caller)
  \/ \E decision \in {"APPROVE", "REVISION"} : ReviewProjectClosure(p, decision, u, caller)
  \/ FinalizeProjectSettlement(p, u, caller)

LEMMA ProjectWrites ==
  ASSUME TypeOK, ProjectNext, NEW p \in Projects
  PROVE  \/ project'[p] = project[p]
         \/ \E u \in Users, caller \in MSPs : ProjectOperation(p, u, caller)
<1>0. project \in [Projects -> Project]
  BY DEF TypeOK
<1>1. ASSUME NEW q \in Projects, NEW u \in Users, NEW caller \in MSPs, p # q,
             ProjectOperation(q, u, caller)
      PROVE  project'[p] = project[p]
  BY <1>0, <1>1 DEF ProjectOperation, CreateProject, UpdateProject, SubmitProject, ReviewProject,
                    RequestProjectClosure, ReviewProjectClosure, FinalizeProjectSettlement
<1>2. \A q \in Projects, u, added \in Users, caller \in MSPs :
          AddProjectMember(q, added, u, caller) => project'[p] = project[p]
  BY DEF AddProjectMember
<1> QED BY <1>1, <1>2 DEF ProjectNext, ProjectOperation

LEMMA ProjectSteps ==
  ASSUME TypeOK, ProjectNext, NEW p \in Projects
  PROVE  \/ project'[p] = project[p]
         \/ \E budget \in Cents, u \in Users, org \in Orgs, caller \in MSPs :
               CreateProject(p, budget, u, org, caller)
         \/ \E u \in Users : Advances(p, project'[p], u)
<1>0. project \in [Projects -> Project]
  BY DEF TypeOK
<1> SUFFICES ASSUME NEW u \in Users, NEW caller \in MSPs, ProjectOperation(p, u, caller),
                    ~\E budget \in Cents, org \in Orgs : CreateProject(p, budget, u, org, caller)
             PROVE  Advances(p, project'[p], u)
  BY ProjectWrites
<1>a. project[p] \in Project
  BY <1>0
<1>1. ASSUME NEW budget \in Cents, UpdateProject(p, budget, u, caller)
      PROVE  Advances(p, project'[p], u)
  BY <1>0, <1>a, <1>1 DEF UpdateProject, Editable, Advances, Reviewed, ProjectExists, Project
<1>2. CASE SubmitProject(p, u, caller)
  BY <1>0, <1>a, <1>2 DEF SubmitProject, Editable, Advances, Reviewed, ProjectExists, Project
<1>3. ASSUME NEW decision \in {"APPROVE", "REVISION"}, ReviewProject(p, decision, u, caller)
      PROVE  Advances(p, project'[p], u)
  <2> DEFINE pr(status) == [project[p] EXCEPT !.reviewer = u, !.status = status]
  <2>1. /\ project'[p] = pr("EXECUTING") \/ project'[p] = pr("REVISION_REQUIRED")
        /\ project[p].status = "PENDING_REVIEW"
        /\ RequireProjectManager(p, u, caller, "PROJECT_REVIEWER")
    BY <1>0, <1>3 DEF ReviewProject
  <2>2. ASSUME NEW status
        PROVE  /\ pr(status).status = status /\ pr(status).applicant = project[p].applicant
               /\ pr(status).msp = project[p].msp /\ pr(status).org = project[p].org
               /\ pr(status).reviewer = u /\ pr(status).reserved = project[p].reserved
               /\ pr(status).paid = project[p].paid /\ pr(status).budget = project[p].budget
    BY <1>a DEF Project
  <2> HIDE DEF pr
  <2> QED BY <2>1, <2>2 DEF Advances, Reviewed, ProjectExists
<1>4. CASE RequestProjectClosure(p, u, caller)
  BY <1>0, <1>a, <1>4 DEF RequestProjectClosure, Advances, Reviewed, ProjectExists, Project
<1>5. ASSUME NEW decision \in {"APPROVE", "REVISION"}, ReviewProjectClosure(p, decision, u, caller)
      PROVE  Advances(p, project'[p], u)
  <2> DEFINE fund == [project[p] EXCEPT !.reviewer = u, !.status = "FINANCIAL_SETTLEMENT",
                                        !.available = project[p].budget]
             back == [project[p] EXCEPT !.reviewer = u, !.status = "EXECUTING"]
  <2>1. /\ project'[p] = fund \/ project'[p] = back
        /\ project[p].status = "CLOSURE_REVIEW"
        /\ RequireProjectManager(p, u, caller, "PROJECT_REVIEWER")
    BY <1>0, <1>5 DEF ReviewProjectClosure
  <2>2. /\ fund.status = "FINANCIAL_SETTLEMENT" /\ fund.applicant = project[p].applicant
        /\ fund.msp = project[p].msp /\ fund.org = project[p].org
        /\ fund.budget = project[p].budget /\ fund.reviewer = u
        /\ fund.reserved = project[p].reserved /\ fund.paid = project[p].paid
    BY <1>a DEF Project
  <2>3. /\ back.status = "EXECUTING" /\ back.applicant = project[p].applicant
        /\ back.msp = project[p].msp /\ back.org = project[p].org
        /\ back.budget = project[p].budget /\ back.reviewer = u
        /\ back.reserved = project[p].reserved /\ back.paid = project[p].paid
    BY <1>a DEF Project
  <2> HIDE DEF fund, back
  <2> QED BY <2>1, <2>2, <2>3 DEF Advances, Reviewed, ProjectExists
<1>6. CASE FinalizeProjectSettlement(p, u, caller)
  <2> DEFINE pr == Archive(project[p])
  <2>1. project'[p] = pr /\ InSettlement(p)
    BY <1>0, <1>6 DEF FinalizeProjectSettlement
  <2>2. /\ pr.status = "ARCHIVED" /\ pr.applicant = project[p].applicant
        /\ pr.msp = project[p].msp /\ pr.org = project[p].org
        /\ pr.budget = project[p].budget /\ pr.reviewer = project[p].reviewer
        /\ pr.reserved = project[p].reserved /\ pr.paid = project[p].paid
    BY <1>a DEF Archive, Project
  <2> HIDE DEF pr
  <2> QED BY <2>1, <2>2 DEF Advances, Reviewed, ProjectExists, InSettlement
<1> QED BY <1>1, <1>2, <1>3, <1>4, <1>5, <1>6 DEF ProjectOperation

\* The same, for any transaction.
LEMMA ProjectStep ==
  ASSUME TypeOK, [Next]_vars, NEW p \in Projects
  PROVE  \/ SameTerms(project[p], project'[p])
         \/ \E budget \in Cents, u \in Users, org \in Orgs, caller \in MSPs :
               CreateProject(p, budget, u, org, caller)
         \/ \E u \in Users : Advances(p, project'[p], u)
<1>1. UNCHANGED project => SameTerms(project[p], project'[p])
  BY DEF SameTerms
<1>2. project'[p] = project[p] => SameTerms(project[p], project'[p])
  BY DEF SameTerms
<1>3. UNCHANGED vars => UNCHANGED project
  BY DEF vars
<1> QED BY <1>1, <1>2, <1>3, ProjectUntouched, ProjectSteps, MoneyMoves DEF Next

----------------------------------------------------------------------------
(* The people of a project.  The terms of an existing project never change *)
(* hands and no ledger user ever changes, so that who was fit to be a      *)
(* member stays so.                                                        *)

LEMMA MemberStep ==
  ASSUME TypeOK, [Next]_vars, NEW p \in Projects
  PROVE  \/ member'[p] = member[p]
         \/ \E budget \in Cents, u \in Users, org \in Orgs, caller \in MSPs :
               CreateProject(p, budget, u, org, caller)
         \/ \E added \in Users, u \in Users, caller \in MSPs :
               AddProjectMember(p, added, u, caller)
<1>0. member \in [Projects -> SUBSET Users]
  BY DEF TypeOK
<1>1. CASE UNCHANGED member
  BY <1>1
<1>2. CASE ProjectNext
  <2>1. ASSUME NEW q \in Projects, NEW u \in Users, NEW caller \in MSPs
        PROVE  /\ \A budget \in Cents, org \in Orgs :
                     CreateProject(q, budget, u, org, caller) /\ q # p => member'[p] = member[p]
               /\ \A budget \in Cents : UpdateProject(q, budget, u, caller) => UNCHANGED member
               /\ SubmitProject(q, u, caller) => UNCHANGED member
               /\ \A decision \in {"APPROVE", "REVISION"} :
                     ReviewProject(q, decision, u, caller) => UNCHANGED member
               /\ RequestProjectClosure(q, u, caller) => UNCHANGED member
               /\ \A decision \in {"APPROVE", "REVISION"} :
                     ReviewProjectClosure(q, decision, u, caller) => UNCHANGED member
               /\ FinalizeProjectSettlement(q, u, caller) => UNCHANGED member
               /\ \A added \in Users :
                     AddProjectMember(q, added, u, caller) /\ q # p => member'[p] = member[p]
    BY <1>0 DEF CreateProject, UpdateProject, SubmitProject, ReviewProject,
           RequestProjectClosure, ReviewProjectClosure, FinalizeProjectSettlement, AddProjectMember
  <2> QED BY <1>2, <2>1 DEF ProjectNext
<1>3. CASE DirectoryNext \/ InvoiceNext \/ VoidNext \/ TransferNext \/ ReimbursementNext
  <2>1. DirectoryNext => UNCHANGED member
    BY DEF DirectoryNext, RegisterBusinessUser, CreateBusinessOrganization, projectVars
  <2>2. InvoiceNext => UNCHANGED member
    BY DEF InvoiceNext, CreateInvoice, LinkInvoiceToProject, UnlinkInvoiceFromProject, projectVars
  <2>3. VoidNext => UNCHANGED member
    BY DEF VoidNext, VoidInvoice, RequestInvoiceVoid, ReviewInvoiceVoid, projectVars
  <2>4. TransferNext => UNCHANGED member
    BY DEF TransferNext, TransferInvoice, RequestInvoiceTransfer, RespondInvoiceTransfer,
           CancelInvoiceTransfer, TransferFrame, projectVars
  <2>5. ReimbursementNext => UNCHANGED member
    BY DEF ReimbursementNext, CreateReimbursement, ReviewReimbursement, ResubmitReimbursement,
           WithdrawReimbursement, PayReimbursement, ReimbursementFrame
  <2> QED BY <1>1, <1>3, <2>1, <2>2, <2>3, <2>4, <2>5
<1> QED BY <1>1, <1>2, <1>3 DEF Next, vars

\* A member of a project.
Belongs(p, u) ==
  /\ ProjectExists(p) /\ user[u].status = "ACTIVE"
  /\ user[u].msp = project[p].msp /\ user[u].org = project[p].org
  /\ user[u].role \in {"PROJECT_MEMBER", "ISSUER"}

\* A project is of an organization, so that the test of AddProjectMember that
\* lets anyone into a project without one is never used.
TeamsKnown == \A p \in Projects : ProjectExists(p) => project[p].org # None

MemberInv == TypeOK /\ TeamsKnown /\ MembersBelongToProject

LEMMA TeamsStep ==
  ASSUME TypeOK, TeamsKnown, [Next]_vars PROVE TeamsKnown'
<1> SUFFICES ASSUME NEW p \in Projects, ProjectExists(p)' PROVE project'[p].org # None
  BY DEF TeamsKnown
<1>0. project \in [Projects -> Project]
  BY DEF TypeOK
<1>1. ASSUME NEW budget \in Cents, NEW u \in Users, NEW org \in Orgs, NEW caller \in MSPs,
             CreateProject(p, budget, u, org, caller)
      PROVE  project'[p].org # None
  BY <1>0, <1>1, NoneAssumption DEF CreateProject, AbsentProject
<1> QED BY <1>1, ProjectStep DEF SameTerms, Advances, ProjectExists, TeamsKnown

LEMMA MembersStep ==
  ASSUME TypeOK, TeamsKnown, MembersBelongToProject, [Next]_vars PROVE MembersBelongToProject'
<1> SUFFICES ASSUME NEW p \in Projects
             PROVE  /\ ProjectExists(p)' => project'[p].applicant \in member'[p]
                    /\ \A u \in member'[p] : Belongs(p, u)'
  BY DEF MembersBelongToProject, Belongs
<1>0. /\ project \in [Projects -> Project] /\ member \in [Projects -> SUBSET Users]
      /\ ProjectExists(p) => project[p].applicant \in member[p]
      /\ \A u \in member[p] : Belongs(p, u)
  BY DEF TypeOK, MembersBelongToProject, Belongs
<1>1. ASSUME NEW budget \in Cents, NEW u \in Users, NEW org \in Orgs, NEW caller \in MSPs,
             CreateProject(p, budget, u, org, caller)
      PROVE  /\ ProjectExists(p)' => project'[p].applicant \in member'[p]
             /\ \A w \in member'[p] : Belongs(p, w)'
  <2>1. member[p] = {}
    BY <1>0, <1>1 DEF CreateProject, Belongs
  <2>2. member'[p] = {u} /\ user' = user
    BY <1>0, <1>1, <2>1 DEF CreateProject, ProjectFrame, directoryVars
  <2>3. /\ project'[p].status = "DRAFT" /\ project'[p].applicant = u
        /\ project'[p].msp = caller /\ project'[p].org = org
    BY <1>0, <1>1 DEF CreateProject, AbsentProject
  <2>4. /\ user[u].status = "ACTIVE" /\ user[u].msp = caller /\ user[u].org = org
        /\ user[u].role \in {"PROJECT_MEMBER", "ISSUER"}
    BY <1>1 DEF CreateProject, RequireActiveBusinessUser, RequireRegisteredRole
  <2> QED BY <2>2, <2>3, <2>4 DEF Belongs, ProjectExists
<1>2. CASE /\ ~\E budget \in Cents, u \in Users, org \in Orgs, caller \in MSPs :
                   CreateProject(p, budget, u, org, caller)
  <2>1. /\ ProjectExists(p)' = ProjectExists(p)
        /\ project'[p].applicant = project[p].applicant
        /\ project'[p].msp = project[p].msp /\ project'[p].org = project[p].org
    BY <1>2, ProjectStep DEF SameTerms, Advances, ProjectExists
  <2>2. ASSUME NEW u \in Users, Belongs(p, u)
        PROVE  Belongs(p, u)'
    BY <2>1, <2>2, UsersStay DEF Belongs, UserExists
  <2>3. ASSUME NEW added \in Users, NEW u \in Users, NEW caller \in MSPs,
               AddProjectMember(p, added, u, caller)
        PROVE  /\ member'[p] = member[p] \cup {added}
               /\ Belongs(p, added)
    BY <1>0, <2>3 DEF AddProjectMember, FitForMembership, Belongs, TeamsKnown
  <2> QED BY <1>0, <1>2, <2>1, <2>2, <2>3, MemberStep
<1> QED BY <1>1, <1>2

\* Whoever is on the list of a project is an active user of its MSP and
\* organization, for ever; its applicant is one of them.
THEOREM MembersAreOfTheProject == Spec => []MembersBelongToProject
<1>1. Init => MemberInv
  BY TypeInit DEF Init, MemberInv, TeamsKnown, MembersBelongToProject, ProjectExists, AbsentProject
<1>2. MemberInv /\ [Next]_vars => MemberInv'
  BY TypeStep, TeamsStep, MembersStep DEF MemberInv
<1>3. MemberInv => MembersBelongToProject
  BY DEF MemberInv
<1> QED BY <1>1, <1>2, <1>3, PTL DEF Spec

----------------------------------------------------------------------------
(* Reimbursements: what a transaction can do to one.                       *)

\* An operation on a claim that is open; `u' is who it names.
Handled(r, claim, u) ==
  /\ reimbursement[r].status \in {"PENDING_REVIEW", "REVISION_REQUIRED", "APPROVED_RESERVED"}
  /\ claim.status # "ABSENT"
  /\ claim.project = reimbursement[r].project /\ claim.applicant = reimbursement[r].applicant
  /\ \/ claim.reviewer \in {None, reimbursement[r].reviewer}
     \/ /\ claim.reviewer = u
        /\ \E caller \in MSPs : RequireProjectManager(claim.project, u, caller, "PROJECT_REVIEWER")

LEMMA ClaimStep ==
  ASSUME TypeOK, [Next]_vars, NEW r \in Reimbursements
  PROVE  \/ reimbursement'[r] = reimbursement[r]
         \/ \E p \in Projects, i \in Invoices, u \in Users, caller \in MSPs :
               CreateReimbursement(r, p, i, u, caller)
         \/ \E u \in Users : Handled(r, reimbursement'[r], u)
<1>0. reimbursement \in [Reimbursements -> Reimbursement] /\ reimbursement[r] \in Reimbursement
  BY DEF TypeOK
<1>1. CASE UNCHANGED reimbursement
  BY <1>1
<1>2. CASE ReimbursementNext
  <2>1. ASSUME NEW s \in Reimbursements, NEW u \in Users, NEW caller \in MSPs, r # s
        PROVE  /\ \A p \in Projects, i \in Invoices :
                     CreateReimbursement(s, p, i, u, caller) => reimbursement'[r] = reimbursement[r]
               /\ \A decision \in {"APPROVE", "REVISION"} :
                     ReviewReimbursement(s, decision, u, caller)
                       => reimbursement'[r] = reimbursement[r]
               /\ ResubmitReimbursement(s, u, caller) => reimbursement'[r] = reimbursement[r]
               /\ WithdrawReimbursement(s, u, caller) => reimbursement'[r] = reimbursement[r]
               /\ PayReimbursement(s, u, caller) => reimbursement'[r] = reimbursement[r]
    BY <1>0, <2>1 DEF CreateReimbursement, ReviewReimbursement, ResubmitReimbursement,
                      WithdrawReimbursement, PayReimbursement
  <2> SUFFICES ASSUME NEW u \in Users, NEW caller \in MSPs,
                      \/ \E decision \in {"APPROVE", "REVISION"} :
                            ReviewReimbursement(r, decision, u, caller)
                      \/ ResubmitReimbursement(r, u, caller)
                      \/ WithdrawReimbursement(r, u, caller)
                      \/ PayReimbursement(r, u, caller)
               PROVE  Handled(r, reimbursement'[r], u)
    BY <1>2, <2>1 DEF ReimbursementNext
  <2>2. ASSUME NEW decision \in {"APPROVE", "REVISION"}, ReviewReimbursement(r, decision, u, caller)
        PROVE  Handled(r, reimbursement'[r], u)
    <3> DEFINE claim(status) == [reimbursement[r] EXCEPT !.reviewer = u, !.status = status]
    <3>1. /\ \/ reimbursement'[r] = claim("APPROVED_RESERVED")
             \/ reimbursement'[r] = claim("REVISION_REQUIRED")
          /\ reimbursement[r].status = "PENDING_REVIEW"
          /\ RequireProjectManager(reimbursement[r].project, u, caller, "PROJECT_REVIEWER")
      BY <1>0, <2>2 DEF ReviewReimbursement
    <3>2. ASSUME NEW status
          PROVE  /\ claim(status).status = status
                 /\ claim(status).project = reimbursement[r].project
                 /\ claim(status).applicant = reimbursement[r].applicant
                 /\ claim(status).reviewer = u
      BY <1>0 DEF Reimbursement
    <3> HIDE DEF claim
    <3> QED BY <3>1, <3>2 DEF Handled
  <2>3. CASE ResubmitReimbursement(r, u, caller)
    BY <1>0, <2>3 DEF ResubmitReimbursement, Handled, Reimbursement
  <2>4. CASE WithdrawReimbursement(r, u, caller)
    BY <1>0, <2>4 DEF WithdrawReimbursement, Withdrawable, Handled, Reimbursement
  <2>5. CASE PayReimbursement(r, u, caller)
    BY <1>0, <2>5 DEF PayReimbursement, Handled, Reimbursement
  <2> QED BY <2>2, <2>3, <2>4, <2>5
<1> QED BY <1>1, <1>2, ClaimsUntouched DEF Next, vars, claimVars

\* What is paid or withdrawn stays so, and the budget that passed its review
\* is never edited, whatever is reviewed, resubmitted or withdrawn later.
THEOREM SettlementsAreFinal == Spec => SettledIsFinal
<1>1. ASSUME TypeOK, [Next]_vars, NEW r \in Reimbursements,
             reimbursement[r].status \in {"PAID", "WITHDRAWN"}
      PROVE  reimbursement'[r] = reimbursement[r]
  BY <1>1, ClaimStep DEF Handled, CreateReimbursement, ReimbursementExists
<1>2. ASSUME TypeOK, [Next]_vars, NEW p \in Projects,
             Released(p) \/ project[p].status \in {"EXECUTING", "CLOSURE_REVIEW"}
      PROVE  project'[p].budget = project[p].budget
  <2>1. Reviewed(project[p]) /\ ProjectExists(p)
    BY <1>2 DEF Released, Reviewed, ProjectExists
  <2> QED BY <1>2, <2>1, ProjectStep DEF SameTerms, Advances, CreateProject
<1>3. TypeOK /\ [Next]_vars =>
        [/\ \A r \in Reimbursements :
              reimbursement[r].status \in {"PAID", "WITHDRAWN"} =>
                  reimbursement'[r] = reimbursement[r]
         /\ \A p \in Projects :
              (Released(p) \/ project[p].status \in {"EXECUTING", "CLOSURE_REVIEW"}) =>
                  project'[p].budget = project[p].budget]_vars
  BY <1>1, <1>2
<1> QED BY <1>3, TypeCorrect, PTL DEF Spec, SettledIsFinal

----------------------------------------------------------------------------
(* Reviews.  The applicant of a project or a claim is on the list of the   *)
(* project, and nobody on it has the role of a reviewer.                   *)

LEMMA MembersDoNotReview ==
  ASSUME MemberInv, NEW p \in Projects, NEW u \in member[p], NEW w \in Users, NEW caller \in MSPs,
         RequireProjectManager(p, w, caller, "PROJECT_REVIEWER")
  PROVE  w # u
<1>1. user[u].status = "ACTIVE" /\ user[u].role \in {"PROJECT_MEMBER", "ISSUER"}
  BY DEF MemberInv, MembersBelongToProject
<1>2. UserExists(w) => user[w].role = "PROJECT_REVIEWER"
  BY DEF RequireProjectManager, RequireActiveBusinessUser, RequireRegisteredRole
<1> QED BY <1>1, <1>2 DEF UserExists

ApplicantsAreMembers ==
  \A r \in Reimbursements :
      ReimbursementExists(r) =>
          /\ reimbursement[r].project \in Projects
          /\ reimbursement[r].applicant \in member[reimbursement[r].project]

ReviewInv == MemberInv /\ ApplicantsAreMembers /\ ReviewersAreNotApplicants

LEMMA ReviewStep == ReviewInv /\ [Next]_vars => ReviewInv'
<1> SUFFICES ASSUME ReviewInv, [Next]_vars PROVE ReviewInv'
  OBVIOUS
<1>0. /\ MemberInv /\ TypeOK /\ ApplicantsAreMembers /\ ReviewersAreNotApplicants
      /\ member \in [Projects -> SUBSET Users] /\ None \notin Users
  BY NoneAssumption DEF ReviewInv, MemberInv, TypeOK
<1>1. MemberInv'
  BY <1>0, TypeStep, TeamsStep, MembersStep DEF MemberInv
<1>2. \A p \in Projects : member[p] \subseteq member'[p]
  BY <1>0, MemberStep DEF CreateProject, AddProjectMember
<1>3. ASSUME NEW p \in Projects, ProjectExists(p)'
      PROVE  project'[p].reviewer # project'[p].applicant
  <2>1. project'[p].applicant \in Users
    BY <1>1, <1>3 DEF MemberInv, MembersBelongToProject, TypeOK
  <2>2. ASSUME NEW budget \in Cents, NEW u \in Users, NEW org \in Orgs, NEW caller \in MSPs,
               CreateProject(p, budget, u, org, caller)
        PROVE  project'[p].reviewer = None
    BY <1>0, <2>2 DEF TypeOK, CreateProject, AbsentProject
  <2>3. CASE SameTerms(project[p], project'[p])
    BY <1>0, <1>3, <2>3 DEF SameTerms, ReviewersAreNotApplicants, ProjectExists
  <2>4. ASSUME NEW u \in Users, Advances(p, project'[p], u)
        PROVE  project'[p].reviewer # project'[p].applicant
    <3>1. project[p].applicant \in member[p]
      BY <1>0, <2>4 DEF MemberInv, MembersBelongToProject, Advances
    <3>2. project[p].reviewer # project[p].applicant
      BY <1>0, <2>4 DEF ReviewersAreNotApplicants, Advances
    <3> QED BY <1>0, <2>1, <2>4, <3>1, <3>2, MembersDoNotReview DEF Advances
  <2> QED BY <1>0, <2>1, <2>2, <2>3, <2>4, ProjectStep
<1>4. ASSUME NEW r \in Reimbursements, ReimbursementExists(r)'
      PROVE  /\ reimbursement'[r].project \in Projects
             /\ reimbursement'[r].applicant \in member'[reimbursement'[r].project]
             /\ reimbursement'[r].reviewer # reimbursement'[r].applicant
  <2>1. ASSUME NEW p \in Projects, NEW i \in Invoices, NEW u \in Users, NEW caller \in MSPs,
               CreateReimbursement(r, p, i, u, caller)
        PROVE  /\ reimbursement'[r].project = p /\ reimbursement'[r].applicant = u
               /\ reimbursement'[r].reviewer = None
               /\ u \in member[p]
    <3>1. u = project[p].applicant \/ u \in member[p]
      BY <2>1 DEF CreateReimbursement, RequireProjectMember, RequireProjectApplicant
    <3>2. ProjectExists(p)
      BY <2>1 DEF CreateReimbursement, InSettlement, ProjectExists
    <3>3. u \in member[p]
      BY <1>0, <3>1, <3>2 DEF MemberInv, MembersBelongToProject
    <3> QED BY <1>0, <2>1, <3>3 DEF TypeOK, CreateReimbursement
  <2>2. CASE reimbursement'[r] = reimbursement[r]
    BY <1>0, <1>2, <1>4, <2>2
    DEF ApplicantsAreMembers, ReviewersAreNotApplicants, ReimbursementExists
  <2>3. ASSUME NEW u \in Users, Handled(r, reimbursement'[r], u)
        PROVE  /\ reimbursement'[r].project \in Projects
               /\ reimbursement'[r].applicant \in member'[reimbursement'[r].project]
               /\ reimbursement'[r].reviewer # reimbursement'[r].applicant
    <3>1. /\ reimbursement[r].project \in Projects
          /\ reimbursement[r].applicant \in member[reimbursement[r].project]
          /\ reimbursement[r].reviewer # reimbursement[r].applicant
      BY <1>0, <2>3 DEF Handled, ApplicantsAreMembers, ReviewersAreNotApplicants, ReimbursementExists
    <3>2. reimbursement[r].applicant \in Users
      BY <1>0, <3>1
    <3> QED BY <1>0, <1>2, <2>3, <3>1, <3>2, MembersDoNotReview DEF Handled
  <2> QED BY <1>0, <1>2, <2>1, <2>2, <2>3, ClaimStep
<1>5. ApplicantsAreMembers' /\ ReviewersAreNotApplicants'
  BY <1>3, <1>4 DEF ApplicantsAreMembers, ReviewersAreNotApplicants, ProjectExists,
                    ReimbursementExists
<1> QED BY <1>1, <1>5 DEF ReviewInv

\* Nobody reviews a project or a claim of their own.
THEOREM NobodyReviewsTheirOwn == Spec => []ReviewersAreNotApplicants
<1>1. Init => ReviewInv
  BY TypeInit DEF Init, ReviewInv, MemberInv, TeamsKnown, MembersBelongToProject,
                  ApplicantsAreMembers, ReviewersAreNotApplicants, ProjectExists,
                  ReimbursementExists, AbsentProject, AbsentReimbursement
<1>2. ReviewInv => ReviewersAreNotApplicants
  BY DEF ReviewInv
<1> QED BY <1>1, <1>2, ReviewStep, PTL DEF Spec

----------------------------------------------------------------------------
(* The invoices of a project.  A link is made to a project that is open    *)
(* for it, and that a reviewed project stays reviewed carries it from then *)
(* on.                                                                     *)

\* What an invoice and the project it names must have in common.
Matches(inv, pr) ==
  inv.issuerMsp = pr.msp /\ SameOrganization(inv.issuerOrg, pr.org) /\ Reviewed(pr)

SameLink(inv, inv2) ==
  inv2.project = inv.project /\ inv2.issuerMsp = inv.issuerMsp /\ inv2.issuerOrg = inv.issuerOrg

LEMMA LinkStep ==
  ASSUME TypeOK, [Next]_vars, NEW j \in Invoices, InvoiceExists(j)', invoice'[j].project # None
  PROVE  \/ InvoiceExists(j) /\ SameLink(invoice[j], invoice'[j])
         \/ UNCHANGED project /\ Matches(invoice'[j], project[invoice'[j].project])
<1>0. invoice \in [Invoices -> Invoice] /\ invoice[j] \in Invoice
  BY DEF TypeOK
<1>1. ASSUME invoice'[j] = invoice[j]
      PROVE  InvoiceExists(j) /\ SameLink(invoice[j], invoice'[j])
  BY <1>1 DEF SameLink, InvoiceExists
<1>2. CASE InvoiceNext
  <2> SUFFICES ASSUME NEW i \in Invoices, NEW u \in Users, NEW caller \in MSPs,
                      \/ \E no \in Numbers, total \in Cents, currency \in Currencies,
                            org \in Orgs \cup {None}, p \in Projects \cup {None},
                            original \in Invoices \cup {None} :
                            CreateInvoice(i, no, total, currency, u, org, p, original, caller)
                      \/ \E p \in Projects : LinkInvoiceToProject(i, p, u, caller)
                      \/ UnlinkInvoiceFromProject(i, u, caller)
               PROVE  \/ invoice'[j] = invoice[j]
                      \/ UNCHANGED project /\ Matches(invoice'[j], project[invoice'[j].project])
    BY <1>1, <1>2 DEF InvoiceNext
  <2>0. CASE i # j
    BY <1>0, <2>0 DEF CreateInvoice, LinkInvoiceToProject, UnlinkInvoiceFromProject
  <2>1. UNCHANGED project
    BY <1>2, ProjectUntouched
  <2>2. ASSUME NEW no \in Numbers, NEW total \in Cents, NEW currency \in Currencies,
               NEW org \in Orgs \cup {None}, NEW p \in Projects \cup {None},
               NEW original \in Invoices \cup {None},
               CreateInvoice(j, no, total, currency, u, org, p, original, caller)
        PROVE  Matches(invoice'[j], project[invoice'[j].project])
    <3> DEFINE issuerOrg == IF org = None THEN BusinessUserOrganization(u) ELSE org
    <3>1. /\ invoice'[j].project = p /\ invoice'[j].issuerMsp = caller
          /\ invoice'[j].issuerOrg = issuerOrg
          /\ LinkableAtCreation(p, u, issuerOrg, caller)
      BY <1>0, <2>2 DEF CreateInvoice
    <3> HIDE DEF issuerOrg
    <3> QED BY <3>1 DEF LinkableAtCreation, OpenForAssociation, InSettlement, Matches, Reviewed,
                        SameOrganization
  <2>3. ASSUME NEW p \in Projects, LinkInvoiceToProject(j, p, u, caller)
        PROVE  Matches(invoice'[j], project[invoice'[j].project])
    <3>1. /\ invoice'[j].project = p /\ invoice'[j].issuerMsp = invoice[j].issuerMsp
          /\ invoice'[j].issuerOrg = invoice[j].issuerOrg
      BY <1>0, <2>3 DEF LinkInvoiceToProject, Invoice
    <3> QED BY <2>3, <3>1 DEF LinkInvoiceToProject, SameIssuerOrganization, OpenForAssociation,
                              InSettlement, Matches, Reviewed
  <2>4. ~UnlinkInvoiceFromProject(j, u, caller)
    BY <1>0 DEF UnlinkInvoiceFromProject, Invoice
  <2> QED BY <2>0, <2>1, <2>2, <2>3, <2>4
<1>3. CASE VoidNext
  <2>1. \/ UNCHANGED invoice
        \/ \E i \in Invoices : NotVoided(i) /\ invoice' = [invoice EXCEPT ![i].status = "VOIDED"]
    BY <1>3 DEF VoidNext, VoidInvoice, RequestInvoiceVoid, ReviewInvoiceVoid, invoiceVars
  <2> QED BY <1>0, <1>1, <2>1 DEF Invoice, SameLink, NotVoided, InvoiceExists
<1>4. CASE TransferNext
  <2>1. \/ UNCHANGED invoice
        \/ \E i \in Invoices : \E to, msp :
              NotVoided(i) /\ invoice' = [invoice EXCEPT ![i] = HandedTo(invoice[i], to, msp)]
    BY <1>4 DEF TransferNext, TransferInvoice, RequestInvoiceTransfer, RespondInvoiceTransfer,
                CancelInvoiceTransfer, StillAvailable
  <2>2. \A to, msp : SameLink(invoice[j], HandedTo(invoice[j], to, msp))
    BY <1>0 DEF SameLink, HandedTo, Invoice
  <2> QED BY <1>0, <1>1, <2>1, <2>2 DEF NotVoided
<1>5. CASE DirectoryNext \/ ProjectNext \/ ReimbursementNext \/ UNCHANGED vars
  <2>1. ReimbursementNext => UNCHANGED invoice
    BY DEF ReimbursementNext, CreateReimbursement, ReviewReimbursement, ResubmitReimbursement,
           WithdrawReimbursement, PayReimbursement, ReimbursementFrame, invoiceVars
  <2> QED BY <1>1, <1>5, <2>1, InvoicesUntouched DEF vars
<1> QED BY <1>2, <1>3, <1>4, <1>5 DEF Next

LEMMA LinkedDef ==
  LinkedInvoicesMatchProject <=>
    \A i \in Invoices :
        InvoiceExists(i) /\ invoice[i].project # None => Matches(invoice[i], project[invoice[i].project])
  BY DEF LinkedInvoicesMatchProject, Matches, Reviewed, Released

LEMMA LinkedStep == TypeOK /\ LinkedInvoicesMatchProject /\ [Next]_vars => LinkedInvoicesMatchProject'
<1> SUFFICES ASSUME TypeOK, LinkedInvoicesMatchProject, [Next]_vars,
                    NEW j \in Invoices, InvoiceExists(j)', invoice'[j].project # None
             PROVE  Matches(invoice'[j], project'[invoice'[j].project])
  BY DEF LinkedInvoicesMatchProject, Matches, Reviewed, Released
<1> DEFINE p == invoice'[j].project
<1>1. CASE UNCHANGED project /\ Matches(invoice'[j], project[p])
  BY <1>1 DEF Matches
<1>2. CASE InvoiceExists(j) /\ SameLink(invoice[j], invoice'[j])
  <2>1. Matches(invoice'[j], project[p])
    BY <1>2, LinkedDef DEF SameLink, Matches
  <2>2. p \in Projects
    BY <1>2 DEF SameLink, TypeOK, Invoice
  <2>3. /\ project'[p].msp = project[p].msp /\ project'[p].org = project[p].org
        /\ Reviewed(project'[p])
    BY <2>1, <2>2, ProjectStep DEF Matches, SameTerms, Advances, Reviewed, CreateProject,
                                   ProjectExists
  <2> QED BY <2>1, <2>3 DEF Matches, SameOrganization
<1> QED BY <1>1, <1>2, LinkStep

\* An invoice that names a project is one of the project's MSP and
\* organization, and the project passed its review.
THEOREM LinkedInvoicesAreOfTheProject == Spec => []LinkedInvoicesMatchProject
<1>1. Init => LinkedInvoicesMatchProject
  BY DEF Init, LinkedInvoicesMatchProject, InvoiceExists, AbsentInvoice
<1> QED BY <1>1, LinkedStep, TypeCorrect, PTL DEF Spec

\* The operations on projects leave what is reserved and paid as it is.
LEMMA MoneyProject ==
  ASSUME TypeOK, BudgetConserved, ProjectNext, NEW p \in Projects
  PROVE  project'[p].reserved = project[p].reserved /\ project'[p].paid = project[p].paid
<1>0. project \in [Projects -> Project] /\ project[p] \in Project
  BY DEF TypeOK
<1>1. ASSUME NEW budget \in Cents, NEW u \in Users, NEW org \in Orgs, NEW caller \in MSPs,
             CreateProject(p, budget, u, org, caller)
      PROVE  project'[p].reserved = project[p].reserved /\ project'[p].paid = project[p].paid
  <2>1. project'[p].reserved = 0 /\ project'[p].paid = 0
    BY <1>0, <1>1 DEF CreateProject, AbsentProject
  <2>2. ~Released(p)
    BY <1>1 DEF CreateProject, ProjectExists, Released
  <2>3. /\ project[p].available + project[p].reserved + project[p].paid + project[p].recovered = 0
        /\ project[p].available \in Nat /\ project[p].reserved \in Nat
        /\ project[p].paid \in Nat /\ project[p].recovered \in Nat
    BY <1>0, <2>2 DEF BudgetConserved, Project
  <2>4. \A a, b, c, d \in Nat : a + b + c + d = 0 => b = 0 /\ c = 0
    OBVIOUS
  <2>5. project[p].reserved = 0 /\ project[p].paid = 0
    BY <2>3, <2>4
  <2> QED BY <2>1, <2>5
<1> QED BY <1>1, ProjectSteps DEF Advances

----------------------------------------------------------------------------
(* Evidence.                                                               *)

\* The flow of a change of holder.
Flows(j) ==
  /\ evidence'.log = "FLOW" /\ evidence'.of = j
  /\ evidence'.from = invoice[j].holder /\ evidence'.to = invoice'[j].holder

LEMMA HolderFlow ==
  ASSUME TypeOK, [Next]_vars, NEW j \in Invoices, InvoiceExists(j),
         invoice'[j].holder # invoice[j].holder
  PROVE  Flows(j)
<1>0. invoice \in [Invoices -> Invoice] /\ invoice[j] \in Invoice
  BY DEF TypeOK
<1>1. CASE InvoiceNext
  <2> SUFFICES ASSUME NEW i \in Invoices, NEW u \in Users, NEW caller \in MSPs,
                      \/ \E no \in Numbers, total \in Cents, currency \in Currencies,
                            org \in Orgs \cup {None}, p \in Projects \cup {None},
                            original \in Invoices \cup {None} :
                            CreateInvoice(i, no, total, currency, u, org, p, original, caller)
                      \/ \E p \in Projects : LinkInvoiceToProject(i, p, u, caller)
                      \/ UnlinkInvoiceFromProject(i, u, caller)
               PROVE  FALSE
    BY <1>1 DEF InvoiceNext
  <2>1. CASE i # j
    BY <1>0, <2>1 DEF CreateInvoice, LinkInvoiceToProject, UnlinkInvoiceFromProject
  <2>2. CASE i = j
    <3>1. \E p \in Projects \cup {None} : invoice' = [invoice EXCEPT ![j].project = p]
      BY <2>2 DEF CreateInvoice, LinkInvoiceToProject, UnlinkInvoiceFromProject
    <3> QED BY <1>0, <3>1 DEF Invoice
  <2> QED BY <2>1, <2>2
<1>2. CASE VoidNext
  <2>1. UNCHANGED invoice \/ \E i \in Invoices : invoice' = [invoice EXCEPT ![i].status = "VOIDED"]
    BY <1>2 DEF VoidNext, VoidInvoice, RequestInvoiceVoid, ReviewInvoiceVoid, invoiceVars
  <2> QED BY <1>0, <2>1 DEF Invoice
<1>3. CASE TransferNext
  <2>1. PICK i \in Invoices, to \in Users :
               /\ \E msp : invoice' = [invoice EXCEPT ![i] = HandedTo(invoice[i], to, msp)]
               /\ \E type : evidence' = Flow(i, type, invoice[i].holder, to)
    BY <1>3 DEF TransferNext, TransferInvoice, RequestInvoiceTransfer, RespondInvoiceTransfer,
                CancelInvoiceTransfer, StillAvailable
  <2>2. i = j
    BY <1>0, <2>1
  <2>3. invoice'[j].holder = to
    BY <1>0, <2>1, <2>2 DEF HandedTo, Invoice
  <2> QED BY <2>1, <2>2, <2>3 DEF Flow, Flows
<1>4. CASE DirectoryNext \/ ProjectNext \/ ReimbursementNext \/ UNCHANGED vars
  <2>1. ReimbursementNext => UNCHANGED invoice
    BY DEF ReimbursementNext, CreateReimbursement, ReviewReimbursement, ResubmitReimbursement,
           WithdrawReimbursement, PayReimbursement, ReimbursementFrame, invoiceVars
  <2> QED BY <1>4, <2>1, InvoicesUntouched DEF vars
<1> QED BY <1>1, <1>2, <1>3, <1>4 DEF Next

\* The event of a change of the reserved balance.
Explains(p) ==
  /\ evidence'.log = "PROJECT_EVENT" /\ evidence'.of = p
  /\ evidence'.to \in Reimbursements
  /\ reimbursement'[evidence'.to] # reimbursement[evidence'.to]

LEMMA ReserveEvent ==
  ASSUME TypeOK, BudgetConserved, [Next]_vars, NEW p \in Projects,
         project'[p].reserved # project[p].reserved
  PROVE  Explains(p)
<1>0. /\ project \in [Projects -> Project] /\ project[p] \in Project
      /\ reimbursement \in [Reimbursements -> Reimbursement]
  BY DEF TypeOK
<1>1. CASE ProjectNext
  BY <1>1, MoneyProject
<1>2. CASE ReimbursementNext
  <2>1. PICK r \in Reimbursements, u \in Users, caller \in MSPs :
               \/ \E decision \in {"APPROVE", "REVISION"} :
                     ReviewReimbursement(r, decision, u, caller)
               \/ WithdrawReimbursement(r, u, caller)
               \/ PayReimbursement(r, u, caller)
    BY <1>2 DEF ReimbursementNext, CreateReimbursement, ResubmitReimbursement
  <2>2. p = reimbursement[r].project
    BY <1>0, <2>1 DEF ReviewReimbursement, WithdrawReimbursement, PayReimbursement
  <2>3. \E type : evidence' = ProjectEvent(p, type, u, r)
    BY <2>1, <2>2 DEF ReviewReimbursement, WithdrawReimbursement, PayReimbursement
  <2>4. reimbursement'[r].status # reimbursement[r].status
    <3>1. ASSUME NEW decision \in {"APPROVE", "REVISION"}, ReviewReimbursement(r, decision, u, caller)
          PROVE  /\ reimbursement[r].status = "PENDING_REVIEW"
                 /\ reimbursement'[r].status \in {"APPROVED_RESERVED", "REVISION_REQUIRED"}
      BY <1>0, <3>1 DEF ReviewReimbursement, Reimbursement
    <3>2. ASSUME WithdrawReimbursement(r, u, caller)
          PROVE  reimbursement[r].status # "WITHDRAWN" /\ reimbursement'[r].status = "WITHDRAWN"
      BY <1>0, <3>2 DEF WithdrawReimbursement, Withdrawable, Reimbursement
    <3>3. ASSUME PayReimbursement(r, u, caller)
          PROVE  reimbursement[r].status # "PAID" /\ reimbursement'[r].status = "PAID"
      BY <1>0, <3>3 DEF PayReimbursement, Reimbursement
    <3> QED BY <2>1, <3>1, <3>2, <3>3
  <2> QED BY <2>3, <2>4 DEF ProjectEvent, Explains
<1>3. UNCHANGED vars => UNCHANGED project
  BY DEF vars
<1> QED BY <1>1, <1>2, <1>3, ProjectUntouched DEF Next

\* Custody never passes without a flow that names both hands, nor is money
\* reserved or taken from reserve without an event that names the claim.
THEOREM EvidenceIsComplete == Spec => ChangesAreEvidenced
<1>1. TypeOK /\ BudgetConserved /\ [Next]_vars =>
        [/\ \A i \in Invoices :
              InvoiceExists(i) /\ invoice'[i].holder # invoice[i].holder =>
                  /\ evidence'.log = "FLOW" /\ evidence'.of = i
                  /\ evidence'.from = invoice[i].holder
                  /\ evidence'.to = invoice'[i].holder
         /\ \A p \in Projects :
              project'[p].reserved # project[p].reserved =>
                  /\ evidence'.log = "PROJECT_EVENT" /\ evidence'.of = p
                  /\ evidence'.to \in Reimbursements
                  /\ reimbursement'[evidence'.to] # reimbursement[evidence'.to]]_vars
  BY HolderFlow, ReserveEvent DEF Flows, Explains
<1> QED BY <1>1, TypeCorrect, BudgetIsConserved, PTL DEF Spec, ChangesAreEvidenced


----------------------------------------------------------------------------
(* The sum of the claims in a status.                                      *)

\* The cents of one claim.
CentsOf(r, amount) == {r} \X (1..amount)

LEMMA CentsCount ==
  ASSUME NEW r, NEW amount \in Nat
  PROVE  IsFiniteSet(CentsOf(r, amount)) /\ Cardinality(CentsOf(r, amount)) = amount
<1>1. IsFiniteSet({r}) /\ Cardinality({r}) = 1
  BY FS_Singleton
<1>2. IsFiniteSet(1..amount) /\ Cardinality(1..amount) = amount
  <2>1. 1 \in Int /\ amount \in Int
    OBVIOUS
  <2>2. IsFiniteSet(1..amount) /\ Cardinality(1..amount) = IF 1 > amount THEN 0 ELSE amount-1+1
    BY <2>1, FS_Interval
  <2> QED BY <2>2
<1>3. IsFiniteSet(CentsOf(r, amount)) /\ Cardinality(CentsOf(r, amount)) = 1 * amount
  BY <1>1, <1>2, FS_Product DEF CentsOf
<1> QED BY <1>3

\* Cents added to a sum, or taken from it.
LEMMA CentsAdded ==
  ASSUME NEW S, IsFiniteSet(S), NEW T, IsFiniteSet(T), S \cap T = {}
  PROVE  IsFiniteSet(S \cup T) /\ Cardinality(S \cup T) = Cardinality(S) + Cardinality(T)
<1>1. /\ IsFiniteSet(S \cup T)
      /\ Cardinality(S \cup T) = Cardinality(S) + Cardinality(T) - Cardinality(S \cap T)
  BY FS_Union
<1>2. Cardinality(S \cap T) = 0
  BY FS_EmptySet
<1>3. Cardinality(S) \in Nat /\ Cardinality(T) \in Nat
  BY FS_CardinalityType
<1> QED BY <1>1, <1>2, <1>3

LEMMA CentsTaken ==
  ASSUME NEW S, IsFiniteSet(S), NEW T, T \subseteq S
  PROVE  /\ IsFiniteSet(S \ T) /\ Cardinality(S \ T) = Cardinality(S) - Cardinality(T)
         /\ Cardinality(T) <= Cardinality(S)
<1>1. IsFiniteSet(S \ T) /\ Cardinality(S \ T) = Cardinality(S) - Cardinality(S \cap T)
  BY FS_Difference
<1>2. S \cap T = T
  OBVIOUS
<1>3. T \in SUBSET S
  OBVIOUS
<1>4. Cardinality(T) <= Cardinality(S)
  BY <1>3, FS_Subset
<1> QED BY <1>1, <1>2, <1>4

\* A cent of the sum is a cent of one claim.
LEMMA CentsDef ==
  ASSUME TypeOK, NEW p, NEW status
  PROVE  \A c : c \in ClaimedCents(p, status) <=>
                  \E r \in Reimbursements :
                     /\ reimbursement[r].project = p /\ reimbursement[r].status = status
                     /\ c \in CentsOf(r, reimbursement[r].amount)
  BY DEF ClaimedCents, ClaimedIn, CentsOf

\* Cents of different claims are different.
LEMMA CentsDistinct ==
  ASSUME NEW r, NEW s, r # s, NEW a, NEW b
  PROVE  CentsOf(r, a) \cap CentsOf(s, b) = {}
  BY DEF CentsOf

\* A claim of p that is written keeps its project and amount and changes its status.
ClaimMoves(r, p, from, to) ==
  /\ reimbursement[r].status = from
  /\ reimbursement'[r].status = to
  /\ reimbursement[r].project = p /\ reimbursement'[r].project = p
  /\ reimbursement'[r].amount = reimbursement[r].amount
  /\ \A s \in Reimbursements \ {r} : reimbursement'[s] = reimbursement[s]

LEMMA SumEntered ==
  ASSUME TypeOK, TypeOK', NEW p, NEW from, NEW to, from # to, NEW r \in Reimbursements,
         ClaimMoves(r, p, from, to), IsFiniteSet(ClaimedCents(p, to))
  PROVE  /\ IsFiniteSet(ClaimedCents(p, to)')
         /\ Claimed(p, to)' = Claimed(p, to) + reimbursement[r].amount
<1> DEFINE new == CentsOf(r, reimbursement[r].amount)
<1>1. IsFiniteSet(new) /\ Cardinality(new) = reimbursement[r].amount
  BY CentsCount DEF TypeOK, Reimbursement
<1>2. new \cap ClaimedCents(p, to) = {}
  BY CentsDef, CentsDistinct DEF ClaimMoves
<1>3. ClaimedCents(p, to)' = ClaimedCents(p, to) \cup new
  BY DEF ClaimedCents, ClaimedIn, CentsOf, ClaimMoves
<1> HIDE DEF new
<1> QED BY <1>1, <1>2, <1>3, CentsAdded DEF Claimed

LEMMA SumLeft ==
  ASSUME TypeOK, TypeOK', NEW p, NEW from, NEW to, from # to, NEW r \in Reimbursements,
         ClaimMoves(r, p, from, to), IsFiniteSet(ClaimedCents(p, from))
  PROVE  /\ IsFiniteSet(ClaimedCents(p, from)')
         /\ Claimed(p, from)' = Claimed(p, from) - reimbursement[r].amount
<1> DEFINE old == CentsOf(r, reimbursement[r].amount)
<1>1. IsFiniteSet(old) /\ Cardinality(old) = reimbursement[r].amount
  BY CentsCount DEF TypeOK, Reimbursement
<1>2. old \subseteq ClaimedCents(p, from)
  BY CentsDef DEF ClaimMoves
<1>3. ClaimedCents(p, from)' = ClaimedCents(p, from) \ old
  BY DEF ClaimedCents, ClaimedIn, CentsOf, ClaimMoves
<1> HIDE DEF old
<1> QED BY <1>1, <1>2, <1>3, CentsTaken DEF Claimed

\* Claims of other projects and statuses do not count.
LEMMA SumKept ==
  ASSUME NEW p, NEW status,
         \A r \in Reimbursements :
            \/ reimbursement'[r] = reimbursement[r]
            \/ /\ reimbursement[r].project # p \/ reimbursement[r].status # status
               /\ reimbursement'[r].project # p \/ reimbursement'[r].status # status
  PROVE  ClaimedCents(p, status)' = ClaimedCents(p, status) /\ Claimed(p, status)' = Claimed(p, status)
<1>1. ClaimedIn(p, status)' = ClaimedIn(p, status)
  BY DEF ClaimedIn
<1>2. \A r \in ClaimedIn(p, status) : reimbursement'[r].amount = reimbursement[r].amount
  BY DEF ClaimedIn
<1>3. ClaimedCents(p, status)' = ClaimedCents(p, status)
  BY <1>1, <1>2 DEF ClaimedCents
<1> QED BY <1>3 DEF Claimed

----------------------------------------------------------------------------
(* What a transaction can do to the claims: open one, or take one a step   *)
(* further and move its amount between the balances of its project.        *)

Opens(r, p) ==
  /\ InSettlement(p) /\ ~ReimbursementExists(r)
  /\ reimbursement'[r].status = "PENDING_REVIEW"
  /\ reimbursement'[r].project = p /\ reimbursement'[r].amount > 0
  /\ \A s \in Reimbursements \ {r} : reimbursement'[s] = reimbursement[s]
  /\ UNCHANGED project

\* The balances of a step that takes a claim from one status to another.
Moves(pr, pr2, amount, from, to) ==
  \/ from = "PENDING_REVIEW" /\ to = "APPROVED_RESERVED" /\ pr2 = Reserve(pr, amount)
     /\ Sufficient(pr, amount)
  \/ from = "APPROVED_RESERVED" /\ to = "WITHDRAWN" /\ pr2 = Release(pr, amount)
     /\ pr.reserved >= amount
  \/ from = "APPROVED_RESERVED" /\ to = "PAID" /\ pr2 = Pay(pr, amount)
     /\ pr.reserved >= amount
  \/ /\ from \in {"PENDING_REVIEW", "REVISION_REQUIRED"}
     /\ to \in {"PENDING_REVIEW", "REVISION_REQUIRED", "WITHDRAWN"} /\ pr2 = pr

\* A step that takes the claim r of project p from one status to another.
Settles(r, p, from, to) ==
  /\ ClaimMoves(r, p, from, to)
  /\ Moves(project[p], project'[p], reimbursement[r].amount, from, to)
  /\ \A q \in Projects \ {p} : project'[q] = project[q]

LEMMA ClaimSteps ==
  ASSUME ClaimInv, ReimbursementNext
  PROVE  \E r \in Reimbursements, p \in Projects :
            Opens(r, p) \/ \E from, to : Settles(r, p, from, to)
<1> SUFFICES ASSUME NEW r \in Reimbursements, NEW u \in Users, NEW caller \in MSPs,
                    \/ \E p \in Projects, i \in Invoices : CreateReimbursement(r, p, i, u, caller)
                    \/ \E decision \in {"APPROVE", "REVISION"} :
                          ReviewReimbursement(r, decision, u, caller)
                    \/ ResubmitReimbursement(r, u, caller)
                    \/ WithdrawReimbursement(r, u, caller)
                    \/ PayReimbursement(r, u, caller)
             PROVE  \E p \in Projects : Opens(r, p) \/ \E from, to : Settles(r, p, from, to)
  BY DEF ReimbursementNext
<1> DEFINE claim == reimbursement[r]
           p0 == claim.project
           pr == project[p0]
<1>0. /\ project \in [Projects -> Project]
      /\ reimbursement \in [Reimbursements -> Reimbursement] /\ claim \in Reimbursement
  BY DEF ClaimInv, TypeOK
<1>1. ASSUME NEW p \in Projects, NEW i \in Invoices, CreateReimbursement(r, p, i, u, caller)
      PROVE  Opens(r, p)
  BY <1>0, <1>1 DEF CreateReimbursement, Opens
<1>a. ReimbursementExists(r) => p0 \in Projects
  BY DEF ClaimInv, ClaimsNameInvoices
\* What is written is the claim with a new status, and its project.
<1>b. ASSUME NEW from, NEW to, NEW claim2,
             claim.status = from, claim2.status = to, claim2.project = p0,
             claim2.amount = claim.amount,
             reimbursement' = [reimbursement EXCEPT ![r] = claim2],
             \A q \in Projects \ {p0} : project'[q] = project[q],
             Moves(pr, project'[p0], claim.amount, from, to)
      PROVE  Settles(r, p0, from, to)
  <2>1. ClaimMoves(r, p0, from, to)
    BY <1>0, <1>b DEF ClaimMoves
  <2> QED BY <1>b, <2>1 DEF Settles
<1>2. ASSUME NEW decision \in {"APPROVE", "REVISION"}, ReviewReimbursement(r, decision, u, caller)
      PROVE  \E p \in Projects : \E from, to : Settles(r, p, from, to)
  <2> DEFINE moved(status) == [claim EXCEPT !.reviewer = u, !.status = status]
  <2>1. /\ claim.status = "PENDING_REVIEW" /\ p0 \in Projects
        /\ \/ /\ reimbursement' = [reimbursement EXCEPT ![r] = moved("APPROVED_RESERVED")]
              /\ Sufficient(pr, claim.amount)
              /\ project' = [project EXCEPT ![p0] = Reserve(pr, claim.amount)]
           \/ /\ reimbursement' = [reimbursement EXCEPT ![r] = moved("REVISION_REQUIRED")]
              /\ UNCHANGED project
    BY <1>0, <1>2, <1>a DEF ReviewReimbursement, ReimbursementExists
  <2>2. ASSUME NEW status
        PROVE  /\ moved(status).status = status /\ moved(status).project = p0
               /\ moved(status).amount = claim.amount
    BY <1>0 DEF Reimbursement
  <2> HIDE DEF moved
  <2>3. CASE /\ reimbursement' = [reimbursement EXCEPT ![r] = moved("APPROVED_RESERVED")]
             /\ Sufficient(pr, claim.amount)
             /\ project' = [project EXCEPT ![p0] = Reserve(pr, claim.amount)]
    <3>1. Moves(pr, project'[p0], claim.amount, "PENDING_REVIEW", "APPROVED_RESERVED")
      BY <1>0, <2>1, <2>3 DEF Moves
    <3>2. \A q \in Projects \ {p0} : project'[q] = project[q]
      BY <1>0, <2>3
    <3>3. Settles(r, p0, "PENDING_REVIEW", "APPROVED_RESERVED")
      BY <1>b, <2>1, <2>2, <2>3, <3>1, <3>2
    <3> QED BY <2>1, <3>3
  <2>4. CASE /\ reimbursement' = [reimbursement EXCEPT ![r] = moved("REVISION_REQUIRED")]
             /\ UNCHANGED project
    <3>1. Moves(pr, project'[p0], claim.amount, "PENDING_REVIEW", "REVISION_REQUIRED")
      BY <2>4 DEF Moves
    <3>2. Settles(r, p0, "PENDING_REVIEW", "REVISION_REQUIRED")
      BY <1>b, <2>1, <2>2, <2>4, <3>1
    <3> QED BY <2>1, <3>2
  <2> QED BY <2>1, <2>3, <2>4
<1>3. CASE ResubmitReimbursement(r, u, caller)
  <2> DEFINE moved == [claim EXCEPT !.status = "PENDING_REVIEW", !.reviewer = None]
  <2>1. /\ claim.status = "REVISION_REQUIRED" /\ p0 \in Projects
        /\ reimbursement' = [reimbursement EXCEPT ![r] = moved] /\ UNCHANGED project
    BY <1>0, <1>3, <1>a DEF ResubmitReimbursement, ReimbursementExists
  <2>2. moved.status = "PENDING_REVIEW" /\ moved.project = p0 /\ moved.amount = claim.amount
    BY <1>0 DEF Reimbursement
  <2> HIDE DEF moved
  <2>3. Moves(pr, project'[p0], claim.amount, "REVISION_REQUIRED", "PENDING_REVIEW")
    BY <2>1 DEF Moves
  <2>4. Settles(r, p0, "REVISION_REQUIRED", "PENDING_REVIEW")
    BY <1>b, <2>1, <2>2, <2>3
  <2> QED BY <2>1, <2>4
<1>4. CASE WithdrawReimbursement(r, u, caller)
  <2> DEFINE moved == [claim EXCEPT !.status = "WITHDRAWN"]
  <2>1. /\ claim.status \in {"PENDING_REVIEW", "REVISION_REQUIRED", "APPROVED_RESERVED"}
        /\ p0 \in Projects
        /\ reimbursement' = [reimbursement EXCEPT ![r] = moved]
        /\ \/ claim.status # "APPROVED_RESERVED" /\ UNCHANGED project
           \/ /\ claim.status = "APPROVED_RESERVED" /\ pr.reserved >= claim.amount
              /\ project' = [project EXCEPT ![p0] = Release(pr, claim.amount)]
    BY <1>0, <1>4, <1>a DEF WithdrawReimbursement, Withdrawable, BalanceAllowsRelease,
                            ReimbursementExists
  <2>2. moved.status = "WITHDRAWN" /\ moved.project = p0 /\ moved.amount = claim.amount
    BY <1>0 DEF Reimbursement
  <2> HIDE DEF moved
  <2>3. Moves(pr, project'[p0], claim.amount, claim.status, "WITHDRAWN")
    BY <1>0, <2>1 DEF Moves
  <2>4. \A q \in Projects \ {p0} : project'[q] = project[q]
    BY <1>0, <2>1
  <2>5. Settles(r, p0, claim.status, "WITHDRAWN")
    BY <1>b, <2>1, <2>2, <2>3, <2>4
  <2> QED BY <2>1, <2>5
<1>5. CASE PayReimbursement(r, u, caller)
  <2> DEFINE moved == [claim EXCEPT !.status = "PAID"]
  <2>1. /\ claim.status = "APPROVED_RESERVED" /\ p0 \in Projects
        /\ reimbursement' = [reimbursement EXCEPT ![r] = moved]
        /\ pr.reserved >= claim.amount
        /\ project' = [project EXCEPT ![p0] = Pay(pr, claim.amount)]
    BY <1>0, <1>5, <1>a DEF PayReimbursement, ReimbursementExists
  <2>2. moved.status = "PAID" /\ moved.project = p0 /\ moved.amount = claim.amount
    BY <1>0 DEF Reimbursement
  <2> HIDE DEF moved
  <2>3. Moves(pr, project'[p0], claim.amount, "APPROVED_RESERVED", "PAID")
    BY <1>0, <2>1 DEF Moves
  <2>4. \A q \in Projects \ {p0} : project'[q] = project[q]
    BY <1>0, <2>1
  <2>5. Settles(r, p0, "APPROVED_RESERVED", "PAID")
    BY <1>b, <2>1, <2>2, <2>3, <2>4
  <2> QED BY <2>1, <2>5
<1> QED BY <1>1, <1>2, <1>3, <1>4, <1>5

----------------------------------------------------------------------------
(* Balances and claims, under different keys, agree.  The sums are over    *)
(* finitely many cents in every reachable state, also where infinitely     *)
(* many reimbursement ids are possible.                                    *)

SumsAreFinite ==
  \A p \in Projects : /\ IsFiniteSet(ClaimedCents(p, "APPROVED_RESERVED"))
                      /\ IsFiniteSet(ClaimedCents(p, "PAID"))

\* A claim that was never made belongs to no project; one that was is of a
\* positive amount.
ClaimsHaveAmounts ==
  \A r \in Reimbursements : IF ReimbursementExists(r) THEN reimbursement[r].amount > 0
                            ELSE reimbursement[r].project = None

MoneyInv == ClaimInv /\ BudgetConserved /\ SumsAreFinite /\ ClaimsHaveAmounts /\ BalancesAreBacked

LEMMA MoneyInit == Init => MoneyInv
<1> SUFFICES ASSUME Init PROVE MoneyInv
  OBVIOUS
<1>1. ClaimInv
  BY TypeInit, NoneAssumption
  DEF Init, ClaimInv, ClaimsNameInvoices, OneClaimPerInvoice, Live, ReimbursementExists,
      AbsentReimbursement
<1>2. BudgetConserved
  BY DEF Init, BudgetConserved, Released, AbsentProject
<1>3. ClaimsHaveAmounts
  BY DEF Init, ClaimsHaveAmounts, ReimbursementExists, AbsentReimbursement
<1>4. \A p \in Projects, status \in {"APPROVED_RESERVED", "PAID"} : ClaimedCents(p, status) = {}
  BY DEF Init, ClaimedCents, ClaimedIn, AbsentReimbursement
<1>5. SumsAreFinite
  BY <1>4, FS_EmptySet DEF SumsAreFinite
<1>6. BalancesAreBacked
  <2>1. \A p \in Projects : project[p].reserved = 0 /\ project[p].paid = 0
    BY DEF Init, AbsentProject
  <2>2. \A p \in Projects : Claimed(p, "APPROVED_RESERVED") = 0 /\ Claimed(p, "PAID") = 0
    BY <1>4, FS_EmptySet DEF Claimed
  <2> QED BY <2>1, <2>2 DEF BalancesAreBacked
<1> QED BY <1>1, <1>2, <1>3, <1>5, <1>6 DEF MoneyInv

\* The step of a claim from one status to another.
LEMMA MoneyMoved ==
  ASSUME MoneyInv, TypeOK', NEW r \in Reimbursements, NEW p \in Projects,
         NEW from, NEW to, Settles(r, p, from, to)
  PROVE  SumsAreFinite' /\ BalancesAreBacked'
<1> DEFINE amount == reimbursement[r].amount
           pr == project[p]
           Fin(q) == IsFiniteSet(ClaimedCents(q, "APPROVED_RESERVED")')
                       /\ IsFiniteSet(ClaimedCents(q, "PAID")')
           Bal(q) == /\ project'[q].reserved = Claimed(q, "APPROVED_RESERVED")'
                     /\ project'[q].paid = Claimed(q, "PAID")'
<1>0. /\ TypeOK /\ amount \in Nat
      /\ pr \in Project /\ pr.available \in Nat /\ pr.reserved \in Nat /\ pr.paid \in Nat
      /\ pr.budget \in Nat
  BY DEF MoneyInv, ClaimInv, TypeOK, Project, Reimbursement
<1>s. /\ ClaimMoves(r, p, from, to)
      /\ Moves(project[p], project'[p], reimbursement[r].amount, from, to)
      /\ \A q \in Projects \ {p} : project'[q] = project[q]
  BY DEF Settles
<1>1. \A q \in Projects : /\ IsFiniteSet(ClaimedCents(q, "APPROVED_RESERVED"))
                          /\ IsFiniteSet(ClaimedCents(q, "PAID"))
                          /\ project[q].reserved = Claimed(q, "APPROVED_RESERVED")
                          /\ project[q].paid = Claimed(q, "PAID")
  BY DEF MoneyInv, SumsAreFinite, BalancesAreBacked
<1>2. ASSUME NEW q \in Projects, q # p PROVE Fin(q) /\ Bal(q)
  <2>1. \A status : /\ ClaimedCents(q, status)' = ClaimedCents(q, status)
                    /\ Claimed(q, status)' = Claimed(q, status)
    BY <1>2, <1>s, SumKept DEF ClaimMoves
  <2> QED BY <1>1, <1>2, <1>s, <2>1
<1>a. ASSUME NEW status, status # from, status # to
      PROVE  /\ ClaimedCents(p, status)' = ClaimedCents(p, status)
             /\ Claimed(p, status)' = Claimed(p, status)
  BY <1>a, <1>s, SumKept DEF ClaimMoves
<1>b. from # to => /\ IsFiniteSet(ClaimedCents(p, to)) =>
                        /\ IsFiniteSet(ClaimedCents(p, to)')
                        /\ Claimed(p, to)' = Claimed(p, to) + amount
                   /\ IsFiniteSet(ClaimedCents(p, from)) =>
                        /\ IsFiniteSet(ClaimedCents(p, from)')
                        /\ Claimed(p, from)' = Claimed(p, from) - amount
  BY <1>0, <1>s, SumEntered, SumLeft
<1>3. Fin(p) /\ Bal(p)
  <2>1. CASE from = "PENDING_REVIEW" /\ to = "APPROVED_RESERVED" /\ project'[p] = Reserve(pr, amount)
    <3>1. project'[p].reserved = pr.reserved + amount /\ project'[p].paid = pr.paid
      BY <1>0, <2>1 DEF Reserve, Project
    <3> QED BY <1>1, <1>a, <1>b, <2>1, <3>1
  <2>2. CASE from = "APPROVED_RESERVED" /\ to = "WITHDRAWN" /\ project'[p] = Release(pr, amount)
    <3>1. project'[p].reserved = pr.reserved - amount /\ project'[p].paid = pr.paid
      BY <1>0, <2>2 DEF Release, Project
    <3> QED BY <1>1, <1>a, <1>b, <2>2, <3>1
  <2>3. CASE from = "APPROVED_RESERVED" /\ to = "PAID" /\ project'[p] = Pay(pr, amount)
    <3>1. project'[p].reserved = pr.reserved - amount /\ project'[p].paid = pr.paid + amount
      BY <1>0, <2>3 DEF Pay, Project
    <3> QED BY <1>1, <1>b, <2>3, <3>1
  <2>4. CASE /\ from \in {"PENDING_REVIEW", "REVISION_REQUIRED"}
             /\ to \in {"PENDING_REVIEW", "REVISION_REQUIRED", "WITHDRAWN"} /\ project'[p] = pr
    BY <1>1, <1>a, <2>4
  <2> QED BY <1>s, <2>1, <2>2, <2>3, <2>4 DEF Moves
<1>4. \A q \in Projects : Fin(q) /\ Bal(q)
  BY <1>2, <1>3
<1> QED BY <1>4 DEF SumsAreFinite, BalancesAreBacked

LEMMA MoneyStep == MoneyInv /\ TypeOK' /\ [Next]_vars => MoneyInv'
<1> SUFFICES ASSUME MoneyInv, TypeOK', [Next]_vars PROVE MoneyInv'
  OBVIOUS
<1>0. TypeOK /\ ClaimInv /\ BudgetConserved
  BY DEF MoneyInv, ClaimInv
<1>1. ClaimInv' /\ BudgetConserved'
  BY <1>0, ClaimInvStep, ConservedStep
<1>2. CASE UNCHANGED reimbursement /\ ~ReimbursementNext
  <2>1. ClaimsHaveAmounts'
    BY <1>2 DEF MoneyInv, ClaimsHaveAmounts, ReimbursementExists
  <2>2. \A p \in Projects, status \in {"APPROVED_RESERVED", "PAID"} :
           /\ ClaimedCents(p, status)' = ClaimedCents(p, status)
           /\ Claimed(p, status)' = Claimed(p, status)
    BY <1>2, SumKept
  <2>3. \A p \in Projects : /\ project'[p].reserved = project[p].reserved
                            /\ project'[p].paid = project[p].paid
    <3>1. UNCHANGED vars => UNCHANGED project
      BY DEF vars
    <3> QED BY <1>0, <1>2, <3>1, ProjectUntouched, MoneyProject DEF Next
  <2>4. SumsAreFinite' /\ BalancesAreBacked'
    BY <2>2, <2>3 DEF MoneyInv, SumsAreFinite, BalancesAreBacked
  <2> QED BY <1>1, <2>1, <2>4 DEF MoneyInv
<1>3. ASSUME NEW r \in Reimbursements, NEW p \in Projects, Opens(r, p)
      PROVE  MoneyInv'
  <2>1. ClaimsHaveAmounts'
    BY <1>3 DEF MoneyInv, ClaimsHaveAmounts, ReimbursementExists, Opens
  <2>2. \A q \in Projects, status \in {"APPROVED_RESERVED", "PAID"} :
           /\ ClaimedCents(q, status)' = ClaimedCents(q, status)
           /\ Claimed(q, status)' = Claimed(q, status)
    BY <1>3, SumKept DEF Opens, ReimbursementExists
  <2>3. SumsAreFinite' /\ BalancesAreBacked'
    BY <1>3, <2>2 DEF MoneyInv, SumsAreFinite, BalancesAreBacked, Opens
  <2> QED BY <1>1, <2>1, <2>3 DEF MoneyInv
<1>4. ASSUME NEW r \in Reimbursements, NEW p \in Projects, NEW from, NEW to,
             Settles(r, p, from, to)
      PROVE  MoneyInv'
  <2>1. ClaimsHaveAmounts'
    BY <1>4 DEF MoneyInv, ClaimsHaveAmounts, ReimbursementExists, Settles, ClaimMoves, Moves
  <2>2. SumsAreFinite' /\ BalancesAreBacked'
    BY <1>4, MoneyMoved
  <2> QED BY <1>1, <2>1, <2>2 DEF MoneyInv
<1>5. CASE ReimbursementNext
  BY <1>0, <1>3, <1>4, <1>5, ClaimSteps
<1>6. ~ReimbursementNext => UNCHANGED reimbursement
  BY ClaimsUntouched DEF Next, vars, claimVars
<1> QED BY <1>2, <1>5, <1>6

LEMMA MoneyCorrect == Spec => []MoneyInv
<1> QED BY MoneyInit, MoneyStep, TypeCorrect, PTL DEF Spec

\* What a project has reserved is the sum of its approved claims, and what it
\* has paid the sum of its paid ones, whatever commits.
THEOREM BalancesMatchClaims == Spec => []BalancesAreBacked
<1> QED BY MoneyCorrect, PTL DEF MoneyInv

----------------------------------------------------------------------------
(* Approved money can always be returned.                                  *)

BudgetsAreLimited == \A p \in Projects : project[p].budget <= MaxMoneyCents

LEMMA LimitStep ==
  ASSUME TypeOK, BudgetsAreLimited, [Next]_vars PROVE BudgetsAreLimited'
<1> SUFFICES ASSUME NEW p \in Projects PROVE project'[p].budget <= MaxMoneyCents
  BY DEF BudgetsAreLimited
<1>0. project \in [Projects -> Project] /\ project[p].budget <= MaxMoneyCents
  BY DEF TypeOK, BudgetsAreLimited
<1>1. ASSUME NEW budget \in Cents, NEW u \in Users, NEW org \in Orgs, NEW caller \in MSPs,
             CreateProject(p, budget, u, org, caller)
      PROVE  project'[p].budget <= MaxMoneyCents
  BY <1>0, <1>1 DEF CreateProject, AbsentProject, ValidBudget
<1> QED BY <1>0, <1>1, ProjectStep DEF SameTerms, Advances, ValidBudget

LEMMA LimitCorrect == Spec => []BudgetsAreLimited
<1>1. Init => BudgetsAreLimited
  BY MoneyAssumption DEF Init, BudgetsAreLimited, AbsentProject
<1> QED BY <1>1, LimitStep, TypeCorrect, PTL DEF Spec

\* The cents of an approved claim are among those its project has reserved.
LEMMA ReservedCovers ==
  ASSUME MoneyInv, NEW r \in Reimbursements, reimbursement[r].status = "APPROVED_RESERVED"
  PROVE  /\ reimbursement[r].project \in Projects
         /\ reimbursement[r].amount > 0
         /\ project[reimbursement[r].project].reserved >= reimbursement[r].amount
<1> DEFINE p == reimbursement[r].project
           amount == reimbursement[r].amount
           old == CentsOf(r, amount)
<1>0. TypeOK /\ amount \in Nat
  BY DEF MoneyInv, ClaimInv, TypeOK, Reimbursement
<1>1. p \in Projects /\ amount > 0
  BY DEF MoneyInv, ClaimInv, ClaimsNameInvoices, ClaimsHaveAmounts, ReimbursementExists
<1>2. IsFiniteSet(ClaimedCents(p, "APPROVED_RESERVED"))
      /\ project[p].reserved = Cardinality(ClaimedCents(p, "APPROVED_RESERVED"))
  BY <1>1 DEF MoneyInv, SumsAreFinite, BalancesAreBacked, Claimed
<1>3. old \subseteq ClaimedCents(p, "APPROVED_RESERVED")
  BY <1>0, CentsDef
<1>4. Cardinality(old) = amount
  BY <1>0, CentsCount
<1>5. /\ Cardinality(old) <= Cardinality(ClaimedCents(p, "APPROVED_RESERVED"))
      /\ Cardinality(ClaimedCents(p, "APPROVED_RESERVED")) \in Nat
  BY <1>2, <1>3, CentsTaken, FS_CardinalityType
<1> QED BY <1>0, <1>1, <1>2, <1>4, <1>5

\* The balance checks of WithdrawReimbursement never refuse an approved
\* claim: what it asks back is reserved, and the budget leaves room for it.
THEOREM ApprovedMoneyCanReturn == Spec => []BalanceChecksNeverRefuse
<1>1. MoneyInv /\ ClaimsRestOnInvoices /\ BudgetsAreLimited => BalanceChecksNeverRefuse
  <2> SUFFICES ASSUME MoneyInv, ClaimsRestOnInvoices, BudgetsAreLimited,
                      NEW r \in Reimbursements, reimbursement[r].status = "APPROVED_RESERVED"
               PROVE  BalanceAllowsRelease(project[reimbursement[r].project], reimbursement[r].amount)
    BY DEF BalanceChecksNeverRefuse
  <2> DEFINE p == reimbursement[r].project
             amount == reimbursement[r].amount
  <2>1. p \in Projects /\ project[p].reserved >= amount
    BY ReservedCovers
  <2>2. Released(p)
    BY DEF ClaimsRestOnInvoices, Live
  <2>3. /\ project[p].available \in Nat /\ project[p].reserved \in Nat /\ project[p].paid \in Nat
        /\ project[p].recovered \in Nat /\ project[p].budget \in Nat /\ amount \in Nat
    BY <2>1 DEF MoneyInv, ClaimInv, TypeOK, Project, Reimbursement
  <2>4. project[p].available + project[p].reserved + project[p].paid + project[p].recovered
          = project[p].budget
    BY <2>1, <2>2 DEF MoneyInv, BudgetConserved
  <2>5. project[p].budget <= MaxMoneyCents
    BY <2>1 DEF BudgetsAreLimited
  <2> HIDE DEF p, amount
  <2>6. BalanceAllowsRelease(project[p], amount)
    BY <2>1, <2>3, <2>4, <2>5, MoneyAssumption DEF BalanceAllowsRelease, CheckedAddMoney
  <2> QED BY <2>6 DEF p, amount
<1> QED BY <1>1, MoneyCorrect, LiveClaimsRestOnInvoices, LimitCorrect, PTL

----------------------------------------------------------------------------
(* An archived project is settled.                                         *)

\* The only way into the archive, and none out of it.
LEMMA ArchiveSteps ==
  ASSUME TypeOK, ProjectNext, NEW p \in Projects,
         project[p].status = "ARCHIVED" \/ project'[p].status = "ARCHIVED"
  PROVE  \/ project'[p] = project[p]
         \/ \E u \in Users, caller \in MSPs : FinalizeProjectSettlement(p, u, caller)
<1>0. project \in [Projects -> Project] /\ project[p] \in Project
  BY DEF TypeOK
<1> SUFFICES ASSUME NEW u \in Users, NEW caller \in MSPs, ProjectOperation(p, u, caller),
                    ~FinalizeProjectSettlement(p, u, caller)
             PROVE  FALSE
  BY ProjectWrites
<1>1. project[p].status # "ARCHIVED"
  BY DEF ProjectOperation, CreateProject, UpdateProject, SubmitProject, ReviewProject,
         RequestProjectClosure, ReviewProjectClosure, ProjectExists, Editable
<1>2. project'[p].status # "ARCHIVED"
  <2>1. ASSUME NEW budget \in Cents, NEW org \in Orgs, CreateProject(p, budget, u, org, caller)
        PROVE  project'[p].status = "DRAFT"
    BY <1>0, <2>1 DEF CreateProject, AbsentProject
  <2>2. ASSUME NEW budget \in Cents, UpdateProject(p, budget, u, caller)
        PROVE  project'[p].status = "DRAFT"
    BY <1>0, <2>2 DEF UpdateProject, Project
  <2>3. ASSUME NEW decision \in {"APPROVE", "REVISION"}, ReviewProject(p, decision, u, caller)
        PROVE  project'[p].status \in {"EXECUTING", "REVISION_REQUIRED"}
    BY <1>0, <2>3 DEF ReviewProject, Project
  <2>4. ASSUME NEW decision \in {"APPROVE", "REVISION"}, ReviewProjectClosure(p, decision, u, caller)
        PROVE  project'[p].status \in {"EXECUTING", "FINANCIAL_SETTLEMENT"}
    BY <1>0, <2>4 DEF ReviewProjectClosure, Project
  <2>5. SubmitProject(p, u, caller) => project'[p].status = "PENDING_REVIEW"
    BY <1>0 DEF SubmitProject, Project
  <2>6. RequestProjectClosure(p, u, caller) => project'[p].status = "CLOSURE_REVIEW"
    BY <1>0 DEF RequestProjectClosure, Project
  <2> QED BY <2>1, <2>2, <2>3, <2>4, <2>5, <2>6 DEF ProjectOperation
<1> QED BY <1>1, <1>2

LEMMA ArchivedStep ==
  ASSUME MoneyInv, ArchivedIsSettled, [Next]_vars PROVE ArchivedIsSettled'
<1> SUFFICES ASSUME NEW p \in Projects, project'[p].status = "ARCHIVED"
             PROVE  /\ project'[p].available = 0 /\ project'[p].reserved = 0
                    /\ \A r \in Reimbursements :
                          reimbursement'[r].project = p =>
                              reimbursement'[r].status \in {"PAID", "WITHDRAWN"}
  BY DEF ArchivedIsSettled
<1>0. /\ TypeOK /\ ClaimInv
      /\ project \in [Projects -> Project] /\ project[p] \in Project
  BY DEF MoneyInv, ClaimInv, TypeOK
<1>1. project[p].status = "ARCHIVED" =>
         /\ project[p].available = 0 /\ project[p].reserved = 0
         /\ \A r \in Reimbursements :
               reimbursement[r].project = p => reimbursement[r].status \in {"PAID", "WITHDRAWN"}
  BY DEF ArchivedIsSettled
<1>2. CASE project'[p] = project[p] /\ UNCHANGED reimbursement
  BY <1>1, <1>2
\* Nothing is reserved, so no claim is approved, and none awaits action.
<1>3. ASSUME NEW u \in Users, NEW caller \in MSPs, FinalizeProjectSettlement(p, u, caller)
      PROVE  /\ project'[p].available = 0 /\ project'[p].reserved = 0
             /\ \A r \in Reimbursements :
                   reimbursement'[r].project = p => reimbursement'[r].status \in {"PAID", "WITHDRAWN"}
  <2>1. /\ project[p].reserved = 0 /\ project' = [project EXCEPT ![p] = Archive(project[p])]
        /\ UNCHANGED reimbursement /\ NothingAwaitsAction(p)
    BY <1>3 DEF FinalizeProjectSettlement, ProjectFrame, claimVars
  <2>2. project'[p].available = 0 /\ project'[p].reserved = 0
    BY <1>0, <2>1 DEF Archive, Project
  <2>3. ASSUME NEW r \in Reimbursements, reimbursement[r].project = p
        PROVE  reimbursement[r].status \in {"PAID", "WITHDRAWN"}
    <3>1. reimbursement[r].status \notin {"PENDING_REVIEW", "REVISION_REQUIRED"}
      BY <2>1, <2>3 DEF NothingAwaitsAction
    <3>2. reimbursement[r].status # "ABSENT"
      BY <2>3, NoneAssumption DEF MoneyInv, ClaimsHaveAmounts, ReimbursementExists
    <3>3. reimbursement[r].status # "APPROVED_RESERVED"
      <4>1. reimbursement[r].amount \in Nat
        BY <1>0 DEF TypeOK, Reimbursement
      <4> QED BY <2>1, <2>3, <4>1, ReservedCovers
    <3> QED BY <1>0, <3>1, <3>2, <3>3 DEF TypeOK, Reimbursement
  <2> QED BY <2>1, <2>2, <2>3
<1>4. CASE ReimbursementNext
  <2>1. project[p].status = "ARCHIVED"
    BY <1>0, <1>4, StatusKept
  <2>2. PICK r \in Reimbursements, q \in Projects :
               Opens(r, q) \/ \E from, to : Settles(r, q, from, to)
    BY <1>0, <1>4, ClaimSteps
  <2>3. q # p
    <3>1. CASE Opens(r, q)
      BY <2>1, <3>1 DEF Opens, InSettlement
    <3>2. CASE \E from, to : Settles(r, q, from, to)
      BY <1>1, <2>1, <3>2 DEF Settles, ClaimMoves, Moves
    <3> QED BY <2>2, <3>1, <3>2
  <2>4. /\ project'[p] = project[p]
        /\ \A s \in Reimbursements : reimbursement'[s].project = p => reimbursement'[s] = reimbursement[s]
    <3>1. CASE Opens(r, q)
      BY <2>3, <3>1 DEF Opens
    <3>2. CASE \E from, to : Settles(r, q, from, to)
      BY <2>3, <3>2 DEF Settles, ClaimMoves
    <3> QED BY <2>2, <3>1, <3>2
  <2> QED BY <1>1, <2>1, <2>4
<1>5. CASE ProjectNext
  <2>1. UNCHANGED reimbursement
    BY <1>5, ClaimsUntouched DEF claimVars
  <2> QED BY <1>0, <1>2, <1>3, <1>5, <2>1, ArchiveSteps
<1>6. CASE DirectoryNext \/ InvoiceNext \/ VoidNext \/ TransferNext \/ UNCHANGED vars
  BY <1>2, <1>6, ProjectUntouched, ClaimsUntouched DEF vars, claimVars
<1> QED BY <1>4, <1>5, <1>6 DEF Next

\* A project is archived with every claim paid or withdrawn and no cent
\* available or reserved, and stays so: no transaction opens a claim on it.
THEOREM ArchivedProjectsAreSettled == Spec => []ArchivedIsSettled
<1>1. Init => ArchivedIsSettled
  BY DEF Init, ArchivedIsSettled, AbsentProject
<1> QED BY <1>1, ArchivedStep, MoneyCorrect, PTL DEF Spec
============================================================================
