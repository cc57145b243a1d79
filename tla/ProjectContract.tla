-------------------------- MODULE ProjectContract --------------------------
(***************************************************************************)
(* The life of a project, from draft to archive, and of its budget:        *)
(* released in full at closure approval, recovered at settlement.          *)
(***************************************************************************)
EXTENDS LedgerState

ProjectFrame ==
    UNCHANGED <<directoryVars, invoiceVars, voidRequest, transfer, claimVars>>

\* parseNonNegative and the test for zero.
ValidBudget(budget) == budget > 0 /\ budget <= MaxMoneyCents

CreateProject(p, budget, applicant, org, caller) ==
    /\ org # None /\ ValidBudget(budget)
    /\ ~ProjectExists(p)
    /\ RequireActiveBusinessUser(applicant, caller, caller, {"PROJECT_MEMBER", "ISSUER"})
    /\ UserExists(applicant)
    /\ user[applicant].org = org
    /\ project' = [project EXCEPT ![p] =
                     [AbsentProject EXCEPT !.status = "DRAFT", !.applicant = applicant,
                        !.msp = caller, !.org = org, !.budget = budget]]
    /\ member' = [member EXCEPT ![p] = @ \cup {applicant}]
    /\ evidence' = ProjectEvent(p, "CREATE_DRAFT", applicant, None)
    /\ ProjectFrame

\* Fault: a project may be edited whatever its status.
EditableAlways(p) == ProjectExists(p)

Editable(p) == project[p].status \in {"DRAFT", "REVISION_REQUIRED"}

UpdateProject(p, budget, applicant, caller) ==
    /\ Editable(p)
    /\ RequireProjectApplicant(p, applicant, caller)
    /\ ValidBudget(budget)
    /\ project' = [project EXCEPT ![p] =
                     [@ EXCEPT !.budget = budget, !.status = "DRAFT", !.reviewer = None]]
    /\ evidence' = ProjectEvent(p, "UPDATE_DRAFT", applicant, None)
    /\ UNCHANGED member
    /\ ProjectFrame

SubmitProject(p, applicant, caller) ==
    /\ Editable(p)
    /\ RequireProjectApplicant(p, applicant, caller)
    /\ project' = [project EXCEPT ![p].status = "PENDING_REVIEW"]
    /\ evidence' = ProjectEvent(p, "SUBMIT_APPLICATION", applicant, None)
    /\ UNCHANGED member
    /\ ProjectFrame

ReviewProject(p, decision, reviewer, caller) ==
    /\ project[p].status = "PENDING_REVIEW"
    /\ RequireProjectManager(p, reviewer, caller, "PROJECT_REVIEWER")
    /\ \/ /\ decision = "APPROVE"
          /\ project' = [project EXCEPT ![p] =
                           [@ EXCEPT !.reviewer = reviewer, !.status = "EXECUTING"]]
          /\ evidence' = ProjectEvent(p, "PROJECT_APPROVE", reviewer, None)
       \/ /\ decision = "REVISION"
          /\ project' = [project EXCEPT ![p] =
                           [@ EXCEPT !.reviewer = reviewer, !.status = "REVISION_REQUIRED"]]
          /\ evidence' = ProjectEvent(p, "PROJECT_REVISION", reviewer, None)
    /\ UNCHANGED member
    /\ ProjectFrame

RequestProjectClosure(p, applicant, caller) ==
    /\ project[p].status = "EXECUTING"
    /\ RequireProjectApplicant(p, applicant, caller)
    /\ project' = [project EXCEPT ![p].status = "CLOSURE_REVIEW"]
    /\ evidence' = ProjectEvent(p, "REQUEST_CLOSURE", applicant, None)
    /\ UNCHANGED member
    /\ ProjectFrame

\* Approval releases the whole budget.
ReviewProjectClosure(p, decision, reviewer, caller) ==
    /\ project[p].status = "CLOSURE_REVIEW"
    /\ RequireProjectManager(p, reviewer, caller, "PROJECT_REVIEWER")
    /\ \/ /\ decision = "APPROVE"
          /\ project' = [project EXCEPT ![p] =
                           [@ EXCEPT !.reviewer = reviewer, !.status = "FINANCIAL_SETTLEMENT",
                                     !.available = project[p].budget]]
          /\ evidence' = ProjectEvent(p, "CLOSURE_APPROVE_AND_RELEASE_FUND", reviewer, None)
       \/ /\ decision = "REVISION"
          /\ project' = [project EXCEPT ![p] =
                           [@ EXCEPT !.reviewer = reviewer, !.status = "EXECUTING"]]
          /\ evidence' = ProjectEvent(p, "CLOSURE_REVISION", reviewer, None)
    /\ UNCHANGED member
    /\ ProjectFrame

\* Fault: only the frozen amount is looked at, not the open reimbursements.
NothingAwaitsActionUnchecked(p) == TRUE

\* The range scan over all reimbursements.
NothingAwaitsAction(p) ==
    \A r \in Reimbursements :
        reimbursement[r].project = p =>
            reimbursement[r].status \notin {"PENDING_REVIEW", "REVISION_REQUIRED"}

Archive(pr) == [pr EXCEPT !.status = "ARCHIVED", !.recovered = @ + pr.available,
                          !.available = 0]

FinalizeProjectSettlement(p, finance, caller) ==
    /\ InSettlement(p)
    /\ RequireProjectManager(p, finance, caller, "FINANCE_ADMIN")
    /\ project[p].reserved = 0
    /\ NothingAwaitsAction(p)
    /\ project' = [project EXCEPT ![p] = Archive(project[p])]
    /\ evidence' = ProjectEvent(p, "FINALIZE_SETTLEMENT", finance, None)
    /\ UNCHANGED member
    /\ ProjectFrame

\* Fault: any registered user can be added, of whatever organization.
FitForMembershipAnywhere(p, u) ==
    /\ user[u].status = "ACTIVE"
    /\ user[u].role \in {"PROJECT_MEMBER", "ISSUER"}

\* Demo accounts have no ledger record and cannot become members.
FitForMembership(p, u) ==
    /\ user[u].status = "ACTIVE"
    /\ user[u].role \in {"PROJECT_MEMBER", "ISSUER"}
    /\ user[u].msp = project[p].msp
    /\ project[p].org = None \/ user[u].org = project[p].org

AddProjectMember(p, u, leader, caller) ==
    /\ ProjectExists(p)
    /\ project[p].status # "ARCHIVED"
    /\ RequireProjectApplicant(p, leader, caller)
    /\ FitForMembership(p, u)
    /\ u \notin member[p]
    /\ member' = [member EXCEPT ![p] = @ \cup {u}]
    /\ evidence' = ProjectEvent(p, "ADD_MEMBER", leader, u)
    /\ UNCHANGED project
    /\ ProjectFrame

ProjectNext ==
    \E p \in Projects, u \in Users, caller \in MSPs :
        \/ \E budget \in Cents, org \in Orgs : CreateProject(p, budget, u, org, caller)
        \/ \E budget \in Cents : UpdateProject(p, budget, u, caller)
        \/ SubmitProject(p, u, caller)
        \/ \E decision \in {"APPROVE", "REVISION"} : ReviewProject(p, decision, u, caller)
        \/ RequestProjectClosure(p, u, caller)
        \/ \E decision \in {"APPROVE", "REVISION"} :
              ReviewProjectClosure(p, decision, u, caller)
        \/ FinalizeProjectSettlement(p, u, caller)
        \/ \E added \in Users : AddProjectMember(p, added, u, caller)
============================================================================
