----------------------- MODULE InvoiceContractProofs -----------------------
(***************************************************************************)
(* Invariants of the chaincode for every value of the constants.           *)
(***************************************************************************)
EXTENDS InvoiceContract, TLAPS

----------------------------------------------------------------------------
(* The operations on one project record: what they return is a project     *)
(* record, and they move money without creating or losing any.             *)

Money(pr) == pr.available + pr.reserved + pr.paid + pr.recovered

\* UpdateProject.
LEMMA BudgetType ==
  ASSUME NEW pr \in Project, NEW budget \in Nat
  PROVE  [pr EXCEPT !.budget = budget, !.status = "DRAFT", !.reviewer = None] \in Project
  BY DEF Project, ProjectStatus

\* ReviewProject, and the refusal of ReviewProjectClosure.
LEMMA ReviewType ==
  ASSUME NEW pr \in Project, NEW u \in Users, NEW status \in ProjectStatus
  PROVE  [pr EXCEPT !.reviewer = u, !.status = status] \in Project
  BY DEF Project

\* The approval of ReviewProjectClosure.
LEMMA FundType ==
  ASSUME NEW pr \in Project, NEW u \in Users
  PROVE  [pr EXCEPT !.reviewer = u, !.status = "FINANCIAL_SETTLEMENT",
                    !.available = pr.budget] \in Project
  BY DEF Project, ProjectStatus

\* FinalizeProjectSettlement.
LEMMA ArchiveLemma ==
  ASSUME NEW pr \in Project
  PROVE  /\ Archive(pr) \in Project
         /\ Money(Archive(pr)) = Money(pr)
         /\ Archive(pr).status = "ARCHIVED" /\ Archive(pr).budget = pr.budget
<1>1. pr.available \in Nat /\ pr.reserved \in Nat /\ pr.paid \in Nat /\ pr.recovered \in Nat
  BY DEF Project
<1>2. pr.recovered + pr.available \in Nat
  BY <1>1
<1>3. Archive(pr) \in Project
  BY <1>2 DEF Archive, Project, ProjectStatus
<1>4. /\ Archive(pr).available = 0 /\ Archive(pr).reserved = pr.reserved
      /\ Archive(pr).paid = pr.paid /\ Archive(pr).recovered = pr.recovered + pr.available
      /\ Archive(pr).status = "ARCHIVED" /\ Archive(pr).budget = pr.budget
  BY DEF Archive, Project
<1> QED BY <1>1, <1>3, <1>4 DEF Money

\* ReviewReimbursement.
LEMMA ReserveLemma ==
  ASSUME NEW pr \in Project, NEW amount \in Nat, Sufficient(pr, amount)
  PROVE  /\ Reserve(pr, amount) \in Project
         /\ Money(Reserve(pr, amount)) = Money(pr)
         /\ Reserve(pr, amount).status = pr.status /\ Reserve(pr, amount).budget = pr.budget
<1>1. pr.available \in Nat /\ pr.reserved \in Nat /\ pr.paid \in Nat /\ pr.recovered \in Nat
  BY DEF Project
<1>2. pr.available - amount \in Nat /\ pr.reserved + amount \in Nat
  BY <1>1 DEF Sufficient
<1>3. Reserve(pr, amount) \in Project
  BY <1>2 DEF Reserve, Project
<1>4. /\ Reserve(pr, amount).available = pr.available - amount /\ Reserve(pr, amount).reserved = pr.reserved + amount
      /\ Reserve(pr, amount).paid = pr.paid /\ Reserve(pr, amount).recovered = pr.recovered
      /\ Reserve(pr, amount).status = pr.status /\ Reserve(pr, amount).budget = pr.budget
  BY DEF Reserve, Project
<1> QED BY <1>1, <1>3, <1>4 DEF Money

\* WithdrawReimbursement.
LEMMA ReleaseLemma ==
  ASSUME NEW pr \in Project, NEW amount \in Nat, pr.reserved >= amount
  PROVE  /\ Release(pr, amount) \in Project
         /\ Money(Release(pr, amount)) = Money(pr)
         /\ Release(pr, amount).status = pr.status /\ Release(pr, amount).budget = pr.budget
<1>1. pr.available \in Nat /\ pr.reserved \in Nat /\ pr.paid \in Nat /\ pr.recovered \in Nat
  BY DEF Project
<1>2. pr.available + amount \in Nat /\ pr.reserved - amount \in Nat
  BY <1>1
<1>3. Release(pr, amount) \in Project
  BY <1>2 DEF Release, Project
<1>4. /\ Release(pr, amount).available = pr.available + amount /\ Release(pr, amount).reserved = pr.reserved - amount
      /\ Release(pr, amount).paid = pr.paid /\ Release(pr, amount).recovered = pr.recovered
      /\ Release(pr, amount).status = pr.status /\ Release(pr, amount).budget = pr.budget
  BY DEF Release, Project
<1> QED BY <1>1, <1>3, <1>4 DEF Money

\* PayReimbursement.
LEMMA PayLemma ==
  ASSUME NEW pr \in Project, NEW amount \in Nat, pr.reserved >= amount
  PROVE  /\ Pay(pr, amount) \in Project
         /\ Money(Pay(pr, amount)) = Money(pr)
         /\ Pay(pr, amount).status = pr.status /\ Pay(pr, amount).budget = pr.budget
<1>1. pr.available \in Nat /\ pr.reserved \in Nat /\ pr.paid \in Nat /\ pr.recovered \in Nat
  BY DEF Project
<1>2. pr.reserved - amount \in Nat /\ pr.paid + amount \in Nat
  BY <1>1
<1>3. Pay(pr, amount) \in Project
  BY <1>2 DEF Pay, Project
<1>4. /\ Pay(pr, amount).available = pr.available /\ Pay(pr, amount).reserved = pr.reserved - amount
      /\ Pay(pr, amount).paid = pr.paid + amount /\ Pay(pr, amount).recovered = pr.recovered
      /\ Pay(pr, amount).status = pr.status /\ Pay(pr, amount).budget = pr.budget
  BY DEF Pay, Project
<1> QED BY <1>1, <1>3, <1>4 DEF Money

----------------------------------------------------------------------------
(* TypeOK is inductive: one lemma per part of Next.                        *)

LEMMA TypeInit == Init => TypeOK
  BY DirectoryAssumption
  DEF Init, TypeOK, Project, Invoice, InvoiceVoidRequest, InvoiceTransfer, Reimbursement,
      ProjectStatus, AbsentProject, AbsentInvoice, AbsentReimbursement

LEMMA TypeDirectory == TypeOK /\ DirectoryNext => TypeOK'
<1> SUFFICES ASSUME TypeOK, DirectoryNext PROVE TypeOK'
  OBVIOUS
<1> USE DEF TypeOK, projectVars, invoiceVars, claimVars
<1>1. ASSUME NEW u \in Users, NEW o \in Orgs, NEW caller \in MSPs, NEW msp \in MSPs,
             RegisterBusinessUser(u, msp, o, caller)
      PROVE  TypeOK'
  BY <1>1 DEF RegisterBusinessUser, BusinessUser, Roles
<1>2. ASSUME NEW o \in Orgs, NEW type \in {"PRIMARY", "PROJECT_TEAM", "EXTERNAL"},
             NEW parent \in Orgs \cup {None}, NEW creator \in Users, NEW caller \in MSPs,
             CreateBusinessOrganization(o, type, parent, creator, caller)
      PROVE  TypeOK'
  BY <1>2 DEF CreateBusinessOrganization, BusinessOrganization
<1> QED BY <1>1, <1>2 DEF DirectoryNext

\* What a step that writes one project record needs for TypeOK.
LEMMA TypeProjectUpdate ==
  ASSUME TypeOK, NEW p \in Projects, NEW pr \in Project,
         project' = [project EXCEPT ![p] = pr], member' \in [Projects -> SUBSET Users],
         ProjectFrame
  PROVE  TypeOK'
  BY DEF TypeOK, ProjectFrame, directoryVars, invoiceVars, claimVars

LEMMA TypeProject == TypeOK /\ ProjectNext => TypeOK'
<1> SUFFICES ASSUME TypeOK, NEW p \in Projects, NEW u \in Users, NEW caller \in MSPs,
                    \/ \E budget \in Cents, org \in Orgs : CreateProject(p, budget, u, org, caller)
                    \/ \E budget \in Cents : UpdateProject(p, budget, u, caller)
                    \/ SubmitProject(p, u, caller)
                    \/ \E decision \in {"APPROVE", "REVISION"} : ReviewProject(p, decision, u, caller)
                    \/ RequestProjectClosure(p, u, caller)
                    \/ \E decision \in {"APPROVE", "REVISION"} :
                          ReviewProjectClosure(p, decision, u, caller)
                    \/ FinalizeProjectSettlement(p, u, caller)
                    \/ \E added \in Users : AddProjectMember(p, added, u, caller)
             PROVE  TypeOK'
  BY DEF ProjectNext
<1>0. project \in [Projects -> Project] /\ project[p] \in Project
      /\ member \in [Projects -> SUBSET Users]
  BY DEF TypeOK
<1>1. ASSUME NEW budget \in Cents, NEW org \in Orgs, CreateProject(p, budget, u, org, caller)
      PROVE  TypeOK'
  <2> DEFINE pr == [AbsentProject EXCEPT !.status = "DRAFT", !.applicant = u,
                                         !.msp = caller, !.org = org, !.budget = budget]
  <2>1. budget \in Nat
    BY MoneyAssumption
  <2>2. pr \in Project
    BY <2>1 DEF AbsentProject, Project, ProjectStatus
  <2>3. project' = [project EXCEPT ![p] = pr] /\ ProjectFrame
    BY <1>1 DEF CreateProject
  <2>4. member' \in [Projects -> SUBSET Users]
    BY <1>0, <1>1 DEF CreateProject
  <2> QED BY <2>2, <2>3, <2>4, TypeProjectUpdate
<1>2. ASSUME NEW budget \in Cents, UpdateProject(p, budget, u, caller)
      PROVE  TypeOK'
  <2> DEFINE pr == [project[p] EXCEPT !.budget = budget, !.status = "DRAFT", !.reviewer = None]
  <2>1. pr \in Project
    BY <1>0, MoneyAssumption, BudgetType
  <2>2. project' = [project EXCEPT ![p] = pr] /\ member' = member /\ ProjectFrame
    BY <1>2 DEF UpdateProject
  <2> QED BY <1>0, <2>1, <2>2, TypeProjectUpdate
<1>3. CASE SubmitProject(p, u, caller)
  <2> DEFINE pr == [project[p] EXCEPT !.status = "PENDING_REVIEW"]
  <2>1. pr \in Project
    BY <1>0 DEF Project, ProjectStatus
  <2>2. project' = [project EXCEPT ![p] = pr] /\ member' = member /\ ProjectFrame
    BY <1>0, <1>3 DEF SubmitProject
  <2> QED BY <1>0, <2>1, <2>2, TypeProjectUpdate
<1>4. ASSUME NEW decision \in {"APPROVE", "REVISION"}, ReviewProject(p, decision, u, caller)
      PROVE  TypeOK'
  <2> DEFINE pr(status) == [project[p] EXCEPT !.reviewer = u, !.status = status]
  <2>1. pr("EXECUTING") \in Project /\ pr("REVISION_REQUIRED") \in Project
    BY <1>0, ReviewType DEF ProjectStatus
  <2>2. /\ \/ project' = [project EXCEPT ![p] = pr("EXECUTING")]
           \/ project' = [project EXCEPT ![p] = pr("REVISION_REQUIRED")]
        /\ member' = member /\ ProjectFrame
    BY <1>4 DEF ReviewProject
  <2> QED BY <1>0, <2>1, <2>2, TypeProjectUpdate
<1>5. CASE RequestProjectClosure(p, u, caller)
  <2> DEFINE pr == [project[p] EXCEPT !.status = "CLOSURE_REVIEW"]
  <2>1. pr \in Project
    BY <1>0 DEF Project, ProjectStatus
  <2>2. project' = [project EXCEPT ![p] = pr] /\ member' = member /\ ProjectFrame
    BY <1>0, <1>5 DEF RequestProjectClosure
  <2> QED BY <1>0, <2>1, <2>2, TypeProjectUpdate
<1>6. ASSUME NEW decision \in {"APPROVE", "REVISION"}, ReviewProjectClosure(p, decision, u, caller)
      PROVE  TypeOK'
  <2> DEFINE fund == [project[p] EXCEPT !.reviewer = u, !.status = "FINANCIAL_SETTLEMENT",
                                        !.available = project[p].budget]
             back == [project[p] EXCEPT !.reviewer = u, !.status = "EXECUTING"]
  <2>1. fund \in Project /\ back \in Project
    BY <1>0, FundType, ReviewType DEF ProjectStatus
  <2>2. /\ \/ project' = [project EXCEPT ![p] = fund]
           \/ project' = [project EXCEPT ![p] = back]
        /\ member' = member /\ ProjectFrame
    BY <1>6 DEF ReviewProjectClosure
  <2> QED BY <1>0, <2>1, <2>2, TypeProjectUpdate
<1>7. CASE FinalizeProjectSettlement(p, u, caller)
  BY <1>0, <1>7, ArchiveLemma, TypeProjectUpdate DEF FinalizeProjectSettlement
<1>8. ASSUME NEW added \in Users, AddProjectMember(p, added, u, caller)
      PROVE  TypeOK'
  BY <1>8 DEF AddProjectMember, TypeOK, ProjectFrame, directoryVars, invoiceVars, claimVars
<1> QED BY <1>1, <1>2, <1>3, <1>4, <1>5, <1>6, <1>7, <1>8

\* What a step that writes one reimbursement needs for TypeOK.
LEMMA TypeClaimUpdate ==
  ASSUME TypeOK, NEW r \in Reimbursements, NEW claim \in Reimbursement,
         reimbursement' = [reimbursement EXCEPT ![r] = claim],
         reimbursementInvoice' \in [Invoices -> Reimbursements \cup {None}],
         project' \in [Projects -> Project],
         ReimbursementFrame
  PROVE  TypeOK'
  BY DEF TypeOK, ReimbursementFrame, directoryVars, invoiceVars

LEMMA TypeReimbursement == TypeOK /\ ReimbursementNext => TypeOK'
<1> SUFFICES ASSUME TypeOK, NEW r \in Reimbursements, NEW u \in Users, NEW caller \in MSPs,
                    \/ \E p \in Projects, i \in Invoices : CreateReimbursement(r, p, i, u, caller)
                    \/ \E decision \in {"APPROVE", "REVISION"} :
                          ReviewReimbursement(r, decision, u, caller)
                    \/ ResubmitReimbursement(r, u, caller)
                    \/ WithdrawReimbursement(r, u, caller)
                    \/ PayReimbursement(r, u, caller)
             PROVE  TypeOK'
  BY DEF ReimbursementNext
<1> DEFINE claim == reimbursement[r]
           p0 == claim.project
<1>0. /\ project \in [Projects -> Project]
      /\ reimbursement \in [Reimbursements -> Reimbursement]
      /\ reimbursementInvoice \in [Invoices -> Reimbursements \cup {None}]
  BY DEF TypeOK
<1>a. claim \in Reimbursement /\ claim.amount \in Nat
  BY <1>0 DEF Reimbursement
\* A write to the claim's project keeps the table well typed.
<1>b. ASSUME NEW pr, p0 \in Projects => pr \in Project
      PROVE  [project EXCEPT ![p0] = pr] \in [Projects -> Project]
  BY <1>0, <1>b
<1>1. ASSUME NEW p \in Projects, NEW i \in Invoices, CreateReimbursement(r, p, i, u, caller)
      PROVE  TypeOK'
  <2> DEFINE new == [status |-> "PENDING_REVIEW", project |-> p, invoice |-> i,
                     applicant |-> u, reviewer |-> None, amount |-> invoice[i].total]
  <2>1. invoice[i].total \in Nat
    BY DEF TypeOK, Invoice
  <2>2. new \in Reimbursement
    BY <2>1 DEF Reimbursement
  <2>3. reimbursement' = [reimbursement EXCEPT ![r] = new]
        /\ project' = project /\ ReimbursementFrame
    BY <1>1 DEF CreateReimbursement
  <2>4. reimbursementInvoice' \in [Invoices -> Reimbursements \cup {None}]
    BY <1>0, <1>1 DEF CreateReimbursement
  <2> QED BY <1>0, <2>2, <2>3, <2>4, TypeClaimUpdate
<1>2. ASSUME NEW decision \in {"APPROVE", "REVISION"}, ReviewReimbursement(r, decision, u, caller)
      PROVE  TypeOK'
  <2> DEFINE approved == [claim EXCEPT !.reviewer = u, !.status = "APPROVED_RESERVED"]
             revised == [claim EXCEPT !.reviewer = u, !.status = "REVISION_REQUIRED"]
             pr == Reserve(project[p0], claim.amount)
  <2>1. approved \in Reimbursement /\ revised \in Reimbursement
    BY <1>a DEF Reimbursement
  <2>2. reimbursementInvoice' = reimbursementInvoice /\ ReimbursementFrame
    BY <1>2 DEF ReviewReimbursement
  <2>3. \/ /\ reimbursement' = [reimbursement EXCEPT ![r] = approved]
           /\ Sufficient(project[p0], claim.amount)
           /\ project' = [project EXCEPT ![p0] = pr]
        \/ /\ reimbursement' = [reimbursement EXCEPT ![r] = revised]
           /\ project' = project
    BY <1>0, <1>2 DEF ReviewReimbursement
  <2>4. project' \in [Projects -> Project]
    BY <1>0, <1>a, <1>b, <2>3, ReserveLemma
  <2> QED BY <1>0, <2>1, <2>2, <2>3, <2>4, TypeClaimUpdate
<1>3. CASE ResubmitReimbursement(r, u, caller)
  <2> DEFINE new == [claim EXCEPT !.status = "PENDING_REVIEW", !.reviewer = None]
  <2>1. new \in Reimbursement
    BY <1>a DEF Reimbursement
  <2>2. /\ reimbursement' = [reimbursement EXCEPT ![r] = new]
        /\ project' = project /\ reimbursementInvoice' = reimbursementInvoice
        /\ ReimbursementFrame
    BY <1>0, <1>3 DEF ResubmitReimbursement
  <2> QED BY <1>0, <2>1, <2>2, TypeClaimUpdate
<1>4. CASE WithdrawReimbursement(r, u, caller)
  <2> DEFINE new == [claim EXCEPT !.status = "WITHDRAWN"]
             pr == Release(project[p0], claim.amount)
  <2>1. new \in Reimbursement
    BY <1>a DEF Reimbursement
  <2>2. /\ reimbursement' = [reimbursement EXCEPT ![r] = new]
        /\ reimbursementInvoice' = [reimbursementInvoice EXCEPT ![claim.invoice] = None]
        /\ ReimbursementFrame
    BY <1>0, <1>4 DEF WithdrawReimbursement
  <2>3. \/ project' = project
        \/ project[p0].reserved >= claim.amount /\ project' = [project EXCEPT ![p0] = pr]
    BY <1>4 DEF WithdrawReimbursement, BalanceAllowsRelease
  <2>4. project' \in [Projects -> Project]
    BY <1>0, <1>a, <1>b, <2>3, ReleaseLemma
  <2>5. reimbursementInvoice' \in [Invoices -> Reimbursements \cup {None}]
    BY <1>0, <2>2
  <2> QED BY <2>1, <2>2, <2>4, <2>5, TypeClaimUpdate
<1>5. CASE PayReimbursement(r, u, caller)
  <2> DEFINE new == [claim EXCEPT !.status = "PAID"]
             pr == Pay(project[p0], claim.amount)
  <2>1. new \in Reimbursement
    BY <1>a DEF Reimbursement
  <2>2. /\ reimbursement' = [reimbursement EXCEPT ![r] = new]
        /\ reimbursementInvoice' = reimbursementInvoice
        /\ ReimbursementFrame
    BY <1>0, <1>5 DEF PayReimbursement
  <2>3. project[p0].reserved >= claim.amount /\ project' = [project EXCEPT ![p0] = pr]
    BY <1>5 DEF PayReimbursement
  <2>4. project' \in [Projects -> Project]
    BY <1>0, <1>a, <1>b, <2>3, PayLemma
  <2> QED BY <1>0, <2>1, <2>2, <2>4, TypeClaimUpdate
<1> QED BY <1>1, <1>2, <1>3, <1>4, <1>5

\* What a step on the invoice records needs for TypeOK.
LEMMA TypeInvoiceUpdate ==
  ASSUME TypeOK,
         invoice' \in [Invoices -> Invoice],
         numberIndex' \in [Numbers -> Invoices \cup {None}],
         voidRequest' \in [Invoices -> InvoiceVoidRequest],
         transfer' \in [Invoices -> InvoiceTransfer],
         UNCHANGED <<directoryVars, projectVars, claimVars>>
  PROVE  TypeOK'
  BY DEF TypeOK, directoryVars, projectVars, claimVars

LEMMA TypeInvoice == TypeOK /\ InvoiceNext => TypeOK'
<1> SUFFICES ASSUME TypeOK, NEW i \in Invoices, NEW u \in Users, NEW caller \in MSPs,
                    \/ \E no \in Numbers, total \in Cents, currency \in Currencies,
                          org \in Orgs \cup {None}, p \in Projects \cup {None},
                          original \in Invoices \cup {None} :
                          CreateInvoice(i, no, total, currency, u, org, p, original, caller)
                    \/ \E p \in Projects : LinkInvoiceToProject(i, p, u, caller)
                    \/ UnlinkInvoiceFromProject(i, u, caller)
             PROVE  TypeOK'
  BY DEF InvoiceNext
<1>0. /\ user \in [Users -> BusinessUser]
      /\ invoice \in [Invoices -> Invoice] /\ invoice[i] \in Invoice
      /\ numberIndex \in [Numbers -> Invoices \cup {None}]
      /\ voidRequest \in [Invoices -> InvoiceVoidRequest]
      /\ transfer \in [Invoices -> InvoiceTransfer]
  BY DEF TypeOK
<1>1. ASSUME NEW no \in Numbers, NEW total \in Cents, NEW currency \in Currencies,
             NEW org \in Orgs \cup {None},
             NEW p \in Projects \cup {None}, NEW original \in Invoices \cup {None},
             CreateInvoice(i, no, total, currency, u, org, p, original, caller)
      PROVE  TypeOK'
  <2> DEFINE issuerOrg == IF org = None THEN BusinessUserOrganization(u) ELSE org
             new == [status |-> "ISSUED", number |-> no, total |-> total, currency |-> "CNY",
                     issuerMsp |-> caller, issuerOrg |-> issuerOrg,
                     holder |-> u, holderMsp |-> caller, holderOrg |-> issuerOrg,
                     project |-> p, correctionOf |-> original]
  <2>1. issuerOrg \in Orgs \cup {None}
    BY <1>0 DEF BusinessUserOrganization, BusinessUser
  <2>2. total \in Nat
    BY MoneyAssumption
  <2>3. new \in Invoice
    <3> HIDE DEF issuerOrg
    <3> QED BY <2>1, <2>2 DEF Invoice
  <2>4. /\ invoice' = [invoice EXCEPT ![i] = new]
        /\ numberIndex' = [numberIndex EXCEPT ![no] = i]
        /\ UNCHANGED <<directoryVars, projectVars, voidRequest, transfer, claimVars>>
    BY <1>1 DEF CreateInvoice
  <2>5. invoice' \in [Invoices -> Invoice] /\ numberIndex' \in [Numbers -> Invoices \cup {None}]
    <3> HIDE DEF new
    <3> QED BY <1>0, <2>3, <2>4
  <2> QED BY <1>0, <2>4, <2>5, TypeInvoiceUpdate
<1>2. ASSUME NEW p \in Projects \cup {None}, invoice' = [invoice EXCEPT ![i].project = p],
             UNCHANGED <<directoryVars, projectVars, numberIndex, voidRequest, transfer, claimVars>>
      PROVE  TypeOK'
  <2> DEFINE new == [invoice[i] EXCEPT !.project = p]
  <2>1. new \in Invoice
    BY <1>0 DEF Invoice
  <2>2. invoice' \in [Invoices -> Invoice]
    <3>1. invoice' = [invoice EXCEPT ![i] = new]
      BY <1>0, <1>2
    <3> QED BY <1>0, <2>1, <3>1
  <2> QED BY <1>0, <1>2, <2>2, TypeInvoiceUpdate
<1>3. ASSUME NEW p \in Projects, LinkInvoiceToProject(i, p, u, caller)
      PROVE  TypeOK'
  BY <1>2, <1>3 DEF LinkInvoiceToProject
<1>4. CASE UnlinkInvoiceFromProject(i, u, caller)
  BY <1>2, <1>4 DEF UnlinkInvoiceFromProject
<1> QED BY <1>1, <1>3, <1>4

LEMMA TypeVoid == TypeOK /\ VoidNext => TypeOK'
<1> SUFFICES ASSUME TypeOK, NEW i \in Invoices, NEW u \in Users, NEW caller \in MSPs,
                    \/ VoidInvoice(i, u, caller)
                    \/ RequestInvoiceVoid(i, u, caller)
                    \/ \E decision \in {"APPROVE", "REJECT"} :
                          ReviewInvoiceVoid(i, decision, u, caller)
             PROVE  TypeOK'
  BY DEF VoidNext
<1> DEFINE voided == [invoice[i] EXCEPT !.status = "VOIDED"]
           reviewed(status) == [voidRequest[i] EXCEPT !.status = status]
<1>0. /\ invoice \in [Invoices -> Invoice] /\ invoice[i] \in Invoice
      /\ numberIndex \in [Numbers -> Invoices \cup {None}]
      /\ voidRequest \in [Invoices -> InvoiceVoidRequest]
      /\ voidRequest[i] \in InvoiceVoidRequest
      /\ transfer \in [Invoices -> InvoiceTransfer]
  BY DEF TypeOK
<1>a. voided \in Invoice /\ [invoice EXCEPT ![i].status = "VOIDED"] = [invoice EXCEPT ![i] = voided]
  BY <1>0 DEF Invoice
<1>b. [invoice EXCEPT ![i].status = "VOIDED"] \in [Invoices -> Invoice]
  BY <1>0, <1>a
<1>c. \A status \in {"APPROVED", "REJECTED"} :
         [voidRequest EXCEPT ![i].status = status] \in [Invoices -> InvoiceVoidRequest]
  BY <1>0 DEF InvoiceVoidRequest
<1>1. CASE VoidInvoice(i, u, caller)
  BY <1>0, <1>b, <1>1, TypeInvoiceUpdate DEF VoidInvoice
<1>2. CASE RequestInvoiceVoid(i, u, caller)
  <2>1. voidRequest' \in [Invoices -> InvoiceVoidRequest]
    BY <1>0, <1>2 DEF RequestInvoiceVoid, InvoiceVoidRequest
  <2> QED BY <1>0, <1>2, <2>1, TypeInvoiceUpdate DEF RequestInvoiceVoid, invoiceVars
<1>3. ASSUME NEW decision \in {"APPROVE", "REJECT"}, ReviewInvoiceVoid(i, decision, u, caller)
      PROVE  TypeOK'
  <2>1. invoice' \in [Invoices -> Invoice] /\ voidRequest' \in [Invoices -> InvoiceVoidRequest]
    BY <1>0, <1>b, <1>c, <1>3 DEF ReviewInvoiceVoid
  <2> QED BY <1>0, <1>3, <2>1, TypeInvoiceUpdate DEF ReviewInvoiceVoid
<1> QED BY <1>1, <1>2, <1>3

LEMMA TypeTransfer == TypeOK /\ TransferNext => TypeOK'
<1> SUFFICES ASSUME TypeOK, NEW i \in Invoices, NEW u \in Users,
                    \/ \E to \in Users, toMsp, caller \in MSPs :
                          TransferInvoice(i, to, toMsp, u, caller)
                    \/ \E to \in Users, toMsp, caller \in MSPs :
                          RequestInvoiceTransfer(i, to, toMsp, u, caller)
                    \/ \E decision \in {"ACCEPT", "REJECT"}, caller \in MSPs :
                          RespondInvoiceTransfer(i, decision, u, caller)
                    \/ CancelInvoiceTransfer(i, u)
             PROVE  TypeOK'
  BY DEF TransferNext
<1>0. /\ user \in [Users -> BusinessUser]
      /\ invoice \in [Invoices -> Invoice] /\ invoice[i] \in Invoice
      /\ numberIndex \in [Numbers -> Invoices \cup {None}]
      /\ voidRequest \in [Invoices -> InvoiceVoidRequest]
      /\ transfer \in [Invoices -> InvoiceTransfer] /\ transfer[i] \in InvoiceTransfer
  BY DEF TypeOK
<1>a. ASSUME NEW to \in Users, NEW msp \in MSPs \cup {None}
      PROVE  [invoice EXCEPT ![i] = HandedTo(invoice[i], to, msp)] \in [Invoices -> Invoice]
  <2>1. BusinessUserOrganization(to) \in Orgs \cup {None}
    BY <1>0 DEF BusinessUserOrganization, BusinessUser
  <2>2. HandedTo(invoice[i], to, msp) \in Invoice
    BY <1>0, <2>1 DEF HandedTo, Invoice
  <2> QED BY <1>0, <2>2
<1>b. ASSUME NEW status \in {"ACCEPTED", "REJECTED", "CANCELLED"}
      PROVE  [transfer EXCEPT ![i].status = status] \in [Invoices -> InvoiceTransfer]
  BY <1>0 DEF InvoiceTransfer
<1>1. ASSUME NEW to \in Users, NEW toMsp \in MSPs, NEW caller \in MSPs,
             TransferInvoice(i, to, toMsp, u, caller)
      PROVE  TypeOK'
  BY <1>0, <1>a, <1>1, TypeInvoiceUpdate DEF TransferInvoice, TransferFrame
<1>2. ASSUME NEW to \in Users, NEW toMsp \in MSPs, NEW caller \in MSPs,
             RequestInvoiceTransfer(i, to, toMsp, u, caller)
      PROVE  TypeOK'
  <2>1. transfer' \in [Invoices -> InvoiceTransfer]
    BY <1>0, <1>2 DEF RequestInvoiceTransfer, InvoiceTransfer
  <2> QED BY <1>0, <1>2, <2>1, TypeInvoiceUpdate DEF RequestInvoiceTransfer, TransferFrame
<1>3. ASSUME NEW decision \in {"ACCEPT", "REJECT"}, NEW caller \in MSPs,
             RespondInvoiceTransfer(i, decision, u, caller)
      PROVE  TypeOK'
  <2>1. transfer[i].toMsp \in MSPs \cup {None}
    BY <1>0 DEF InvoiceTransfer
  <2>2. invoice' \in [Invoices -> Invoice] /\ transfer' \in [Invoices -> InvoiceTransfer]
    BY <1>0, <1>a, <1>b, <1>3, <2>1 DEF RespondInvoiceTransfer
  <2> QED BY <1>0, <1>3, <2>2, TypeInvoiceUpdate DEF RespondInvoiceTransfer, TransferFrame
<1>4. CASE CancelInvoiceTransfer(i, u)
  BY <1>0, <1>b, <1>4, TypeInvoiceUpdate DEF CancelInvoiceTransfer, TransferFrame
<1> QED BY <1>1, <1>2, <1>3, <1>4

LEMMA TypeStep == TypeOK /\ [Next]_vars => TypeOK'
<1>1. ASSUME TypeOK, UNCHANGED vars PROVE TypeOK'
  BY <1>1 DEF TypeOK, vars
<1> QED BY <1>1, TypeDirectory, TypeProject, TypeInvoice, TypeVoid, TypeTransfer, TypeReimbursement
        DEF Next

\* Every key family holds records of its type, whatever transactions commit.
THEOREM TypeCorrect == Spec => []TypeOK
<1> QED BY TypeInit, TypeStep, PTL DEF Spec

----------------------------------------------------------------------------
(* BudgetConserved is inductive relative to TypeOK: before the release the *)
(* four balances are natural numbers that add up to zero, so approval of   *)
(* the closure starts from nothing; afterwards every operation moves money *)
(* between them.                                                           *)

Conserved(pr) ==
  Money(pr) = IF pr.status \in {"FINANCIAL_SETTLEMENT", "CLOSURE_APPROVED", "ARCHIVED"}
              THEN pr.budget ELSE 0

LEMMA BudgetConservedDef == BudgetConserved <=> \A p \in Projects : Conserved(project[p])
  BY DEF BudgetConserved, Conserved, Money, Released

LEMMA ConservedUpdate ==
  ASSUME TypeOK, BudgetConserved, NEW p, NEW pr,
         p \in Projects => Conserved(pr),
         project' = [project EXCEPT ![p] = pr]
  PROVE  BudgetConserved'
<1>1. project \in [Projects -> Project]
  BY DEF TypeOK
<1>2. \A q \in Projects : Conserved(project[q])
  BY BudgetConservedDef
<1>3. ASSUME NEW q \in Projects PROVE Conserved(project'[q])
  BY <1>1, <1>2
<1>4. (\A q \in Projects : Conserved(project'[q])) => BudgetConserved'
  BY DEF BudgetConserved, Conserved, Money, Released
<1> QED BY <1>3, <1>4

LEMMA ConservedProject == TypeOK /\ BudgetConserved /\ ProjectNext => BudgetConserved'
<1> SUFFICES ASSUME TypeOK, BudgetConserved,
                    NEW p \in Projects, NEW u \in Users, NEW caller \in MSPs,
                    \/ \E budget \in Cents, org \in Orgs : CreateProject(p, budget, u, org, caller)
                    \/ \E budget \in Cents : UpdateProject(p, budget, u, caller)
                    \/ SubmitProject(p, u, caller)
                    \/ \E decision \in {"APPROVE", "REVISION"} : ReviewProject(p, decision, u, caller)
                    \/ RequestProjectClosure(p, u, caller)
                    \/ \E decision \in {"APPROVE", "REVISION"} :
                          ReviewProjectClosure(p, decision, u, caller)
                    \/ FinalizeProjectSettlement(p, u, caller)
                    \/ \E added \in Users : AddProjectMember(p, added, u, caller)
             PROVE  BudgetConserved'
  BY DEF ProjectNext
<1>0. project \in [Projects -> Project] /\ project[p] \in Project
  BY DEF TypeOK
<1>a. Conserved(project[p])
  BY BudgetConservedDef
<1>b. /\ project[p].available \in Nat /\ project[p].reserved \in Nat /\ project[p].paid \in Nat
      /\ project[p].recovered \in Nat /\ project[p].budget \in Nat
  BY <1>0 DEF Project
<1>1. ASSUME NEW budget \in Cents, NEW org \in Orgs, CreateProject(p, budget, u, org, caller)
      PROVE  BudgetConserved'
  <2> DEFINE pr == [AbsentProject EXCEPT !.status = "DRAFT", !.applicant = u,
                                         !.msp = caller, !.org = org, !.budget = budget]
  <2>1. Conserved(pr)
    BY DEF Conserved, Money, AbsentProject
  <2>2. project' = [project EXCEPT ![p] = pr]
    BY <1>1 DEF CreateProject
  <2> QED BY <2>1, <2>2, ConservedUpdate
<1>2. ASSUME NEW budget \in Cents, UpdateProject(p, budget, u, caller)
      PROVE  BudgetConserved'
  <2> DEFINE pr == [project[p] EXCEPT !.budget = budget, !.status = "DRAFT", !.reviewer = None]
  <2>1. Money(project[p]) = 0
    BY <1>2, <1>a DEF UpdateProject, Editable, Conserved
  <2>2. pr.status = "DRAFT" /\ Money(pr) = Money(project[p])
    BY <1>0 DEF Money, Project
  <2>3. Conserved(pr)
    BY <2>1, <2>2 DEF Conserved
  <2>4. project' = [project EXCEPT ![p] = pr]
    BY <1>2 DEF UpdateProject
  <2> QED BY <2>3, <2>4, ConservedUpdate
\* A step from an unreleased status to another touches no balance.
<1>c. ASSUME project[p].status \in {"DRAFT", "REVISION_REQUIRED", "PENDING_REVIEW",
                                    "EXECUTING", "CLOSURE_REVIEW"},
             NEW pr \in Project,
             pr.status \in {"PENDING_REVIEW", "REVISION_REQUIRED", "EXECUTING", "CLOSURE_REVIEW"},
             Money(pr) = Money(project[p]),
             project' = [project EXCEPT ![p] = pr]
      PROVE  BudgetConserved'
  <2>1. Conserved(pr)
    BY <1>a, <1>c DEF Conserved
  <2> QED BY <2>1, <1>c, ConservedUpdate
<1>3. CASE SubmitProject(p, u, caller)
  <2> DEFINE pr == [project[p] EXCEPT !.status = "PENDING_REVIEW"]
  <2>1. pr \in Project /\ pr.status = "PENDING_REVIEW" /\ Money(pr) = Money(project[p])
    BY <1>0 DEF Money, Project, ProjectStatus
  <2>2. project' = [project EXCEPT ![p] = pr]
    BY <1>0, <1>3 DEF SubmitProject
  <2> QED BY <1>3, <2>1, <2>2, <1>c DEF SubmitProject, Editable
<1>4. ASSUME NEW decision \in {"APPROVE", "REVISION"}, ReviewProject(p, decision, u, caller)
      PROVE  BudgetConserved'
  <2> DEFINE pr(status) == [project[p] EXCEPT !.reviewer = u, !.status = status]
  <2>1. ASSUME NEW status \in {"EXECUTING", "REVISION_REQUIRED"}
        PROVE  pr(status) \in Project /\ pr(status).status = status
               /\ Money(pr(status)) = Money(project[p])
    BY <1>0 DEF Money, Project, ProjectStatus
  <2>2. \/ project' = [project EXCEPT ![p] = pr("EXECUTING")]
        \/ project' = [project EXCEPT ![p] = pr("REVISION_REQUIRED")]
    BY <1>4 DEF ReviewProject
  <2>3. project[p].status = "PENDING_REVIEW"
    BY <1>4 DEF ReviewProject
  <2> QED BY <2>1, <2>2, <2>3, <1>c
<1>5. CASE RequestProjectClosure(p, u, caller)
  <2> DEFINE pr == [project[p] EXCEPT !.status = "CLOSURE_REVIEW"]
  <2>1. pr \in Project /\ pr.status = "CLOSURE_REVIEW" /\ Money(pr) = Money(project[p])
    BY <1>0 DEF Money, Project, ProjectStatus
  <2>2. project' = [project EXCEPT ![p] = pr]
    BY <1>0, <1>5 DEF RequestProjectClosure
  <2> QED BY <1>5, <2>1, <2>2, <1>c DEF RequestProjectClosure
<1>6. ASSUME NEW decision \in {"APPROVE", "REVISION"}, ReviewProjectClosure(p, decision, u, caller)
      PROVE  BudgetConserved'
  <2> DEFINE fund == [project[p] EXCEPT !.reviewer = u, !.status = "FINANCIAL_SETTLEMENT",
                                        !.available = project[p].budget]
             back == [project[p] EXCEPT !.reviewer = u, !.status = "EXECUTING"]
  <2>1. project[p].status = "CLOSURE_REVIEW"
    BY <1>6 DEF ReviewProjectClosure
  <2>2. project[p].reserved = 0 /\ project[p].paid = 0 /\ project[p].recovered = 0
    <3>1. Money(project[p]) = 0
      BY <1>a, <2>1 DEF Conserved
    <3>2. ASSUME NEW a \in Nat, NEW b \in Nat, NEW c \in Nat, NEW d \in Nat, a + b + c + d = 0
          PROVE  b = 0 /\ c = 0 /\ d = 0
      BY <3>2
    <3> QED BY <1>b, <3>1, <3>2 DEF Money
  <2>3. /\ fund.status = "FINANCIAL_SETTLEMENT" /\ fund.available = project[p].budget
        /\ fund.reserved = project[p].reserved /\ fund.paid = project[p].paid
        /\ fund.recovered = project[p].recovered /\ fund.budget = project[p].budget
    BY <1>0 DEF Project
  <2>4. Conserved(fund)
    <3> HIDE DEF fund
    <3> QED BY <1>b, <2>2, <2>3 DEF Conserved, Money
  <2>5. back \in Project /\ back.status = "EXECUTING" /\ Money(back) = Money(project[p])
    BY <1>0 DEF Money, Project, ProjectStatus
  <2>6. \/ project' = [project EXCEPT ![p] = fund]
        \/ project' = [project EXCEPT ![p] = back]
    BY <1>6 DEF ReviewProjectClosure
  <2>7. CASE project' = [project EXCEPT ![p] = fund]
    <3> HIDE DEF fund
    <3> QED BY <2>4, <2>7, ConservedUpdate
  <2>8. CASE project' = [project EXCEPT ![p] = back]
    BY <2>1, <2>5, <2>8, <1>c
  <2> QED BY <2>6, <2>7, <2>8
<1>7. CASE FinalizeProjectSettlement(p, u, caller)
  <2>1. Conserved(Archive(project[p]))
    BY <1>0, <1>7, <1>a, ArchiveLemma DEF FinalizeProjectSettlement, InSettlement, Conserved
  <2>2. project' = [project EXCEPT ![p] = Archive(project[p])]
    BY <1>7 DEF FinalizeProjectSettlement
  <2> QED BY <2>1, <2>2, ConservedUpdate
<1>8. ASSUME NEW added \in Users, AddProjectMember(p, added, u, caller)
      PROVE  BudgetConserved'
  BY <1>8 DEF AddProjectMember, BudgetConserved, Released
<1> QED BY <1>1, <1>2, <1>3, <1>4, <1>5, <1>6, <1>7, <1>8

LEMMA ConservedReimbursement == TypeOK /\ BudgetConserved /\ ReimbursementNext => BudgetConserved'
<1> SUFFICES ASSUME TypeOK, BudgetConserved,
                    NEW r \in Reimbursements, NEW u \in Users, NEW caller \in MSPs,
                    \/ \E p \in Projects, i \in Invoices : CreateReimbursement(r, p, i, u, caller)
                    \/ \E decision \in {"APPROVE", "REVISION"} :
                          ReviewReimbursement(r, decision, u, caller)
                    \/ ResubmitReimbursement(r, u, caller)
                    \/ WithdrawReimbursement(r, u, caller)
                    \/ PayReimbursement(r, u, caller)
             PROVE  BudgetConserved'
  BY DEF ReimbursementNext
<1> DEFINE claim == reimbursement[r]
           p0 == claim.project
<1>0. claim.amount \in Nat /\ (p0 \in Projects => project[p0] \in Project)
  BY DEF TypeOK, Reimbursement
<1>a. p0 \in Projects => Conserved(project[p0])
  BY BudgetConservedDef
<1>b. ASSUME UNCHANGED project PROVE BudgetConserved'
  BY <1>b DEF BudgetConserved, Released
<1>1. ASSUME NEW p \in Projects, NEW i \in Invoices, CreateReimbursement(r, p, i, u, caller)
      PROVE  BudgetConserved'
  BY <1>1, <1>b DEF CreateReimbursement
<1>2. ASSUME NEW decision \in {"APPROVE", "REVISION"}, ReviewReimbursement(r, decision, u, caller)
      PROVE  BudgetConserved'
  <2> DEFINE pr == Reserve(project[p0], claim.amount)
  <2>1. \/ project' = project
        \/ Sufficient(project[p0], claim.amount) /\ project' = [project EXCEPT ![p0] = pr]
    BY <1>2 DEF ReviewReimbursement
  <2>2. Sufficient(project[p0], claim.amount) /\ p0 \in Projects => Conserved(pr)
    BY <1>0, <1>a, ReserveLemma DEF Conserved
  <2> QED BY <1>b, <2>1, <2>2, ConservedUpdate
<1>3. CASE ResubmitReimbursement(r, u, caller)
  BY <1>3, <1>b DEF ResubmitReimbursement
<1>4. CASE WithdrawReimbursement(r, u, caller)
  <2> DEFINE pr == Release(project[p0], claim.amount)
  <2>1. \/ project' = project
        \/ project[p0].reserved >= claim.amount /\ project' = [project EXCEPT ![p0] = pr]
    BY <1>4 DEF WithdrawReimbursement, BalanceAllowsRelease
  <2>2. project[p0].reserved >= claim.amount /\ p0 \in Projects => Conserved(pr)
    BY <1>0, <1>a, ReleaseLemma DEF Conserved
  <2> QED BY <1>b, <2>1, <2>2, ConservedUpdate
<1>5. CASE PayReimbursement(r, u, caller)
  <2> DEFINE pr == Pay(project[p0], claim.amount)
  <2>1. project[p0].reserved >= claim.amount /\ project' = [project EXCEPT ![p0] = pr]
    BY <1>5 DEF PayReimbursement
  <2>2. p0 \in Projects => Conserved(pr)
    BY <1>0, <1>a, <2>1, PayLemma DEF Conserved
  <2> QED BY <2>1, <2>2, ConservedUpdate
<1> QED BY <1>1, <1>2, <1>3, <1>4, <1>5

\* The operations on the directory and on invoices leave the projects alone.
LEMMA ProjectUntouched ==
  DirectoryNext \/ InvoiceNext \/ VoidNext \/ TransferNext => UNCHANGED project
<1>1. DirectoryNext => UNCHANGED project
  BY DEF DirectoryNext, RegisterBusinessUser, CreateBusinessOrganization, projectVars
<1>2. InvoiceNext => UNCHANGED project
  BY DEF InvoiceNext, CreateInvoice, LinkInvoiceToProject, UnlinkInvoiceFromProject, projectVars
<1>3. VoidNext => UNCHANGED project
  BY DEF VoidNext, VoidInvoice, RequestInvoiceVoid, ReviewInvoiceVoid, projectVars
<1>4. TransferNext => UNCHANGED project
  BY DEF TransferNext, TransferInvoice, RequestInvoiceTransfer, RespondInvoiceTransfer,
         CancelInvoiceTransfer, TransferFrame, projectVars
<1> QED BY <1>1, <1>2, <1>3, <1>4

LEMMA ConservedStep == TypeOK /\ BudgetConserved /\ [Next]_vars => BudgetConserved'
<1>1. ASSUME BudgetConserved, UNCHANGED project PROVE BudgetConserved'
  BY <1>1 DEF BudgetConserved, Released
<1>2. UNCHANGED vars => UNCHANGED project
  BY DEF vars
<1> QED BY <1>1, <1>2, ProjectUntouched, ConservedProject, ConservedReimbursement DEF Next

\* From its release on, the budget of a project is the sum of its available,
\* reserved, paid and recovered cents, whatever reviews, payments,
\* withdrawals and settlements commit.
THEOREM BudgetIsConserved == Spec => []BudgetConserved
<1>1. Init => BudgetConserved
  BY DEF Init, BudgetConserved, Released, AbsentProject
<1> QED BY <1>1, ConservedStep, TypeCorrect, PTL DEF Spec

----------------------------------------------------------------------------
(* One claim per invoice.  OneClaimPerInvoice says what the link key holds *)
(* for a live claim; that the claim names an invoice at all comes with it. *)

ClaimsNameInvoices ==
  \A r \in Reimbursements :
      ReimbursementExists(r) =>
          /\ reimbursement[r].invoice \in Invoices
          /\ reimbursement[r].project \in Projects

ClaimInv == TypeOK /\ ClaimsNameInvoices /\ OneClaimPerInvoice

\* What every operation on projects leaves alone.
LEMMA ProjectFrames == ProjectNext => ProjectFrame
<1>1. ASSUME NEW p \in Projects, NEW u \in Users, NEW caller \in MSPs
      PROVE  /\ \A budget \in Cents, org \in Orgs :
                   CreateProject(p, budget, u, org, caller) => ProjectFrame
             /\ \A budget \in Cents : UpdateProject(p, budget, u, caller) => ProjectFrame
             /\ SubmitProject(p, u, caller) => ProjectFrame
             /\ \A decision \in {"APPROVE", "REVISION"} :
                   ReviewProject(p, decision, u, caller) => ProjectFrame
             /\ RequestProjectClosure(p, u, caller) => ProjectFrame
             /\ \A decision \in {"APPROVE", "REVISION"} :
                   ReviewProjectClosure(p, decision, u, caller) => ProjectFrame
             /\ FinalizeProjectSettlement(p, u, caller) => ProjectFrame
             /\ \A added \in Users : AddProjectMember(p, added, u, caller) => ProjectFrame
  BY DEF CreateProject, UpdateProject, SubmitProject, ReviewProject, RequestProjectClosure,
         ReviewProjectClosure, FinalizeProjectSettlement, AddProjectMember
<1> QED BY <1>1 DEF ProjectNext

\* The operations other than those on reimbursements leave claims and links
\* alone.
LEMMA ClaimsUntouched ==
  DirectoryNext \/ ProjectNext \/ InvoiceNext \/ VoidNext \/ TransferNext => UNCHANGED claimVars
<1>1. DirectoryNext => UNCHANGED claimVars
  BY DEF DirectoryNext, RegisterBusinessUser, CreateBusinessOrganization
<1>2. ProjectNext => UNCHANGED claimVars
  BY ProjectFrames DEF ProjectFrame
<1>3. InvoiceNext => UNCHANGED claimVars
  BY DEF InvoiceNext, CreateInvoice, LinkInvoiceToProject, UnlinkInvoiceFromProject
<1>4. VoidNext => UNCHANGED claimVars
  BY DEF VoidNext, VoidInvoice, RequestInvoiceVoid, ReviewInvoiceVoid
<1>5. TransferNext => UNCHANGED claimVars
  BY DEF TransferNext, TransferInvoice, RequestInvoiceTransfer, RespondInvoiceTransfer,
         CancelInvoiceTransfer, TransferFrame
<1> QED BY <1>1, <1>2, <1>3, <1>4, <1>5

LEMMA ClaimInvKept ==
  ASSUME ClaimInv, TypeOK', UNCHANGED claimVars PROVE ClaimInv'
  BY DEF ClaimInv, ClaimsNameInvoices, OneClaimPerInvoice, ReimbursementExists, Live, claimVars

\* A live claim that changes its status or reviewer and stays live.
LEMMA ClaimInvMoved ==
  ASSUME ClaimInv, TypeOK', NEW r \in Reimbursements, NEW claim, Live(r),
         claim.status \in {"PENDING_REVIEW", "REVISION_REQUIRED", "APPROVED_RESERVED", "PAID"},
         claim.invoice = reimbursement[r].invoice, claim.project = reimbursement[r].project,
         reimbursement' = [reimbursement EXCEPT ![r] = claim],
         UNCHANGED reimbursementInvoice
  PROVE  ClaimInv'
<1>0. reimbursement \in [Reimbursements -> Reimbursement]
      /\ reimbursementInvoice \in [Invoices -> Reimbursements \cup {None}]
  BY DEF ClaimInv, TypeOK
<1>1. ASSUME NEW s \in Reimbursements
      PROVE  /\ reimbursement'[s].invoice = reimbursement[s].invoice
             /\ reimbursement'[s].project = reimbursement[s].project
             /\ Live(s)' <=> Live(s)
             /\ ReimbursementExists(s)' <=> ReimbursementExists(s)
  BY <1>0 DEF Live, ReimbursementExists
<1>2. ClaimsNameInvoices'
  BY <1>1 DEF ClaimInv, ClaimsNameInvoices
<1>3. OneClaimPerInvoice'
  BY <1>0, <1>1 DEF ClaimInv, OneClaimPerInvoice
<1> QED BY <1>2, <1>3 DEF ClaimInv

LEMMA ClaimInvReimbursement == ClaimInv /\ TypeOK' /\ ReimbursementNext => ClaimInv'
<1> SUFFICES ASSUME ClaimInv, TypeOK', NEW r \in Reimbursements, NEW u \in Users,
                    NEW caller \in MSPs,
                    \/ \E p \in Projects, i \in Invoices : CreateReimbursement(r, p, i, u, caller)
                    \/ \E decision \in {"APPROVE", "REVISION"} :
                          ReviewReimbursement(r, decision, u, caller)
                    \/ ResubmitReimbursement(r, u, caller)
                    \/ WithdrawReimbursement(r, u, caller)
                    \/ PayReimbursement(r, u, caller)
             PROVE  ClaimInv'
  BY DEF ReimbursementNext
<1> DEFINE claim == reimbursement[r]
<1>0. /\ reimbursement \in [Reimbursements -> Reimbursement] /\ claim \in Reimbursement
      /\ reimbursementInvoice \in [Invoices -> Reimbursements \cup {None}]
  BY DEF ClaimInv, TypeOK
<1>a. None \notin Reimbursements
  BY NoneAssumption
<1>b. \A s \in Reimbursements : Live(s) => ReimbursementExists(s)
  BY DEF Live, ReimbursementExists
<1>1. ASSUME NEW p \in Projects, NEW i \in Invoices, CreateReimbursement(r, p, i, u, caller)
      PROVE  ClaimInv'
  <2>1. /\ ~ReimbursementExists(r) /\ reimbursementInvoice[i] = None
        /\ reimbursementInvoice' = [reimbursementInvoice EXCEPT ![i] = r]
    BY <1>1 DEF CreateReimbursement, Unclaimed
  <2>2. /\ reimbursement'[r].status = "PENDING_REVIEW"
        /\ reimbursement'[r].invoice = i /\ reimbursement'[r].project = p
        /\ \A s \in Reimbursements \ {r} : reimbursement'[s] = reimbursement[s]
    BY <1>0, <1>1 DEF CreateReimbursement
  <2>3. ClaimsNameInvoices'
    BY <2>2 DEF ClaimInv, ClaimsNameInvoices, ReimbursementExists
  <2>4. ASSUME NEW s \in Reimbursements, Live(s)'
        PROVE  reimbursementInvoice'[reimbursement'[s].invoice] = s
    <3>1. CASE s = r
      BY <1>0, <2>1, <2>2, <3>1
    <3>2. CASE s # r
      <4>1. Live(s) /\ reimbursement'[s].invoice = reimbursement[s].invoice
        BY <2>2, <2>4, <3>2 DEF Live
      <4>2. reimbursementInvoice[reimbursement[s].invoice] = s
            /\ reimbursement[s].invoice \in Invoices
        BY <1>b, <4>1 DEF ClaimInv, OneClaimPerInvoice, ClaimsNameInvoices
      <4> QED BY <1>0, <1>a, <2>1, <4>1, <4>2
    <3> QED BY <3>1, <3>2
  <2>5. ASSUME NEW j \in Invoices, reimbursementInvoice'[j] # None
        PROVE  /\ Live(reimbursementInvoice[j])'
               /\ reimbursement'[reimbursementInvoice'[j]].invoice = j
    <3>1. CASE j = i
      BY <1>0, <2>1, <2>2, <3>1 DEF Live
    <3>2. CASE j # i
      <4>1. reimbursementInvoice'[j] = reimbursementInvoice[j]
            /\ reimbursementInvoice[j] \in Reimbursements
        BY <1>0, <2>1, <2>5, <3>2
      <4>2. Live(reimbursementInvoice[j])
            /\ reimbursement[reimbursementInvoice[j]].invoice = j
        BY <2>5, <4>1 DEF ClaimInv, OneClaimPerInvoice
      <4>3. reimbursementInvoice[j] # r
        BY <1>b, <2>1, <4>1, <4>2
      <4> QED BY <2>2, <4>1, <4>2, <4>3 DEF Live
    <3> QED BY <3>1, <3>2
  <2> QED BY <2>3, <2>4, <2>5 DEF ClaimInv, OneClaimPerInvoice
<1>2. ASSUME NEW decision \in {"APPROVE", "REVISION"}, ReviewReimbursement(r, decision, u, caller)
      PROVE  ClaimInv'
  <2> DEFINE moved(status) == [claim EXCEPT !.reviewer = u, !.status = status]
  <2>1. ASSUME NEW status \in {"APPROVED_RESERVED", "REVISION_REQUIRED"}
        PROVE  /\ moved(status).status = status
               /\ moved(status).invoice = claim.invoice /\ moved(status).project = claim.project
    BY <1>0 DEF Reimbursement
  <2>2. \/ reimbursement' = [reimbursement EXCEPT ![r] = moved("APPROVED_RESERVED")]
        \/ reimbursement' = [reimbursement EXCEPT ![r] = moved("REVISION_REQUIRED")]
    BY <1>2 DEF ReviewReimbursement
  <2>3. Live(r) /\ UNCHANGED reimbursementInvoice
    BY <1>2 DEF ReviewReimbursement, Live
  <2> QED BY <2>1, <2>2, <2>3, ClaimInvMoved
<1>3. CASE ResubmitReimbursement(r, u, caller)
  <2> DEFINE moved == [claim EXCEPT !.status = "PENDING_REVIEW", !.reviewer = None]
  <2>1. /\ moved.status = "PENDING_REVIEW"
        /\ moved.invoice = claim.invoice /\ moved.project = claim.project
    BY <1>0 DEF Reimbursement
  <2>2. reimbursement' = [reimbursement EXCEPT ![r] = moved]
    BY <1>0, <1>3 DEF ResubmitReimbursement
  <2>3. Live(r) /\ UNCHANGED reimbursementInvoice
    BY <1>3 DEF ResubmitReimbursement, Live
  <2> QED BY <2>1, <2>2, <2>3, ClaimInvMoved
<1>4. CASE WithdrawReimbursement(r, u, caller)
  <2>1. Live(r) /\ reimbursementInvoice' = [reimbursementInvoice EXCEPT ![claim.invoice] = None]
    BY <1>4 DEF WithdrawReimbursement, Withdrawable, Live
  <2>2. /\ reimbursement'[r].status = "WITHDRAWN"
        /\ reimbursement'[r].invoice = claim.invoice /\ reimbursement'[r].project = claim.project
        /\ \A s \in Reimbursements \ {r} : reimbursement'[s] = reimbursement[s]
    <3>1. reimbursement' = [reimbursement EXCEPT ![r] = [claim EXCEPT !.status = "WITHDRAWN"]]
      BY <1>0, <1>4 DEF WithdrawReimbursement
    <3> QED BY <1>0, <3>1 DEF Reimbursement
  <2>3. claim.invoice \in Invoices /\ claim.project \in Projects
        /\ reimbursementInvoice[claim.invoice] = r
    BY <1>b, <2>1 DEF ClaimInv, ClaimsNameInvoices, OneClaimPerInvoice
  <2>4. ClaimsNameInvoices'
    BY <2>2, <2>3 DEF ClaimInv, ClaimsNameInvoices, ReimbursementExists
  <2>5. ASSUME NEW s \in Reimbursements, Live(s)'
        PROVE  reimbursementInvoice'[reimbursement'[s].invoice] = s
    <3>1. s # r
      BY <2>2, <2>5 DEF Live
    <3>2. Live(s) /\ reimbursement'[s].invoice = reimbursement[s].invoice
      BY <2>2, <2>5, <3>1 DEF Live
    <3>3. reimbursementInvoice[reimbursement[s].invoice] = s
          /\ reimbursement[s].invoice \in Invoices
      BY <1>b, <3>2 DEF ClaimInv, OneClaimPerInvoice, ClaimsNameInvoices
    <3> QED BY <1>0, <2>1, <2>3, <3>1, <3>2, <3>3
  <2>6. ASSUME NEW j \in Invoices, reimbursementInvoice'[j] # None
        PROVE  /\ Live(reimbursementInvoice[j])'
               /\ reimbursement'[reimbursementInvoice'[j]].invoice = j
    <3>1. j # claim.invoice /\ reimbursementInvoice'[j] = reimbursementInvoice[j]
          /\ reimbursementInvoice[j] \in Reimbursements
      BY <1>0, <2>1, <2>6
    <3>2. Live(reimbursementInvoice[j])
          /\ reimbursement[reimbursementInvoice[j]].invoice = j
      BY <2>6, <3>1 DEF ClaimInv, OneClaimPerInvoice
    <3>3. reimbursementInvoice[j] # r
      BY <3>1, <3>2
    <3> QED BY <2>2, <3>1, <3>2, <3>3 DEF Live
  <2> QED BY <2>4, <2>5, <2>6 DEF ClaimInv, OneClaimPerInvoice
<1>5. CASE PayReimbursement(r, u, caller)
  <2> DEFINE moved == [claim EXCEPT !.status = "PAID"]
  <2>1. /\ moved.status = "PAID"
        /\ moved.invoice = claim.invoice /\ moved.project = claim.project
    BY <1>0 DEF Reimbursement
  <2>2. reimbursement' = [reimbursement EXCEPT ![r] = moved]
    BY <1>0, <1>5 DEF PayReimbursement
  <2>3. Live(r) /\ UNCHANGED reimbursementInvoice
    BY <1>5 DEF PayReimbursement, Live
  <2> QED BY <2>1, <2>2, <2>3, ClaimInvMoved
<1> QED BY <1>1, <1>2, <1>3, <1>4, <1>5

LEMMA ClaimInvStep == ClaimInv /\ [Next]_vars => ClaimInv'
<1> SUFFICES ASSUME ClaimInv, [Next]_vars PROVE ClaimInv'
  OBVIOUS
<1>1. TypeOK'
  BY TypeStep DEF ClaimInv
<1>2. UNCHANGED vars => UNCHANGED claimVars
  BY DEF vars, claimVars
<1> QED BY <1>1, <1>2, ClaimsUntouched, ClaimInvKept, ClaimInvReimbursement DEF Next

LEMMA ClaimInvInit == Init => ClaimInv
<1>1. Init => ClaimsNameInvoices /\ OneClaimPerInvoice
  BY DEF Init, ClaimsNameInvoices, OneClaimPerInvoice, Live, ReimbursementExists,
         AbsentReimbursement
<1> QED BY <1>1, TypeInit DEF ClaimInv

\* The link key of an invoice names the one reimbursement that is live on it:
\* no invoice is claimed twice, whatever withdrawals and new claims commit.
THEOREM InvoicesAreClaimedOnce == Spec => []OneClaimPerInvoice
<1>1. ClaimInv => OneClaimPerInvoice
  BY DEF ClaimInv
<1> QED BY <1>1, ClaimInvInit, ClaimInvStep, PTL DEF Spec

----------------------------------------------------------------------------
(* What a live claim rests on.  Three facts carry ClaimsRestOnInvoices: a  *)
(* released project stays released, a linked invoice keeps what the claim  *)
(* relies on, and by OneClaimPerInvoice the invoice of a live claim is     *)
(* linked.                                                                 *)

\* The statuses that ProjectNext can give a project that was released.
LEMMA ReleasedStays ==
  TypeOK /\ ProjectNext => \A p \in Projects : Released(p) => Released(p)'
<1> SUFFICES ASSUME TypeOK, NEW p \in Projects, NEW u \in Users, NEW caller \in MSPs,
                    NEW q \in Projects, Released(q),
                    \/ \E budget \in Cents, org \in Orgs : CreateProject(p, budget, u, org, caller)
                    \/ \E budget \in Cents : UpdateProject(p, budget, u, caller)
                    \/ SubmitProject(p, u, caller)
                    \/ \E decision \in {"APPROVE", "REVISION"} : ReviewProject(p, decision, u, caller)
                    \/ RequestProjectClosure(p, u, caller)
                    \/ \E decision \in {"APPROVE", "REVISION"} :
                          ReviewProjectClosure(p, decision, u, caller)
                    \/ FinalizeProjectSettlement(p, u, caller)
                    \/ \E added \in Users : AddProjectMember(p, added, u, caller)
             PROVE  Released(q)'
  BY DEF ProjectNext
<1>0. project \in [Projects -> Project] /\ project[p] \in Project
  BY DEF TypeOK
<1>1. CASE Released(p) /\ FinalizeProjectSettlement(p, u, caller)
  <2>1. project' = [project EXCEPT ![p] = Archive(project[p])]
        /\ Archive(project[p]).status = "ARCHIVED"
    BY <1>0, <1>1, ArchiveLemma DEF FinalizeProjectSettlement
  <2> HIDE DEF Archive
  <2> QED BY <1>0, <2>1 DEF Released
<1>2. CASE \E added \in Users : AddProjectMember(p, added, u, caller)
  BY <1>2 DEF AddProjectMember, Released
<1>3. CASE \E pr : ~Released(p) /\ project' = [project EXCEPT ![p] = pr]
  <2>1. q # p
    BY <1>3
  <2> QED BY <1>0, <1>3, <2>1 DEF Released
<1>a. ASSUME NEW budget \in Cents, NEW org \in Orgs, CreateProject(p, budget, u, org, caller)
      PROVE  \E pr : ~Released(p) /\ project' = [project EXCEPT ![p] = pr]
  BY <1>a DEF CreateProject, ProjectExists, Released
<1>b. ASSUME NEW budget \in Cents, UpdateProject(p, budget, u, caller)
      PROVE  \E pr : ~Released(p) /\ project' = [project EXCEPT ![p] = pr]
  BY <1>b DEF UpdateProject, Editable, Released
<1>c. ASSUME SubmitProject(p, u, caller)
      PROVE  \E pr : ~Released(p) /\ project' = [project EXCEPT ![p] = pr]
  BY <1>0, <1>c DEF SubmitProject, Editable, Released
<1>d. ASSUME NEW decision \in {"APPROVE", "REVISION"}, ReviewProject(p, decision, u, caller)
      PROVE  \E pr : ~Released(p) /\ project' = [project EXCEPT ![p] = pr]
  BY <1>d DEF ReviewProject, Released
<1>e. ASSUME RequestProjectClosure(p, u, caller)
      PROVE  \E pr : ~Released(p) /\ project' = [project EXCEPT ![p] = pr]
  BY <1>0, <1>e DEF RequestProjectClosure, Released
<1>f. ASSUME NEW decision \in {"APPROVE", "REVISION"}, ReviewProjectClosure(p, decision, u, caller)
      PROVE  \E pr : ~Released(p) /\ project' = [project EXCEPT ![p] = pr]
  BY <1>f DEF ReviewProjectClosure, Released
<1>g. ASSUME FinalizeProjectSettlement(p, u, caller)
      PROVE  Released(p)
  BY <1>g DEF FinalizeProjectSettlement, InSettlement, Released
<1> QED BY <1>1, <1>2, <1>3, <1>a, <1>b, <1>c, <1>d, <1>e, <1>f, <1>g

\* The operations on reimbursements move money, never a project's status.
LEMMA StatusKept ==
  TypeOK /\ ReimbursementNext => \A p \in Projects : project'[p].status = project[p].status
<1> SUFFICES ASSUME TypeOK, NEW r \in Reimbursements, NEW u \in Users, NEW caller \in MSPs,
                    NEW p \in Projects,
                    \/ \E q \in Projects, i \in Invoices : CreateReimbursement(r, q, i, u, caller)
                    \/ \E decision \in {"APPROVE", "REVISION"} :
                          ReviewReimbursement(r, decision, u, caller)
                    \/ ResubmitReimbursement(r, u, caller)
                    \/ WithdrawReimbursement(r, u, caller)
                    \/ PayReimbursement(r, u, caller)
             PROVE  project'[p].status = project[p].status
  BY DEF ReimbursementNext
<1> DEFINE claim == reimbursement[r]
           p0 == claim.project
<1>0. /\ project \in [Projects -> Project]
      /\ claim.amount \in Nat /\ (p0 \in Projects => project[p0] \in Project)
  BY DEF TypeOK, Reimbursement
<1>a. ASSUME NEW pr, p0 \in Projects => pr.status = project[p0].status,
             project' = [project EXCEPT ![p0] = pr]
      PROVE  project'[p].status = project[p].status
  BY <1>0, <1>a
<1>1. ASSUME NEW q \in Projects, NEW i \in Invoices, CreateReimbursement(r, q, i, u, caller)
      PROVE  project'[p].status = project[p].status
  BY <1>1 DEF CreateReimbursement
<1>2. ASSUME NEW decision \in {"APPROVE", "REVISION"}, ReviewReimbursement(r, decision, u, caller)
      PROVE  project'[p].status = project[p].status
  <2> DEFINE pr == Reserve(project[p0], claim.amount)
  <2>1. \/ project' = project
        \/ Sufficient(project[p0], claim.amount) /\ project' = [project EXCEPT ![p0] = pr]
    BY <1>2 DEF ReviewReimbursement
  <2>2. Sufficient(project[p0], claim.amount) /\ p0 \in Projects => pr.status = project[p0].status
    BY <1>0, ReserveLemma
  <2> QED BY <1>a, <2>1, <2>2
<1>3. CASE ResubmitReimbursement(r, u, caller)
  BY <1>3 DEF ResubmitReimbursement
<1>4. CASE WithdrawReimbursement(r, u, caller)
  <2> DEFINE pr == Release(project[p0], claim.amount)
  <2>1. \/ project' = project
        \/ project[p0].reserved >= claim.amount /\ project' = [project EXCEPT ![p0] = pr]
    BY <1>4 DEF WithdrawReimbursement, BalanceAllowsRelease
  <2>2. project[p0].reserved >= claim.amount /\ p0 \in Projects => pr.status = project[p0].status
    BY <1>0, ReleaseLemma
  <2> QED BY <1>a, <2>1, <2>2
<1>5. CASE PayReimbursement(r, u, caller)
  <2> DEFINE pr == Pay(project[p0], claim.amount)
  <2>1. project[p0].reserved >= claim.amount /\ project' = [project EXCEPT ![p0] = pr]
    BY <1>5 DEF PayReimbursement
  <2>2. p0 \in Projects => pr.status = project[p0].status
    BY <1>0, <2>1, PayLemma
  <2> QED BY <1>a, <2>1, <2>2
<1> QED BY <1>1, <1>2, <1>3, <1>4, <1>5

\* What a claim relies on.
Supports(inv, inv2) ==
  /\ inv2.status \notin {"ABSENT", "VOIDED"} /\ inv2.project = inv.project
  /\ inv2.total = inv.total /\ inv2.currency = inv.currency

\* A claimed invoice stands: putting on record needs a free id, association
\* and cancellation need a free link, and custody is not what a claim relies
\* on.
LEMMA ClaimedInvoiceStands ==
  ASSUME TypeOK, InvoiceNext \/ VoidNext \/ TransferNext,
         NEW j \in Invoices, NotVoided(j), reimbursementInvoice[j] # None
  PROVE  Supports(invoice[j], invoice'[j])
<1>0. invoice \in [Invoices -> Invoice] /\ invoice[j] \in Invoice
      /\ invoice[j].status \notin {"ABSENT", "VOIDED"}
  BY DEF TypeOK, NotVoided, InvoiceExists
<1>a. ASSUME invoice'[j] = invoice[j] PROVE Supports(invoice[j], invoice'[j])
  BY <1>0, <1>a DEF Supports
<1>b. ASSUME NEW i \in Invoices, ~EnsureInvoiceCanBeVoided(i) => invoice' = invoice,
             NEW inv, EnsureInvoiceCanBeVoided(i) => invoice' = [invoice EXCEPT ![i] = inv]
      PROVE  Supports(invoice[j], invoice'[j])
  <2>1. EnsureInvoiceCanBeVoided(i) => i # j
    BY DEF EnsureInvoiceCanBeVoided
  <2> QED BY <1>0, <1>a, <1>b, <2>1
<1>1. CASE InvoiceNext
  <2> SUFFICES ASSUME NEW i \in Invoices, NEW u \in Users, NEW caller \in MSPs,
                    \/ \E no \in Numbers, total \in Cents, currency \in Currencies,
                          org \in Orgs \cup {None}, p \in Projects \cup {None},
                          original \in Invoices \cup {None} :
                          CreateInvoice(i, no, total, currency, u, org, p, original, caller)
                    \/ \E p \in Projects : LinkInvoiceToProject(i, p, u, caller)
                    \/ UnlinkInvoiceFromProject(i, u, caller)
               PROVE  Supports(invoice[j], invoice'[j])
    BY <1>1 DEF InvoiceNext
  <2>1. ASSUME NEW no \in Numbers, NEW total \in Cents, NEW currency \in Currencies,
               NEW org \in Orgs \cup {None}, NEW p \in Projects \cup {None},
               NEW original \in Invoices \cup {None},
               CreateInvoice(i, no, total, currency, u, org, p, original, caller)
        PROVE  Supports(invoice[j], invoice'[j])
    <3>1. i # j
      BY <1>0, <2>1 DEF CreateInvoice, InvoiceExists
    <3>2. invoice'[j] = invoice[j]
      BY <1>0, <2>1, <3>1 DEF CreateInvoice
    <3> QED BY <1>a, <3>2
  <2>2. ASSUME NEW p \in Projects, LinkInvoiceToProject(i, p, u, caller)
        PROVE  Supports(invoice[j], invoice'[j])
    <3>1. i # j
      BY <2>2 DEF LinkInvoiceToProject, EnsureInvoiceCanBeVoided
    <3> QED BY <1>0, <1>a, <2>2, <3>1 DEF LinkInvoiceToProject
  <2>3. CASE UnlinkInvoiceFromProject(i, u, caller)
    <3>1. i # j
      BY <2>3 DEF UnlinkInvoiceFromProject, Separable, EnsureInvoiceCanBeVoided
    <3> QED BY <1>0, <1>a, <2>3, <3>1 DEF UnlinkInvoiceFromProject
  <2> QED BY <2>1, <2>2, <2>3
<1>2. CASE VoidNext
  <2> SUFFICES ASSUME NEW i \in Invoices, NEW u \in Users, NEW caller \in MSPs,
                    \/ VoidInvoice(i, u, caller)
                    \/ RequestInvoiceVoid(i, u, caller)
                    \/ \E decision \in {"APPROVE", "REJECT"} :
                          ReviewInvoiceVoid(i, decision, u, caller)
               PROVE  Supports(invoice[j], invoice'[j])
    BY <1>2 DEF VoidNext
  <2>1. CASE VoidInvoice(i, u, caller)
    <3>1. i # j
      BY <2>1 DEF VoidInvoice, EnsureInvoiceCanBeVoided
    <3> QED BY <1>0, <1>a, <2>1, <3>1 DEF VoidInvoice
  <2>2. CASE RequestInvoiceVoid(i, u, caller)
    BY <1>a, <2>2 DEF RequestInvoiceVoid, invoiceVars
  <2>3. ASSUME NEW decision \in {"APPROVE", "REJECT"}, ReviewInvoiceVoid(i, decision, u, caller)
        PROVE  Supports(invoice[j], invoice'[j])
    <3>1. \/ invoice' = invoice
          \/ i # j /\ invoice' = [invoice EXCEPT ![i].status = "VOIDED"]
      BY <2>3 DEF ReviewInvoiceVoid, EnsureInvoiceCanBeVoided
    <3> QED BY <1>0, <1>a, <3>1
  <2> QED BY <2>1, <2>2, <2>3
<1>3. CASE TransferNext
  <2> SUFFICES ASSUME NEW i \in Invoices, NEW u \in Users,
                    \/ \E to \in Users, toMsp, caller \in MSPs :
                          TransferInvoice(i, to, toMsp, u, caller)
                    \/ \E to \in Users, toMsp, caller \in MSPs :
                          RequestInvoiceTransfer(i, to, toMsp, u, caller)
                    \/ \E decision \in {"ACCEPT", "REJECT"}, caller \in MSPs :
                          RespondInvoiceTransfer(i, decision, u, caller)
                    \/ CancelInvoiceTransfer(i, u)
               PROVE  Supports(invoice[j], invoice'[j])
    BY <1>3 DEF TransferNext
  <2>1. ASSUME NEW to, NEW msp PROVE Supports(invoice[j], HandedTo(invoice[j], to, msp))
    BY <1>0 DEF HandedTo, Supports, Invoice
  <2>2. \/ invoice' = invoice
        \/ \E to, msp : invoice' = [invoice EXCEPT ![i] = HandedTo(invoice[i], to, msp)]
    BY DEF TransferInvoice, RequestInvoiceTransfer, RespondInvoiceTransfer, CancelInvoiceTransfer
  <2> HIDE DEF Supports, HandedTo
  <2> QED BY <1>0, <1>a, <2>1, <2>2
<1> QED BY <1>1, <1>2, <1>3

\* ClaimsRestOnInvoices for one claim, on invoice i of project p.
Supported(r, i, p) ==
  /\ reimbursement[r].invoice = i /\ reimbursement[r].project = p
  /\ NotVoided(i) /\ invoice[i].project = p
  /\ invoice[i].total = reimbursement[r].amount
  /\ invoice[i].currency \in {None, "CNY"}
  /\ Released(p)

RestInv == ClaimInv /\ ClaimsRestOnInvoices

\* The directory and the life of a project leave invoices alone.
LEMMA InvoicesUntouched == DirectoryNext \/ ProjectNext => UNCHANGED invoice
<1>1. DirectoryNext => UNCHANGED invoice
  BY DEF DirectoryNext, RegisterBusinessUser, CreateBusinessOrganization, invoiceVars
<1>2. ProjectNext => UNCHANGED invoice
  BY ProjectFrames DEF ProjectFrame, invoiceVars
<1> QED BY <1>1, <1>2

LEMMA RestInvDef ==
  ASSUME ClaimInv
  PROVE  ClaimsRestOnInvoices <=>
           \A r \in Reimbursements :
               Live(r) => \E i \in Invoices, p \in Projects : Supported(r, i, p)
<1>1. \A r \in Reimbursements :
        Live(r) => reimbursement[r].invoice \in Invoices /\ reimbursement[r].project \in Projects
  BY DEF ClaimInv, ClaimsNameInvoices, Live, ReimbursementExists
<1> QED BY <1>1 DEF ClaimsRestOnInvoices, Supported

LEMMA RestInvDefNext ==
  ASSUME ClaimInv',
         \A r \in Reimbursements :
             Live(r)' => \E i \in Invoices, p \in Projects : Supported(r, i, p)'
  PROVE  ClaimsRestOnInvoices'
  BY DEF ClaimsRestOnInvoices, Supported

\* The step of an operation that writes no claim: every live claim keeps its
\* support.
LEMMA RestKept ==
  ASSUME RestInv, ClaimInv', UNCHANGED claimVars,
         \A p \in Projects : Released(p) => Released(p)',
         \A j \in Invoices : NotVoided(j) /\ reimbursementInvoice[j] # None
                               => Supports(invoice[j], invoice'[j])
  PROVE  RestInv'
<1>1. ASSUME NEW r \in Reimbursements, Live(r)'
      PROVE  \E i \in Invoices, p \in Projects : Supported(r, i, p)'
  <2>1. Live(r) /\ reimbursement'[r] = reimbursement[r]
    BY <1>1 DEF Live, claimVars
  <2>2. PICK i \in Invoices, p \in Projects : Supported(r, i, p)
    BY <2>1, RestInvDef DEF RestInv
  <2>3. reimbursementInvoice[i] = r /\ r # None
    BY <2>1, <2>2, NoneAssumption DEF RestInv, ClaimInv, OneClaimPerInvoice, Supported
  <2>4. Supports(invoice[i], invoice'[i]) /\ Released(p)'
    BY <2>2, <2>3 DEF Supported
  <2>5. Supported(r, i, p)'
    BY <2>1, <2>2, <2>4 DEF Supports, Supported, NotVoided, InvoiceExists
  <2> QED BY <2>5
<1>2. ClaimsRestOnInvoices'
  BY <1>1, RestInvDefNext
<1> QED BY <1>2 DEF RestInv

\* A reimbursement step leaves invoices and the statuses of projects alone,
\* and a claim that is live after it either was live with the same support or
\* was just created.
LEMMA RestReimbursement == RestInv /\ ClaimInv' /\ ReimbursementNext => RestInv'
<1> SUFFICES ASSUME RestInv, ClaimInv', ReimbursementNext PROVE RestInv'
  OBVIOUS
<1>0. /\ TypeOK /\ reimbursement \in [Reimbursements -> Reimbursement]
      /\ \A p \in Projects : project'[p].status = project[p].status
  BY StatusKept DEF RestInv, ClaimInv, TypeOK
<1>1. PICK r \in Reimbursements, u \in Users, caller \in MSPs :
        \/ \E p \in Projects, i \in Invoices : CreateReimbursement(r, p, i, u, caller)
        \/ \E decision \in {"APPROVE", "REVISION"} : ReviewReimbursement(r, decision, u, caller)
        \/ ResubmitReimbursement(r, u, caller)
        \/ WithdrawReimbursement(r, u, caller)
        \/ PayReimbursement(r, u, caller)
  BY DEF ReimbursementNext
<1>2. invoice' = invoice
  BY <1>1 DEF CreateReimbursement, ReviewReimbursement, ResubmitReimbursement,
              WithdrawReimbursement, PayReimbursement, ReimbursementFrame, invoiceVars
<1>3. \A p \in Projects : Released(p)' <=> Released(p)
  BY <1>0 DEF Released
<1>a. ASSUME NEW s \in Reimbursements, Live(s),
             reimbursement'[s].invoice = reimbursement[s].invoice,
             reimbursement'[s].project = reimbursement[s].project,
             reimbursement'[s].amount = reimbursement[s].amount
      PROVE  \E i \in Invoices, p \in Projects : Supported(s, i, p)'
  <2>1. PICK i \in Invoices, p \in Projects : Supported(s, i, p)
    BY <1>a, RestInvDef DEF RestInv
  <2>2. Supported(s, i, p)'
    BY <1>2, <1>3, <1>a, <2>1 DEF Supported, NotVoided, InvoiceExists
  <2> QED BY <2>2
<1>4. ASSUME NEW s \in Reimbursements \ {r}, Live(s)'
      PROVE  \E i \in Invoices, p \in Projects : Supported(s, i, p)'
  <2>1. reimbursement'[s] = reimbursement[s]
    BY <1>0, <1>1 DEF CreateReimbursement, ReviewReimbursement, ResubmitReimbursement,
                      WithdrawReimbursement, PayReimbursement
  <2> QED BY <1>4, <1>a, <2>1 DEF Live
<1>5. ASSUME NEW p \in Projects, NEW i \in Invoices, CreateReimbursement(r, p, i, u, caller)
      PROVE  Supported(r, i, p)'
  <2>1. /\ reimbursement'[r].invoice = i /\ reimbursement'[r].project = p
        /\ reimbursement'[r].amount = invoice[i].total
    BY <1>0, <1>5 DEF CreateReimbursement
  <2>2. /\ NotVoided(i) /\ invoice[i].project = p /\ Released(p)
        /\ invoice[i].currency \in {None, "CNY"}
    BY <1>5 DEF CreateReimbursement, InSettlement, Released
  <2> QED BY <1>2, <1>3, <2>1, <2>2 DEF Supported, NotVoided, InvoiceExists
<1>6. ASSUME ~\E p \in Projects, i \in Invoices : CreateReimbursement(r, p, i, u, caller)
      PROVE  \E i \in Invoices, p \in Projects : Supported(r, i, p)'
  <2>1. CASE \E decision \in {"APPROVE", "REVISION"} : ReviewReimbursement(r, decision, u, caller)
    BY <1>0, <1>a, <2>1 DEF ReviewReimbursement, Live, Reimbursement
  <2>2. CASE ResubmitReimbursement(r, u, caller)
    BY <1>0, <1>a, <2>2 DEF ResubmitReimbursement, Live, Reimbursement
  <2>3. CASE WithdrawReimbursement(r, u, caller)
    BY <1>0, <1>a, <2>3 DEF WithdrawReimbursement, Withdrawable, Live, Reimbursement
  <2>4. CASE PayReimbursement(r, u, caller)
    BY <1>0, <1>a, <2>4 DEF PayReimbursement, Live, Reimbursement
  <2> QED BY <1>1, <1>6, <2>1, <2>2, <2>3, <2>4
<1>7. ClaimsRestOnInvoices'
  BY <1>4, <1>5, <1>6, RestInvDefNext
<1> QED BY <1>7 DEF RestInv

LEMMA RestStep == RestInv /\ [Next]_vars => RestInv'
<1> SUFFICES ASSUME RestInv, [Next]_vars PROVE RestInv'
  OBVIOUS
<1>0. TypeOK /\ ClaimInv'
  BY ClaimInvStep DEF RestInv, ClaimInv
<1>a. ASSUME UNCHANGED invoice
      PROVE  \A j \in Invoices : NotVoided(j) => Supports(invoice[j], invoice'[j])
  BY <1>a DEF Supports, NotVoided, InvoiceExists
<1>b. ASSUME UNCHANGED project PROVE \A p \in Projects : Released(p) => Released(p)'
  BY <1>b DEF Released
<1>1. CASE ReimbursementNext
  BY <1>0, <1>1, RestReimbursement
<1>2. CASE InvoiceNext \/ VoidNext \/ TransferNext
  BY <1>0, <1>2, <1>b, ProjectUntouched, ClaimsUntouched, ClaimedInvoiceStands, RestKept
<1>3. CASE ProjectNext
  <2>1. UNCHANGED invoice
    BY <1>3, InvoicesUntouched
  <2> QED BY <1>0, <1>3, <1>a, <2>1, ClaimsUntouched, ReleasedStays, RestKept
<1>4. CASE DirectoryNext
  <2>1. UNCHANGED invoice
    BY <1>4, InvoicesUntouched
  <2> QED BY <1>0, <1>4, <1>a, <1>b, <2>1, ClaimsUntouched, ProjectUntouched, RestKept
<1>5. CASE UNCHANGED vars
  <2>1. UNCHANGED invoice /\ UNCHANGED project /\ UNCHANGED claimVars
    BY <1>5 DEF vars, claimVars
  <2> QED BY <1>0, <1>a, <1>b, <2>1, RestKept
<1> QED BY <1>1, <1>2, <1>3, <1>4, <1>5 DEF Next

\* A live claim rests on a valid CNY invoice of its own project and amount,
\* and on a released budget, whatever cancellations, separations and hand-offs
\* are attempted meanwhile.
THEOREM LiveClaimsRestOnInvoices == Spec => []ClaimsRestOnInvoices
<1>1. Init => RestInv
  <2>1. Init => ClaimsRestOnInvoices
    BY DEF Init, ClaimsRestOnInvoices, Live, AbsentReimbursement
  <2> QED BY <2>1, ClaimInvInit DEF RestInv
<1>2. RestInv => ClaimsRestOnInvoices
  BY DEF RestInv
<1> QED BY <1>1, <1>2, RestStep, PTL DEF Spec

============================================================================
