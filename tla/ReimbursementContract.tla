----------------------- MODULE ReimbursementContract -----------------------
(***************************************************************************)
(* Reimbursements: a claim of a project on one invoice.  The key           *)
(* REIMBURSEMENT_INVOICE#invoice is the guard against a second claim, and  *)
(* the amount moves available -> reserved -> paid, or back.                *)
(***************************************************************************)
EXTENDS LedgerState

ReimbursementFrame ==
    UNCHANGED <<directoryVars, member, invoiceVars, voidRequest, transfer>>

\* Fault: the link key is not read before a claim.
UnclaimedUnchecked(i) == TRUE

Unclaimed(i) == reimbursementInvoice[i] = None

CreateReimbursement(r, p, i, applicant, caller) ==
    /\ ~ReimbursementExists(r)
    /\ InSettlement(p)
    /\ RequireProjectMember(p, applicant, caller)
    /\ NotVoided(i)
    /\ invoice[i].currency \in {None, "CNY"}
    /\ invoice[i].project = p
    /\ Unclaimed(i)
    /\ invoice[i].total > 0 /\ invoice[i].total <= MaxMoneyCents
    /\ reimbursement' = [reimbursement EXCEPT ![r] =
                           [status |-> "PENDING_REVIEW", project |-> p, invoice |-> i,
                            applicant |-> applicant, reviewer |-> None,
                            amount |-> invoice[i].total]]
    /\ reimbursementInvoice' = [reimbursementInvoice EXCEPT ![i] = r]
    /\ evidence' = ProjectEvent(p, "SUBMIT_REIMBURSEMENT", applicant, r)
    /\ UNCHANGED project
    /\ ReimbursementFrame

\* Fault: the balance is not compared with the amount.
SufficientUnchecked(pr, amount) == TRUE

Sufficient(pr, amount) == pr.available >= amount

\* Fault: the amount is reserved and stays available.
ReserveWithoutDebit(pr, amount) == [pr EXCEPT !.reserved = @ + amount]

Reserve(pr, amount) == [pr EXCEPT !.available = @ - amount, !.reserved = @ + amount]

ReviewReimbursement(r, decision, reviewer, caller) ==
    LET claim == reimbursement[r]
    IN  /\ claim.status = "PENDING_REVIEW"
        /\ RequireProjectManager(claim.project, reviewer, caller, "PROJECT_REVIEWER")
        /\ NotVoided(claim.invoice)
        /\ claim.amount > 0 /\ claim.amount <= MaxMoneyCents
        /\ \/ /\ decision = "APPROVE"
              /\ Sufficient(project[claim.project], claim.amount)
              /\ project' = [project EXCEPT ![claim.project] =
                               Reserve(project[claim.project], claim.amount)]
              /\ reimbursement' = [reimbursement EXCEPT ![r] =
                                     [@ EXCEPT !.reviewer = reviewer, !.status = "APPROVED_RESERVED"]]
              /\ evidence' = ProjectEvent(claim.project, "REIMBURSEMENT_APPROVE", reviewer, r)
           \/ /\ decision = "REVISION"
              /\ reimbursement' = [reimbursement EXCEPT ![r] =
                                     [@ EXCEPT !.reviewer = reviewer, !.status = "REVISION_REQUIRED"]]
              /\ evidence' = ProjectEvent(claim.project, "REIMBURSEMENT_REVISION", reviewer, r)
              /\ UNCHANGED project
        /\ UNCHANGED reimbursementInvoice
        /\ ReimbursementFrame

ResubmitReimbursement(r, applicant, caller) ==
    /\ reimbursement[r].status = "REVISION_REQUIRED"
    /\ RequireProjectMember(reimbursement[r].project, applicant, caller)
    /\ reimbursement' = [reimbursement EXCEPT ![r] =
                           [@ EXCEPT !.status = "PENDING_REVIEW", !.reviewer = None]]
    /\ evidence' = ProjectEvent(reimbursement[r].project, "RESUBMIT_REIMBURSEMENT", applicant, r)
    /\ UNCHANGED <<project, reimbursementInvoice>>
    /\ ReimbursementFrame

\* The two checks that guard against an inconsistent balance.
BalanceAllowsRelease(pr, amount) ==
    /\ pr.reserved >= amount
    /\ CheckedAddMoney(pr.available, amount)
    /\ pr.available + amount <= pr.budget - pr.paid

\* Fault: the frozen total is cleared, not reduced.
ReleaseEverything(pr, amount) == [pr EXCEPT !.available = @ + amount, !.reserved = 0]

Release(pr, amount) == [pr EXCEPT !.available = @ + amount, !.reserved = @ - amount]

\* Fault: a paid claim can be withdrawn too.
WithdrawableUntilTheEnd(claim) ==
    claim.status \in {"PENDING_REVIEW", "REVISION_REQUIRED", "APPROVED_RESERVED", "PAID"}

Withdrawable(claim) ==
    claim.status \in {"PENDING_REVIEW", "REVISION_REQUIRED", "APPROVED_RESERVED"}

WithdrawReimbursement(r, applicant, caller) ==
    LET claim == reimbursement[r]
    IN  /\ Withdrawable(claim)
        /\ RequireProjectMember(claim.project, applicant, caller)
        /\ \/ /\ claim.status = "APPROVED_RESERVED"
              /\ BalanceAllowsRelease(project[claim.project], claim.amount)
              /\ project' = [project EXCEPT ![claim.project] =
                               Release(project[claim.project], claim.amount)]
           \/ /\ claim.status # "APPROVED_RESERVED"
              /\ UNCHANGED project
        /\ reimbursement' = [reimbursement EXCEPT ![r].status = "WITHDRAWN"]
        /\ reimbursementInvoice' = [reimbursementInvoice EXCEPT ![claim.invoice] = None]
        /\ evidence' = ProjectEvent(claim.project, "WITHDRAW_REIMBURSEMENT", applicant, r)
        /\ ReimbursementFrame

Pay(pr, amount) == [pr EXCEPT !.reserved = @ - amount, !.paid = @ + amount]

PayReimbursement(r, finance, caller) ==
    LET claim == reimbursement[r]
    IN  /\ claim.status = "APPROVED_RESERVED"
        /\ RequireProjectManager(claim.project, finance, caller, "FINANCE_ADMIN")
        /\ NotVoided(claim.invoice)
        /\ project[claim.project].reserved >= claim.amount
        /\ project' = [project EXCEPT ![claim.project] =
                         Pay(project[claim.project], claim.amount)]
        /\ reimbursement' = [reimbursement EXCEPT ![r].status = "PAID"]
        /\ evidence' = ProjectEvent(claim.project, "PAY_REIMBURSEMENT", finance, r)
        /\ UNCHANGED reimbursementInvoice
        /\ ReimbursementFrame

ReimbursementNext ==
    \E r \in Reimbursements, u \in Users, caller \in MSPs :
        \/ \E p \in Projects, i \in Invoices : CreateReimbursement(r, p, i, u, caller)
        \/ \E decision \in {"APPROVE", "REVISION"} :
              ReviewReimbursement(r, decision, u, caller)
        \/ ResubmitReimbursement(r, u, caller)
        \/ WithdrawReimbursement(r, u, caller)
        \/ PayReimbursement(r, u, caller)
============================================================================
