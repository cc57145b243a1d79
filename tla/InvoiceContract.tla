-------------------------- MODULE InvoiceContract --------------------------
(***************************************************************************)
(* The whole chaincode.  A committed transaction is one step: Fabric       *)
(* validates the read set of a transaction, range scans included, before   *)
(* its writes take effect.                                                 *)
(***************************************************************************)
EXTENDS DirectoryContract, ProjectContract, ReimbursementContract,
        InvoiceRecords, InvoiceTransfers

Init ==
    /\ organization = ProvisionedOrgs
    /\ user = ProvisionedUsers
    /\ project = [p \in Projects |-> AbsentProject]
    /\ member = [p \in Projects |-> {}]
    /\ invoice = [i \in Invoices |-> AbsentInvoice]
    /\ numberIndex = [no \in Numbers |-> None]
    /\ voidRequest = [i \in Invoices |-> [status |-> "ABSENT", applicant |-> None]]
    /\ transfer = [i \in Invoices |->
                     [status |-> "ABSENT", from |-> None, to |-> None, toMsp |-> None]]
    /\ reimbursement = [r \in Reimbursements |-> AbsentReimbursement]
    /\ reimbursementInvoice = [i \in Invoices |-> None]
    /\ evidence = NoEvidence

Next ==
    \/ DirectoryNext
    \/ ProjectNext
    \/ InvoiceNext
    \/ VoidNext
    \/ TransferNext
    \/ ReimbursementNext

Spec == Init /\ [][Next]_vars

----------------------------------------------------------------------------
(* Vocabulary of the properties.                                           *)

Live(r) ==
    reimbursement[r].status \in {"PENDING_REVIEW", "REVISION_REQUIRED",
                                 "APPROVED_RESERVED", "PAID"}

Released(p) ==
    project[p].status \in {"FINANCIAL_SETTLEMENT", "CLOSURE_APPROVED", "ARCHIVED"}

ClaimedIn(p, status) ==
    {r \in Reimbursements : reimbursement[r].project = p /\ reimbursement[r].status = status}

\* The cents of those claims, one by one: their number is the sum of the
\* amounts.
ClaimedCents(p, status) ==
    UNION {{r} \X (1..reimbursement[r].amount) : r \in ClaimedIn(p, status)}

Claimed(p, status) == Cardinality(ClaimedCents(p, status))

\* No ledger user has the role that a direct transfer needs; a ledger filled
\* through RegisterBusinessUser alone is one.
NoRegisteredHolder == \A u \in Users : user[u].role # "HOLDER"

----------------------------------------------------------------------------
(* Type invariant: every key family holds records of its type.             *)
TypeOK ==
    /\ organization \in [Orgs -> BusinessOrganization]
    /\ user \in [Users -> BusinessUser]
    /\ project \in [Projects -> Project]
    /\ member \in [Projects -> SUBSET Users]
    /\ invoice \in [Invoices -> Invoice]
    /\ numberIndex \in [Numbers -> Invoices \cup {None}]
    /\ voidRequest \in [Invoices -> InvoiceVoidRequest]
    /\ transfer \in [Invoices -> InvoiceTransfer]
    /\ reimbursement \in [Reimbursements -> Reimbursement]
    /\ reimbursementInvoice \in [Invoices -> Reimbursements \cup {None}]

(* The budget of a project is conserved from its release on: what          *)
(* ReviewReimbursement reserves, WithdrawReimbursement returns,            *)
(* PayReimbursement pays and FinalizeProjectSettlement recovers always     *)
(* adds up to BudgetCents, and no balance is positive before the release.  *)
BudgetConserved ==
    \A p \in Projects :
        LET pr == project[p]
        IN  IF Released(p)
            THEN pr.available + pr.reserved + pr.paid + pr.recovered = pr.budget
            ELSE pr.available + pr.reserved + pr.paid + pr.recovered = 0

(* ReservedCents is exactly the sum of the project's APPROVED_RESERVED     *)
(* reimbursements and PaidCents the sum of its PAID ones, although the     *)
(* balances and the claims live under different keys.                      *)
BalancesAreBacked ==
    \A p \in Projects :
        /\ project[p].reserved = Claimed(p, "APPROVED_RESERVED")
        /\ project[p].paid = Claimed(p, "PAID")

(* One claim per invoice: the link key of an invoice names the one         *)
(* reimbursement that is live on it, so no invoice is ever claimed twice,  *)
(* even after withdrawals and new claims (CreateReimbursement,             *)
(* WithdrawReimbursement).                                                 *)
OneClaimPerInvoice ==
    /\ \A r \in Reimbursements :
          Live(r) => reimbursementInvoice[reimbursement[r].invoice] = r
    /\ \A i \in Invoices :
          reimbursementInvoice[i] # None =>
              /\ Live(reimbursementInvoice[i])
              /\ reimbursement[reimbursementInvoice[i]].invoice = i

(* What a live claim rests on stays put: its invoice is not voided, still  *)
(* belongs to the claim's project and has the claimed amount in CNY, and   *)
(* the budget is released (VoidInvoice, ReviewInvoiceVoid and             *)
(* UnlinkInvoiceFromProject are held off by ensureInvoiceCanBeVoided).     *)
ClaimsRestOnInvoices ==
    \A r \in Reimbursements :
        Live(r) =>
            LET claim == reimbursement[r]
            IN  /\ NotVoided(claim.invoice)
                /\ invoice[claim.invoice].project = claim.project
                /\ invoice[claim.invoice].total = claim.amount
                /\ invoice[claim.invoice].currency \in {None, "CNY"}
                /\ Released(claim.project)

(* FinalizeProjectSettlement archives settled projects only: in an         *)
(* ARCHIVED project every claim is PAID or WITHDRAWN, nothing is available *)
(* or reserved, and no later transaction opens a claim again.              *)
ArchivedIsSettled ==
    \A p \in Projects :
        project[p].status = "ARCHIVED" =>
            /\ project[p].available = 0 /\ project[p].reserved = 0
            /\ \A r \in Reimbursements :
                  reimbursement[r].project = p =>
                      reimbursement[r].status \in {"PAID", "WITHDRAWN"}

(* The balance checks of WithdrawReimbursement and PayReimbursement        *)
(* ("project reserved balance is inconsistent", "cannot release this       *)
(* reimbursement") never refuse: approved money can always be returned.    *)
BalanceChecksNeverRefuse ==
    \A r \in Reimbursements :
        reimbursement[r].status = "APPROVED_RESERVED" =>
            BalanceAllowsRelease(project[reimbursement[r].project], reimbursement[r].amount)

(* An invoice linked to a project is one of the project's own organization *)
(* and the project has passed its review: requireProjectApplicant,         *)
(* Editable and the links keep an approved project from going back to      *)
(* draft under its invoices.                                               *)
LinkedInvoicesMatchProject ==
    \A i \in Invoices :
        InvoiceExists(i) /\ invoice[i].project # None =>
            /\ invoice[i].issuerMsp = project[invoice[i].project].msp
            /\ SameOrganization(invoice[i].issuerOrg, project[invoice[i].project].org)
            /\ Released(invoice[i].project)
               \/ project[invoice[i].project].status \in {"EXECUTING", "CLOSURE_REVIEW"}

(* Everyone on a project's member list, the applicant included, is an      *)
(* active ledger user of the project's MSP and organization.               *)
MembersBelongToProject ==
    \A p \in Projects :
        /\ ProjectExists(p) => project[p].applicant \in member[p]
        /\ \A u \in member[p] :
              /\ ProjectExists(p) /\ user[u].status = "ACTIVE"
              /\ user[u].msp = project[p].msp /\ user[u].org = project[p].org
              /\ user[u].role \in {"PROJECT_MEMBER", "ISSUER"}

(* Nobody reviews what they applied for: neither a project nor a           *)
(* reimbursement is reviewed by its applicant, although a ledger record    *)
(* may take over the name of a demo reviewer (ReviewProject,               *)
(* ReviewProjectClosure, ReviewReimbursement).                             *)
ReviewersAreNotApplicants ==
    /\ \A p \in Projects : ProjectExists(p) => project[p].reviewer # project[p].applicant
    /\ \A r \in Reimbursements :
          ReimbursementExists(r) => reimbursement[r].reviewer # reimbursement[r].applicant

(* One valid record per invoice number: among the records that bear a      *)
(* number only the one its index names can be unvoided, so a correction    *)
(* never stands beside a valid original (CreateInvoice).                   *)
OneValidRecordPerNumber ==
    /\ \A i \in Invoices :
          InvoiceExists(i) =>
              /\ numberIndex[invoice[i].number] # None
              /\ NotVoided(i) => numberIndex[invoice[i].number] = i
    /\ \A no \in Numbers :
          numberIndex[no] # None =>
              /\ InvoiceExists(numberIndex[no])
              /\ invoice[numberIndex[no]].number = no

(* A correction names a voided record of the same number and MSP, for as   *)
(* long as the ledger exists (CreateInvoice, VoidInvoice).                 *)
CorrectionsReplaceVoided ==
    \A i \in Invoices :
        InvoiceExists(i) /\ invoice[i].correctionOf # None =>
            LET original == invoice[invoice[i].correctionOf]
            IN  /\ original.status = "VOIDED"
                /\ original.number = invoice[i].number
                /\ original.issuerMsp = invoice[i].issuerMsp

(* An approved void request and a voided invoice go together: the request  *)
(* cannot be reopened afterwards (ReviewInvoiceVoid, RequestInvoiceVoid).  *)
ApprovedVoidIsVoided ==
    \A i \in Invoices :
        voidRequest[i].status = "APPROVED" => invoice[i].status = "VOIDED"

(* On a ledger without holders a pending transfer is always one the        *)
(* current holder asked for, so that it can still be cancelled, and        *)
(* accepted unless the invoice was voided (RespondInvoiceTransfer).        *)
PendingTransferIsFromHolder ==
    NoRegisteredHolder =>
        \A i \in Invoices :
            transfer[i].status = "PENDING" => invoice[i].holder = transfer[i].from

----------------------------------------------------------------------------
(* What a transaction may never do.                                        *)

(* A voided invoice is frozen: no later transaction changes its holder,    *)
(* project, status or issuer (every operation on invoices).                *)
VoidedIsFrozen ==
    [][\A i \in Invoices : invoice[i].status = "VOIDED" => invoice'[i] = invoice[i]]_vars

(* A paid or withdrawn reimbursement is final, and the budget of a         *)
(* project that passed its review no longer changes (UpdateProject,        *)
(* ResubmitReimbursement, WithdrawReimbursement).                          *)
SettledIsFinal ==
    [][/\ \A r \in Reimbursements :
             reimbursement[r].status \in {"PAID", "WITHDRAWN"} =>
                 reimbursement'[r] = reimbursement[r]
       /\ \A p \in Projects :
             (Released(p) \/ project[p].status \in {"EXECUTING", "CLOSURE_REVIEW"}) =>
                 project'[p].budget = project[p].budget]_vars

(* Custody changes by consent: on a ledger without holders an invoice      *)
(* passes to whom its holder offered it and who accepted, never after it   *)
(* was voided (RespondInvoiceTransfer).                                    *)
CustodyNeedsConsent ==
    [][NoRegisteredHolder =>
         \A i \in Invoices :
             InvoiceExists(i) /\ invoice'[i].holder # invoice[i].holder =>
                 /\ NotVoided(i)
                 /\ transfer[i].status = "PENDING" /\ transfer'[i].status = "ACCEPTED"
                 /\ transfer[i].from = invoice[i].holder
                 /\ transfer[i].to = invoice'[i].holder]_vars

(* The audit trail is complete: a change of holder puts a flow that names  *)
(* the old and the new holder, and a change of a project's balances puts   *)
(* an event on that project which names the claim that moved the money, if *)
(* one did (createFlow, createProjectEventWithReference).                  *)
ChangesAreEvidenced ==
    [][/\ \A i \in Invoices :
             InvoiceExists(i) /\ invoice'[i].holder # invoice[i].holder =>
                 /\ evidence'.log = "FLOW" /\ evidence'.of = i
                 /\ evidence'.from = invoice[i].holder
                 /\ evidence'.to = invoice'[i].holder
       /\ \A p \in Projects :
             project'[p].reserved # project[p].reserved =>
                 /\ evidence'.log = "PROJECT_EVENT" /\ evidence'.of = p
                 /\ evidence'.to \in Reimbursements
                 /\ reimbursement'[evidence'.to] # reimbursement[evidence'.to]]_vars

----------------------------------------------------------------------------
(* What the manual says and the code does not do; each is refuted by a run.*)

(* A number whose record was voided can be put on record again: the manual *)
(* offers a correction for a voided record.  InvoiceNumberExistsExcept     *)
(* counts the original of a correction that is voided itself.              *)
VoidedCanBeCorrected ==
    \A no \in Numbers :
        LET records == {i \in Invoices : InvoiceExists(i) /\ invoice[i].number = no}
        IN  records # {} /\ (\A i \in records : invoice[i].status = "VOIDED") =>
                \E i \in records : /\ EnsureInvoiceCanBeVoided(i)
                                   /\ ~InvoiceNumberExistsExcept(no, i)

(* An invoice stays valid when its void request is rejected:               *)
(* ReviewInvoiceVoid rejects without reading the invoice's status, which a *)
(* VoidInvoice may have changed since the request.                         *)
RejectedVoidKeepsInvoice ==
    [][\A i \in Invoices :
         voidRequest[i].status = "PENDING_REVIEW" /\ voidRequest'[i].status = "REJECTED" =>
             invoice'[i].status # "VOIDED"]_vars
============================================================================
