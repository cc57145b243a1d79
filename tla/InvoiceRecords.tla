--------------------------- MODULE InvoiceRecords ---------------------------
(***************************************************************************)
(* Putting an invoice on record, correcting a voided one, its association  *)
(* with a project, and its cancellation, directly by the issuer or through *)
(* a void request.                                                         *)
(***************************************************************************)
EXTENDS LedgerState

\* The index, and a scan for records older than the index.
InvoiceNumberExists(no) ==
    \/ numberIndex[no] # None
    \/ \E i \in Invoices : InvoiceExists(i) /\ invoice[i].number = no

\* Fault: no other record of the number is looked for.
InvoiceNumberExistsExceptUnchecked(no, except) == FALSE

InvoiceNumberExistsExcept(no, except) ==
    \/ numberIndex[no] \notin {None, except}
    \/ \E i \in Invoices \ {except} : InvoiceExists(i) /\ invoice[i].number = no

\* The project an invoice names when it is put on record.
LinkableAtCreation(p, holder, issuerOrg, caller) ==
    /\ OpenForAssociation(p)
    /\ project[p].msp = caller
    /\ project[p].org \in {None, issuerOrg}
    /\ RequireProjectMember(p, holder, caller)

\* Fault: the original need not be voided.
CorrectsWhatever(original, no, issuerOrg, caller) ==
    /\ InvoiceExists(original)
    /\ invoice[original].number = no
    /\ ~InvoiceNumberExistsExcept(no, original)

\* What correctionOf must name.
Corrects(original, no, issuerOrg, caller) ==
    /\ invoice[original].status = "VOIDED"
    /\ invoice[original].issuerMsp = caller
    /\ invoice[original].issuerOrg \in {None, issuerOrg}
    /\ invoice[original].number = no
    /\ EnsureInvoiceCanBeVoided(original)
    /\ ~InvoiceNumberExistsExcept(no, original)

\* `org' is the organization the request names, None for the creator's own;
\* `total' is amount plus tax, which checkedAddMoney bounds.
CreateInvoice(i, no, total, currency, holder, org, p, correctionOf, caller) ==
    LET creatorOrg == BusinessUserOrganization(holder)
        issuerOrg == IF org = None THEN creatorOrg ELSE org
    IN  /\ ~InvoiceExists(i)
        /\ currency \in {None, "CNY"}
        /\ RequireActiveBusinessUser(holder, caller, caller, {"ISSUER", "PROJECT_MEMBER"})
        /\ creatorOrg \in {None, issuerOrg}
        /\ p # None => LinkableAtCreation(p, holder, issuerOrg, caller)
        /\ total > 0 /\ total <= MaxMoneyCents
        /\ correctionOf = None => ~InvoiceNumberExists(no)
        /\ correctionOf # None => Corrects(correctionOf, no, issuerOrg, caller)
        /\ invoice' = [invoice EXCEPT ![i] =
                         [status |-> "ISSUED", number |-> no, total |-> total, currency |-> "CNY",
                          issuerMsp |-> caller, issuerOrg |-> issuerOrg,
                          holder |-> holder, holderMsp |-> caller, holderOrg |-> issuerOrg,
                          project |-> p, correctionOf |-> correctionOf]]
        /\ numberIndex' = [numberIndex EXCEPT ![no] = i]
        /\ evidence' = Flow(i, IF correctionOf = None THEN "ISSUE" ELSE "CORRECTION",
                            None, holder)
        /\ UNCHANGED <<directoryVars, projectVars, voidRequest, transfer, claimVars>>

\* Fault: the organizations are not compared.
SameIssuerOrganizationUnchecked(i, p) == invoice[i].issuerMsp = project[p].msp

SameIssuerOrganization(i, p) ==
    /\ invoice[i].issuerMsp = project[p].msp
    /\ SameOrganization(invoice[i].issuerOrg, project[p].org)

LinkInvoiceToProject(i, p, operator, caller) ==
    /\ NotVoided(i)
    /\ invoice[i].project = None
    /\ EnsureInvoiceCanBeVoided(i)
    /\ OpenForAssociation(p)
    /\ RequireProjectMember(p, operator, caller)
    /\ SameIssuerOrganization(i, p)
    /\ invoice' = [invoice EXCEPT ![i].project = p]
    /\ evidence' = ProjectEvent(p, "LINK_INVOICE", operator, i)
    /\ UNCHANGED <<directoryVars, projectVars, numberIndex, voidRequest, transfer, claimVars>>

\* Fault: the reimbursement link is not consulted.
SeparableWhileClaimed(i) == NotVoided(i) /\ invoice[i].project # None

\* An association may be undone until a reimbursement claims the invoice.
Separable(i) ==
    /\ NotVoided(i)
    /\ invoice[i].project # None
    /\ EnsureInvoiceCanBeVoided(i)

UnlinkInvoiceFromProject(i, operator, caller) ==
    LET p == invoice[i].project
    IN  /\ Separable(i)
        /\ ProjectExists(p)
        /\ project[p].status # "ARCHIVED"
        /\ RequireProjectMember(p, operator, caller)
        /\ SameIssuerOrganization(i, p)
        /\ invoice' = [invoice EXCEPT ![i].project = None]
        /\ evidence' = ProjectEvent(p, "UNLINK_INVOICE", operator, i)
        /\ UNCHANGED <<directoryVars, projectVars, numberIndex, voidRequest, transfer, claimVars>>

\* The issuer organization's authority over an invoice.
RequireIssuer(i, operator, caller) ==
    /\ RequireActiveBusinessUser(operator, invoice[i].issuerMsp, caller, {"ISSUER"})
    /\ SameOrganization(invoice[i].issuerOrg, BusinessUserOrganization(operator))

VoidInvoice(i, operator, caller) ==
    /\ NotVoided(i)
    /\ RequireIssuer(i, operator, caller)
    /\ EnsureInvoiceCanBeVoided(i)
    /\ invoice' = [invoice EXCEPT ![i].status = "VOIDED"]
    /\ evidence' = Flow(i, "VOID", invoice[i].holder, None)
    /\ UNCHANGED <<directoryVars, projectVars, numberIndex, voidRequest, transfer, claimVars>>

RequestInvoiceVoid(i, applicant, caller) ==
    /\ NotVoided(i)
    /\ EnsureInvoiceCanBeVoided(i)
    /\ invoice[i].project # None
    /\ ProjectExists(invoice[i].project)
    /\ RequireProjectMember(invoice[i].project, applicant, caller)
    /\ voidRequest[i].status # "PENDING_REVIEW"
    /\ voidRequest' = [voidRequest EXCEPT ![i] =
                         [status |-> "PENDING_REVIEW", applicant |-> applicant]]
    /\ evidence' = Flow(i, "VOID_REQUEST", applicant, None)
    /\ UNCHANGED <<directoryVars, projectVars, invoiceVars, transfer, claimVars>>

\* A rejection does not read the invoice's status; an approval does.
ReviewInvoiceVoid(i, decision, reviewer, caller) ==
    /\ InvoiceExists(i)
    /\ voidRequest[i].status = "PENDING_REVIEW"
    /\ RequireIssuer(i, reviewer, caller)
    /\ \/ /\ decision = "REJECT"
          /\ voidRequest' = [voidRequest EXCEPT ![i].status = "REJECTED"]
          /\ evidence' = Flow(i, "VOID_REJECTED", reviewer, voidRequest[i].applicant)
          /\ UNCHANGED invoice
       \/ /\ decision = "APPROVE"
          /\ NotVoided(i)
          /\ EnsureInvoiceCanBeVoided(i)
          /\ voidRequest' = [voidRequest EXCEPT ![i].status = "APPROVED"]
          /\ invoice' = [invoice EXCEPT ![i].status = "VOIDED"]
          /\ evidence' = Flow(i, "VOID", invoice[i].holder, None)
    /\ UNCHANGED <<directoryVars, projectVars, numberIndex, transfer, claimVars>>

InvoiceNext ==
    \E i \in Invoices, u \in Users, caller \in MSPs :
        \/ \E no \in Numbers, total \in Cents, currency \in Currencies,
              org \in Orgs \cup {None}, p \in Projects \cup {None},
              original \in Invoices \cup {None} :
              CreateInvoice(i, no, total, currency, u, org, p, original, caller)
        \/ \E p \in Projects : LinkInvoiceToProject(i, p, u, caller)
        \/ UnlinkInvoiceFromProject(i, u, caller)

VoidNext ==
    \E i \in Invoices, u \in Users, caller \in MSPs :
        \/ VoidInvoice(i, u, caller)
        \/ RequestInvoiceVoid(i, u, caller)
        \/ \E decision \in {"APPROVE", "REJECT"} : ReviewInvoiceVoid(i, decision, u, caller)
============================================================================
