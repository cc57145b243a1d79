-------------------------- MODULE InvoiceTransfers --------------------------
(***************************************************************************)
(* Custody of an invoice: the handshake of request and answer, and the     *)
(* direct transfer that the chaincode offers next to it.                   *)
(***************************************************************************)
EXTENDS LedgerState

HandoffRoles == {"ISSUER", "HOLDER", "PROJECT_MEMBER"}

TransferFrame == UNCHANGED <<directoryVars, projectVars, numberIndex, voidRequest, claimVars>>

\* Fault: a demo account will do.
RequireActiveHolderOrDemo(u, msp) == RequireRegisteredRole(u, msp, {"HOLDER"})

\* requireActiveHolder: a ledger record is needed, a demo account will not do.
RequireActiveHolder(u, msp) ==
    user[u].status = "ACTIVE" /\ user[u].msp = msp /\ user[u].role = "HOLDER"

HandedTo(inv, u, msp) ==
    [inv EXCEPT !.holder = u, !.holderMsp = msp,
                !.holderOrg = BusinessUserOrganization(u), !.status = "IN_CIRCULATION"]

TransferInvoice(i, to, toMsp, operator, caller) ==
    /\ NotVoided(i)
    /\ to # invoice[i].holder
    /\ RequireActiveHolder(to, toMsp)
    /\ caller = invoice[i].holderMsp
    /\ operator = invoice[i].holder
    /\ RequireActiveBusinessUser(operator, caller, caller, HandoffRoles)
    /\ SameOrganization(invoice[i].holderOrg, BusinessUserOrganization(operator))
    /\ invoice' = [invoice EXCEPT ![i] = HandedTo(invoice[i], to, toMsp)]
    /\ evidence' = Flow(i, "TRANSFER", operator, to)
    /\ UNCHANGED transfer
    /\ TransferFrame

\* The holder keeps custody until the recipient accepts.
RequestInvoiceTransfer(i, to, toMsp, operator, caller) ==
    /\ NotVoided(i)
    /\ to # invoice[i].holder
    /\ caller = invoice[i].holderMsp
    /\ operator = invoice[i].holder
    /\ RequireActiveBusinessUser(operator, caller, caller, HandoffRoles)
    /\ RequireRegisteredRole(to, toMsp, HandoffRoles)
    /\ transfer[i].status # "PENDING"
    /\ transfer' = [transfer EXCEPT ![i] =
                      [status |-> "PENDING", from |-> operator, to |-> to, toMsp |-> toMsp]]
    /\ evidence' = Flow(i, "TRANSFER_REQUEST", operator, to)
    /\ UNCHANGED invoice
    /\ TransferFrame

\* Fault: the acceptance does not read the invoice again.
StillAvailableUnchecked(i) == TRUE

StillAvailable(i) == invoice[i].holder = transfer[i].from /\ NotVoided(i)

RespondInvoiceTransfer(i, decision, recipient, caller) ==
    /\ transfer[i].status = "PENDING"
    /\ recipient = transfer[i].to
    /\ RequireActiveBusinessUser(recipient, transfer[i].toMsp, caller, HandoffRoles)
    /\ \/ /\ decision = "REJECT"
          /\ transfer' = [transfer EXCEPT ![i].status = "REJECTED"]
          /\ evidence' = Flow(i, "TRANSFER_REJECTED", transfer[i].from, recipient)
          /\ UNCHANGED invoice
       \/ /\ decision = "ACCEPT"
          /\ StillAvailable(i)
          /\ invoice' = [invoice EXCEPT ![i] =
                           HandedTo(invoice[i], recipient, transfer[i].toMsp)]
          /\ transfer' = [transfer EXCEPT ![i].status = "ACCEPTED"]
          /\ evidence' = Flow(i, "TRANSFER_ACCEPTED", transfer[i].from, recipient)
    /\ TransferFrame

\* The one operation that does not look at the caller's certificate.
CancelInvoiceTransfer(i, operator) ==
    /\ transfer[i].status = "PENDING"
    /\ operator = transfer[i].from
    /\ InvoiceExists(i)
    /\ invoice[i].holder = operator
    /\ transfer' = [transfer EXCEPT ![i].status = "CANCELLED"]
    /\ evidence' = Flow(i, "TRANSFER_CANCELLED", operator, transfer[i].to)
    /\ UNCHANGED invoice
    /\ TransferFrame

TransferNext ==
    \E i \in Invoices, u \in Users :
        \/ \E to \in Users, toMsp, caller \in MSPs :
              TransferInvoice(i, to, toMsp, u, caller)
        \/ \E to \in Users, toMsp, caller \in MSPs :
              RequestInvoiceTransfer(i, to, toMsp, u, caller)
        \/ \E decision \in {"ACCEPT", "REJECT"}, caller \in MSPs :
              RespondInvoiceTransfer(i, decision, u, caller)
        \/ CancelInvoiceTransfer(i, u)
============================================================================
