------------------------- MODULE MCInvoiceContract -------------------------
(***************************************************************************)
(* Instances of the chaincode for TLC.  A slice leaves operations out, so  *)
(* that a run can afford larger sets for the rest.                         *)
(***************************************************************************)
EXTENDS InvoiceContract, MCLedger, TLC

\* A project and its claims, the invoices put on record and voided.
SettlementNext ==
    \/ ProjectNext
    \/ InvoiceNext
    \/ \E i \in Invoices, u \in Users, caller \in MSPs : VoidInvoice(i, u, caller)
    \/ ReimbursementNext

----------------------------------------------------------------------------
(* A run checks one theme or several, each with users of its own.          *)

VARIABLE theme

Members == INSTANCE InvoiceContract WITH
    Users <- {"ann", "project-reviewer", "issuer-org1"}

Administrators == INSTANCE InvoiceContract WITH
    Users <- {"ann", "project-reviewer", "org-admin", "org-admin-org2"}

Holders == INSTANCE InvoiceContract WITH
    Users <- {"ann", "amy", "project-reviewer", "issuer-org1", "holder-org2"}

RegisteredHolders == INSTANCE InvoiceContract WITH
    Users <- {"ann", "hal", "project-reviewer", "issuer-org1"}

\* Two projects that compete for two invoices, with void requests and claims.
ClaimsNext ==
    \/ Members!ProjectNext
    \/ Members!InvoiceNext
    \/ Members!VoidNext
    \/ Members!ReimbursementNext

\* The directory, and a project over it.
DirectorySlice ==
    /\ Administrators!DirectoryNext \/ Administrators!ProjectNext
    /\ Cardinality({p \in Projects : ProjectExists(p)'}) <= 1

\* Records of one project, their corrections and cancellation.
RecordsNext == Members!ProjectNext \/ Members!InvoiceNext \/ Members!VoidNext

\* An invoice and its correction that change hands, with and without a
\* registered holder.
OneNumber ==
    /\ Cardinality({i \in Invoices : InvoiceExists(i)}) <= 2
    /\ Cardinality({no \in Numbers : numberIndex[no] # None}) <= 1

CustodyNext ==
    /\ Holders!InvoiceNext \/ Holders!VoidNext \/ Holders!TransferNext
    /\ OneNumber'

DirectNext ==
    /\ \/ RegisteredHolders!InvoiceNext
       \/ RegisteredHolders!VoidNext
       \/ RegisteredHolders!TransferNext
    /\ OneNumber'

\* The ledger a theme starts from: the members a run provisions, a holder
\* besides, or nothing.
LedgerWith(users, orgs) ==
    INSTANCE InvoiceContract WITH ProvisionedUsers <- users, ProvisionedOrgs <- orgs

WithHolder == [u \in Users |-> IF u = "hal" THEN Holder(org1, "Org1MSP") ELSE StandardUsers[u]]

ThemeInit(themes) ==
    /\ theme \in themes
    /\ CASE theme = "directory" -> LedgerWith(NoUsers, NoOrgs)!Init
         [] theme = "direct" -> LedgerWith(WithHolder, StandardOrgs)!Init
         [] OTHER -> Init

ThemeNext ==
    /\ UNCHANGED theme
    /\ \/ theme = "settlement" /\ SettlementNext
       \/ theme = "claims" /\ ClaimsNext
       \/ theme = "directory" /\ DirectorySlice
       \/ theme = "records" /\ RecordsNext
       \/ theme = "custody" /\ CustodyNext
       \/ theme = "direct" /\ DirectNext

SettlementSpec == ThemeInit({"settlement"}) /\ [][ThemeNext]_<<theme, vars>>
ProjectsSpec == ThemeInit({"claims", "directory"}) /\ [][ThemeNext]_<<theme, vars>>
InvoicesSpec == ThemeInit({"records", "custody", "direct"}) /\ [][ThemeNext]_<<theme, vars>>
RecordsSpec == ThemeInit({"records"}) /\ [][ThemeNext]_<<theme, vars>>

\* The last evidence is written by every step and read by none, and the
\* properties read only its new value: two states that differ in nothing
\* else have the same futures.
Ledger == <<theme, directoryVars, projectVars, invoiceVars, voidRequest, transfer, claimVars>>

Symmetry == Permutations(Invoices) \cup Permutations(Reimbursements)
              \cup Permutations(Projects) \cup Permutations(Numbers)
============================================================================
