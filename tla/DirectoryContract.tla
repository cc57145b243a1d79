------------------------- MODULE DirectoryContract -------------------------
(***************************************************************************)
(* The business directory: organizations and users on the ledger.  Both    *)
(* are written once and never changed.                                     *)
(***************************************************************************)
EXTENDS LedgerState

\* Public registration creates project members only; every other role comes
\* from the provisioned directory or the demo accounts.
RegisterBusinessUser(u, msp, org, caller) ==
    /\ msp \in MSPs /\ caller = msp
    /\ organization[org].status = "ACTIVE"
    /\ organization[org].msp = msp
    /\ ~UserExists(u)
    /\ user' = [user EXCEPT ![u] = [status |-> "ACTIVE", msp |-> msp,
                                    role |-> "PROJECT_MEMBER", org |-> org]]
    /\ evidence' = NoEvidence
    /\ UNCHANGED <<organization, projectVars, invoiceVars, voidRequest,
                   transfer, claimVars>>

\* A team needs an existing primary organization above it, of either MSP.
CreateBusinessOrganization(o, type, parent, creator, caller) ==
    /\ RequireActiveBusinessUser(creator, caller, caller, {"ORG_ADMIN"})
    /\ IF type = "PROJECT_TEAM"
       THEN parent # None /\ OrganizationExists(parent)
            /\ organization[parent].type = "PRIMARY"
       ELSE parent = None
    /\ ~OrganizationExists(o)
    /\ organization' = [organization EXCEPT ![o] =
                          [status |-> "ACTIVE", msp |-> caller,
                           type |-> type, parent |-> parent]]
    /\ evidence' = NoEvidence
    /\ UNCHANGED <<user, projectVars, invoiceVars, voidRequest, transfer,
                   claimVars>>

DirectoryNext ==
    \/ \E u \in Users, o \in Orgs, caller, msp \in MSPs :
          RegisterBusinessUser(u, msp, o, caller)
    \/ \E o \in Orgs, type \in {"PRIMARY", "PROJECT_TEAM", "EXTERNAL"},
          parent \in Orgs \cup {None}, creator \in Users, caller \in MSPs :
          CreateBusinessOrganization(o, type, parent, creator, caller)
============================================================================
