------------------------------ MODULE MCLedger ------------------------------
(***************************************************************************)
(* The directories the runs on the ledger start from.                      *)
(***************************************************************************)
EXTENDS LedgerState

CONSTANTS org1, team, org2

\* Ledger records an administrator, or earlier transactions, put.
Member(o, msp) == [status |-> "ACTIVE", msp |-> msp, role |-> "PROJECT_MEMBER", org |-> o]
Holder(o, msp) == [status |-> "ACTIVE", msp |-> msp, role |-> "HOLDER", org |-> o]

NoUsers == [u \in Users |-> AbsentUser]
NoOrgs == [o \in Orgs |-> AbsentOrganization]

\* org1 with its project team, and org2 of the other MSP.
StandardOrgs ==
    [o \in Orgs |->
        IF o = org1 THEN [status |-> "ACTIVE", msp |-> "Org1MSP", type |-> "PRIMARY", parent |-> None]
        ELSE IF o = team
        THEN [status |-> "ACTIVE", msp |-> "Org1MSP", type |-> "PROJECT_TEAM", parent |-> org1]
        ELSE [status |-> "ACTIVE", msp |-> "Org2MSP", type |-> "PRIMARY", parent |-> None]]

\* Where the registered members ann and amy belong.
Home == IF team \in Orgs THEN team ELSE org1

StandardUsers ==
    [u \in Users |-> IF u \in {"ann", "amy"} THEN Member(Home, "Org1MSP") ELSE AbsentUser]
=============================================================================
