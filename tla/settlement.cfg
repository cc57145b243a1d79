SPECIFICATION SettlementSpec
CONSTANTS
    None = None
    org1 = org1
    team = team
    org2 = org2
    Users = {"ann", "project-reviewer", "finance-admin", "issuer-org1"}
    Orgs = {org1, team}
    Projects = {p1}
    Invoices = {i1, i2}
    Numbers = {n1, n2}
    Reimbursements = {r1, r2, r3}
    Currencies = {"CNY"}
    Cents = {0, 1, 2}
    MaxMoneyCents = 2
    ProvisionedUsers <- StandardUsers
    ProvisionedOrgs <- StandardOrgs
SYMMETRY Symmetry
VIEW Ledger
CHECK_DEADLOCK FALSE
INVARIANTS
    TypeOK
    BudgetConserved
    BalancesAreBacked
    OneClaimPerInvoice
    ArchivedIsSettled
    BalanceChecksNeverRefuse
PROPERTIES
    SettledIsFinal
    
