SPECIFICATION ThemesSpec
CONSTANTS
    None = None
    org1 = org1
    team = team
    org2 = org2
    p1 = p1
    i1 = i1
    i2 = i2
    n1 = n1
    n2 = n2
    Users = {"ann", "project-reviewer", "finance-admin", "issuer-org1"}
    Orgs = {org1, team}
    Projects = {p1}
    Invoices = {i1, i2}
    Numbers = {n1, n2}
    Reimbursements = {r1, r2}
    Currencies = {"CNY"}
    Cents = {1}
    MaxMoneyCents = 1
    Slots = {t1, t2}
    ProvisionedUsers <- StandardUsers
    ProvisionedOrgs <- StandardOrgs
SYMMETRY FabricSymmetry
VIEW FabricView
CHECK_DEADLOCK FALSE
INVARIANTS
    ConcurrentClaimsAreSafe
    ConcurrentNumbersAreUnique
    SettlementLeavesNoClaim
PROPERTIES
    CommitsAreAtomic
