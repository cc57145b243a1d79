SPECIFICATION MCRestSpec
CONSTANTS
    None = None
    org1 = org1
    team = team
    org2 = org2
    Users = {"ann", "bob", "org-admin", "issuer-org1", "holder-org2", "project-reviewer", "finance-admin"}
    Orgs = {team, org1, org2}
    Projects = {p1}
    Invoices = {i1}
    Numbers = {n1}
    Reimbursements = {r1}
    Currencies = {"CNY"}
    Cents = {1}
    MaxMoneyCents = 1
    ProvisionedUsers <- NoUsers
    ProvisionedOrgs <- Org1Orgs
VIEW RestView
CHECK_DEADLOCK FALSE
INVARIANTS
    ApprovedVoidIsVoided
    ListsAreOfTheirTime
PROPERTIES
    ActorsSeeWhatTheyTouch
