SPECIFICATION RecordsSpec
CONSTANTS
    None = None
    org1 = org1
    team = team
    org2 = org2
    Users = {"ann", "issuer-org1", "project-reviewer"}
    Orgs = {org1, team}
    Projects = {p1}
    Invoices = {i1}
    Numbers = {n1}
    Reimbursements = {r1}
    Currencies = {"CNY"}
    Cents = {1}
    MaxMoneyCents = 1
    ProvisionedUsers <- StandardUsers
    ProvisionedOrgs <- StandardOrgs
SYMMETRY Symmetry
VIEW Ledger
CHECK_DEADLOCK FALSE
PROPERTIES
    RejectedVoidKeepsInvoice
