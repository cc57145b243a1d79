SPECIFICATION ProjectsSpec
CONSTANTS
    None = None
    org1 = org1
    team = team
    org2 = org2
    Users = {"ann", "project-reviewer", "issuer-org1", "org-admin", "org-admin-org2"}
    Orgs = {org1, team}
    Projects = {p1, p2}
    Invoices = {i1, i2}
    Numbers = {n1, n2}
    Reimbursements = {r1}
    Currencies = {"CNY", "USD"}
    Cents = {1}
    MaxMoneyCents = 1
    ProvisionedUsers <- StandardUsers
    ProvisionedOrgs <- StandardOrgs
SYMMETRY Symmetry
VIEW Ledger
CHECK_DEADLOCK FALSE
INVARIANTS
    LinkedInvoicesMatchProject
    ClaimsRestOnInvoices
    MembersBelongToProject
    ReviewersAreNotApplicants
