SPECIFICATION InvoicesSpec
CONSTANTS
    None = None
    org1 = org1
    team = team
    org2 = org2
    Users = {"ann", "amy", "hal", "holder-org2", "issuer-org1", "project-reviewer"}
    Orgs = {org1, team}
    Projects = {p1}
    Invoices = {i1, i2, i3}
    Numbers = {n1, n2}
    Reimbursements = {r1}
    Currencies = {"CNY"}
    Cents = {1}
    MaxMoneyCents = 1
    ProvisionedUsers <- StandardUsers
    ProvisionedOrgs <- StandardOrgs
SYMMETRY Symmetry
VIEW Ledger
CHECK_DEADLOCK FALSE
INVARIANTS
    OneValidRecordPerNumber
    CorrectionsReplaceVoided
    PendingTransferIsFromHolder
PROPERTIES
    CustodyNeedsConsent
    VoidedIsFrozen
    ChangesAreEvidenced
