SPECIFICATION RegistrationSpec
CONSTANTS
    None = None
    Names = {n1, n2, n3, demo}
    DemoNames = {demo}
    Requests = {q1, q2, q3}
    MaxDamage = 3
CHECK_DEADLOCK FALSE
INVARIANTS
    RegistrationTypeOK
    AccountsMatchLedger
    ChainOnlyNeedsTrouble
    LossIsBounded
PROPERTIES
    UsesAccountStore
    BackupStaysUsable
    RequestsAreAnswered
