SPECIFICATION StoreSpec
CONSTANTS
    None = None
    Names = {n1, n2, n3, demo}
    DemoNames = {demo}
    Requests = {q1, q2, q3}
    MaxDamage = 1
SYMMETRY StoreSymmetry
CHECK_DEADLOCK FALSE
PROPERTIES
    DeletionClearsLogins
