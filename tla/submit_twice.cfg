SPECIFICATION ThemesSpec
CONSTANTS
    None = None
    NoQuery = NoQuery
    Users = {u1, u2}
    Projects = {p1, p2}
    Queries = {NoQuery, q1}
    Mutations = {pay}
    Calls = {c1, c2, c3}
    MaxSessions = 3
    MaxHeight = 1
SYMMETRY PageSymmetry
CHECK_DEADLOCK FALSE
INVARIANTS
    NoSecondSubmission
