CONSTANTS
    s1 = s1  s2 = s2  u1 = u1  u2 = u2  r1 = r1  r2 = r2
    None = None
    Sessions = {s1, s2}
    Users = {u1, u2}
    UserOf <- MCUserOf
    Requests = {r1, r2}
    MaxGeneration = 4
    MaxSearches = 3
SPECIFICATION Spec
SYMMETRY RequestSymmetry
CHECK_DEADLOCK FALSE
INVARIANTS WebClientTypeOK ShownUserIsCurrent ResultsMatchRequest
