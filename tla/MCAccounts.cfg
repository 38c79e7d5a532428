CONSTANTS
    u1 = u1  u2 = u2  i1 = i1  i2 = i2  l1 = l1  l2 = l2
    w1 = w1  w2 = w2  c1 = c1  c2 = c2  s1 = s1  s2 = s2  e1 = e1  e2 = e2
    None = None
    Users = {u1, u2}
    Identities = {i1, i2}
    Emails = {e1, e2}
    Links = {l1, l2}
    Workspaces = {w1, w2}
    Legacy = {w1}
    Sessions = {s1, s2}
    Ending = {s1}
    Calls = {c1, c2}
    Budget = 2
    EmailOf <- MCEmailOf
    IdentityOf <- MCIdentityOf
    Grants <- MCGrants
    Wishes <- MCWishes
    Histories <- MCHistories
SPECIFICATION FairSpec
CHECK_DEADLOCK FALSE
INVARIANTS AccountsTypeOK SessionsAreEarned NoFalseRecovery
PROPERTIES NoSilentUnion CallsEnd ImplementsHomes
