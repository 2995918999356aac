SPECIFICATION Spec
CONSTANTS
    c1 = c1
    c2 = c2
    c3 = c3
    c4 = c4
    u1 = u1
    g1 = g1
    g2 = g2
    f1 = f1
    f2 = f2
    Client = {c1, c2}
    User = {u1}
    Group = {g1, g2}
    FE = {f1, f2}
    UserOf <- MCUserOf
    GroupOf <- MCGroupOf
    FeOf <- MCFeOf
    MaxSessions = 2
    EarlyTimeout = FALSE
    FeTagStable = TRUE
    OldGroups = {g1, g2}
    NoGroup = NoGroup
    NoClient = NoClient
CHECK_DEADLOCK FALSE
INVARIANT ClosedOnce
