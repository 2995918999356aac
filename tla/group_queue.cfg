SPECIFICATION FairSpec
CONSTANTS
    f1 = f1
    f2 = f2
    m1 = m1
    c1 = c1
    c2 = c2
    u1 = u1
    FE = {f1, f2}
    Client = {c1, c2}
    User = {u1}
    MonitorOf <- MCMonitorOf
    UserOf <- MCUserOf
    FeOf <- MCFeOf
    Limit = 2
    MaxMessages = 2
    Consumer = Consumer
    Nobody = Nobody
CHECK_DEADLOCK FALSE
INVARIANTS NoneStranded MembersInStep ActivityTrue
PROPERTIES Delivered RoomSpec
