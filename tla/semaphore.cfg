SPECIFICATION SemSpec
CONSTANTS
    t1 = t1
    t2 = t2
    t3 = t3
    t4 = t4
    t5 = t5
    Thread <- AllThreads
    Permits = 1
    MaxSpurious = 2
INVARIANTS HoldersBounded BlockedOnlyBehindHolders
PROPERTY LockSpec
