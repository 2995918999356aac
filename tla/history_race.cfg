SPECIFICATION Spec
CONSTANTS
    r1 = r1
    r2 = r2
    Reader = {r1}
    Consumer = Consumer
    Limit = 2
    MaxMessages = 4
    MaxReads = 1
    MaxCrashes = 0
    NoFile = NoFile
CHECK_DEADLOCK FALSE
INVARIANT ReadsAlwaysAtomic
