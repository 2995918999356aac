SPECIFICATION Spec
CONSTANTS
    N = 3
    Id <- MCAscending
    MaxCrashes = 2
    MaxThreads = 3
    MaxSockets = 8
    Overlap = TRUE
CHECK_DEADLOCK FALSE
INVARIANT AtMostOnePrimary
