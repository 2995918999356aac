SPECIFICATION Spec
CONSTANTS
    N = 4
    Id <- MCAscending
    MaxCrashes = 2
    MaxThreads = 2
    MaxSockets = 6
    Overlap = TRUE
CHECK_DEADLOCK FALSE
INVARIANT AtMostOnePrimary
