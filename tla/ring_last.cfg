SPECIFICATION FairSpec
CONSTANTS
    N = 2
    Id <- MCAscending
    MaxCrashes = 1
    MaxThreads = 2
    MaxSockets = 6
    Overlap = FALSE
CHECK_DEADLOCK FALSE
PROPERTY PrimaryEventually
