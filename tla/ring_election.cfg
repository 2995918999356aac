SPECIFICATION FairSpec
CONSTANTS
    N = 4
    Id <- MCShuffled
    MaxCrashes = 3
    MaxThreads = 2
    MaxSockets = 6
    Overlap = FALSE
CHECK_DEADLOCK FALSE
INVARIANTS AtMostOnePrimary Agreement
PROPERTIES HighestWins RingHasPrimary
