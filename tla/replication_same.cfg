SPECIFICATION Spec
CONSTANTS
    f1 = f1
    f2 = f2
    RM <- MCRM
    SocketOf <- MCSocketOf
    FirstPrimary = 1
    FE = {f1, f2}
    Traffic <- MCJoinThenMessage
    MaxCrashes = 0
    NoRM = NoRM
    NoFE = NoFE
CHECK_DEADLOCK FALSE
INVARIANT SameData
