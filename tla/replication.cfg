SPECIFICATION FairSpec
CONSTANTS
    f1 = f1
    f2 = f2
    RM <- MCRM
    SocketOf <- MCSocketOf
    FirstPrimary = 1
    FE = {f1, f2}
    Traffic <- MCJoinThenMessage
    MaxCrashes = 2
    NoRM = NoRM
    NoFE = NoFE
CHECK_DEADLOCK FALSE
INVARIANTS AnsweredSurvives FifoPerFrontEnd BackupsAgree
PROPERTIES PacketHandled ServiceSpec
