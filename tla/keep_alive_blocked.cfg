SPECIFICATION FairSpec
CONSTANTS
    MaxConnections = 3
    MaxFd = 1
    Kept = {1}
    Timeout = 3
INVARIANT AliveIsNotShut
