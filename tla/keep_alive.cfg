SPECIFICATION FairSpec
CONSTANTS
    MaxConnections = 3
    MaxFd = 1
    Kept = {1}
    Timeout = 3
INVARIANTS SilentIsShut ShutForAReason
PROPERTY Reclaimed
