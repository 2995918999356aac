SPECIFICATION FairSpec
CONSTANTS
    c1 = c1
    c2 = c2
    nothing = nothing
    Client <- MCClient
    Leaver <- MCLeaver
    MaxMessages <- MCMessages
    MaxServers = 2
    Doubted = {1}
    Nothing = nothing
INVARIANTS NothingOverwritten AckMeansHandled UsersOwnSockets
PROPERTIES HandledOnce SlotFreed ConnectsEventually
CHECK_DEADLOCK FALSE
