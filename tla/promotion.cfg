SPECIFICATION FairSpec
CONSTANTS
    NumFe = 2
    MaxMessages = 1
CHECK_DEADLOCK FALSE
INVARIANTS OwnAddress
PROPERTIES AcceptedIsShown ReplicatesInTheEnd Served
