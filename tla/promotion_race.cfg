SPECIFICATION Spec
CONSTANTS
    NumFe = 1
    MaxMessages = 1
CHECK_DEADLOCK FALSE
PROPERTY AcceptedIsReplicated
