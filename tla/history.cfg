SPECIFICATION Spec
CONSTANTS
    r1 = r1
    r2 = r2
    Reader = {r1, r2}
    Consumer = Consumer
    Limit = 2
    MaxMessages = 5
    MaxReads = 1
    MaxCrashes = 2
    NoFile = NoFile
CHECK_DEADLOCK FALSE
SYMMETRY ReaderSymmetry
INVARIANTS ReadsAreAtomic RecentOnDisk TempHasOwner LoneReadIsCropped
