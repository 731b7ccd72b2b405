SPECIFICATION WatchFairSpec
CONSTANTS
    i1 = i1
    i2 = i2
    Inodes <- MCInodes
    NoInode = NoInode
    MaxWatches = 3
INVARIANT WatchTypeOK
PROPERTY ClosedForCause
PROPERTY WatchesEnd
CHECK_DEADLOCK FALSE
