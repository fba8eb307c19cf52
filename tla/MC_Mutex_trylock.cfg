CONSTANTS
    t1 = t1
    t2 = t2
    t3 = t3
    NoThread = NoThread
    Threads <- MC_Threads
    MaxOps = 2

SPECIFICATION Spec

INVARIANT TryLockNeverBlocks
