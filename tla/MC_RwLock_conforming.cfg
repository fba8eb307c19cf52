CONSTANTS
    t1 = t1
    t2 = t2
    t3 = t3
    NoThread = NoThread
    Threads <- MC_Threads
    Reentry <- MC_Conforming
    MaxDepth = 2
    MaxOps = 3
    MaxReaders = 2

SPECIFICATION FairSpec

INVARIANT GuardsBackedByNative
INVARIANT NoSpuriousDeadlockPanic
PROPERTY CallsReturn

CHECK_DEADLOCK FALSE
