CONSTANTS
    t1 = t1
    t2 = t2
    t3 = t3
    NoThread = NoThread
    Threads <- MC_Threads
    Reentry <- MC_Granting
    MaxDepth = 2
    MaxOps = 2
    MaxReaders = 2

SPECIFICATION Spec

SYMMETRY MC_Symmetry

INVARIANT NoRaceOnWriteLocked
