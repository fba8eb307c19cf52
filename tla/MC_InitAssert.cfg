CONSTANTS
    t1 = t1
    t2 = t2
    t3 = t3
    Threads <- MC_Threads
    Initers <- MC_Initers
    MaxOps = 2

SPECIFICATION Spec

SYMMETRY MC_Symmetry

INVARIANT ConstructedOnce
INVARIANT UseOnlyAfterInit
