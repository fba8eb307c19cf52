CONSTANTS
    t1 = t1
    t2 = t2
    t3 = t3
    Threads <- MC_Threads
    Initers <- MC_Initers
    MaxOps = 1

SPECIFICATION Spec

SYMMETRY MC_Symmetry

PROPERTY InitNeverUndone
