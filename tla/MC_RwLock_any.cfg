CONSTANTS
    t1 = t1
    t2 = t2
    t3 = t3
    NoThread = NoThread
    Threads <- MC_Threads
    Reentry <- MC_AnyReentry
    MaxDepth = 2
    MaxOps = 3
    MaxReaders = 2

SPECIFICATION Spec

SYMMETRY MC_Symmetry

INVARIANT TypeOK
INVARIANT RwExclusion
INVARIANT BookkeepingExact
INVARIANT PoisonOnlyByWriterPanic
PROPERTY RwLockRefinesAbstract

CHECK_DEADLOCK FALSE
