CONSTANTS
    t1 = t1
    t2 = t2
    t3 = t3
    NoThread = NoThread
    Threads <- MC_Threads
    WriterPreferring = TRUE
    MaxDepth = 2
    MaxOps = 2

SPECIFICATION FairSpec

INVARIANT IntoInnerReportsWriterPanic
PROPERTY FallbackRefinesAbstract
PROPERTY CallsReturn

CHECK_DEADLOCK FALSE
