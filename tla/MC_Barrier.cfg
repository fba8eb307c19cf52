CONSTANTS
    t1 = t1
    t2 = t2
    t3 = t3
    NoThread = NoThread
    Threads <- MC_Threads
    NumThreads = 3
    Rounds = 3
    GenWidth = 1
    MaxSpurious = 1

SPECIFICATION FairSpec

INVARIANT TypeOK
INVARIANT OneLeaderPerRound
INVARIANT NoEarlyLeave
PROPERTY BarrierRefinesAbstract
PROPERTY AllWaitsReturn

CHECK_DEADLOCK FALSE
