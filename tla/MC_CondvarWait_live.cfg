CONSTANTS
    w1 = w1
    w2 = w2
    n1 = n1
    n2 = n2
    NoThread = NoThread
    Waiters <- MC_Waiters1
    Untimed = {}
    Notifiers <- MC_Notifiers2
    Threads = {w1, n1, n2}
    Dur = 3
    MaxTime = 2
    MaxSpurious = 1

SPECIFICATION FairSpec

PROPERTY WaiterReturns

CHECK_DEADLOCK FALSE
