CONSTANTS
    w1 = w1
    w2 = w2
    n1 = n1
    n2 = n2
    NoThread = NoThread
    Waiters <- MC_Waiters2
    Untimed = {w2}
    Notifiers <- MC_Notifiers1
    Threads = {w1, w2, n1}
    Dur = 1
    MaxTime = 3
    MaxSpurious = 1

SPECIFICATION Spec

INVARIANT BlockedNoLongerThanDur
PROPERTY PoisonReportedAfterWait
