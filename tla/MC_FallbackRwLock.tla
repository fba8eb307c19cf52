--------------------------- MODULE MC_FallbackRwLock ---------------------------
(* Model-checking instance of FallbackRwLock: three threads.               *)
EXTENDS FallbackRwLock, TLC

CONSTANTS t1, t2, t3

MC_Threads == {t1, t2, t3}


=============================================================================
