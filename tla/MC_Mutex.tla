------------------------------ MODULE MC_Mutex ------------------------------
(* Model-checking instance of Mutex: three threads, two calls each.       *)
EXTENDS Mutex, TLC

CONSTANTS t1, t2, t3

MC_Threads == {t1, t2, t3}


=============================================================================
