------------------------------ MODULE MC_RwLock ------------------------------
(* Model-checking instances of RwLock: three threads, two calls each, at  *)
(* most two nested guards per thread.                                     *)
EXTENDS RwLock, TLC

CONSTANTS t1, t2, t3

MC_Threads == {t1, t2, t3}

MC_Symmetry == Permutations(MC_Threads)

\* A pthread library that may deadlock-detect or (glibc < 2.25) grant.
MC_AnyReentry == {"OK", "EDEADLK"}

\* A conforming pthread library: reentry is reported as EDEADLK.
MC_Conforming == {"EDEADLK"}

\* A pthread library that grants reentry.
MC_Granting == {"OK"}

=============================================================================
