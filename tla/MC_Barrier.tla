----------------------------- MODULE MC_Barrier -----------------------------
EXTENDS Barrier, TLC

CONSTANTS t1, t2, t3

MC_Threads == {t1, t2, t3}
MC_Symmetry == Permutations(MC_Threads)
=============================================================================
