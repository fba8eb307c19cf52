--------------------------- MODULE MC_InitAssert ---------------------------
EXTENDS InitAssert, TLC

CONSTANTS t1, t2, t3

\* Three threads sharing a static primitive; two of them race to init it.
MC_Threads == {t1, t2, t3}
MC_Initers == {t1, t2}
MC_Symmetry == Permutations(MC_Initers)
=============================================================================
