--------------------------- MODULE MC_CondvarWait ---------------------------
EXTENDS CondvarWait, TLC

CONSTANTS w1, w2, n1, n2

MC_Waiters2 == {w1, w2}
MC_Waiters1 == {w1}
MC_Notifiers1 == {n1}
MC_Notifiers2 == {n1, n2}
MC_Symmetry == Permutations(MC_Waiters2) \cup Permutations(MC_Notifiers2)
=============================================================================
