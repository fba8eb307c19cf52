--------------------------- MODULE AbstractBarrier ---------------------------
(***************************************************************************)
(* What Barrier::wait promises (spec 4.6 and 8), with no mutex, condvar or *)
(* counter: a thread arrives; the NumThreads-th arrival of a round opens   *)
(* the barrier for everyone of that round at once and leaves immediately   *)
(* as its leader; every other thread of the round leaves some time later. *)
(* A thread makes Rounds calls.                                            *)
(***************************************************************************)
EXTENDS Naturals, FiniteSets

CONSTANTS Threads, NumThreads, Rounds

VARIABLES
    phase,      \* phase[t]: "out", "in" (arrived, round open) or "released"
    passed      \* passed[t]: calls of wait that returned to t

avars == <<phase, passed>>

Arrived == {t \in Threads : phase[t] = "in"}

AInit ==
    /\ phase = [t \in Threads |-> "out"]
    /\ passed = [t \in Threads |-> 0]

\* t arrives; if it completes the round it releases the others and leaves.
Arrive(t) ==
    /\ phase[t] = "out" /\ passed[t] < Rounds
    /\ IF Cardinality(Arrived) + 1 = NumThreads
         THEN /\ phase' = [u \in Threads |->
                             IF phase[u] = "in" THEN "released" ELSE phase[u]]
              /\ passed' = [passed EXCEPT ![t] = @ + 1]
         ELSE /\ phase' = [phase EXCEPT ![t] = "in"]
              /\ UNCHANGED passed

\* A released thread returns from wait.
Leave(t) ==
    /\ phase[t] = "released"
    /\ phase' = [phase EXCEPT ![t] = "out"]
    /\ passed' = [passed EXCEPT ![t] = @ + 1]

ANext == \E t \in Threads : Arrive(t) \/ Leave(t)

ASpec == AInit /\ [][ANext]_avars

AFairSpec == ASpec /\ \A t \in Threads : WF_avars(Arrive(t)) /\ WF_avars(Leave(t))

=============================================================================
