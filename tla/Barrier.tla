------------------------------ MODULE Barrier ------------------------------
(***************************************************************************)
(* barrier.rs: a Mutex<BarrierState { count, generation_id }> and a        *)
(* Condvar, composed from the fragments of Condvar.tla.  Each of the       *)
(* threads calls wait() Rounds times on a barrier for NumThreads threads.  *)
(*                                                                         *)
(* generation_id is a usize advanced with wrapping_add; here it has        *)
(* GenWidth bits, so it wraps after 2^GenWidth rounds.  Nothing in the     *)
(* barrier panics while it holds the mutex, so the flag stays clear and    *)
(* the unwraps never fire; they are not modelled.                          *)
(***************************************************************************)
EXTENDS Naturals, FiniteSets, Condvar

CONSTANTS
    NumThreads,     \* Barrier.num_threads
    Rounds,         \* calls of wait() by each thread
    GenWidth,       \* bits of generation_id
    MaxSpurious     \* bound on the spurious wake-ups of one thread

ASSUME /\ NumThreads \in Nat \ {0} /\ Cardinality(Threads) = NumThreads
       /\ {Rounds, GenWidth, MaxSpurious} \subseteq Nat /\ GenWidth > 0

VARIABLES
    count,          \* BarrierState.count
    generation_id,  \* BarrierState.generation_id
    pc,             \* pc[t]: where thread t is in wait()
    local_gen,      \* local_gen[t]: wait()'s local_gen
    rounds,         \* rounds[t]: calls of wait() that returned to t
    arrived,        \* history: arrived[t] counts t's increments of count
    leaders,        \* history: leaders[k] counts leader results of k-th calls
    spurious        \* spurious[t]: spurious wake-ups of t so far

vars == <<owner, failed, waiters, woken, count, generation_id, pc, local_gen,
          rounds, arrived, leaders, spurious>>

GenMod == 2 ^ GenWidth

Init ==
    /\ CvInit
    /\ count = 0
    /\ generation_id = 0
    /\ pc = [t \in Threads |-> "start"]
    /\ local_gen = [t \in Threads |-> 0]
    /\ rounds = [t \in Threads |-> 0]
    /\ arrived = [t \in Threads |-> 0]
    /\ leaders = [k \in 0..Rounds - 1 |-> 0]
    /\ spurious = [t \in Threads |-> 0]

-----------------------------------------------------------------------------
(* `let mut lock = self.lock().lock().unwrap();`                          *)
b_lock(t) ==
    /\ pc[t] = "start" /\ rounds[t] < Rounds
    /\ MutexLock(t)
    /\ pc' = [pc EXCEPT ![t] = "arrive"]
    /\ UNCHANGED <<count, generation_id, local_gen, rounds, arrived, leaders,
                   spurious>>

\* Variant of arrive that advances generation_id without wrapping it.
arrive_unwrapped(t) ==
    /\ pc[t] = "arrive"
    /\ local_gen' = [local_gen EXCEPT ![t] = generation_id]
    /\ arrived' = [arrived EXCEPT ![t] = @ + 1]
    /\ IF count + 1 < NumThreads
         THEN /\ count' = count + 1
              /\ CvWait(t)
              /\ pc' = [pc EXCEPT ![t] = "waiting"]
              /\ UNCHANGED <<generation_id, rounds, leaders>>
         ELSE /\ count' = 0
              /\ generation_id' = generation_id + 1
              /\ CvNotifyAll
              /\ pc' = [pc EXCEPT ![t] = "leader"]
              /\ UNCHANGED <<rounds, leaders>>
    /\ UNCHANGED spurious

\* Variant of arrive whose leader leaves generation_id as it is.
arrive_same_generation(t) ==
    /\ pc[t] = "arrive"
    /\ local_gen' = [local_gen EXCEPT ![t] = generation_id]
    /\ arrived' = [arrived EXCEPT ![t] = @ + 1]
    /\ IF count + 1 < NumThreads
         THEN /\ count' = count + 1
              /\ CvWait(t)
              /\ pc' = [pc EXCEPT ![t] = "waiting"]
              /\ UNCHANGED <<generation_id, rounds, leaders>>
         ELSE /\ count' = 0
              /\ CvNotifyAll
              /\ pc' = [pc EXCEPT ![t] = "leader"]
              /\ UNCHANGED <<generation_id, rounds, leaders>>
    /\ UNCHANGED spurious

(* Under the lock: `local_gen = generation_id; count += 1`.  Below        *)
(* num_threads, the while loop's first test holds (nothing changed), so   *)
(* the thread waits on the condvar.  Otherwise it is the leader: count    *)
(* = 0, generation_id.wrapping_add(1), notify_all.                      *)
arrive(t) ==
    /\ pc[t] = "arrive"
    /\ local_gen' = [local_gen EXCEPT ![t] = generation_id]
    /\ arrived' = [arrived EXCEPT ![t] = @ + 1]
    /\ IF count + 1 < NumThreads
         THEN /\ count' = count + 1
              /\ CvWait(t)
              /\ pc' = [pc EXCEPT ![t] = "waiting"]
              /\ UNCHANGED <<generation_id, rounds, leaders>>
         ELSE /\ count' = 0
              /\ generation_id' = (generation_id + 1) % GenMod
              /\ CvNotifyAll
              /\ pc' = [pc EXCEPT ![t] = "leader"]
              /\ UNCHANGED <<rounds, leaders>>
    /\ UNCHANGED spurious

(* The leader's wait() returns leader = true, dropping the guard.        *)
leader_return(t) ==
    /\ pc[t] = "leader"
    /\ MutexUnlock(t, FALSE, FALSE)
    /\ rounds' = [rounds EXCEPT ![t] = @ + 1]
    /\ leaders' = [leaders EXCEPT ![rounds[t]] = @ + 1]
    /\ pc' = [pc EXCEPT ![t] = "start"]
    /\ UNCHANGED <<count, generation_id, local_gen, arrived, spurious>>

(* notify_all chose t: it goes on to re-acquire the mutex.                *)
notified_wake(t) ==
    /\ pc[t] = "waiting" /\ t \in woken
    /\ pc' = [pc EXCEPT ![t] = "woken"]
    /\ UNCHANGED <<owner, failed, waiters, woken, count, generation_id,
                   local_gen, rounds, arrived, leaders, spurious>>

(* A spurious wake-up, which the while loop guards against.               *)
spurious_wake(t) ==
    /\ pc[t] = "waiting" /\ spurious[t] < MaxSpurious
    /\ CvWake(t)
    /\ spurious' = [spurious EXCEPT ![t] = @ + 1]
    /\ pc' = [pc EXCEPT ![t] = "woken"]
    /\ UNCHANGED <<count, generation_id, local_gen, rounds, arrived, leaders>>

(* `self.cvar().wait(lock).unwrap()` re-acquires the mutex.               *)
b_reacquire(t) ==
    /\ pc[t] = "woken"
    /\ CvReacquire(t)
    /\ pc' = [pc EXCEPT ![t] = "recheck"]
    /\ UNCHANGED <<count, generation_id, local_gen, rounds, arrived, leaders,
                   spurious>>

\* Variant of recheck that leaves after any wake-up (`if` for `while`).
recheck_once(t) ==
    /\ pc[t] = "recheck"
    /\ MutexUnlock(t, FALSE, FALSE)
    /\ rounds' = [rounds EXCEPT ![t] = @ + 1]
    /\ pc' = [pc EXCEPT ![t] = "start"]
    /\ UNCHANGED <<count, generation_id, local_gen, arrived, leaders, spurious>>

\* Variant of recheck whose waiters also return leader = true.
recheck_claiming_leader(t) ==
    /\ pc[t] = "recheck"
    /\ IF local_gen[t] = generation_id /\ count < NumThreads
         THEN /\ CvWait(t)
              /\ pc' = [pc EXCEPT ![t] = "waiting"]
              /\ UNCHANGED <<rounds, leaders>>
         ELSE /\ MutexUnlock(t, FALSE, FALSE)
              /\ rounds' = [rounds EXCEPT ![t] = @ + 1]
              /\ leaders' = [leaders EXCEPT ![rounds[t]] = @ + 1]
              /\ pc' = [pc EXCEPT ![t] = "start"]
    /\ UNCHANGED <<count, generation_id, local_gen, arrived, spurious>>

(* `while local_gen == lock.generation_id && lock.count < num_threads`:   *)
(* wait again, or return leader = false, dropping the guard.              *)
recheck(t) ==
    /\ pc[t] = "recheck"
    /\ IF local_gen[t] = generation_id /\ count < NumThreads
         THEN /\ CvWait(t)
              /\ pc' = [pc EXCEPT ![t] = "waiting"]
              /\ UNCHANGED rounds
         ELSE /\ MutexUnlock(t, FALSE, FALSE)
              /\ rounds' = [rounds EXCEPT ![t] = @ + 1]
              /\ pc' = [pc EXCEPT ![t] = "start"]
    /\ UNCHANGED <<count, generation_id, local_gen, arrived, leaders, spurious>>

\* Every thread has made its Rounds calls.
Terminated ==
    /\ \A t \in Threads : pc[t] = "start" /\ rounds[t] = Rounds
    /\ UNCHANGED vars

\* The steps that take the mutex.
Acquire == \E t \in Threads : b_lock(t) \/ b_reacquire(t)

Next ==
    \/ Acquire
    \/ \E t \in Threads :
          \/ arrive(t) \/ leader_return(t)
          \/ notified_wake(t) \/ spurious_wake(t) \/ recheck(t)
    \/ Terminated

(* The mutex gives progress to some thread, not FIFO order; the steps     *)
(* taken under the lock and the return of a notified wait are not delayed *)
(* forever.  Spurious wake-ups get no fairness.                           *)
Fairness ==
    /\ WF_vars(Acquire)
    /\ \A t \in Threads :
          /\ WF_vars(arrive(t)) /\ WF_vars(leader_return(t))
          /\ WF_vars(notified_wake(t)) /\ WF_vars(recheck(t))

Spec == Init /\ [][Next]_vars

FairSpec == Spec /\ Fairness

-----------------------------------------------------------------------------
(* The refinement mapping: a thread blocked in (or looping in) wait has   *)
(* been released once generation_id moved past its local_gen; the leader  *)
(* has passed the barrier as soon as it opened it.                        *)
AbsPhase(t) ==
    IF pc[t] \in {"waiting", "woken", "recheck"}
      THEN IF local_gen[t] = generation_id THEN "in" ELSE "released"
      ELSE "out"

Abs == INSTANCE AbstractBarrier
          WITH phase <- [t \in Threads |-> AbsPhase(t)],
               passed <- [t \in Threads |->
                            rounds[t] + (IF pc[t] = "leader" THEN 1 ELSE 0)]

-----------------------------------------------------------------------------
TypeOK ==
    /\ owner \in Threads \cup {NoThread}
    /\ failed = FALSE
    /\ waiters \subseteq Threads /\ woken \subseteq Threads
    /\ count \in 0..NumThreads - 1
    /\ generation_id \in 0..GenMod - 1
    /\ pc \in [Threads -> {"start", "arrive", "waiting", "woken", "recheck",
                           "leader"}]
    /\ local_gen \in [Threads -> 0..GenMod - 1]
    /\ rounds \in [Threads -> 0..Rounds]
    /\ arrived \in [Threads -> 0..Rounds]
    /\ leaders \in [0..Rounds - 1 -> 0..NumThreads]
    /\ spurious \in [Threads -> 0..MaxSpurious]

\* Spec 8: exactly one call per round returns leader = true: never two,
\* and one once every thread's call of that round has returned.
OneLeaderPerRound ==
    \A k \in 0..Rounds - 1 :
        /\ leaders[k] <= 1
        /\ (\A t \in Threads : rounds[t] > k) => leaders[k] = 1

\* Spec 8: no call of round k returns before every thread has arrived in
\* round k, whatever the spurious wake-ups and however generation_id wraps.
NoEarlyLeave == \A t, u \in Threads : rounds[t] <= arrived[u]

\* The barrier implements the abstract barrier.
BarrierRefinesAbstract == Abs!ASpec

\* Every thread's wait() calls all return.
AllWaitsReturn == <>(\A t \in Threads : rounds[t] = Rounds)

=============================================================================
