-------------------------------- MODULE Mutex --------------------------------
(***************************************************************************)
(* Mutex<u32> on the unix backend: mutex.rs over sys/unix/mutex.rs (a     *)
(* PTHREAD_MUTEX_NORMAL pthread mutex) and sys_common/poison.rs.           *)
(*                                                                         *)
(* Every thread runs the client of the "lots_and_lots" test: it locks (by *)
(* lock() or try_lock()), performs `*guard += 1` as a read and a write of *)
(* the guarded value, and drops the guard.  A thread may panic at any     *)
(* point; a panicking thread drops the guard it holds while unwinding and *)
(* may still lock the mutex from a destructor run during the unwind, as   *)
(* in test_mutex_arc_access_in_unwind.  A second panic during an unwind   *)
(* aborts the process, so a thread panics at most once.                   *)
(***************************************************************************)
EXTENDS Naturals, Functions, Poison

CONSTANTS
    Threads,    \* the threads sharing the mutex
    NoThread,   \* model value: the pthread mutex has no owner
    MaxOps      \* bound on the lock/try_lock calls of one thread

ASSUME NoThread \notin Threads /\ MaxOps \in Nat

VARIABLES
    owner,      \* the thread owning the pthread mutex, or NoThread
    failed,     \* poison::Flag.failed
    token,      \* token[t]: poison::Guard.panicking of the guard t holds
    panicking,  \* panicking[t]: thread::panicking() in thread t
    pc,         \* pc[t]: where thread t is in its client program
    data,       \* the guarded u32
    tmp,        \* tmp[t]: the value t read in `*guard += 1`
    ops,        \* ops[t]: lock/try_lock calls made by t
    incs,       \* history: incs[t] is the number of increments t completed
    culprits    \* history: threads that panicked while holding a guard

vars == <<owner, failed, token, panicking, pc, data, tmp, ops,
          incs, culprits>>

PCs == {"idle", "lock_wait", "try_wait", "held", "inc", "incd", "unwind"}

\* A thread that owns a MutexGuard (normal use, mid-increment, unwinding).
Holding(t) == pc[t] \in {"held", "inc", "incd", "unwind"}

\* A thread blocked in pthread_mutex_lock.
Waiting(t) == pc[t] \in {"lock_wait", "try_wait"}

Init ==
    /\ owner = NoThread
    /\ failed = FALSE
    /\ token = [t \in Threads |-> FALSE]
    /\ panicking = [t \in Threads |-> FALSE]
    /\ pc = [t \in Threads |-> "idle"]
    /\ data = 0
    /\ tmp = [t \in Threads |-> 0]
    /\ ops = [t \in Threads |-> 0]
    /\ incs = [t \in Threads |-> 0]
    /\ culprits = {}

-----------------------------------------------------------------------------
(* Mutex::lock calls sys::Mutex::lock, i.e. pthread_mutex_lock, which    *)
(* blocks until the pthread mutex is free.                               *)
lock(t) ==
    /\ pc[t] = "idle"
    /\ ops[t] < MaxOps
    /\ pc' = [pc EXCEPT ![t] = "lock_wait"]
    /\ ops' = [ops EXCEPT ![t] = @ + 1]
    /\ UNCHANGED <<owner, failed, token, panicking, data, tmp, incs,
                   culprits>>

(* Mutex::try_lock calls sys::Mutex::try_lock, which calls the blocking   *)
(* pthread_mutex_lock (not pthread_mutex_trylock) and returns None only   *)
(* when that call fails, which it never does on a valid mutex.  So        *)
(* try_lock waits for the owner exactly as lock does.                     *)
try_lock(t) ==
    /\ pc[t] = "idle"
    /\ ops[t] < MaxOps
    /\ pc' = [pc EXCEPT ![t] = "try_wait"]
    /\ ops' = [ops EXCEPT ![t] = @ + 1]
    /\ UNCHANGED <<owner, failed, token, panicking, data, tmp, incs,
                   culprits>>

\* Variant of acquire that does not wait for the owner to unlock.
acquire_without_wait(t) ==
    /\ Waiting(t)
    /\ owner' = t
    /\ token' = [token EXCEPT ![t] = Borrow(failed, panicking[t]).token]
    /\ pc' = [pc EXCEPT ![t] = "held"]
    /\ UNCHANGED <<failed, panicking, data, tmp, ops, incs, culprits>>

(* pthread_mutex_lock returns with the mutex owned; then poison.borrow()  *)
(* records thread::panicking() in the token and the result is Poisoned    *)
(* if the flag is set.  The guard is built in both cases; the result is   *)
(* not kept, as no property reads it.                                     *)
acquire(t) ==
    /\ Waiting(t)
    /\ owner = NoThread
    /\ owner' = t
    /\ token' = [token EXCEPT ![t] = Borrow(failed, panicking[t]).token]
    /\ pc' = [pc EXCEPT ![t] = "held"]
    /\ UNCHANGED <<failed, panicking, data, tmp, ops, incs, culprits>>

(* `*guard += 1` through DerefMut, once per guard as in the tests: a     *)
(* read of the data ...                                                   *)
inc_read(t) ==
    /\ pc[t] = "held"
    /\ tmp' = [tmp EXCEPT ![t] = data]
    /\ pc' = [pc EXCEPT ![t] = "inc"]
    /\ UNCHANGED <<owner, failed, token, panicking, data, ops, incs,
                   culprits>>

(* ... and a write of the incremented value.                             *)
inc_write(t) ==
    /\ pc[t] = "inc"
    /\ data' = tmp[t] + 1
    /\ incs' = [incs EXCEPT ![t] = @ + 1]
    /\ tmp' = [tmp EXCEPT ![t] = 0]
    /\ pc' = [pc EXCEPT ![t] = "incd"]
    /\ UNCHANGED <<owner, failed, token, panicking, ops,
                   culprits>>

\* Variant of drop_guard that leaves the pthread mutex locked when the
\* guard is dropped during an unwind.
drop_guard_leaking_on_unwind(t) ==
    /\ pc[t] \in {"held", "incd", "unwind"}
    /\ failed' = Done(failed, token[t], panicking[t])
    /\ owner' = IF panicking[t] THEN owner ELSE NoThread
    /\ pc' = [pc EXCEPT ![t] = "idle"]
    /\ UNCHANGED <<token, panicking, data, tmp, ops, incs, culprits>>

(* Dropping a MutexGuard, at the end of its scope or while unwinding:     *)
(* MutexGuard::drop runs poison.done(&self.poison) first, then the field  *)
(* sys::MutexGuard is dropped and calls pthread_mutex_unlock.             *)
drop_guard(t) ==
    /\ pc[t] \in {"held", "incd", "unwind"}
    /\ failed' = Done(failed, token[t], panicking[t])
    /\ owner' = NoThread
    /\ pc' = [pc EXCEPT ![t] = "idle"]
    /\ UNCHANGED <<token, panicking, data, tmp, ops, incs, culprits>>

(* The client panics.  Holding a guard, the thread can only unwind and    *)
(* drop it next; otherwise it keeps running destructors, which may lock.  *)
Panic(t) ==
    /\ ~panicking[t]
    /\ pc[t] \in {"idle", "held", "inc", "incd"}
    /\ panicking' = [panicking EXCEPT ![t] = TRUE]
    /\ pc' = [pc EXCEPT ![t] = IF pc[t] = "idle" THEN "idle" ELSE "unwind"]
    /\ culprits' = IF pc[t] = "idle" THEN culprits ELSE culprits \cup {t}
    /\ UNCHANGED <<owner, failed, token, data, tmp, ops, incs>>

\* Every thread has made its calls and dropped its guards.
Terminated ==
    /\ \A t \in Threads : pc[t] = "idle" /\ ops[t] = MaxOps
    /\ UNCHANGED vars

Next ==
    \/ \E t \in Threads :
          \/ lock(t) \/ try_lock(t) \/ acquire(t)
          \/ inc_read(t) \/ inc_write(t) \/ drop_guard(t) \/ Panic(t)
    \/ Terminated

(* pthread gives no FIFO order, only progress: when the mutex is free and *)
(* some thread waits, some waiter gets it.  A guard is scoped, so its     *)
(* holder finishes the increment and drops it.                            *)
Fairness ==
    /\ WF_vars(\E t \in Threads : acquire(t))
    /\ \A t \in Threads : WF_vars(inc_write(t)) /\ WF_vars(drop_guard(t))

Spec == Init /\ [][Next]_vars

FairSpec == Spec /\ Fairness

-----------------------------------------------------------------------------
\* No lost update (the K x J test): the guarded value always equals the
\* number of completed `*guard += 1`, whatever the interleaving of lock,
\* try_lock, panics and guard drops.
NoLostUpdate == data = SumFunction(incs)

\* Poisoning is exact: the flag is set iff some thread panicked while it
\* held a guard and has since dropped it while unwinding.  A thread that
\* locks from a destructor during its own unwind (token TRUE) never
\* poisons, and a panic outside the lock never does either.
PoisonExact ==
    failed <=> \E t \in culprits : pc[t] # "unwind"

\* try_lock never waits for another thread's guard: a try_lock call that
\* has not returned is one whose mutex is free (spec 4.3: "non-blocking").
TryLockNeverBlocks ==
    \A t \in Threads : pc[t] = "try_wait" => owner = NoThread

\* Whenever a thread is blocked in lock or try_lock, some thread
\* eventually holds the mutex: a panicking holder releases it on unwind.
WaiterProgress ==
    (\E t \in Threads : Waiting(t)) ~> (\E t \in Threads : Holding(t))

=============================================================================
