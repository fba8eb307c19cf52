----------------------------- MODULE InitAssert -----------------------------
(***************************************************************************)
(* sys_common/init_assert.rs: the tri-state gate in front of every         *)
(* primitive's in-place initialization (the unix Mutex's pthread mutex,    *)
(* the debug-build check of the unix RwLock, the fallback locks and        *)
(* condvar).  `state` is the AtomicIsize, `data` the MaybeUninit<T>.       *)
(*                                                                         *)
(* Threads share one primitive placed at a fixed address, as a static is.  *)
(* A thread may call init (any thread may race to initialize it) or use    *)
(* the primitive, which goes through get/get_ref.  A failed assert_eq!     *)
(* panics that thread, which stops using the primitive; the others go on. *)
(* The constructor may panic as well (the unwraps of the unix Mutex's      *)
(* init).  Once no thread uses the primitive any more, it is dropped.      *)
(*                                                                         *)
(* The Acquire swap/load and the Release store order the constructor's    *)
(* writes before any use that saw INIT, so they are modelled as atomic     *)
(* steps on one sequentially consistent location.                          *)
(***************************************************************************)
EXTENDS Naturals

CONSTANTS
    Threads,    \* threads sharing the primitive
    Initers,    \* the threads whose code calls init
    MaxOps      \* bound on the calls of one thread

ASSUME Initers \subseteq Threads /\ MaxOps \in Nat \ {0}

VARIABLES
    state,          \* InitAssert.state
    data,           \* InitAssert.data: "uninit", "value" or "dropped"
    pc,             \* pc[t]: "idle", "construct", "store", "done", "panicked"
    ops,            \* ops[t]: calls made by t
    seen,           \* seen[t]: what t's last successful get pointed to
    alive,          \* the primitive (and its InitAssert) is not dropped
    constructions   \* history: times the constructor wrote the value

vars == <<state, data, pc, ops, seen, alive, constructions>>

UNINIT == "UNINIT"
INIT_IN_PROGRESS == "INIT_IN_PROGRESS"
INIT == "INIT"

Init ==
    /\ state = UNINIT
    /\ data = "uninit"
    /\ pc = [t \in Threads |-> "idle"]
    /\ ops = [t \in Threads |-> 0]
    /\ seen = [t \in Threads |-> "none"]
    /\ alive = TRUE
    /\ constructions = 0

-----------------------------------------------------------------------------
\* Variant of init_swap whose assert only refuses an initialized gate.
init_swap_refusing_only_init(t) ==
    /\ t \in Initers /\ pc[t] = "idle" /\ ops[t] < MaxOps
    /\ state' = INIT_IN_PROGRESS
    /\ pc' = [pc EXCEPT ![t] = IF state # INIT THEN "construct" ELSE "panicked"]
    /\ ops' = [ops EXCEPT ![t] = @ + 1]
    /\ UNCHANGED <<data, seen, alive, constructions>>

(* init_with, first line: state.swap(INIT_IN_PROGRESS) and then           *)
(* assert_eq!(old, UNINIT).  The swap has already written                 *)
(* INIT_IN_PROGRESS when the assert fails.                                 *)
init_swap(t) ==
    /\ t \in Initers /\ pc[t] = "idle" /\ ops[t] < MaxOps
    /\ state' = INIT_IN_PROGRESS
    /\ pc' = [pc EXCEPT ![t] = IF state = UNINIT THEN "construct" ELSE "panicked"]
    /\ ops' = [ops EXCEPT ![t] = @ + 1]
    /\ UNCHANGED <<data, seen, alive, constructions>>

(* init_with, f(data.as_mut_ptr()): init's closure `p.write(f())`; f may  *)
(* panic before anything is written.                                      *)
init_construct(t) ==
    /\ pc[t] = "construct"
    /\ \/ /\ data' = "value"
          /\ constructions' = constructions + 1
          /\ pc' = [pc EXCEPT ![t] = "store"]
       \/ /\ pc' = [pc EXCEPT ![t] = "panicked"]
          /\ UNCHANGED <<data, constructions>>
    /\ UNCHANGED <<state, ops, seen, alive>>

\* Variant of init_store that publishes INIT whether or not the value was
\* written.
init_store_early(t) ==
    /\ pc[t] \in {"construct", "store"}
    /\ state' = INIT
    /\ pc' = [pc EXCEPT ![t] = IF pc[t] = "store" THEN "idle" ELSE "construct"]
    /\ UNCHANGED <<data, ops, seen, alive, constructions>>

(* init_with, last line: state.store(INIT).                               *)
init_store(t) ==
    /\ pc[t] = "store"
    /\ state' = INIT
    /\ pc' = [pc EXCEPT ![t] = "idle"]
    /\ UNCHANGED <<data, ops, seen, alive, constructions>>

(* get / get_ref: assert_eq!(state.load(), INIT), then a pointer to the   *)
(* value; every lock operation of the primitive starts with it.           *)
get(t) ==
    /\ pc[t] = "idle" /\ ops[t] < MaxOps
    /\ ops' = [ops EXCEPT ![t] = @ + 1]
    /\ IF state = INIT
         THEN /\ seen' = [seen EXCEPT ![t] = data]
              /\ UNCHANGED pc
         ELSE /\ pc' = [pc EXCEPT ![t] = "panicked"]
              /\ UNCHANGED seen
    /\ UNCHANGED <<state, data, alive, constructions>>

\* A thread that is not in the middle of init is done with the primitive.
finish(t) ==
    /\ pc[t] = "idle"
    /\ pc' = [pc EXCEPT ![t] = "done"]
    /\ UNCHANGED <<state, data, ops, seen, alive, constructions>>

(* Drop for InitAssert, once no thread can reach the primitive: the value *)
(* is dropped in place only if the state is INIT.                         *)
drop ==
    /\ alive
    /\ \A t \in Threads : pc[t] \in {"done", "panicked"}
    /\ alive' = FALSE
    /\ data' = IF state = INIT THEN "dropped" ELSE data
    /\ UNCHANGED <<state, pc, ops, seen, constructions>>

\* The primitive is gone (or leaked) and every thread has stopped.
Terminated ==
    /\ ~alive
    /\ UNCHANGED vars

Next ==
    \/ \E t \in Threads :
          \/ init_swap(t) \/ init_construct(t) \/ init_store(t)
          \/ get(t) \/ finish(t)
    \/ drop
    \/ Terminated

Spec == Init /\ [][Next]_vars

-----------------------------------------------------------------------------
\* However many threads race to initialize the primitive, the constructor
\* writes it at most once (init_with's swap admits a single initializer).
ConstructedOnce == constructions <= 1

\* get/get_ref only ever hands out a pointer to a fully constructed value:
\* a thread that read the state as INIT sees what the constructor wrote,
\* even when another thread's init is still running or has panicked.
UseOnlyAfterInit == \A t \in Threads : seen[t] \in {"none", "value"}

\* Spec 3: the state moves only Uninitialized -> Initializing ->
\* Initialized; once INIT, init_with never takes it back.
InitNeverUndone == [][state = INIT => state' = INIT]_vars

=============================================================================
