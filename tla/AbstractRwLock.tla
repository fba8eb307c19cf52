--------------------------- MODULE AbstractRwLock ---------------------------
(***************************************************************************)
(* What RwLock<T> promises whatever the backend (spec 4.2, 4.4, 6): any   *)
(* number of read guards or one write guard, taken atomically; a write    *)
(* guard whose thread started unwinding while holding it poisons the lock *)
(* when it is released; read guards never poison, and nothing clears the *)
(* flag.  Blocking, try variants and the deadlock panic are not visible   *)
(* here: they only decide whether and when an acquisition happens.        *)
(***************************************************************************)
EXTENDS Naturals

CONSTANTS Threads

VARIABLES
    readers,    \* readers[t]: read guards alive in thread t
    writer,     \* writer[t]: thread t holds the write guard
    poisoned,   \* the lock is poisoned
    unwinding   \* write-guard holders that began panicking since acquiring

avars == <<readers, writer, poisoned, unwinding>>

NoWriter == \A u \in Threads : ~writer[u]

AInit ==
    /\ readers = [t \in Threads |-> 0]
    /\ writer = [t \in Threads |-> FALSE]
    /\ poisoned = FALSE
    /\ unwinding = {}

AcquireRead(t) ==
    /\ NoWriter
    /\ readers' = [readers EXCEPT ![t] = @ + 1]
    /\ UNCHANGED <<writer, poisoned, unwinding>>

AcquireWrite(t) ==
    /\ NoWriter /\ \A u \in Threads : readers[u] = 0
    /\ writer' = [writer EXCEPT ![t] = TRUE]
    /\ UNCHANGED <<readers, poisoned, unwinding>>

ReleaseRead(t) ==
    /\ readers[t] > 0
    /\ readers' = [readers EXCEPT ![t] = @ - 1]
    /\ UNCHANGED <<writer, poisoned, unwinding>>

\* The holder of the write guard starts to panic.
StartUnwind(t) ==
    /\ writer[t] /\ t \notin unwinding
    /\ unwinding' = unwinding \cup {t}
    /\ UNCHANGED <<readers, writer, poisoned>>

ReleaseWrite(t) ==
    /\ writer[t]
    /\ writer' = [writer EXCEPT ![t] = FALSE]
    /\ poisoned' = (poisoned \/ t \in unwinding)
    /\ unwinding' = unwinding \ {t}
    /\ UNCHANGED readers

ANext ==
    \E t \in Threads :
        \/ AcquireRead(t) \/ AcquireWrite(t) \/ ReleaseRead(t)
        \/ StartUnwind(t) \/ ReleaseWrite(t)

ASpec == AInit /\ [][ANext]_avars

=============================================================================
