---------------------------- MODULE FallbackRwLock ----------------------------
(***************************************************************************)
(* RwLock<T> on the fallback backend: rwlock.rs over sys/fallback/rwlock.rs *)
(* and sys/fallback/mod.rs, which delegate to std::sync::RwLock<()> and    *)
(* discard std's own poisoning with ignore_poison / try_ignore_poison.     *)
(* The library's guards hold std's guards, so the read guards of t are    *)
(* std.readers[t] and the write guard is std.writer.                       *)
(*                                                                         *)
(* std's RwLock is modelled by its contract: reads exclude a writer,       *)
(* a write excludes everyone, the calling thread's own holds included (a  *)
(* reentrant call blocks); whether a waiting writer holds back new readers *)
(* is the platform's choice, the constant WriterPreferring.  std poisons  *)
(* its own flag as this library does: a write guard dropped by a thread   *)
(* that began panicking after taking it.  Both flags get the token from   *)
(* thread::panicking() at the same point (std's write() returns and       *)
(* borrow() runs with no panic possible in between), so one token serves. *)
(*                                                                         *)
(* Clients are those of RwLock.tla: nested guards up to MaxDepth, panics, *)
(* calls from destructors during an unwind; once every thread is done,    *)
(* the owner calls into_inner.                                            *)
(***************************************************************************)
EXTENDS Integers, Functions, Poison

CONSTANTS
    Threads,            \* the threads sharing the lock
    NoThread,           \* model value: no std writer
    WriterPreferring,   \* a waiting writer blocks new readers in std
    MaxDepth,           \* bound on the guards one thread holds at once
    MaxOps              \* bound on the acquisition calls of one thread

ASSUME /\ NoThread \notin Threads /\ WriterPreferring \in BOOLEAN
       /\ MaxDepth \in Nat \ {0} /\ MaxOps \in Nat

VARIABLES
    std,        \* std::sync::RwLock<()>: [writer, readers, poisoned]
    failed,     \* poison::Flag.failed of the library
    token,      \* token[t]: poison::Guard.panicking of t's write guard
    panicking,  \* panicking[t]: thread::panicking() in thread t
    pc,         \* pc[t]: "run", or blocked in read ("rd_wait") / write
    ops,        \* ops[t]: acquisition calls made by t
    inner,      \* what into_inner returned: "none", "Ok" or "Poisoned"
    culprits    \* history: threads that panicked holding the write guard

vars == <<std, failed, token, panicking, pc, ops, inner, culprits>>

Depth(t) == std.readers[t] + (IF std.writer = t THEN 1 ELSE 0)

-----------------------------------------------------------------------------
(* std::sync::RwLock, and the fallback's translation of its results.       *)

ReadLockable ==
    /\ std.writer = NoThread
    /\ WriterPreferring => \A u \in Threads : pc[u] # "wr_wait"

\* Variant of WriteLockable whose writer also yields to waiting readers.
WriteLockableYielding ==
    /\ std.writer = NoThread /\ \A u \in Threads : std.readers[u] = 0
    /\ \A u \in Threads : pc[u] # "rd_wait"

WriteLockable == std.writer = NoThread /\ \A u \in Threads : std.readers[u] = 0

\* The TryLockResult of std's try_read / try_write.
StdTry(lockable) ==
    IF ~lockable THEN "WouldBlock"
    ELSE IF std.poisoned THEN "Poisoned" ELSE "Ok"

\* try_ignore_poison: Ok and Poisoned both give the guard, WouldBlock None.
TryIgnorePoison(r) == IF r = "WouldBlock" THEN "None" ELSE "Some"

-----------------------------------------------------------------------------
Init ==
    /\ std = [writer |-> NoThread, readers |-> [t \in Threads |-> 0],
              poisoned |-> FALSE]
    /\ failed = FALSE
    /\ token = [t \in Threads |-> FALSE]
    /\ panicking = [t \in Threads |-> FALSE]
    /\ pc = [t \in Threads |-> "run"]
    /\ ops = [t \in Threads |-> 0]
    /\ inner = "none"
    /\ culprits = {}

\* A thread may start an acquisition call.
CanCall(t) ==
    /\ inner = "none" /\ pc[t] = "run" /\ ops[t] < MaxOps
    /\ Depth(t) < MaxDepth
    /\ panicking[t] => Depth(t) = 0

call_read(t) ==
    /\ CanCall(t)
    /\ pc' = [pc EXCEPT ![t] = "rd_wait"]
    /\ ops' = [ops EXCEPT ![t] = @ + 1]
    /\ UNCHANGED <<std, failed, token, panicking, inner, culprits>>

call_write(t) ==
    /\ CanCall(t)
    /\ pc' = [pc EXCEPT ![t] = "wr_wait"]
    /\ ops' = [ops EXCEPT ![t] = @ + 1]
    /\ UNCHANGED <<std, failed, token, panicking, inner, culprits>>

\* Variant of read_return that takes a read lock over its own write lock,
\* as a backend granting reentry would.
read_return_over_own_write(t) ==
    /\ pc[t] = "rd_wait"
    /\ std.writer \in {NoThread, t}
    /\ std' = [std EXCEPT !.readers[t] = @ + 1]
    /\ pc' = [pc EXCEPT ![t] = "run"]
    /\ UNCHANGED <<failed, token, panicking, ops, inner, culprits>>

(* RwLock::read: std's read() returns once the lock is read-lockable,     *)
(* ignore_poison keeps the guard, poison.borrow() only sets the result.   *)
read_return(t) ==
    /\ pc[t] = "rd_wait"
    /\ ReadLockable
    /\ std' = [std EXCEPT !.readers[t] = @ + 1]
    /\ pc' = [pc EXCEPT ![t] = "run"]
    /\ UNCHANGED <<failed, token, panicking, ops, inner, culprits>>

(* RwLock::write: std's write() returns once nobody holds the lock; the   *)
(* guard carries the token from poison.borrow().                          *)
write_return(t) ==
    /\ pc[t] = "wr_wait"
    /\ WriteLockable
    /\ std' = [std EXCEPT !.writer = t]
    /\ token' = [token EXCEPT ![t] = Borrow(failed, panicking[t]).token]
    /\ pc' = [pc EXCEPT ![t] = "run"]
    /\ UNCHANGED <<failed, panicking, ops, inner, culprits>>

(* RwLock::try_read: try_ignore_poison(std try_read), then                 *)
(* `ok_or(WouldBlock)?`; a guard is returned Ok or Poisoned.             *)
try_read(t) ==
    /\ CanCall(t)
    /\ ops' = [ops EXCEPT ![t] = @ + 1]
    /\ LET r == TryIgnorePoison(StdTry(ReadLockable)) IN
         /\ std' = IF r = "Some" THEN [std EXCEPT !.readers[t] = @ + 1] ELSE std
    /\ UNCHANGED <<failed, token, panicking, pc, inner, culprits>>

(* RwLock::try_write: the same over std's try_write, with the token.      *)
try_write(t) ==
    /\ CanCall(t)
    /\ ops' = [ops EXCEPT ![t] = @ + 1]
    /\ LET r == TryIgnorePoison(StdTry(WriteLockable)) IN
         /\ std' = IF r = "Some" THEN [std EXCEPT !.writer = t] ELSE std
         /\ token' = IF r = "Some"
                       THEN [token EXCEPT ![t] = Borrow(failed, panicking[t]).token]
                       ELSE token
    /\ UNCHANGED <<failed, panicking, pc, inner, culprits>>

(* Dropping an RwLockReadGuard drops std's read guard, which never        *)
(* poisons.                                                               *)
drop_read(t) ==
    /\ pc[t] = "run" /\ std.readers[t] > 0
    /\ std' = [std EXCEPT !.readers[t] = @ - 1]
    /\ UNCHANGED <<failed, token, panicking, pc, ops, inner, culprits>>

(* Dropping an RwLockWriteGuard: poison.done, then std's write guard     *)
(* is dropped, which runs std's own poison done and unlocks.              *)
drop_write(t) ==
    /\ pc[t] = "run" /\ std.writer = t
    /\ failed' = Done(failed, token[t], panicking[t])
    /\ std' = [std EXCEPT !.writer = NoThread,
                          !.poisoned = Done(@, token[t], panicking[t])]
    /\ UNCHANGED <<token, panicking, pc, ops, inner, culprits>>

(* The client panics, holding guards or not.                              *)
Panic(t) ==
    /\ inner = "none" /\ pc[t] = "run" /\ ~panicking[t]
    /\ panicking' = [panicking EXCEPT ![t] = TRUE]
    /\ culprits' = IF std.writer = t THEN culprits \cup {t} ELSE culprits
    /\ UNCHANGED <<std, failed, token, pc, ops, inner>>

\* Variant of into_inner that returns the data without poison.borrow().
into_inner_unchecked ==
    /\ inner = "none"
    /\ \A t \in Threads : pc[t] = "run" /\ Depth(t) = 0 /\ ops[t] = MaxOps
    /\ inner' = "Ok"
    /\ UNCHANGED <<std, failed, token, panicking, pc, ops, culprits>>

(* RwLock::into_inner once every thread is done with the lock: the        *)
(* result of poison.borrow().                                             *)
into_inner ==
    /\ inner = "none"
    /\ \A t \in Threads : pc[t] = "run" /\ Depth(t) = 0 /\ ops[t] = MaxOps
    /\ inner' = Borrow(failed, FALSE).result
    /\ UNCHANGED <<std, failed, token, panicking, pc, ops, culprits>>

\* The lock has been consumed.
Terminated ==
    /\ inner # "none"
    /\ UNCHANGED vars

Next ==
    \/ \E t \in Threads :
          \/ call_read(t) \/ read_return(t) \/ try_read(t)
          \/ call_write(t) \/ write_return(t) \/ try_write(t)
          \/ drop_read(t) \/ drop_write(t) \/ Panic(t)
    \/ into_inner
    \/ Terminated

Spec == Init /\ [][Next]_vars

(* std's RwLock wakes a blocked call once the lock is grantable to it, and *)
(* a guard is scoped: its holder drops it at the end of the scope or while *)
(* unwinding.  No order among waiters is assumed.                          *)
Fairness ==
    \A t \in Threads :
        /\ WF_vars(read_return(t)) /\ WF_vars(write_return(t))
        /\ WF_vars(drop_read(t)) /\ WF_vars(drop_write(t))

FairSpec == Spec /\ Fairness

-----------------------------------------------------------------------------
(* The refinement mapping: std's holds are the guards.                    *)
AbsRw == INSTANCE AbstractRwLock
            WITH readers <- std.readers,
                 writer <- [t \in Threads |-> std.writer = t],
                 poisoned <- failed,
                 unwinding <- {t \in Threads :
                                  std.writer = t /\ panicking[t] /\ ~token[t]}

-----------------------------------------------------------------------------
\* into_inner reports Poisoned exactly when some thread panicked while it
\* held the write guard: not for panicking readers, and not for a write
\* taken by a destructor during its own thread's unwind.
IntoInnerReportsWriterPanic ==
    inner # "none" => (inner = "Poisoned" <=> culprits # {})

\* Every blocked read() or write() returns, unless some thread blocks while
\* it holds a guard of this lock: same-thread re-entry, which spec 1
\* leaves unspecified ("may deadlock"; read's and write's documentation:
\* "might panic when called if the lock is already held").  A
\* writer-preferring std lock must not let waiting readers and a waiting
\* writer hold each other back.
CallsReturn ==
    \A t \in Threads :
        pc[t] # "run" ~> (\/ pc[t] = "run"
                          \/ \E u \in Threads : pc[u] # "run" /\ Depth(u) > 0)

\* The fallback RwLock implements the abstract reader-writer lock.
FallbackRefinesAbstract == AbsRw!ASpec

=============================================================================
