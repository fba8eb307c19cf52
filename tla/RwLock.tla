------------------------------- MODULE RwLock -------------------------------
(***************************************************************************)
(* RwLock<T> on the unix backend: rwlock.rs over sys/unix/rwlock.rs and    *)
(* sys_common/poison.rs.  The library keeps `write_locked` and             *)
(* `num_readers` beside the pthread rwlock and refuses an acquisition that *)
(* the pthread call granted although this thread already held the lock.   *)
(*                                                                         *)
(* The pthread rwlock is modelled per thread: `native.writer` owns the     *)
(* write lock, `native.readers[t]` counts t's read holds.  Readers are     *)
(* preferred (the glibc default, no attribute is set).  When a thread     *)
(* asks again for a lock it already holds, POSIX lets the call deadlock or *)
(* return EDEADLK, and the source notes glibc < 2.25 may return 0; the     *)
(* return codes such a call may give are the constant Reentry.            *)
(*                                                                         *)
(* Each handler is one step: everything it does between the pthread call *)
(* and the return happens while the pthread lock is held or after it was *)
(* released, so no other thread can observe an intermediate state through *)
(* the lock.  Threads run a client that takes nested guards (up to        *)
(* MaxDepth), drops them, and may panic.  A panicking thread only calls   *)
(* the lock again (from a destructor) when it holds no guard; a panic in  *)
(* a thread that is already panicking aborts the process.                 *)
(***************************************************************************)
EXTENDS Integers, Functions, Poison

CONSTANTS
    Threads,    \* the threads sharing the lock
    NoThread,   \* model value: nobody owns the pthread write lock
    Reentry,    \* codes a pthread call may return on a lock its thread holds
    MaxDepth,   \* bound on the guards one thread holds at once
    MaxOps,     \* bound on the acquisition calls of one thread
    MaxReaders  \* read holds at which pthread_rwlock_rdlock gives EAGAIN

ASSUME /\ NoThread \notin Threads
       /\ Reentry \subseteq {"OK", "EDEADLK"} /\ Reentry # {}
       /\ MaxDepth \in Nat \ {0} /\ MaxOps \in Nat
       /\ MaxReaders \in Nat \ {0}

VARIABLES
    native,       \* the pthread rwlock: [writer, readers]
    write_locked, \* sys::RwLock.write_locked
    num_readers,  \* sys::RwLock.num_readers
    failed,       \* poison::Flag.failed
    token,        \* token[t]: poison::Guard.panicking of t's write guard
    rguards,      \* rguards[t]: RwLockReadGuards alive in thread t
    wguard,       \* wguard[t]: thread t has an RwLockWriteGuard alive
    panicking,    \* panicking[t]: thread::panicking() in thread t
    pc,           \* pc[t]: "run", or blocked in read ("rd_wait") / write
    ops,          \* ops[t]: acquisition calls made by t
    aborted,      \* a panic during a panic aborted the process
    culprits,     \* history: threads that panicked holding a write guard
    spurious,     \* history: threads that got the deadlock panic holding
                  \* no guard of this lock
    racy          \* history: threads that read write_locked while another
                  \* thread held a write guard

vars == <<native, write_locked, num_readers, failed, token, rguards, wguard,
          panicking, pc, ops, aborted, culprits, spurious, racy>>

Depth(t) == rguards[t] + (IF wguard[t] THEN 1 ELSE 0)

-----------------------------------------------------------------------------
(* The pthread rwlock.                                                     *)

GrantRead(n, t) == [n EXCEPT !.readers[t] = @ + 1]
GrantWrite(n, t) == [n EXCEPT !.writer = t]

\* pthread_rwlock_unlock by t releases one of t's holds.  A thread holding
\* both the write lock and a read lock, which only a non-conforming grant
\* creates, may lose either (the outcome is undefined), and an unlock by a
\* thread that holds nothing leaves the lock as it is (EPERM, ignored).
Unlocked(t, n) ==
    (IF n.writer = t THEN {[n EXCEPT !.writer = NoThread]} ELSE {})
    \cup (IF n.readers[t] > 0 THEN {[n EXCEPT !.readers[t] = @ - 1]} ELSE {})
    \cup (IF n.writer # t /\ n.readers[t] = 0 THEN {n} ELSE {})

SelfHolds(t) == native.writer = t \/ native.readers[t] > 0
OthersHold(t) ==
    \/ native.writer \notin {NoThread, t}
    \/ \E u \in Threads \ {t} : native.readers[u] > 0

\* Codes pthread_rwlock_rdlock / _wrlock may return now; {} means it blocks.
\* A read lock beyond the implementation's maximum count is EAGAIN.
RdlockCodes(t) ==
    IF native.writer = NoThread
      THEN IF SumFunction(native.readers) = MaxReaders THEN {"EAGAIN"}
           ELSE {"OK"}
    ELSE IF native.writer = t THEN Reentry ELSE {}
WrlockCodes(t) ==
    IF OthersHold(t) THEN {} ELSE IF SelfHolds(t) THEN Reentry ELSE {"OK"}

\* The try variants never block: any refusal is EBUSY.
TryCodes(codes) == {IF c = "OK" THEN "OK" ELSE "EBUSY" : c \in codes}
TryrdlockCodes(t) ==
    IF native.writer \notin {NoThread, t} THEN {"EBUSY"}
    ELSE TryCodes(RdlockCodes(t))
TrywrlockCodes(t) ==
    IF OthersHold(t) THEN {"EBUSY"} ELSE TryCodes(WrlockCodes(t))

-----------------------------------------------------------------------------
Init ==
    /\ native = [writer |-> NoThread, readers |-> [t \in Threads |-> 0]]
    /\ write_locked = FALSE
    /\ num_readers = 0
    /\ failed = FALSE
    /\ token = [t \in Threads |-> FALSE]
    /\ rguards = [t \in Threads |-> 0]
    /\ wguard = [t \in Threads |-> FALSE]
    /\ panicking = [t \in Threads |-> FALSE]
    /\ pc = [t \in Threads |-> "run"]
    /\ ops = [t \in Threads |-> 0]
    /\ aborted = FALSE
    /\ culprits = {}
    /\ spurious = {}
    /\ racy = {}

\* A thread may start an acquisition call.
CanCall(t) ==
    /\ ~aborted
    /\ pc[t] = "run"
    /\ ops[t] < MaxOps
    /\ Depth(t) < MaxDepth
    /\ panicking[t] => Depth(t) = 0

\* A panic! in sys::RwLock::read / write: the thread unwinds (a write guard
\* it holds is then a poisoning one), or the process aborts if t was
\* already panicking.
PanicInCall(t) ==
    /\ pc' = [pc EXCEPT ![t] = "run"]
    /\ IF panicking[t]
       THEN aborted' = TRUE /\ UNCHANGED <<panicking, culprits>>
       ELSE /\ panicking' = [panicking EXCEPT ![t] = TRUE]
            /\ culprits' = IF wguard[t] THEN culprits \cup {t} ELSE culprits
            /\ UNCHANGED aborted

\* panic!("rwlock ... lock would result in deadlock").
DeadlockPanic(t) ==
    /\ PanicInCall(t)
    /\ spurious' = IF Depth(t) = 0 THEN spurious \cup {t} ELSE spurious

\* sys::RwLock reads the plain UnsafeCell<bool> write_locked only when the
\* pthread call returned 0.  While another thread holds a write guard,
\* whose drop writes the flag with no pthread call ordering that write
\* after this read, the read is a data race.
RacyRead(t, c) ==
    racy' = IF c = "OK" /\ \E u \in Threads \ {t} : wguard[u]
              THEN racy \cup {t} ELSE racy

call_read(t) ==
    /\ CanCall(t)
    /\ pc' = [pc EXCEPT ![t] = "rd_wait"]
    /\ ops' = [ops EXCEPT ![t] = @ + 1]
    /\ UNCHANGED <<native, write_locked, num_readers, failed, token, rguards,
                   wguard, panicking, aborted, culprits, spurious, racy>>

call_write(t) ==
    /\ CanCall(t)
    /\ pc' = [pc EXCEPT ![t] = "wr_wait"]
    /\ ops' = [ops EXCEPT ![t] = @ + 1]
    /\ UNCHANGED <<native, write_locked, num_readers, failed, token, rguards,
                   wguard, panicking, aborted, culprits, spurious, racy>>

\* Variant of read_return without the write_locked check: it trusts a
\* successful pthread_rwlock_rdlock.
read_return_unchecked(t) ==
    /\ ~aborted
    /\ pc[t] = "rd_wait"
    /\ \E c \in RdlockCodes(t) :
          \/ /\ c = "EDEADLK"
             /\ DeadlockPanic(t)
             /\ UNCHANGED <<native, write_locked, num_readers, rguards>>
          \/ /\ c = "OK"
             /\ native' = GrantRead(native, t)
             /\ num_readers' = num_readers + 1
             /\ rguards' = [rguards EXCEPT ![t] = @ + 1]
             /\ pc' = [pc EXCEPT ![t] = "run"]
             /\ UNCHANGED <<write_locked, panicking, aborted, culprits,
                            spurious>>
    /\ UNCHANGED <<failed, token, wguard, ops, racy>>

(* RwLock::read -> sys::RwLock::read: pthread_rwlock_rdlock returned c.    *)
(* EAGAIN panics "maximum reader count exceeded"; EDEADLK, or 0 while     *)
(* write_locked (after unlocking), panics; otherwise                      *)
(* num_readers is incremented and the guard built (poison.borrow only     *)
(* reports the flag for a read guard).                                     *)
read_return(t) ==
    /\ ~aborted
    /\ pc[t] = "rd_wait"
    /\ \E c \in RdlockCodes(t) :
          /\ RacyRead(t, c)
          /\ \/ /\ c = "EAGAIN"
                /\ PanicInCall(t)
                /\ UNCHANGED <<native, write_locked, num_readers, rguards,
                               spurious>>
             \/ /\ c = "EDEADLK"
                /\ DeadlockPanic(t)
                /\ UNCHANGED <<native, write_locked, num_readers, rguards>>
             \/ /\ c = "OK" /\ write_locked
                /\ native' \in Unlocked(t, GrantRead(native, t))
                /\ DeadlockPanic(t)
                /\ UNCHANGED <<write_locked, num_readers, rguards>>
             \/ /\ c = "OK" /\ ~write_locked
                /\ native' = GrantRead(native, t)
                /\ num_readers' = num_readers + 1
                /\ rguards' = [rguards EXCEPT ![t] = @ + 1]
                /\ pc' = [pc EXCEPT ![t] = "run"]
                /\ UNCHANGED <<write_locked, panicking, aborted, culprits,
                               spurious>>
    /\ UNCHANGED <<failed, token, wguard, ops>>

\* Variant of try_read that also takes the reader back out of num_readers
\* when it undoes a grant it never counted.
try_read_uncounting_undone(t) ==
    /\ CanCall(t)
    /\ ops' = [ops EXCEPT ![t] = @ + 1]
    /\ \E c \in TryrdlockCodes(t) :
          /\ RacyRead(t, c)
          /\ \/ /\ c = "OK" /\ write_locked
                /\ native' \in Unlocked(t, GrantRead(native, t))
                /\ num_readers' = num_readers - 1
                /\ UNCHANGED rguards
             \/ /\ c = "OK" /\ ~write_locked
                /\ native' = GrantRead(native, t)
                /\ num_readers' = num_readers + 1
                /\ rguards' = [rguards EXCEPT ![t] = @ + 1]
             \/ /\ c = "EBUSY"
                /\ UNCHANGED <<native, num_readers, rguards>>
    /\ UNCHANGED <<write_locked, failed, token, wguard, panicking, pc, aborted,
                   culprits, spurious>>

\* Variant of try_read that counts the reader before it undoes a grant.
try_read_counting_undone(t) ==
    /\ CanCall(t)
    /\ ops' = [ops EXCEPT ![t] = @ + 1]
    /\ \E c \in TryrdlockCodes(t) :
          /\ RacyRead(t, c)
          /\ \/ /\ c = "OK" /\ write_locked
                /\ native' \in Unlocked(t, GrantRead(native, t))
                /\ num_readers' = num_readers + 1
                /\ UNCHANGED rguards
             \/ /\ c = "OK" /\ ~write_locked
                /\ native' = GrantRead(native, t)
                /\ num_readers' = num_readers + 1
                /\ rguards' = [rguards EXCEPT ![t] = @ + 1]
             \/ /\ c = "EBUSY"
                /\ UNCHANGED <<native, num_readers, rguards>>
    /\ UNCHANGED <<write_locked, failed, token, wguard, panicking, pc, aborted,
                   culprits, spurious>>

(* RwLock::try_read -> sys::RwLock::try_read: a grant while write_locked  *)
(* is undone and reported as WouldBlock, as is any refusal.                *)
try_read(t) ==
    /\ CanCall(t)
    /\ ops' = [ops EXCEPT ![t] = @ + 1]
    /\ \E c \in TryrdlockCodes(t) :
          /\ RacyRead(t, c)
          /\ \/ /\ c = "OK" /\ write_locked
                /\ native' \in Unlocked(t, GrantRead(native, t))
                /\ UNCHANGED <<num_readers, rguards>>
             \/ /\ c = "OK" /\ ~write_locked
                /\ native' = GrantRead(native, t)
                /\ num_readers' = num_readers + 1
                /\ rguards' = [rguards EXCEPT ![t] = @ + 1]
             \/ /\ c = "EBUSY"
                /\ UNCHANGED <<native, num_readers, rguards>>
    /\ UNCHANGED <<write_locked, failed, token, wguard, panicking, pc, aborted,
                   culprits, spurious>>

(* RwLock::write -> sys::RwLock::write: EDEADLK, or 0 while write_locked  *)
(* or while num_readers # 0 (after unlocking), panics; otherwise          *)
(* write_locked is set and poison.borrow() gives the guard its token.     *)
write_return(t) ==
    /\ ~aborted
    /\ pc[t] = "wr_wait"
    /\ \E c \in WrlockCodes(t) :
          /\ RacyRead(t, c)
          /\ \/ /\ c = "EDEADLK"
                /\ DeadlockPanic(t)
                /\ UNCHANGED <<native, write_locked, token, wguard>>
             \/ /\ c = "OK" /\ (write_locked \/ num_readers # 0)
                /\ native' \in Unlocked(t, GrantWrite(native, t))
                /\ DeadlockPanic(t)
                /\ UNCHANGED <<write_locked, token, wguard>>
             \/ /\ c = "OK" /\ ~write_locked /\ num_readers = 0
                /\ native' = GrantWrite(native, t)
                /\ write_locked' = TRUE
                /\ wguard' = [wguard EXCEPT ![t] = TRUE]
                /\ token' = [token EXCEPT ![t] = Borrow(failed, panicking[t]).token]
                /\ pc' = [pc EXCEPT ![t] = "run"]
                /\ UNCHANGED <<panicking, aborted, culprits, spurious>>
    /\ UNCHANGED <<num_readers, failed, rguards, ops>>

(* RwLock::try_write -> sys::RwLock::try_write: a grant while            *)
(* write_locked or num_readers # 0 is undone and reported as WouldBlock.  *)
try_write(t) ==
    /\ CanCall(t)
    /\ ops' = [ops EXCEPT ![t] = @ + 1]
    /\ \E c \in TrywrlockCodes(t) :
          /\ RacyRead(t, c)
          /\ \/ /\ c = "OK" /\ (write_locked \/ num_readers # 0)
                /\ native' \in Unlocked(t, GrantWrite(native, t))
                /\ UNCHANGED <<write_locked, token, wguard>>
             \/ /\ c = "OK" /\ ~write_locked /\ num_readers = 0
                /\ native' = GrantWrite(native, t)
                /\ write_locked' = TRUE
                /\ wguard' = [wguard EXCEPT ![t] = TRUE]
                /\ token' = [token EXCEPT ![t] = Borrow(failed, panicking[t]).token]
             \/ /\ c = "EBUSY"
                /\ UNCHANGED <<native, write_locked, token, wguard>>
    /\ UNCHANGED <<num_readers, failed, rguards, panicking, pc, aborted,
                   culprits, spurious>>

\* Variant of drop_read that leaves the pthread read lock held.
drop_read_without_unlock(t) ==
    /\ ~aborted
    /\ pc[t] = "run"
    /\ rguards[t] > 0
    /\ num_readers' = num_readers - 1
    /\ rguards' = [rguards EXCEPT ![t] = @ - 1]
    /\ UNCHANGED <<native, write_locked, failed, token, wguard, panicking, pc,
                   ops, aborted, culprits, spurious, racy>>

\* Variant of drop_read that reports an unwind to the poison flag as a
\* write guard does.
drop_read_poisoning(t) ==
    /\ ~aborted
    /\ pc[t] = "run"
    /\ rguards[t] > 0
    /\ failed' = Done(failed, FALSE, panicking[t])
    /\ num_readers' = num_readers - 1
    /\ rguards' = [rguards EXCEPT ![t] = @ - 1]
    /\ native' \in Unlocked(t, native)
    /\ UNCHANGED <<write_locked, token, wguard, panicking, pc, ops,
                   aborted, culprits, spurious, racy>>

(* Dropping an RwLockReadGuard drops its sys::ReadGuard: num_readers is   *)
(* decremented, then the pthread lock unlocked.  No poison bookkeeping.   *)
drop_read(t) ==
    /\ ~aborted
    /\ pc[t] = "run"
    /\ rguards[t] > 0
    /\ num_readers' = num_readers - 1
    /\ rguards' = [rguards EXCEPT ![t] = @ - 1]
    /\ native' \in Unlocked(t, native)
    /\ UNCHANGED <<write_locked, failed, token, wguard, panicking, pc, ops,
                   aborted, culprits, spurious, racy>>

\* Variant of drop_write that does not clear write_locked.
drop_write_keeping_flag(t) ==
    /\ ~aborted
    /\ pc[t] = "run"
    /\ wguard[t]
    /\ failed' = Done(failed, token[t], panicking[t])
    /\ wguard' = [wguard EXCEPT ![t] = FALSE]
    /\ native' \in Unlocked(t, native)
    /\ UNCHANGED <<write_locked, num_readers, token, rguards, panicking, pc,
                   ops, aborted, culprits, spurious, racy>>

\* Variant of drop_write that runs only on a normal scope exit: a guard
\* forgotten while its thread unwinds keeps the write lock forever.
drop_write_kept_on_unwind(t) ==
    /\ ~panicking[t]
    /\ ~aborted
    /\ pc[t] = "run"
    /\ wguard[t]
    /\ failed' = Done(failed, token[t], panicking[t])
    /\ write_locked' = FALSE
    /\ wguard' = [wguard EXCEPT ![t] = FALSE]
    /\ native' \in Unlocked(t, native)
    /\ UNCHANGED <<num_readers, token, rguards, panicking, pc, ops, aborted,
                   culprits, spurious, racy>>

(* Dropping an RwLockWriteGuard: poison.done, then the sys::WriteGuard    *)
(* clears write_locked and unlocks.                                        *)
drop_write(t) ==
    /\ ~aborted
    /\ pc[t] = "run"
    /\ wguard[t]
    /\ failed' = Done(failed, token[t], panicking[t])
    /\ write_locked' = FALSE
    /\ wguard' = [wguard EXCEPT ![t] = FALSE]
    /\ native' \in Unlocked(t, native)
    /\ UNCHANGED <<num_readers, token, rguards, panicking, pc, ops, aborted,
                   culprits, spurious, racy>>

(* The client panics, holding guards or not.                              *)
Panic(t) ==
    /\ ~aborted
    /\ pc[t] = "run"
    /\ ~panicking[t]
    /\ panicking' = [panicking EXCEPT ![t] = TRUE]
    /\ culprits' = IF wguard[t] THEN culprits \cup {t} ELSE culprits
    /\ UNCHANGED <<native, write_locked, num_readers, failed, token, rguards,
                   wguard, pc, ops, aborted, spurious, racy>>

\* The process aborted, or every thread made its calls and dropped its
\* guards.
Terminated ==
    /\ \/ aborted
       \/ \A t \in Threads : pc[t] = "run" /\ Depth(t) = 0 /\ ops[t] = MaxOps
    /\ UNCHANGED vars

Next ==
    \/ \E t \in Threads :
          \/ call_read(t) \/ read_return(t) \/ try_read(t)
          \/ call_write(t) \/ write_return(t) \/ try_write(t)
          \/ drop_read(t) \/ drop_write(t) \/ Panic(t)
    \/ Terminated

Spec == Init /\ [][Next]_vars

(* A blocked pthread_rwlock_rdlock / wrlock returns once the lock is      *)
(* grantable to it (or with an error code), and a guard is scoped: its    *)
(* holder drops it at the end of the scope or while unwinding.  No order  *)
(* among waiters is assumed.                                               *)
Fairness ==
    \A t \in Threads :
        /\ WF_vars(read_return(t)) /\ WF_vars(write_return(t))
        /\ WF_vars(drop_read(t)) /\ WF_vars(drop_write(t))

FairSpec == Spec /\ Fairness

-----------------------------------------------------------------------------
(* The refinement mapping: the guards alive are the abstract holds, and a *)
(* write guard is unwinding when its thread panicked after borrow()       *)
(* recorded a token of FALSE.  The pthread lock, the bookkeeping and the   *)
(* blocked calls are hidden.                                               *)
AbsRw == INSTANCE AbstractRwLock
            WITH readers <- rguards, writer <- wguard, poisoned <- failed,
                 unwinding <- {t \in Threads :
                                  wguard[t] /\ panicking[t] /\ ~token[t]}

-----------------------------------------------------------------------------
TypeOK ==
    /\ native \in [writer : Threads \cup {NoThread},
                   readers : [Threads -> 0..MaxDepth]]
    /\ write_locked \in BOOLEAN
    /\ num_readers \in Nat
    /\ failed \in BOOLEAN
    /\ token \in [Threads -> BOOLEAN]
    /\ rguards \in [Threads -> 0..MaxDepth]
    /\ wguard \in [Threads -> BOOLEAN]
    /\ panicking \in [Threads -> BOOLEAN]
    /\ pc \in [Threads -> {"run", "rd_wait", "wr_wait"}]
    /\ ops \in [Threads -> 0..MaxOps]
    /\ aborted \in BOOLEAN
    /\ culprits \subseteq Threads
    /\ spurious \subseteq Threads
    /\ racy \subseteq Threads

\* Reader/writer exclusion at the level of guards, whatever the pthread
\* call returns on reentry: a write guard is the only guard alive, in its
\* own thread and in every other (spec 3, 4.4; try_write over a live read
\* guard must not succeed).
RwExclusion ==
    \A t \in Threads :
        wguard[t] => /\ rguards[t] = 0
                     /\ \A u \in Threads \ {t} : ~wguard[u] /\ rguards[u] = 0

\* The bookkeeping the checks rely on is exact: write_locked says a write
\* guard is alive and num_readers counts the read guards, across every
\* grant that was undone and every drop.
BookkeepingExact ==
    /\ write_locked = (\E t \in Threads : wguard[t])
    /\ num_readers = SumFunction(rguards)

\* Only a panic while holding the write guard poisons the lock: panics in
\* readers, and writes from destructors during an unwind, never do.
PoisonOnlyByWriterPanic == failed => culprits # {}

\* Every guard is backed by a pthread hold of its own thread.
GuardsBackedByNative ==
    \A t \in Threads :
        /\ native.readers[t] = rguards[t]
        /\ (native.writer = t) = wguard[t]

\* The deadlock panic is only raised in a thread that already holds a
\* guard of this lock (spec 4.4: it detects same-thread escalation).
NoSpuriousDeadlockPanic == spurious = {}

\* No data race on write_locked (sys/unix/rwlock.rs:87-89: "we make sure
\* to only access `write_locked` when `r == 0` to avoid data races"): no
\* thread reads the flag after a successful pthread call while another
\* thread holds a write guard and may clear the flag in its drop.
NoRaceOnWriteLocked == racy = {}

\* Whatever the pthread rwlock returns on reentry, the guards RwLock hands
\* out and the poison flag behave as the abstract reader-writer lock: the
\* shim's checks, undo-unlocks and deadlock panics never let a guard appear
\* or vanish, or the flag change, in a way the abstract lock forbids.
RwLockRefinesAbstract == AbsRw!ASpec

\* Every blocked read() or write() returns (or the process aborts), unless
\* some thread blocks while it holds a guard of this lock: the reentrant
\* call that spec 1 leaves unspecified ("may deadlock"), which
\* under a conforming pthread really hangs (two readers both calling
\* write()).  Guards dropped while unwinding must release the lock.
CallsReturn ==
    \A t \in Threads :
        pc[t] # "run" ~> (\/ pc[t] = "run"
                          \/ aborted
                          \/ \E u \in Threads : pc[u] # "run" /\ Depth(u) > 0)

=============================================================================
