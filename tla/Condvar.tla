------------------------------ MODULE Condvar ------------------------------
(***************************************************************************)
(* Condvar over Mutex on the fallback backend (the only backend with a     *)
(* condition variable: sys/unix/mod.rs declares `condvar` but has no such *)
(* file).  sys/fallback/mutex.rs and sys/fallback/condvar.rs delegate to   *)
(* std::sync::Mutex<()> and std::sync::Condvar with their poisoning        *)
(* ignored; mutex.rs and condvar.rs add this library's poison flag and     *)
(* MutexGuard::map.                                                        *)
(*                                                                         *)
(* This module holds the shared state and the steps of those primitives as *)
(* action fragments; the client modules (CondvarWait, Barrier) compose     *)
(* them into the steps of their threads and conjoin their own variables.   *)
(* Each fragment fixes all four variables below.                           *)
(*                                                                         *)
(* std's Condvar::wait releases the mutex and joins the wait queue in one  *)
(* step, and returns after re-acquiring the mutex; a wake-up is a          *)
(* notification, a spurious wake-up, or (wait_timeout) the timeout.        *)
(***************************************************************************)
EXTENDS Naturals, Poison

CONSTANTS
    Threads,    \* every thread using the mutex and the condvar
    NoThread    \* model value: the std mutex is free

ASSUME NoThread \notin Threads

VARIABLES
    owner,      \* the thread holding the std mutex, or NoThread
    failed,     \* poison::Flag.failed of the Mutex
    waiters,    \* threads blocked in std Condvar::wait / wait_timeout
    woken       \* threads woken up and not yet holding the mutex again

cvVars == <<owner, failed, waiters, woken>>

CvInit ==
    /\ owner = NoThread
    /\ failed = FALSE
    /\ waiters = {}
    /\ woken = {}

-----------------------------------------------------------------------------
(* Mutex::lock: sys::Mutex::lock is ignore_poison(std lock()), which      *)
(* blocks while the std mutex is held; then poison.borrow().  The caller  *)
(* reads the LockResult from `failed` in the same step.                   *)
MutexLock(t) ==
    /\ owner = NoThread
    /\ owner' = t
    /\ UNCHANGED <<failed, waiters, woken>>

(* MutexGuard::drop: poison.done(token), then the std guard unlocks.       *)
MutexUnlock(t, token, panickingNow) ==
    /\ owner = t
    /\ owner' = NoThread
    /\ failed' = Done(failed, token, panickingNow)
    /\ UNCHANGED <<waiters, woken>>

(* Condvar::wait / wait_timeout: MutexGuard::map takes the std guard out  *)
(* of the MutexGuard without poison.done, and std's wait releases it and  *)
(* blocks in one step.                                                    *)
CvWait(t) ==
    /\ owner = t
    /\ owner' = NoThread
    /\ waiters' = waiters \cup {t}
    /\ UNCHANGED <<failed, woken>>

\* Variant of CvNotifyAll that wakes a single waiter.
CvNotifyAllWakingOne ==
    /\ \/ /\ waiters = {}
          /\ UNCHANGED <<waiters, woken>>
       \/ \E w \in waiters :
             /\ waiters' = waiters \ {w}
             /\ woken' = woken \cup {w}
    /\ UNCHANGED <<owner, failed>>

(* Condvar::notify_one: wakes one blocked waiter, if any; with none the   *)
(* notification is lost (no buffering).                                   *)
CvNotifyOne ==
    /\ \/ /\ waiters = {}
          /\ UNCHANGED <<waiters, woken>>
       \/ \E w \in waiters :
             /\ waiters' = waiters \ {w}
             /\ woken' = woken \cup {w}
    /\ UNCHANGED <<owner, failed>>

(* Condvar::notify_all: wakes every blocked waiter.                       *)
CvNotifyAll ==
    /\ woken' = woken \cup waiters
    /\ waiters' = {}
    /\ UNCHANGED <<owner, failed>>

(* A wake-up that is no notification: spurious, or wait_timeout's timer  *)
(* (the client adds the deadline to the guard).                           *)
CvWake(t) ==
    /\ t \in waiters
    /\ waiters' = waiters \ {t}
    /\ woken' = woken \cup {t}
    /\ UNCHANGED <<owner, failed>>

(* The end of std's wait: re-acquire the std mutex.  Then MutexGuard::map *)
(* rebuilds the MutexGuard with the token it had and calls repoison, which *)
(* reads `failed` now; the caller reads it in the same step.               *)
CvReacquire(t) ==
    /\ t \in woken
    /\ owner = NoThread
    /\ owner' = t
    /\ woken' = woken \ {t}
    /\ UNCHANGED <<failed, waiters>>

=============================================================================
