---------------------------- MODULE CondvarWait ----------------------------
(***************************************************************************)
(* Condvar::wait_timeout_while (condvar.rs) and its clients, the tests    *)
(* wait_timeout_while_wake and test_arc_condvar_poison: waiters lock a     *)
(* Mutex<bool> and wait until it is true or `Dur` has elapsed; notifiers   *)
(* lock it, set it, notify_one, and drop the guard, either normally or     *)
(* while unwinding from a panic (poisoning the mutex).                     *)
(*                                                                         *)
(* Time is an abstract monotonic clock `now` that ticks up to MaxTime.     *)
(* Instant::now() and start.elapsed() read it; a wait_timeout whose        *)
(* deadline lies beyond MaxTime never times out, which is how              *)
(* Duration::from_millis(u64::MAX) is modelled.  Each waiter's loop        *)
(* iteration runs while it holds the mutex: `check` is the loop head, run *)
(* after Mutex::lock or after wait_timeout has re-acquired the mutex.      *)
(***************************************************************************)
EXTENDS Naturals, Condvar

CONSTANTS
    Waiters,        \* threads calling wait_timeout_while or wait_while
    Untimed,        \* the waiters calling wait_while (no deadline)
    Notifiers,      \* threads setting the flag and calling notify_one
    Dur,            \* the `dur` argument, in clock ticks
    MaxTime,        \* bound on the clock
    MaxSpurious     \* bound on the spurious wake-ups of one waiter

ASSUME /\ Threads = Waiters \cup Notifiers /\ Waiters \cap Notifiers = {}
       /\ Untimed \subseteq Waiters
       /\ {Dur, MaxTime, MaxSpurious} \subseteq Nat

VARIABLES
    now,        \* the monotonic clock
    notified,   \* the guarded bool
    pc,         \* pc[t]: where thread t is
    start,      \* start[w]: Instant::now() at the call of wait_timeout_while
    deadline,   \* deadline[w]: when w's pending wait_timeout times out
    spurious,   \* spurious[w]: spurious wake-ups of w so far
    out         \* out[w]: what wait_timeout_while returned to w (Ok with or
                \* without timeout, or Err)

vars == <<owner, failed, waiters, woken, now, notified, pc, start, deadline,
          spurious, out>>

Init ==
    /\ CvInit
    /\ now = 0
    /\ notified = FALSE
    /\ pc = [t \in Threads |-> "start"]
    /\ start = [w \in Waiters |-> 0]
    /\ deadline = [w \in Waiters |-> 0]
    /\ spurious = [w \in Waiters |-> 0]
    /\ out = [w \in Waiters |-> "none"]

-----------------------------------------------------------------------------
\* Variant of w_lock that blocks on the condvar before it checks the flag.
w_lock_then_wait(w) ==
    /\ pc[w] = "start"
    /\ owner = NoThread
    /\ waiters' = waiters \cup {w}
    /\ start' = [start EXCEPT ![w] = now]
    /\ deadline' = [deadline EXCEPT ![w] = now + Dur]
    /\ pc' = [pc EXCEPT ![w] = "waiting"]
    /\ UNCHANGED <<owner, failed, woken, now, notified, spurious, out>>

(* Waiter: `m.lock()`, then wait_timeout_while's `Instant::now()`.  A     *)
(* Poisoned result makes the test's unwrap panic.                         *)
w_lock(w) ==
    /\ pc[w] = "start"
    /\ MutexLock(w)
    /\ start' = [start EXCEPT ![w] = now]
    /\ pc' = [pc EXCEPT ![w] = IF failed THEN "err" ELSE "check"]
    /\ UNCHANGED <<now, notified, deadline, spurious, out>>

\* `dur.checked_sub(start.elapsed())` when it is Some: the time left, which
\* std's wait_timeout adds to the instant of the call to get its deadline.
WaitTimeout(w) == Dur - (now - start[w])

\* Variant of check that passes the whole `dur` to every wait_timeout
\* instead of the time left.
check_waiting_full_dur(w) ==
    /\ pc[w] = "check" /\ w \notin Untimed
    /\ \/ /\ notified
          /\ MutexUnlock(w, FALSE, FALSE)
          /\ out' = [out EXCEPT ![w] = "ok"]
          /\ pc' = [pc EXCEPT ![w] = "done"]
          /\ UNCHANGED deadline
       \/ /\ ~notified /\ now - start[w] > Dur
          /\ MutexUnlock(w, FALSE, FALSE)
          /\ out' = [out EXCEPT ![w] = "timed_out"]
          /\ pc' = [pc EXCEPT ![w] = "done"]
          /\ UNCHANGED deadline
       \/ /\ ~notified /\ now - start[w] <= Dur
          /\ CvWait(w)
          /\ deadline' = [deadline EXCEPT ![w] = now + Dur]
          /\ pc' = [pc EXCEPT ![w] = "waiting"]
          /\ UNCHANGED out
    /\ UNCHANGED <<now, notified, start, spurious>>

(* The loop of wait_timeout_while, under the mutex: return Ok(false) once *)
(* `condition` (!notified) is false; else `dur.checked_sub(elapsed)`:     *)
(* None (elapsed > dur) returns timed out; Some(timeout) calls            *)
(* wait_timeout(guard, timeout), which times out at now + timeout.        *)
(* Returning ends the test, which drops the guard.                        *)
check(w) ==
    /\ pc[w] = "check" /\ w \notin Untimed
    /\ \/ /\ notified
          /\ MutexUnlock(w, FALSE, FALSE)
          /\ out' = [out EXCEPT ![w] = "ok"]
          /\ pc' = [pc EXCEPT ![w] = "done"]
          /\ UNCHANGED deadline
       \/ /\ ~notified /\ now - start[w] > Dur
          /\ MutexUnlock(w, FALSE, FALSE)
          /\ out' = [out EXCEPT ![w] = "timed_out"]
          /\ pc' = [pc EXCEPT ![w] = "done"]
          /\ UNCHANGED deadline
       \/ /\ ~notified /\ now - start[w] <= Dur
          /\ CvWait(w)
          /\ deadline' = [deadline EXCEPT ![w] = now + WaitTimeout(w)]
          /\ pc' = [pc EXCEPT ![w] = "waiting"]
          /\ UNCHANGED out
    /\ UNCHANGED <<now, notified, start, spurious>>

(* wait_while: `while condition(&mut *guard) { guard = self.wait(guard)?; }` *)
(* then Ok(guard): no deadline, so it returns only once the predicate is  *)
(* false (or with the Err of a poisoned re-acquisition, see w_err).       *)
check_while(w) ==
    /\ pc[w] = "check" /\ w \in Untimed
    /\ \/ /\ notified
          /\ MutexUnlock(w, FALSE, FALSE)
          /\ out' = [out EXCEPT ![w] = "ok"]
          /\ pc' = [pc EXCEPT ![w] = "done"]
       \/ /\ ~notified
          /\ CvWait(w)
          /\ pc' = [pc EXCEPT ![w] = "waiting"]
          /\ UNCHANGED out
    /\ UNCHANGED <<now, notified, start, deadline, spurious>>

(* std's wait_timeout returns early without a notification.               *)
spurious_wake(w) ==
    /\ pc[w] = "waiting" /\ spurious[w] < MaxSpurious
    /\ CvWake(w)
    /\ spurious' = [spurious EXCEPT ![w] = @ + 1]
    /\ pc' = [pc EXCEPT ![w] = "woken"]
    /\ UNCHANGED <<now, notified, start, deadline, out>>

(* std's wait_timeout returns once its deadline has passed.               *)
timeout_wake(w) ==
    /\ pc[w] = "waiting" /\ w \notin Untimed /\ now >= deadline[w]
    /\ CvWake(w)
    /\ pc' = [pc EXCEPT ![w] = "woken"]
    /\ UNCHANGED <<now, notified, start, deadline, spurious, out>>

(* A notify_one chose w: it re-acquires like any wake-up.                 *)
notified_wake(w) ==
    /\ pc[w] = "waiting" /\ w \in woken
    /\ pc' = [pc EXCEPT ![w] = "woken"]
    /\ UNCHANGED <<owner, failed, waiters, woken, now, notified, start, deadline,
                   spurious, out>>

\* Variant of w_reacquire whose MutexGuard::map skips repoison.
w_reacquire_without_repoison(w) ==
    /\ pc[w] = "woken"
    /\ CvReacquire(w)
    /\ pc' = [pc EXCEPT ![w] = "check"]
    /\ UNCHANGED <<now, notified, start, deadline, spurious, out>>

(* std's wait re-acquires the mutex; MutexGuard::map's repoison turns a  *)
(* poisoned flag into Err, which `?` returns to the test, whose unwrap    *)
(* panics.                                                                *)
w_reacquire(w) ==
    /\ pc[w] = "woken"
    /\ CvReacquire(w)
    /\ pc' = [pc EXCEPT ![w] = IF failed THEN "err" ELSE "check"]
    /\ UNCHANGED <<now, notified, start, deadline, spurious, out>>

(* A waiter whose lock or wait returned Poisoned: wait_timeout_while      *)
(* returns Err, the unwrap panics and the guard inside the PoisonError is *)
(* dropped during the unwind.                                             *)
w_err(w) ==
    /\ pc[w] = "err"
    /\ MutexUnlock(w, FALSE, TRUE)
    /\ out' = [out EXCEPT ![w] = "poisoned"]
    /\ pc' = [pc EXCEPT ![w] = "done"]
    /\ UNCHANGED <<now, notified, start, deadline, spurious>>

(* Notifier: `m2.lock().unwrap()` (a Poisoned result panics at once).     *)
n_lock(n) ==
    /\ pc[n] = "start"
    /\ MutexLock(n)
    /\ pc' = [pc EXCEPT ![n] = IF failed THEN "err" ELSE "locked"]
    /\ UNCHANGED <<now, notified, start, deadline, spurious, out>>

(* `*started = true; c2.notify_one();`                                    *)
n_set(n) ==
    /\ pc[n] = "locked"
    /\ notified' = TRUE
    /\ CvNotifyOne
    /\ pc' = [pc EXCEPT ![n] = "set"]
    /\ UNCHANGED <<owner, failed, now, start, deadline, spurious, out>>

(* The guard is dropped at the end of the closure, or while unwinding     *)
(* from a panic after the notify (test_arc_condvar_poison).               *)
n_unlock(n) ==
    /\ pc[n] \in {"set", "err"}
    /\ \E panicking \in IF pc[n] = "err" THEN {TRUE} ELSE BOOLEAN :
          MutexUnlock(n, FALSE, panicking)
    /\ pc' = [pc EXCEPT ![n] = "done"]
    /\ UNCHANGED <<now, notified, start, deadline, spurious, out>>

(* Time passes.                                                           *)
tick ==
    /\ now < MaxTime
    /\ now' = now + 1
    /\ UNCHANGED <<owner, failed, waiters, woken, notified, pc, start, deadline,
                   spurious, out>>

\* The clock has reached its bound and every thread has returned, or waits
\* for a deadline beyond the bound, or waits in wait_while for a
\* notify_one that went to another waiter (a hang of such a waiter is what
\* WaiterReturns rules out where the clients make it impossible).
Terminated ==
    /\ now = MaxTime
    /\ \A t \in Threads :
          \/ pc[t] = "done"
          \/ t \in waiters /\ (t \in Untimed \/ deadline[t] > MaxTime)
    /\ UNCHANGED vars

\* The steps that take the mutex.
Acquire ==
    \/ \E w \in Waiters : w_lock(w) \/ w_reacquire(w)
    \/ \E n \in Notifiers : n_lock(n)

Next ==
    \/ Acquire
    \/ \E w \in Waiters :
          \/ check(w) \/ check_while(w) \/ spurious_wake(w) \/ timeout_wake(w)
          \/ notified_wake(w) \/ w_err(w)
    \/ \E n \in Notifiers : n_set(n) \/ n_unlock(n)
    \/ tick
    \/ Terminated

(* The mutex gives progress to some thread, not FIFO order; steps taken  *)
(* under the lock and the guard drops are not delayed forever; the clock *)
(* advances, and std's wait_timeout returns after its deadline.          *)
Fairness ==
    /\ WF_vars(Acquire)
    /\ \A w \in Waiters :
          /\ WF_vars(check(w)) /\ WF_vars(check_while(w)) /\ WF_vars(w_err(w))
          /\ WF_vars(notified_wake(w)) /\ WF_vars(timeout_wake(w))
    /\ \A n \in Notifiers : WF_vars(n_set(n)) /\ WF_vars(n_unlock(n))
    /\ WF_vars(tick)

Spec == Init /\ [][Next]_vars

FairSpec == Spec /\ Fairness

-----------------------------------------------------------------------------
\* wait_timeout_while's documentation: "the thread will be blocked for
\* roughly no longer than `dur`".  Every iteration of its loop passes
\* wait_timeout only the time left since `start`, so once `dur` has passed
\* since the call no wait of the waiter is still short of its deadline,
\* however many spurious wake-ups and re-checks came in between.
BlockedNoLongerThanDur ==
    \A w \in Waiters \ Untimed :
        pc[w] = "waiting" /\ now - start[w] >= Dur => now >= deadline[w]

\* test_arc_condvar_poison: the flag set by a holder that panicked while
\* the waiter was blocked in wait is reported when the waiter gets the
\* mutex back, although the waiter's own guard predates the panic and was
\* carried across the wait by MutexGuard::map.
PoisonReportedAfterWait ==
    [][\A w \in Waiters :
         (out[w] = "none" /\ out'[w] \in {"ok", "timed_out"})
             => ~failed]_vars

\* No lost wake-up: every waiter eventually returns, even when the flag is
\* set and notified before it first waits, or while it is between waits.
WaiterReturns == \A w \in Waiters : <>(out[w] # "none")

=============================================================================
