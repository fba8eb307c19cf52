------------------------------- MODULE Poison -------------------------------
(***************************************************************************)
(* sys_common/poison.rs: the poison flag shared by Mutex and RwLock.       *)
(* The flag is the BOOLEAN `failed`; a poison::Guard (the token carried by *)
(* an exclusive guard) is the BOOLEAN `panicking` it captured when the     *)
(* lock was acquired.  The operators are pure: the lock modules apply them *)
(* to their own variables inside their acquire and release actions.        *)
(***************************************************************************)

\* Flag::borrow: the token records thread::panicking() of the acquiring
\* thread; the result is Err(PoisonError) when the flag is already set,
\* and the token is handed out either way.
Borrow(failed, panickingNow) ==
    [token  |-> panickingNow,
     result |-> IF failed THEN "Poisoned" ELSE "Ok"]

\* Variant of Flag::done that ignores the token: every guard released while
\* its thread unwinds poisons the lock.
DoneIgnoringToken(failed, guardPanicking, panickingNow) ==
    failed \/ panickingNow

\* Variant of Flag::done that stores the outcome of this guard instead of
\* or-ing it into the flag, so a clean release clears earlier poisoning.
DoneOverwriting(failed, guardPanicking, panickingNow) ==
    ~guardPanicking /\ panickingNow

\* Flag::done: the new value of `failed` when a guard carrying the token
\* `guardPanicking` is released by a thread whose thread::panicking() is
\* `panickingNow`.  Only a holder that started unwinding after it acquired
\* the lock sets the flag; nothing ever clears it.
Done(failed, guardPanicking, panickingNow) ==
    failed \/ (~guardPanicking /\ panickingNow)

=============================================================================
