# TLA+ models of pinned-sync

These are TLA+ models of the synchronisation primitives in `src/src`, checked with TLC.
The models cover the following:
- the `Mutex` and `RwLock` of the unix backend, and the poison protocol they share;
- the `RwLock` of the fallback backend, over `std::sync::RwLock`;
- an abstract reader-writer lock, which both `RwLock` backends are shown to refine;
- the lazy-init guard `InitAssert`;
- `Condvar` over the fallback backend;
- `Barrier`, which is shown to refine an abstract barrier.
Each definition is translated from the Rust source.
`PROJECT.json` maps every definition to the lines it models, and lists the runs, the mutants, the findings and the hazards.

## The system

pinned-sync provides `Mutex`, `RwLock`, `Condvar` and `Barrier` types that can be built in a `const` context and are initialized in place once pinned.

| Part | Source | State | Operations |
|---|---|---|---|
| Poison flag | `sys_common/poison.rs` | `Flag.failed`; per guard, the `panicking` token | `borrow` records `thread::panicking()` when a lock is taken; `done` sets `failed` iff the thread began panicking after the lock was taken |
| Lazy-init guard | `sys_common/init_assert.rs` | atomic state UNINIT / INIT_IN_PROGRESS / INIT | `init`, `init_with` (a swap, then a store), `get`, `Drop` |
| Mutex | `mutex.rs`, `sys/unix/mutex.rs` | a `PTHREAD_MUTEX_NORMAL` pthread mutex, a poison flag, the data | `lock`, `try_lock`, guard `Drop`, `MutexGuard::map` and `repoison` (used by `Condvar`) |
| RwLock | `rwlock.rs`, `sys/unix/rwlock.rs`, `sys/fallback/rwlock.rs` | a pthread rwlock plus `write_locked` and `num_readers`, a poison flag | `read`, `try_read`, `write`, `try_write`, both guard `Drop`s |
| Condvar | `condvar.rs`, `sys/fallback/condvar.rs` | the waiters | `wait`, `wait_while`, `wait_timeout`, `wait_timeout_while`, `notify_one`, `notify_all` |
| Barrier | `barrier.rs` | a `Mutex<{count, generation_id}>` and a `Condvar` | `wait` |
| Fallback backend | `sys/fallback/*` | `std::sync` locks with poisoning ignored | the same operations as the unix backend |

How the parts interact:
- `Mutex` and `RwLock` take the pthread lock first and then call `poison.borrow()`.
- On drop, they call `poison.done()` before the sys guard unlocks.
- `Condvar::wait` turns the guard into a sys guard with `MutexGuard::map`, which releases the mutex without `done`. After the wait it calls `repoison`.
- `Barrier` is built on `Mutex` and `Condvar`.
- Every primitive's `init` goes through `InitAssert`, and its operations call `get` / `get_ref` on it. The unix `RwLock` is the exception: it keeps its pthread lock inline and has an `InitAssert` field, checked at the top of every call, only in debug builds (`#[cfg(debug_assertions)]`).

The unix `RwLock` keeps its own `write_locked` and `num_readers` because POSIX leaves undefined what a pthread rwlock does when a thread asks for a lock it already holds. Such a call may deadlock, return `EDEADLK`, or (glibc before 2.25) grant the lock. The library detects the grant, undoes it with `pthread_rwlock_unlock`, and panics "would result in deadlock".

## Modules

### `Poison.tla`: `sys_common/poison.rs`
- `Borrow(failed, panickingNow)` is `Flag::borrow`: the token is `thread::panicking()`, and the result is `Poisoned` iff the flag is set.
- `Done(failed, guardPanicking, panickingNow)` is `Flag::done`: the flag is set iff the token is false and the thread is now panicking. The flag is never cleared.
- The two lock modules apply these operators inside their acquire and release actions.

### `Mutex.tla`: `mutex.rs` over `sys/unix/mutex.rs`
Each thread runs the client of the `lots_and_lots` test. It locks, performs `*guard += 1`, and drops the guard.

State:
- `owner` is the pthread mutex owner.
- `failed` is the poison flag, and `token[t]` is the poison token of `t`'s guard.
- `panicking[t]` is `thread::panicking()`.
- `pc[t]` is the thread's position.
- `data` is the guarded `u32`, and `tmp[t]` is the value `t` read during its increment.
- `ops[t]` counts calls.
- `incs` and `culprits` are history variables for the properties.

Actions:
- `lock` and `try_lock` begin a call.
- `acquire` is the return of `pthread_mutex_lock` followed by `borrow()`.
- `inc_read` and `inc_write` are the two halves of `*guard += 1` (`Deref`, then `DerefMut`).
- `drop_guard` is `MutexGuard::drop`: `done()` followed by the sys guard's unlock.
- `Panic` can happen at any point. A thread that panics while holding a guard must drop it next (`unwind`). An idle panicking thread may still lock from a destructor, as in `test_mutex_arc_access_in_unwind`. A second panic aborts, so a thread panics at most once.

`try_lock` is modelled as the code has it. `sys::Mutex::try_lock` calls the blocking `pthread_mutex_lock`, so a `try_lock` call waits exactly like `lock`.

### `RwLock.tla`: `rwlock.rs` over `sys/unix/rwlock.rs`
The pthread rwlock is modelled per thread as `native.writer` and `native.readers[t]`, with readers preferred (glibc's default; the code sets no attribute).

Functions built from the pthread contract stated in the source comments (lines 70–84 and 137–139):
- `RdlockCodes` and `WrlockCodes` give the codes a call may return, where `{}` means the call blocks. A call that conflicts with the thread's own hold returns a code from the constant `Reentry` ⊆ {`OK`, `EDEADLK`}.
- `TryrdlockCodes` and `TrywrlockCodes` give the codes of the try variants.
- `Unlocked` is `pthread_rwlock_unlock`. When a thread holds both the write lock and a read lock, which only a non-conforming grant produces, it may release either.

Actions:
- `call_read` and `call_write` enter a blocking call. `read_return` and `write_return` are its return, with the `write_locked` / `num_readers` check, the undo-unlock and the panic.
- `try_read` and `try_write` are one step each.
- `drop_read` is `ReadGuard::drop`: `num_readers` is decremented, then the lock is unlocked.
- `drop_write` is `RwLockWriteGuard::drop`: `done()`, then `write_locked = false`, then the unlock.
- `DeadlockPanic` is the "would result in deadlock" panic, which aborts when the thread is already panicking.
- `PanicInCall` is a panic raised inside the call. It is taken by `DeadlockPanic` and by the `EAGAIN` path: when the readers already number `MaxReaders` and no thread writes, `rdlock` returns `EAGAIN` and `read` panics "rwlock maximum reader count exceeded" before touching `num_readers`.
- `Panic` is a client panic.
- `RacyRead` maintains the history variable `racy`: the threads that read `write_locked` after a successful pthread call while another thread held a write guard. That read is a data race on the plain `UnsafeCell<bool>`, which the comment at lines 87–89 says the code avoids.

`RwLock.tla` instantiates `AbstractRwLock` (`AbsRw == INSTANCE AbstractRwLock WITH ...`) with this mapping:
- `readers` is the read guards per thread, and `writer` is the write guard;
- `poisoned` is the library's `failed`;
- `unwinding` is the writers that began panicking after taking the guard (`panicking` true, token false).

Clients take up to `MaxDepth` nested guards. A panicking thread calls the lock again only when it holds no guard, which is the destructor case.

### `InitAssert.tla`: `sys_common/init_assert.rs`
Threads share one primitive at a fixed address, as a `static` is. A thread in `Initers` may call `init`, and any thread may use the primitive through `get` / `get_ref`.

State:
- `state` is the atomic, and `data` is the `MaybeUninit` (`uninit`, `value` or `dropped`).
- `pc[t]` is the thread's position, and `ops[t]` counts its calls.
- `seen[t]` is what `t`'s last successful `get` pointed at.
- `alive` is false once the primitive is dropped.
- `constructions` is a history variable.

Actions:
- `init_with` is three steps:
  1. `init_swap`: the swap and `assert_eq!(old, UNINIT)`; a failed assert panics after the swap has written.
  2. `init_construct`: the constructor, which may panic.
  3. `init_store`: `store(INIT)`.
- `get` asserts `INIT`.
- `drop` is `Drop`: `drop_in_place` runs only if the state is `INIT`.

The atomics are sequentially consistent in the model. The Acquire/Release pairs order the constructor's writes before any use that read `INIT`, which is all the code relies on.

### `Condvar.tla`: the shared mutex and condvar
There is no unix condvar: `sys/unix/mod.rs` declares `pub mod condvar` without the file. So the condvar is modelled over the fallback backend, which delegates to `std::sync::Mutex<()>` and `std::sync::Condvar` with poisoning ignored. The library's poison flag and `MutexGuard::map` / `repoison` sit on top.

The module holds the state `owner`, `failed`, `waiters` and `woken`, plus action fragments that fix all four:
- `MutexLock` and `MutexUnlock` (the unlock applies `Done`).
- `CvWait`: `map` hands the sys guard to std's `wait`, which releases the mutex and blocks in one step, without `done`.
- `CvNotifyOne` wakes one waiter; with no waiters the notification is lost.
- `CvNotifyAll` wakes every waiter.
- `CvWake` is a spurious or timed-out wake-up.
- `CvReacquire` re-takes the mutex; the caller reads `failed` in the same step, which is `repoison`.

The client modules conjoin these fragments with their own variables.

### `CondvarWait.tla`: `Condvar::wait_timeout_while`, `wait_while` and their clients
- The waiters not in `Untimed` run the waiting side of `wait_timeout_while_wake`: lock a `Mutex<bool>`, then `wait_timeout_while(g, dur, |n| !n)`.
- Notifiers lock, set the flag, `notify_one`, and drop the guard. The drop may happen while unwinding, as in `test_arc_condvar_poison`, which poisons the mutex.
- Time is an abstract clock `now` up to `MaxTime`. A deadline beyond `MaxTime` models `Duration::from_millis(u64::MAX)`.

Waiter actions:
- `w_lock`: lock, then `Instant::now()`.
- `check`: the loop head under the mutex. It returns `Ok(false)` when the predicate is false, returns "timed out" when `checked_sub` gives `None`, and otherwise calls `wait_timeout` with the time left, `WaitTimeout(w)` = `dur - (now - start)`. std's wait then times out at `deadline[w]` = `now + WaitTimeout(w)`.
- The wake-ups: `spurious_wake` (bounded by `MaxSpurious`), `timeout_wake` and `notified_wake`.
- `w_reacquire` re-takes the mutex and goes through `repoison`.
- `check_while` is the loop head of `wait_while(g, |n| !n)`, used by the waiters in `Untimed`: it returns `Ok` once the flag is set, and otherwise calls `wait`, with no deadline. Such a waiter has no `timeout_wake`.
- `w_err` is the `Err` path: the test's `unwrap` panics and the guard is dropped while unwinding.

### `Barrier.tla` and `AbstractBarrier.tla`: `barrier.rs`
`Barrier.tla` composes the `Condvar.tla` fragments. `generation_id` has `GenWidth` bits and wraps like `wrapping_add`.

Actions of `wait()`:
- `b_lock` takes the mutex.
- `arrive` reads `local_gen` and increments `count`. A non-leader's first loop test holds, so it waits. The leader resets `count`, advances the generation and calls `notify_all`.
- `leader_return` returns `true` to the leader.
- `notified_wake`, `spurious_wake` and `b_reacquire` are the wake-ups and the re-acquisition.
- `recheck` is the `while` test.

`AbstractBarrier.tla` states what `wait` promises, with no lock:
- A thread arrives.
- The `NumThreads`-th arrival releases everyone waiting in its round and leaves at once.
- The others leave later.

`Barrier.tla` instantiates it (`Abs == INSTANCE AbstractBarrier WITH ...`) with this mapping:
- A thread in the wait loop is `in` while `local_gen = generation_id`, and `released` after that.
- The leader has passed once it has opened the barrier.

### `AbstractRwLock.tla`: what an `RwLock` promises
The abstract lock has no backend and no blocking:
- `AcquireRead` needs no writer; `AcquireWrite` needs no writer and no reader;
- `StartUnwind` marks a writer that begins to panic;
- `ReleaseWrite` poisons iff the writer was unwinding. Read guards never poison, and nothing clears the flag.

Blocking, the try variants and the panics of the unix backend only decide whether and when an acquisition happens, so they are stutter steps of the abstract lock.

### `FallbackRwLock.tla`: `rwlock.rs` over `sys/fallback/rwlock.rs`
The std lock is `std = [writer, readers, poisoned]`. Its contract:
- a read blocks while a thread writes, and, when `WriterPreferring`, while a thread waits to write;
- a write blocks while anybody holds it, the caller included, so reentry blocks instead of being granted;
- std poisons its own flag as the library does, with the same token. Both `borrow`s run right after std's call returns, with no panic possible in between.

Definitions:
- `StdTry` is the `TryLockResult` of std's `try_read` / `try_write`.
- `TryIgnorePoison` is `try_ignore_poison` (`sys/fallback/mod.rs`): `Ok` and `Poisoned` give the guard, `WouldBlock` gives `None`.
- `read_return` is the return of std's `read` through `ignore_poison`.
- `write_return`, `try_read` and `try_write` are the `rwlock.rs` handlers. The write variants record the token from `borrow`.
- `drop_write` runs the library's `done` and then std's guard drop, which poisons std and unlocks.
- `into_inner` is taken once every thread has made its calls and holds nothing. It returns the result of `borrow`.

`AbsRw` maps `std.readers` and `std.writer` onto the abstract lock, in the same way as for the unix backend.

### Atomicity of a handler
Every handler is one step in the two lock modules. In the condvar and barrier modules, the std mutex separates the steps: each step is one critical section, or one blocking call's return.

The code between a pthread call and the handler's return runs while the pthread lock is held, or after it has been released with nothing left to do but return. Other threads see the library's fields only after they pass the pthread lock themselves, so they cannot observe an intermediate state.

The one exception is a non-conforming grant. There, `write_locked` is read by a thread that the pthread lock does not separate from the writer, which is a data race. This is listed as a hazard; both orders of the two steps appear in the model.

### MC modules
- `MC_Mutex.tla` and `MC_RwLock.tla` declare three thread model values, a symmetry set (`Permutations`), and, for the rwlock, the three choices of `Reentry`.
- Symmetry is sound because no definition distinguishes one thread from another. It is used by the rwlock runs without a liveness property.
- Symmetry is not used in runs that check a liveness property (`mutex`, `rwlock_conforming`, `fallback_rwlock`, `barrier`), because TLC's symmetry reduction can hide a lasso.
- `MC_InitAssert.tla` declares three threads, two of which call `init`, with symmetry over the initializers.
- `MC_FallbackRwLock.tla` declares three threads.
- `MC_CondvarWait.tla` and `MC_Barrier.tla` declare the waiters, the notifiers and the barrier's threads.

## Runs

| Run | cfg | Checks | Result |
|---|---|---|---|
| `mutex` | `MC_Mutex.cfg` (3 threads, 2 calls each, `FairSpec`) | `NoLostUpdate`, `PoisonExact`, `WaiterProgress` | holds |
| `mutex_trylock_blocks` | `MC_Mutex_trylock.cfg` | `TryLockNeverBlocks` | **violated** |
| `rwlock_any_platform` | `MC_RwLock_any.cfg` (3 threads, depth 2, 3 calls, `Reentry` = {OK, EDEADLK}, `MaxReaders` = 2) | `TypeOK`, `RwExclusion`, `BookkeepingExact`, `PoisonOnlyByWriterPanic`, `RwLockRefinesAbstract` | holds |
| `rwlock_conforming` | `MC_RwLock_conforming.cfg` (`Reentry` = {EDEADLK}, `FairSpec`) | `GuardsBackedByNative`, `NoSpuriousDeadlockPanic`, `CallsReturn` | holds |
| `fallback_rwlock` | `MC_FallbackRwLock.cfg` (3 threads, depth 2, 2 calls, writer-preferring std, `FairSpec`) | `IntoInnerReportsWriterPanic`, `FallbackRefinesAbstract`, `CallsReturn` | holds |
| `rwlock_granting_spurious_panic` | `MC_RwLock_granting.cfg` (`Reentry` = {OK}) | `NoSpuriousDeadlockPanic` | **violated** |
| `rwlock_granting_data_race` | `MC_RwLock_race.cfg` (`Reentry` = {OK}, 2 calls) | `NoRaceOnWriteLocked` | **violated** |
| `initassert_race` | `MC_InitAssert.cfg` (3 threads, 2 initializers, 2 calls each) | `ConstructedOnce`, `UseOnlyAfterInit` | holds |
| `initassert_reinit` | `MC_InitAssert_reinit.cfg` (1 call each) | `InitNeverUndone` | **violated** |
| `condvar_timeout` | `MC_CondvarWait.cfg` (2 waiters, one of them in `wait_while`, 1 notifier, `Dur` = 1, `MaxTime` = 3, 1 spurious wake-up each) | `BlockedNoLongerThanDur`, `PoisonReportedAfterWait` | holds |
| `condvar_progress` | `MC_CondvarWait_live.cfg` (1 waiter, 2 notifiers, deadline beyond the clock, `FairSpec`) | `WaiterReturns` | holds |
| `barrier` | `MC_Barrier.cfg` (3 threads, 3 rounds, 1-bit generation, 1 spurious wake-up each, `FairSpec`) | `TypeOK`, `OneLeaderPerRound`, `NoEarlyLeave`, `BarrierRefinesAbstract`, `AllWaitsReturn` | holds |

What the properties say:
- **`TypeOK`** is checked only where a plausible code bug breaks it. In `rwlock_any_platform`, decrementing `num_readers` on the undo path would wrap the `AtomicUsize`. In `barrier`, a `generation_id + 1` without `wrapping_add` overflows. The other modules keep no type invariant in their runs, because only an off-by-one in the model's own call bounds could break one.
- **`NoLostUpdate`**: the data always equals the number of completed increments, whatever the interleaving of locks, panics and unwinds.
- **`PoisonExact`**: the flag is set iff some thread panicked while holding a guard and has since dropped it. This exercises the token edge: a thread that locks during its own unwind never poisons.
- **`WaiterProgress`**: a blocked `lock` / `try_lock` is followed by some thread holding the mutex. It fails if a panicking holder does not unlock.
- **`RwExclusion`**: a write guard excludes every other guard. This holds even when the pthread lock grants reentry, which is exactly what the library's bookkeeping is for.
- **`BookkeepingExact`**: `write_locked` and `num_readers` equal the live write guard and the number of live read guards.
- **`PoisonOnlyByWriterPanic`**: only a write guard dropped while unwinding poisons.
- **`GuardsBackedByNative`**: every guard is backed by its thread's pthread hold, with no leak and no extra hold.
- **`NoSpuriousDeadlockPanic`**: the "would result in deadlock" panic only hits a thread that already holds a guard of the lock.
- **`RwLockRefinesAbstract`** and **`FallbackRefinesAbstract`**: every behaviour of either backend is a behaviour of `AbstractRwLock`. This covers the undo paths, the deadlock and `EAGAIN` panics, std's blocking reentry and both poison flags.
- **`CallsReturn`** (both backends): every blocked `read()` or `write()` returns (or, on unix, the process aborts), unless some waiting thread itself holds a guard of the lock. That exception is same-thread re-entry, which spec §1 leaves unspecified ("may deadlock"). The documentation of `read` and `write` says such a call "might panic" (`rwlock.rs:117`, `:178`). The property fails if a write guard dropped during an unwind keeps the lock, or if a writer-preferring lock lets waiting readers and a waiting writer hold each other back.
- **`NoRaceOnWriteLocked`**: no thread reads `write_locked` while another thread holds a write guard.
- **`IntoInnerReportsWriterPanic`**: `into_inner` returns `Poisoned` iff some thread panicked while holding the write guard.
- **`ConstructedOnce`** and **`UseOnlyAfterInit`**: racing initializers construct the value at most once, and `get` never hands out a value that is not fully constructed. This holds even while another thread's `init` is running or has panicked.
- **`BlockedNoLongerThanDur`**: once `dur` has passed since `wait_timeout_while` was called, no `wait_timeout` of the waiter is still short of its deadline. This is the documented promise that the thread is "blocked for roughly no longer than `dur`", and spec §4.5's "tracks elapsed time across repeated spurious wakeups". It fails if a loop iteration after a spurious wake-up passes a fresh `dur` instead of the time left.
- **`PoisonReportedAfterWait`**: a waiter never returns `Ok` while the flag is set. A panic during the wait is reported through `repoison`, although the waiter's guard predates it.
- **`WaiterReturns`**: no wake-up is lost. The flag may be set before the waiter first waits, or between two waits.
- **`OneLeaderPerRound`**, **`NoEarlyLeave`**, **`AllWaitsReturn`**: each round has exactly one leader, no call returns before every thread has arrived in its round, and every call returns. These hold with spurious wake-ups and with `generation_id` wrapping every two rounds.
- **`BarrierRefinesAbstract`**: every behaviour of `Barrier` is a behaviour of `AbstractBarrier` under the mapping.

### Findings
1. **`try_lock` blocks** (`sys/unix/mutex.rs:50`). It calls `pthread_mutex_lock`, not `pthread_mutex_trylock`. The trace: `t1` locks, then `t2` calls `try_lock` and is left waiting behind `t1`'s guard. The documentation and spec §4.3 say it returns `WouldBlock`. On a NORMAL mutex, a holder that calls `try_lock` deadlocks.
2. **Spurious deadlock panic under a granting pthread** (`sys/unix/rwlock.rs:50` and `:92`). The trace has three steps:
   1. `t2` holds the write guard.
   2. `t2` calls `try_read`, which is granted and then undone. The single `pthread_rwlock_unlock` releases the write hold and leaves the read hold.
   3. `t1`'s blocked `read` is granted. It sees `write_locked` and panics although `t1` holds nothing.

   The check is meant to catch same-thread escalation only. With `Reentry = {EDEADLK}` the property holds (`rwlock_conforming`).
3. **A second `init` destroys an initialized primitive** (`sys_common/init_assert.rs:37`). `init_with` swaps `INIT_IN_PROGRESS` in before `assert_eq!(old, UNINIT)` looks at the old value. In the trace, `t1` initializes the primitive, then `t2`'s `init` turns `INIT` into `INIT_IN_PROGRESS` and panics. From then on every lock operation panics in `get`, and `Drop` skips `drop_in_place`, which leaks the value. Spec §3 says the state moves Uninitialized → Initializing → Initialized exactly once. The case is two threads racing to `init` one `static`.

4. **Data race on `write_locked` under a granting pthread** (`sys/unix/rwlock.rs:49` and `:87`). The comment at lines 87–89 says `write_locked` is read only after `r == 0` "to avoid data races". The trace:
   1. `t1` takes the write guard with `try_write`.
   2. `t1` calls `try_read`. The grant is undone, and the single unlock releases `t1`'s write hold.
   3. `t2`'s `try_read` is granted by `pthread_rwlock_tryrdlock` and reads `write_locked` at line 49, while `t1` still holds its write guard, whose drop writes the flag.

   This is the trace TLC reports for `rwlock_granting_data_race` (`MC_RwLock_race.cfg`). It is a different trace from finding 2's, where the racy read is a blocked `read()` at line 87. That read races the same way: `RacyRead` marks it there too.

   Nothing orders the two accesses, so this is undefined behaviour. With `Reentry = {EDEADLK}` no such grant exists, and `racy` stays empty.

### Bounds
- **Three threads** are enough to show a holder, a waiter and a third thread that interferes. Both violations need only two threads plus the holder, and every property was also broken by its mutant at these bounds.
- **`MaxOps`** (2 or 3 calls per thread) lets a thread lock again after a poisoning unwind, and lets a destructor lock during an unwind.
- **`MaxReaders = 2`** in the rwlock runs lets two threads hold read guards and a third get `EAGAIN`.
- **`WriterPreferring = TRUE`** in the fallback runs is the case where a waiting writer holds back readers; with `FALSE` the reads are only less constrained.
- **`MaxDepth = 2`** lets a thread hold a read guard and a write guard, or two read guards, at once, which is what reentry needs.
- The largest state spaces have about 412k distinct states (`mutex`, 40 s), 240k (`rwlock_conforming`, about a minute without symmetry) and 187k (`rwlock_any_platform`, with symmetry). Every run finishes within about a minute.
- **Barrier**: three threads and three rounds with a 1-bit `generation_id` make the generation wrap, which checks that the wrapped value is still compared correctly. The model has exactly `num_threads` callers (`ASSUME Cardinality(Threads) = NumThreads`, the case of spec §8). So a waiter cannot miss a whole round, and the case where it sees its own `generation_id` again after a wrap cannot occur. With a `usize` counter it would take 2^64 rounds anyway. One spurious wake-up per thread exercises the `while` loop.
- **Condvar**: `Dur = 1` and `MaxTime = 3` reach both a timeout after a spurious wake-up and a notification just before the deadline. Two waiters with one notifier leave one waiter without a notification. The liveness run sets the deadline beyond the clock, so only the notification can end the wait.
- **InitAssert**: two initializers are enough for the race; a third thread only uses the primitive.

### Fairness
Fairness is used in `mutex`, `condvar_progress`, `barrier`, `rwlock_conforming` and `fallback_rwlock`:
- **Weak fairness on "some waiter acquires"**, not on each thread. pthread guarantees progress when the mutex is free, but no FIFO order.
- **Weak fairness on `inc_write` and `drop_guard` of each thread**, because a guard is scoped: the holder completes its statement and the guard is dropped at the end of the scope or during the unwind.
- **In the rwlock runs**, weak fairness is put on each thread's `read_return` and `write_return` and on its `drop_read` and `drop_write`. A blocked pthread or std call returns once the lock is grantable to it, and guards are scoped. No order among waiters is assumed, so a writer-preferring std lock must itself prevent starvation.
- **In the condvar and barrier runs**, the same weak fairness on "some thread takes the mutex" applies. The steps taken under the mutex, the return of a wait that was notified or has timed out, and the ticks of the clock are weakly fair. Spurious wake-ups have no fairness: the code must not depend on them.

### Deadlock checking
- `mutex_trylock_blocks` checks deadlock. `Terminated` is the stutter step allowed once every thread has made its calls. The `mutex` run checks a liveness property, so it disables deadlock checking: a hang there violates `WaiterProgress`.
- The rwlock runs disable deadlock checking. Two threads that each hold a read guard and both call `write()` really deadlock in the code: each waits for the other's read hold. Spec §1 says same-thread re-entry is unspecified and "may deadlock". This case is excused by name in `CallsReturn`, which checks that no other blocked call hangs.
- The fallback runs disable deadlock checking for the same reason. There a reentrant call blocks on std's lock, as does a nested `read` behind a waiting writer; the spec leaves both unspecified, and `CallsReturn` excuses exactly these hangs.
- `initassert_race` and `condvar_timeout` check deadlock. Their `Terminated` is the stutter step allowed once every thread is done. In `condvar_timeout`, a waiter whose deadline lies beyond the clock may also still be blocked, and so may the `wait_while` waiter when the single `notify_one` woke the other waiter.
- The liveness runs `condvar_progress` and `barrier` disable deadlock checking. There a hang must be reported by the liveness property, which states what the code promises, and not as a deadlock. In `barrier`, `AllWaitsReturn` thus also covers what a deadlock check would: a state with no step and a thread still in `wait()` stutters forever and violates it, while the state where every thread has returned is `Terminated`.

## Mutants
Each property of a passing run has a mutant in `PROJECT.json`: an operator defined just before the action it replaces, which changes that action the way a plausible bug would. Under the run's cfg, each mutant makes TLC report the property violated.

| Mutant | What it does |
|---|---|
| `acquire_without_wait` | acquire without waiting for the owner |
| `DoneIgnoringToken` | `done` that ignores the token |
| `drop_guard_leaking_on_unwind` | no unlock during an unwind |
| `read_return_unchecked` | omit the `write_locked` check |
| `try_read_counting_undone` | count an undone grant |
| `try_read_uncounting_undone` | decrement `num_readers` on the undo path, which drives it below zero |
| `drop_read_poisoning` | a read guard that poisons |
| `drop_read_without_unlock` | a read guard drop that does not unlock |
| `drop_write_keeping_flag` | a write guard drop that keeps `write_locked` set |
| `init_swap_refusing_only_init` | an assert that accepts `INIT_IN_PROGRESS` |
| `init_store_early` | `INIT` published before the constructor has written |
| `check_waiting_full_dur` | each `wait_timeout` given the whole `dur` instead of the time left |
| `w_reacquire_without_repoison` | `map` without `repoison` |
| `w_lock_then_wait` | a wait before the predicate is first checked |
| `arrive_unwrapped` | `generation_id + 1` without wrapping |
| `recheck_claiming_leader` | waiters return `leader = true` |
| `recheck_once` | `if` for `while` |
| `arrive_same_generation` | a leader that does not advance the generation |
| `CvNotifyAllWakingOne` | `notify_all` that wakes one waiter |
| `read_return_unchecked` (refinement run) | a read granted beside the thread's own write guard |
| `DoneOverwriting` (in `rwlock_any_platform`) | `done` that stores instead of or-ing, so a clean release clears the flag |
| `into_inner_unchecked` | `into_inner` that returns the data without `borrow` |
| `read_return_over_own_write` | a fallback read granted over the thread's own write lock |
| `drop_write_kept_on_unwind` | a unix write guard released only on normal scope exit, not while unwinding |
| `WriteLockableYielding` | a writer that also yields to waiting readers, so two readers can starve it |

## Not modelled yet, and the plan
Still to do, most important first:
1. **Refinement of `Mutex`** to an abstract lock, as done for `RwLock`.
2. **More condvar clients**:
   - direct `wait_timeout` callers (no predicate);
   - several condvars and mutexes. `Condvar::wait` is documented to possibly panic when used with more than one mutex (`condvar.rs:146`); whether it does is up to std's condvar.
3. **The fallback `Mutex`** as a parameter of `Mutex.tla`: std's mutex with poisoning ignored, where reentry blocks.

Left out on purpose:
- Backend selection (`cfg_if`), re-exports, `cvt_nz`, and the `is_poisoned` / `get_mut` accessors: they change no shared state.
- The unix `condvar` module, which `sys/unix/mod.rs` declares but the repository does not contain.
