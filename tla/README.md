# EasyDataManager in TLA+

EasyDataManager keeps named data in a cache, refreshes them with periodic jobs
and tells listeners when they change, on RT-Thread. These modules specify its
concurrent core as the code in `src/` has it, check the specifications with TLC
and prove the most important invariants with TLAPS.

## The system

| component | source | state | operations | meets |
|---|---|---|---|---|
| thread pool (RT-Thread) | `thread_pool/rt-thread/rtthread_pool.c` | task list `queueHead`, `curWaitThreadNum` (8 bits), `isShutdown`, mutexes `queueLock` and `userLock`, semaphore `queueReady` | `addTask`, `delAll`, `destroy`, the workers' `threadJob`, `lock`/`unlock` | the cache queues its listeners in it and borrows `userLock` |
| mutex and semaphore | `thread_pool/rt-thread/src/ipc.c` | owner, hold count, value, list of suspended threads | take, release, reset, delete | everything that blocks |
| cache | `cache/cache.c` | list of `CacheData` from `dataHead` to `dataTail` | `has`, `add`, `del`, `get`, `set`, `getSize` | `set` calls `addTask`; listeners run on pool threads and may call the cache |
| refresher | `refresher/rt-thread/refresher.c` | job queue, ready queue with `curPeriod`, `queueLock`, kernel thread, one thread per `newThread` job | `add`, `del`, `delAll`, `destroy`, `setPeriodAndPriority`, `setTimes` | jobs call the cache and the refresher |
| POSIX thread pool | `thread_pool/pthread/pthread_pool.c` | as the other pool, with a condition variable and a join | as the other pool's, `delAll` does nothing | takes the RT-Thread pool's place in a build for POSIX |
| EasyLogger core | `elog/src/elog.c`, `elog/port/elog_port.c` | line buffer, output lock with the flag that disables it and two flags that remember, filters | `elog_output`, `elog_raw`, `elog_output_lock_enabled`, `elog_set_output_enabled` | every component logs |
| EasyLogger asynchronous output | `elog/src/elog_async.c`, the port's thread | ring buffer with two indices and two flags, semaphore `output_notice` | put a log, get a line, `elog_async_enabled` | the core puts, a thread gets and prints |
| application | `app/src/app_rtt.c`, `app/src/app_pthread.c` | demo cache and refresher | start-up, two jobs, cache calls | |
| operating systems | `thread_pool/rt-thread`, `ucosii`, `ucos2`, `ucosiii` | vendored | | RT-Thread runs the rest |

What is hard, and what makes each part correct:

* **Pool.** The workers imitate a condition variable with a mutex and a counting
  semaphore, and take tasks without taking the semaphore; `delAll` resets the
  semaphore and reads freed blocks; `destroy` deletes workers in the middle of
  anything. Correct means: `queueLock` excludes, the counter is the length of
  the list, no wakeup is lost, nobody sleeps with the lock, tasks start once and
  in order, `destroy` ends and leaves nobody inside.
* **Cache.** `add` and `del` lock, everything else walks the list without the
  lock, and listeners keep a pointer to the data until they run. Correct means:
  the list stays a list, nobody reads freed memory, `getSize` returns a size the
  list had, the listener has seen the last value, `del` removes what it names.
* **Refresher.** The kernel thread reads both queues without the lock and uses
  what it read after calling jobs. Correct means: the ready queue points to jobs
  that exist, every due job runs before its period is counted down again, a
  counted job stops, and only a stopped job leaves the ready queue.
* **Logger.** Equal indices mean a full or an empty ring, which two flags tell
  apart; lines are cut where the array or the reader's buffer ends; the output
  lock can be switched off while it is held, and its flags are set after the take
  and cleared after the release. Correct means: what fits is kept, what is kept
  is printed once, in order and in the end, one thread at a time uses the
  buffers, and the lock comes free.
* **POSIX pool.** A worker tests `isShutdown` and the counter, and waits; `destroy`
  sets the flag and broadcasts without the lock; signals are sent after the
  unlock. Correct means what it means for the other pool.

`PROJECT.json` lists the hazards line by line, each with the properties that
would notice it.

## Modules

| module | models |
|---|---|
| `RttIpc` | the mutex and the semaphore as operators on records: one call up to the point where it suspends its caller is one step. The caller goes on when somebody takes it off `waiting`; a released mutex belongs to the first waiter before that one runs. Priorities are left out, so every schedule is allowed. |
| `TaskPool` | abstract: what a pool promises. `submitted`, `pending`, `running`; tasks start once, oldest first, and only a deletion throws waiting tasks away. |
| `RttPool` | `rtthread_pool.c`. Threads have a program counter; an action is the code between two points where another thread could see a difference. `queue` is the list, `cur` is `curWaitThreadNum`, `newtask[a]` the block an `addTask` holds before it takes the lock, `freed` and `leaked` follow the block that `delAll` frees before it reads its `next`. |
| `Cache` | `cache.c`. `heap` maps allocated nodes to name, value and next; `call[t]` holds a thread's place and locals. A step of a walk reads one node, `get` and `set` handle one word per step. Uses `TaskPool` for the listeners. `fault` records a read through NULL or a freed node; the model stops there. The history `seen`, `missed`, `struck` and `shrunk` changes no step: it says what the properties except. |
| `Refresher` | `refresher.c`. `queue` and `job` are the job queue, `ready` the ready queue with `left` for `curPeriod`, `kernel`, `thread` and `client` say where the kernel thread, the job threads and the application are. What the code reads without the lock and uses later is a step of its own. The history `late` keeps the jobs stopped between their test of `times` and its decrement. |
| `PthreadPool` | `pthread_pool.c`, in the manner of `RttPool`. `queueReady` is the set of threads that wait on the condition; waiting unlocks in the same step, may end without a signal, and is followed by `Relock`. |
| `LogRing` | the ring buffer of `elog_async.c` as operators on a record, since all of it runs under the output lock: `Put` and `Get`, with `Used` as the code computes it and `Contents` as what really is in the ring. |
| `LogQueue` | abstract: what asynchronous output promises, a queue of characters between the callers and the console. |
| `Elog` | `elog.c`, `elog_async.c` and `elog_port.c` together. `call[t]` says where a thread is; a character is the number of its log, its place in it, and whether it ends the line. `outOfTurn` records the situations in which lines may overtake or overwrite each other. |
| `MCRttPool`, `MCPthreadPool`, `MCCache`, `MCRefresher`, `MCElog` | model values, symmetry and constants for the runs. |
| `RttIpcProofs`, `RttPoolProofs`, `PthreadPoolProofs`, `CacheProofs`, `RefresherProofs`, `LogRingProofs`, `ElogProofs`, `ElogLockProofs` | lemmas and theorems, see Proofs. |

`RttPool`, `Cache` and `Elog` EXTEND `RttIpc`. `RttPool` and `PthreadPool` both
implement `TaskPool` (`Promise`, a refinement mapping), and `Cache` is built on
`TaskPool`, so what is checked of the cache holds for every pool that keeps the
promises. `Elog` implements `LogQueue`. Definitions
headed "Mutated forms" are faulty variants that show each property can fail.

How the code's text maps to actions is in `PROJECT.json` under `map`. Points
worth knowing:

* *Pool.* `rt_mutex_release(queueLock)` is part of the action before it. A worker
  between lines 208 and 209 is at `semTake`. A failed assertion stops the worker.
  After `destroy` has deleted `queueLock` nobody uses it again in the model: a
  call on freed memory has no meaning. `destroy` may delete workers in any order.
* *Cache.* `add` and `del` are one step each under `userLock`, because the walkers
  see one write of theirs. Every thread calls what it likes when it likes: no
  discipline is assumed, and the code has three mistakes that let a caller read
  through a null pointer or a freed node. `struck` is set at the moment of each: a
  delete frees a node that a call (`get`, `set`, `getSize`, another `del`) or a
  listener still points to (`Awaited`); the first `add` comes between the two reads
  of `dataHead` in `hasData` or `delData` (`FoundNull`); the last of three or more
  data is deleted, when `delData` frees through the field it has just cleared (line
  210). `NoFault` says that nothing else ever does it. `addTask` may find no memory:
  `setValue` ignores that, and `missed` keeps the data whose last change nobody was
  told of.
* *Refresher.* One turn of the kernel thread's loop is `Tick`, `Fill` once per
  job, then `Select` and running until nothing is due. `TakenOff` says which ready
  job the removal takes. A null pointer there leaves the kernel thread at `fault`.
  A process that the kernel runs may delete any job, its own included; the
  application adds, sets (to 0 times too), deletes one or all, and destroys, wherever
  the kernel thread is. `Frees` says what a deletion by the application does to that
  thread: when it frees what the thread is certain to follow next (`HeldJobs`,
  `HeldReady`) the thread goes to `fault`; when it frees a node of a queue the thread
  is walking, or the job whose process it is about to call, the thread may or may not
  be struck; any other deletion lets it go on. `crossed` tells a thread lost that way
  from one lost by the code of line 226. Concurrent `add`s are outside the model.
* *Logger.* A level or tag filter returns before anything changes; the keyword
  filter is a choice of `FormatRest`. A line is put together in two steps, so that
  an exception may come in the middle, and `elog_async_output` reads `is_enabled`
  (`TestEnabled`) one step before it puts the line into the ring or prints it. With
  the output lock disabled only the thread that disabled it runs and asynchronous
  mode is off: the code provides this for a system exception (`elog.c:545`). A
  release of the mutex by a thread that does not own it changes nothing, as in
  `rt_mutex_release`; the two flags rely on that.
* *POSIX pool.* `isShutdown` is read and set without a lock, so `FindNothing` and
  `Sleep` are two steps. Workers may add tasks from the tasks they run.

## Runs

| run | constants | shows |
|---|---|---|
| `RttPool_traffic` | 2 workers, 2 adders, one of them also calls `delAll` and the other `destroy`; 4 tasks, a counter of 3 values | `TypeOK`, `MutualExclusion`, `CounterMatchesQueue` across wrap-around, `NoLostWakeup`, `NoTaskTwice`, the step simulation of `TaskPool` (`PromiseSafety`), and `DestroyReturns` |
| `RttPool_oneworker` | 1 worker whose tasks add tasks, 2 more adders; 4 tasks | `SuspendedHoldsNoLock` and `PromiseLiveness`: every waiting task starts and ends |
| `RttPool_blocked` | 2 workers, 1 adder, 2 tasks | violation of `SuspendedHoldsNoLock`, see below |
| `PthreadPool_traffic` | 2 workers that also add, an adder, a destroyer; 4 tasks | `TypeOK`, `LockHeldInside`, `CounterMatchesQueue`, `NoLostWakeup`, `NoTaskTwice`, `PromiseSafety`; `EveryTaskRuns`, `DestroyReturns` |
| `Cache_list` | 3 threads: `a1` adds, `a2` adds, deletes and counts, `d1` deletes, looks up and reads; 4 nodes and names | `TypeOK`, `ListWellFormed`, `NoFault`, `SizeWasTrue`, `DelTakesOne` |
| `Cache_values` | a setter, an adder, a deleter, listeners; one node, which is freed and allocated again, under 2 names, 2 words, 2 notifications, told or refused | `NoFault`, `ListenersUpToDate` |
| `Cache_del` | one thread, 2 data | violation of `OnlyNamedDeleted`, see below |
| `Refresher_periodic` | 3 endless jobs, one with a thread of its own; periods 1-2, priorities 0-1 | `TypeOK`, `NothingDangles`, `DueJobsRan`, `EveryJobRuns` |
| `Refresher_counted` | the same 3 jobs with 0 and 1 (kernel) or 0 and 2 (own thread) times to run, one priority | `NothingDangles`, `DueJobsRan`, `TimesNotOverrun` |
| `Refresher_times` | 2 kernel jobs, endless or once | violation of `OnlyStoppedLeave`, see below |
| `Elog_traffic` | 2 loggers, one of which switches everything, the output thread; ring of 4, lines of 3, raw logs of 2, reader's buffer of 2; 3 logs | `TypeOK`, `OutputLockExcludes`, `NothingLeftLocked`, `PrintedInOrder`, `DroppedOnlyWhenFull`, `QueuePromise`, `WaitingIsPrinted` |
| `Elog_empty` | the same with lines of 2, raw logs of 0 and 2, and 2 logs | violation of `DroppedOnlyWhenFull`, see below |

The violated statements, each a disagreement between the code and its comment:

1. `rtthread_pool.c:203` says that queueLock is unlocked before a thread blocks.
   Two workers and two `addTask`s suffice to suspend a worker on the semaphore at
   line 212 with the lock held; all later calls of the pool then block. One
   worker alone cannot get there (`RttPool_oneworker`), which is why liveness is
   claimed for one worker only.
2. `cache.c:163`: deleting the second data of a list removes the first (line 199
   cannot tell the two apart).
3. `refresher.c:204`: a job that has run its last time makes the kernel take its
   neighbour off the ready queue (line 220).
4. `elog_async.c:117`: a log is said to be dropped when it goes beyond the buffer's
   space. An `elog_raw` without text, put into the empty ring, marks it non-empty
   with equal indices (line 143); it then counts as full, and the next line is
   dropped with nobody waiting.

Properties with a stated exception, each of which TLC violates when the exception
is taken away:

* POSIX `DestroyReturns`: a worker between its test of `isShutdown` and its wait
  (lines 181-183) misses the broadcast of line 137, and the join never ends.
* `EveryJobRuns`: a job's thread that runs before `add` has inserted the job ends
  (`refresher.c:390-396`), and the job is never run (`Lost`).
* `NothingDangles`: a deletion by the application frees what the kernel thread is
  about to follow (`Frees`; `refresher.c:477` against 139-179 and 198-255), and that
  thread is at `fault`. What is excepted is this thread, not the deletion.
* `DueJobsRan`: a stopped job ends its tick early (line 241), and the next tick may
  count a job that was due down below zero (place `early`).
* `TimesNotOverrun`: `setTimes(0)` between the test and the decrement makes `times`
  -1, for ever (lines 242-246, 290-297; `late`).
* `NothingLeftLocked`: `elog_raw` with the output lock disabled (`RawInException`)
  leaves a flag set (`elog.c:367`), and enabling the lock takes the mutex for good.
* `PrintedInOrder`: asynchronous mode switched off with lines waiting, or with a line
  whose thread has read `is_enabled` and not put it yet; or an exception upon a
  thread with a line begun or finished in the line buffer (`outOfTurn`).
* `NoFault`, `DelTakesOne`, `SizeWasTrue`, `ListenersUpToDate`: one of the three events
  of `struck` came before; `SizeWasTrue` also excepts a `getSize` during which data
  were deleted (`shrunk`), `ListenersUpToDate` a change whose notification found no
  memory (`missed`).
* `CounterMatchesQueue`: an `addTask` was given the block `delAll` had just freed.

### Bounds and why they are enough

The pool's hard cases need one worker between two instructions while a second
consumes a semaphore value and two clients add or delete; four tasks allow a
queue of two behind two running tasks. The counter's range is a parameter, so a
counter of 3 values wraps around with four tasks; the proofs hold for all ranges. For the cache, four nodes are the
first list with a deletion that is neither head, second nor last, and three threads
the fewest of which one walks or waits for the lock while another deletes and a
third adds; one node is enough for a listener to be left with a freed or reused one,
and two words are the fewest for which accumulating the change matters. `MaxWalk`
bounds a `getSize` that others delete and add before, which in the code has no end. For the refresher, two
kernel jobs meet every branch of the selection and of the removal; periods 1 and
2 give ticks in which one and in which both are due. For the logger, a ring of
4 with lines of 3 and raw logs of 2 is filled exactly, overfilled, met full and
wrapped around by three logs, and a reader's buffer of 2 cuts the lines of 3; two
threads of which one is the controller meet every order of the lock's flags.
`MaxTasks`, `MaxLogs`, `MaxChanges`, `MaxWalk` and `Node` bound behaviours; deadlock
checking is off where a bound, a fault of the cache, or a destroyed pool or refresher
really ends the behaviour,
and in `RttPool_traffic`, where two workers can block for ever. The logger's runs
check deadlock.

### Fairness

`FairSpec` of a module assumes weak fairness for each thread in the middle of an
operation: RT-Thread schedules every ready thread as long as those of higher
priority block, the workers share one priority, and the tasks and jobs of the
application return. No one is obliged to start an operation. Strong fairness is
assumed twice. The refresher's kernel thread gets it because the application,
which has the higher priority, can hold it up in the middle of a call again and
again, but delays between its calls. `WalkEnds` adds that it does not add and delete
jobs so fast that the kernel's walk of the queue never reaches the end. The POSIX mutex gets it because a mutex that
is free again and again is in the end given to a thread that keeps asking; on
RT-Thread the queue of the mutex does this, and is modelled.
A process of the refresher deletes at most one job each time it is run; without
some such bound it need not return.

## Proofs

Every invariant the passing runs check, and every action property and refinement
of theirs, is a theorem: TLC shows it on the small instance of the run, the
theorem for all values of the constants. The
inductive invariants were first checked with TLC. Each proof has one step per
action, over lemmas of `RttIpcProofs` about what a call of the kernel does to
owner, value and waiting list.

What the theorems assume, beyond the ASSUMEs of the modules:

| hypothesis | of | why |
|---|---|---|
| `Workers # {}` | `NoWakeupLost`, both pools | nothing in the code forbids a pool of no threads; in it tasks wait for ever |
| one worker at most | `AloneSleepsUnlocked` | false for two, as `RttPool_blocked` shows |
| one setter | `ListenersTold` | two setters of one data can lose the last notification |
| `Unmixed` | `TypeCorrect` of the refresher | `setTimes` never makes an endless job counted or a counted one endless, else a decrement that meets the change brings `times` below `REFRESHER_JOB_CONTINUES_RUN` |
| `Selectable` | `DueJobsHaveRun` | priorities are below 255, where the selection starts (line 193) |
| `0 \notin RawLengths` | the logger | an empty `elog_raw` confuses the ring's flags, as `Elog_empty` shows |
| `~RawInException` | `ElogLockProofs` | `elog_raw` with the lock disabled leaves a flag set (line 367) |

The constants of each run satisfy the hypotheses of the theorems about its
properties (`RttPool_blocked` and `Elog_empty` exhibit what happens otherwise).

**`RttPoolProofs`**, for every set of workers and clients, every counter width and
every bound on tasks:

* `TypeCorrect` - `TypeOK`.
* `QueueLockExcludes` - `MutualExclusion`. It is not inductive; it
  follows from `LockInv`: who is inside without waiting is the owner
  (`LockOwned`), and who waits is at a place after a take (`WaitingInv`). A
  hand-off preserves it because whoever leaves the waiting list has become the
  owner, a deletion of a thread because a dead thread is nowhere inside.
* `CounterCorrect` - `CounterMatchesQueue`, from `CountInv`, which adds
  that between the halves of a `delAll` iteration the list is not empty; mutual
  exclusion gives that, since nobody else can take from the list then.
* `NoWakeupLost` - `NoLostWakeup`, from four invariants. `WakeupComes`: while tasks
  wait, some worker is up, or a token or a signal is still to come; it also
  counts the workers on their way to the take of the semaphore, for whom a token
  is as good as a signal. `SleepersInv`: nobody sleeps twice, nor while there is a
  token. `DrainInv`: a worker takes a token with the lock held only while the
  counter is 0. `KilledInv` says what a destroy has already deleted.
* `AloneSleepsUnlocked` - `SuspendedHoldsNoLock`, from `AloneInv`: a worker that is
  alone finds a token when it takes one with the lock held, so that it sleeps
  only at the take outside the lock (`OwnerInv`).
* `PromiseKept` - `Spec => PromiseSafety`, the refinement of `TaskPool`: each task
  is in one place (with the adder that allocated it, in the list, with a worker,
  or deleted), and each action maps to a step of `TaskPool` or to none.
* `TasksAreApart` - `NoTaskTwice`: the part of that invariant which says that no block
  is in two places, so that none is run or freed twice. `PromiseSafety` alone does
  not say it: its `running` is a set of tasks, which cannot tell two workers with
  one task from one.

**`PthreadPoolProofs`**, likewise: `TypeCorrect`; `LockCorrect` - `LockHeldInside`, which
is inductive as it stands; `CounterCorrect`; `NoWakeupLost`, with `SleepInv`: a
worker about to wait has seen the counter at 0 under the lock it still holds;
`PromiseKept`, the refinement of `TaskPool`, from `TaskInv`; and `TasksAreApart`.

**`CacheProofs`**, for any threads, nodes, names and values. `Chain(s, n)` says that the
sequence `s` of `n` nodes is the list. `Follow`, the recursive function by which
`ListWellFormed` walks the list, is shown to be `s` along a chain: two functions
that obeyed its equation would differ at a least place (`LeastNumber`). Adding at
the tail and taking a node out are then operations on `s`.

* `TypesOK`, `ListStays` - `TypeOK` and `ListWellFormed`, from `Core`, which every step
  preserves until one faults.
* `NobodyFaults` - `NoFault`. `IInv` holds until `struck`: whoever walks, and every
  listener that waits or runs, has an allocated node; a `del` before its lock has the
  head the list still has, or NULL with an empty list. A delete that is not one of
  the events frees nobody's node (`DelCareful`).
* `SizesWereTrue` - `SizeWasTrue`: a walk of `getSize` that has counted `k` nodes stands
  at place `k` of the chain, which only grows at its end until something is deleted.
* `ListenersTold` - `ListenersUpToDate`: what the listener of a data has not seen is in
  a task that waits, in a `set` that has still to submit one, or refused. It assumes one
  setter; all the others assume nothing.
* `DeletesTakeOne` - `DelTakesOne`: what the code does remove where `OnlyNamedDeleted`
  fails. The head read before the lock is still the head under it, the search
  stops at the head or just before the name, and `Unlinked` takes out the node after
  that, or the head itself when the search stopped there.

**`RefresherProofs`**, for any jobs, periods, priorities and times:

* `NothingEverDangles` - `NothingDangles`, with no hypothesis. `Sound` says
  that no queue has a job twice, that the ready queue is part of the
  job queue, that a job the kernel has selected is in the ready queue, that a
  job about to be freed has left it, that the thread of a job that is not in
  the queue does not loop, and that a kernel thread which a deletion by the application
  has not struck points to nothing it freed.
* `TypeCorrect` - `TypeOK`, from `TimesInv`: what is tested without the lock and
  decremented with it is still counted then.
* `NoneOverrun` - `TimesNotOverrun`, with no hypothesis, from `CountInv`: the times of a
  counted job that is not `late` stay at least 0, and at least 1 between the test and
  the decrement, since one thread only runs the job and `late` takes note of a 0 that
  comes between.
* `DueJobsHaveRun` - `DueJobsRan`, for endless and counted jobs, from `DueInv`: the kernel
  comes to `tick` only when its selection has found none due; a stopped job leads to
  `early`.

**`LogRingProofs`** proves about the ring, for every `Size`, that `RingOK` (the flags
tell a full ring from an empty one) survives a put of at least one character and
any get, and what they do to the contents: `PutKeepsWhatFits`,
`GetTakesTheFirst`. The remainders of the indices are first replaced by the
comparisons the code makes (`Apart`, `Ahead`), which the SMT solver can handle.

**`ElogProofs`** lifts this to the whole logger, for any threads and sizes:
`TypeCorrect`; `KeepsWhatFits` - `Spec => DroppedOnlyWhenFull`; `QueueKept` -
`Spec => QueuePromise`, the refinement of `LogQueue`. The queue is what the output
thread holds followed by the ring; the invariant `Inv` adds to the types the
shape of the calls, `RingOK`, and that the output thread holds characters only
between its get and its print.

**`ElogLockProofs`** proves `LockExcludes` (`OutputLockExcludes`) and
`LockReleased` (`NothingLeftLocked`) from `LockOK`: the owner of the mutex is inside
a call and holds it once, who waits for it is at the take, who is inside owns it
except in an exception, and the flag an exception sets is cleared by its own
unlock. `LinesInOrder` (`PrintedInOrder`) stands on both (`OrderOK`): console and waiting
characters together ascend; whoever has a line in the line buffer (`Composing`) is
alone there, by `LockOK`, and has the newest line, none of it output yet and its
characters in the buffer as far as it has come (`Fresh`); nothing waits before a line
that is output directly, asynchronous mode is on for one that goes into the ring, and
nothing waits while it is off. Switching modes between two of these steps breaks
`Fresh`, and is exactly what sets `outOfTurn`.

Only model-checked: liveness (`DestroyReturns`, `PromiseLiveness`, `EveryTaskRuns`,
`EveryJobRuns`, `WaitingIsPrinted`), since fairness and `ENABLED` are beyond the
proof system. The library's induction theorems take an operator as a parameter,
which no prover here can instantiate; where a recursive function had to be
reasoned about (`Follow`), the least number of a set does the same service.

## Not modelled

* Failed allocations elsewhere than at `cache.c:287`: the call returns early and
  nothing has changed. In `addJobToReadyQueue` (`refresher.c:158-163`) it ends the
  filling of the ready queue; the jobs that are missing are tried again in the next
  tick.
* Timeouts, priorities and priority inheritance of RT-Thread, and those of its
  objects the project does not use. The vendored kernels (RT-Thread, uC/OS-II
  twice, uC/OS-III) are most of the lines in `src/`, and the project's own code is
  a small part of them; only what it calls is modelled, in `RttIpc`.
* Calls on a destroyed pool, two concurrent destroys, two setters of one data
  (they can lose the last notification), concurrent `add`s of the refresher, and a
  job with a thread of its own that deletes itself (it is taken off the scheduler
  with `queueLock` held, and goes on with a freed job otherwise). Nothing in the
  code orders these, and no document promises anything.
* In the logger: `elog_buf.c`, `elog_async_get_log` and the pthread variant of the
  output thread, which the configuration compiles out; how a line is put
  together; the setters of filters and formats.
* The demo applications: start-up code. The scenario of `app_rtt.c` is that of
  `Refresher_times`; `app_pthread.c` calls the cache from one thread.

## Plan

Done, in this order: `RttIpc`, `TaskPool`, `RttPool`, `Cache`,
`Refresher` with every operation, `LogRing`, `LogQueue`, `Elog`, `PthreadPool`, and
the proofs of `PthreadPool`, `LogRing`, `Elog`, `RttPool`, `Cache` and `Refresher`.
Next:

1. `TaskPool` and `LogQueue`: what their promises mean for one task and one character
   (a task that was thrown away or has ended never comes back; the console holds
   an accepted character once), as theorems about the abstract specifications
   that the refinements carry to the pools and the logger.
2. `Refresher`: several application threads, so that concurrent `add`s and a `delAll`
   that reads freed nodes while another thread allocates are steps of the model.
