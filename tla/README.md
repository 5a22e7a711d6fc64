# TLA+ models and proofs of Empool

Empool is a C++ library of thread pools: a scaling and a fixed pool, a
single-threaded pool with priorities, a scheduled pool of timers, and the parts
they are built from. Everything in it is shared by threads, and everything that
can go wrong in it is a matter of interleaving: a notification before the
element it announces, a state written without the mutex that its reader holds,
a shutdown that races the threads it shuts down. The modules here model those
parts step by step; TLC checks small instances, TLAPS proves the main safety
properties for every instance.

## The system

| Component | State | Operations | Hard part |
|---|---|---|---|
| `Mutex`, `ConditionVariable` and the three lockers | holder, sleepers | lock, wait, timed wait, notify | spurious wake-ups, time-outs that race notifications |
| `BlockingQueue`, `BlockingTaskQueue` | a `std::queue` under a monitor | `Push`, `Pop`, `PopTimeWait`, `Front`, `Size` | `Push` notifies before it pushes, and only if the queue was empty |
| `TaskBase`, `FunctorTask`, `EndTask` | state, cancel flag | `Run`, `Cancel` | `Cancel` waits for a state that `Run` may set at any moment |
| `FutureTask` | result, flag | `DoRun`, `GetResult` | `DoRun` notifies before the result is there |
| `Thread`, `CloseableThread` | state, close flag | construction, `Close`, `AsyncClose`, destruction | FINISHED is set without the mutex of `Close` |
| `WorkerThread`, `ScalingThreadPool` | map of workers, task queue, stop counter, state | `AddTask`, the monitor that adds and removes workers, `ShutDown`, `ShutDownNow`, destructor | workers, monitor, adders and shutters all race |
| `FixedThreadPool` | a scaling pool with equal sizes | forwards | the monitor is still there |
| `SingleThreadPool` | a heap of priorities, state | `AddTask`, `ShutDown`, `ShutDownNow`, destructor | order of equal priorities; one notification for all waiters |
| `TimerTask`, `TimerTaskQueue`, `TimerTaskHandler` | deadlines, a heap of them, close and shutdown flags | cron and cycle tasks, `Cancel`, `ShutDown`, `ShutDownNow` | a sleep computed from a heap that changes meanwhile |
| `ScheduledThreadPool` | handlers, an index, state | adds to the handlers in turn, shuts them down in a loop | several shutdowns and the destructor |
| `CyclicBarrier` | count, two generation counters | `Await`, `Await(ms)`, `Reset` | trips, resets and time-outs between sleep and wake-up |

Interactions: the pools own `CloseableThread`s (timers and the single pool
directly, scaling pools through `WorkerThread`), whose work function takes tasks
from a queue and whose finish action tells the pool that a thread has ended.
Tasks are shared with the callers, which may cancel them or wait for results.
Destructors close and join.

What makes each part correct: no wake-up is lost and no element is lost,
duplicated or reordered (queue); a call that waits for something returns exactly
when that has happened (`Cancel`, `GetResult`, `Close`, `ShutDownNow`, `Await`);
a pool keeps its size within its limits, loses no worker and runs what it
accepted; every shutdown ends; a timer sleeps no longer than its earliest task
allows.

## Modules

| Module | Models | Correspondence |
|---|---|---|
| `ConditionVariable` | mutex and condition variable | a monitor is a record of its holder and its sleepers; `AbsTimeout` is the arithmetic of `TimeWait` |
| `AtomicQueue` | abstract specification | each call takes effect in one step |
| `BlockingQueue` | `BlockingQueue`, `BlockingTaskQueue` | one action per scope of a locker: taking the lock and evaluating the predicate, the body with the unlock, the wake-ups |
| `TaskBase` | `TaskBase::Run`, `Cancel` | `rpc` and `cpc` are the positions of runners and cancellers; a Run may be repeated |
| `FutureTask` | `FutureTask` on `TaskBase` | the body of the task is `DoRun` with its notifying locker |
| `ThreadContract` | abstract specification | work, finish action, end, in that order; what a returned `Close` and a returned destructor mean |
| `CloseableThread` | `Thread`, `CloseableThread` | owner, thread and closers; a failed creation is retried, and the compare-and-exchange may fail spuriously |
| `ScalingThreadPool` | `ScalingThreadPool`, `WorkerThread` | workers (`wpc`), monitor (`mpc`), adders (`apc`), shutters (`spc`); one action per access to shared state or critical section |
| `ThreadPool` | abstract specification | what a pool promises: a task begins once at most and only if accepted, the state goes from RUNNING to STOP to SHUTDOWN, and nothing runs after SHUTDOWN |
| `FixedThreadPool` | `FixedThreadPool` | the scaling pool under `FixedSpec`, that is with `Core = Max` |
| `SingleThreadPool` | `SingleThreadPool` | thread, adders and shutters; the three modes. The heap is a set whose top is any element that no other one precedes, which is all that `std::priority_queue` says |
| `TimerTaskHandler` | timer handlers | thread, adders, shutters and a clock, any number of handlers. A heap is the number of times each task is in it; adders test, set the deadline, set the interval and push in four steps, and a task that two of them put at once is `raced` from then on |
| `ScheduledThreadPool` | the pool of timers | extends `TimerTaskHandler`: the pool's calls are calls of its handlers |
| `CyclicBarrier` | `CyclicBarrier` | one action per critical section |
| `...Proofs` | | theorems about the module they are named after |

Components that use another one see its contract, not its steps: the workers
and threads of the pools behave as `ThreadContract` says, and the queues of the
pools are atomic. Five refinements show that this is sound and what it yields;
each is checked by TLC in a run and proved by TLAPS:

* `BlockingQueue` implements `AtomicQueue` (`ImplementsAtomicQueue`): a call
  takes effect inside its critical section.
* `CloseableThread` implements `ThreadContract` (`ImplementsContract`): the phase
  is read off the thread's position and off whether the finish action has run.
* `FixedThreadPool` and `SingleThreadPool` implement `ThreadPool`
  (`ImplementsThreadPool`): the stage of a task is read off the queue or heap, the
  position of `AddTask` and the worker that runs it. A scaling pool does not, as
  `scaling_shutdown` shows.
* `ScalingThreadPool` implements `ThreadPool!TasksSpec` (`ImplementsTasks`), the
  part of that promise that is about tasks and not about the pool's state:
  outside, accepted, running, ended, in that order. A task that two workers run,
  or that runs again, has a stage of its own, which the promise does not know.

`FutureTask` extends `TaskBase`, and `FutureIsTask` proves that its behaviours
are behaviours of it. The actions of `ScheduledThreadPool` are calls of its
handlers, steps of them or its own, so that what is proved of `TimerTaskHandler`
holds of it (`PoolUsesTimers`).

Definitions whose comment begins with "Mutant:" are plausible bugs. Nothing uses
them: they are there to see that each property fails when the definition that
follows is replaced by them.

Conventions: a constant like `MaxCalls` is a bound, named as such where it is
declared; a variable with "history" in its comment only records. A pool's
constructor has returned in the initial state. A destructor runs when no other
call is in progress, which is what C++ asks of its callers; a thread calls
`ShutDown` from outside a task.

## Runs

The cfg of a run gives the constants and names the properties.

| Run | Shows | Bounds |
|---|---|---|
| `blocking_queue` | no lost wake-up, timed waits with an exact and valid deadline, no `front()` of an empty queue, FIFO exactly once, all calls return that can, refinement of `AtomicQueue` | 3 threads, 5 calls, 1 spurious wake-up: two sleepers beside a second Push |
| `future_task` | a returned `Cancel` means stopped; sleepers in `Cancel` and in `GetResult` are notified; `FINISHED` implies a result; `Cancel` and `GetResult` return | 1 Run, 2 cancellers, 2 getters, the body may throw |
| `task_cycle` (violation) | a task that is run again, as a cycle task is, can run after `Cancel` has returned | 2 Runs, 1 canceller |
| `closeable_thread` | a sleeping closer is still to be notified; `Close` returns; refinement of `ThreadContract`, by which it returns after the finish action and no thread survives the destructor | 3 closers, 1 failed creation, exceptions, spurious CAS failures |
| `fixed_pool` | the size is fixed; shutdowns end; accepted tasks run; refinement of `ThreadPool`, by which no task runs after SHUTDOWN | 2 workers, 1 task, a ShutDown or ShutDownNow and, after it, the destructor; tasks do not throw |
| `scaling_pool` | never above the maximum; no worker lost or left unreaped; no notification of the monitor lost; tasks begin once, refinement of `ThreadPool!TasksSpec` | core 1, maximum 2, 3 worker identities, exceptions, spurious CAS failures |
| `scaling_shutdown` (violation) | SHUTDOWN while a worker runs that the monitor added during the shutdown | the same, no exceptions |
| `scaling_deadlock` (violation) | the monitor joins, with the guard held, a worker that needs the guard to end; ShutDown blocks | core 1, maximum 2, no exceptions |
| `single_pool` | smaller numbers first; shutdowns end; accepted tasks run; refinement of `ThreadPool` | 3 modes, 2 tasks, 2 priorities, 2 seconds, 3 shutters, exceptions |
| `timer_handler` | a task that is not raced is in a heap once and is not run early; unless one is raced, the thread sleeps for the earliest task and fires what is overdue | 1 handler, 2 tasks, 2 adders that may race, 3 instants, cancellation, exceptions, shutdown |
| `scheduled_pool` | the ShutDownNow that shuts the pool down, and the destructor, have waited for all; when SHUTDOWN is said, every timer thread has its signal and is awake; two threads run one task only if two callers raced for it; every shutdown ends | 2 handlers, 1 task put by 2 threads that may race, 3 shutters; the clock stands still |
| `cyclic_barrier` | SUCCESS means that all came; never do all sleep at once; nobody sleeps through the end of a generation; Await returns | 3 threads, 6 Awaits, 2 Resets |

The bounds let each race happen at least once with one participant to spare:
two sleepers where one notification could reach the wrong one, a second shutdown
beside the first (in the single and the scheduled pool), two callers for one
timer task, a worker identity beyond the maximum, a generation after the one
under attention. In the runs of the scaling and the fixed pool shutdowns come one
after the other: the liveness of two at once is out of TLC's reach here, and what
could go wrong, that one of several threads sleeps through SHUTDOWN, is proved
not to for any number of them (`NoSleepThroughShutDown`). The clock of
`scheduled_pool` stands still, so that a task is due at once or never, and a
time-out is a spurious wake-up; `timer_handler` has the clock. `Threshold`, the length of the queue at which the scaling
pool grows (1024 in the code), is 0 in the runs, so that a single task makes it
grow. `CHECK_DEADLOCK` is off because every behaviour here may end: calls are
bounded, and a thread may sleep on an empty queue for ever.

### Violations

* `task_cycle`: `Cancel` waits until the state is FINISHED or CANCELLED
  (TaskBase.cpp:65, "wait until the task is cancelled"); a cycle task is still
  FINISHED from its last Run when the next one has passed its check.
* `scaling_shutdown`: "wait until all worker threads stop"
  (ScalingThreadPool.cpp:101); the monitor can add a worker after ShutDown has
  closed and counted the others.
* `scaling_deadlock`: "Non blocking, send a close signal to each thread to
  return" (README.md:103); an idle worker takes the guard twice on its way out,
  to push its id and to notify, and a monitor that is awake in between erases and
  joins it with the guard held. Both wait for ever, and with them every thread
  that wants the guard.

Properties say what they leave out where the code does less than one would wish:
a scaling pool may fall below its core size (two idle workers both pass
`IfMoreThan`), and its ShutDownNow may not return even without the deadlock (a
worker that has left but is not reaped is counted as running); the FIFO mode of
the single pool orders tasks by the second in which they were added and leaves
the order within a second open; a second ShutDownNow of a single pool may
sleep for ever, and one of a scheduled pool does not wait; a task accepted behind
the end tasks is never run; `GetResult` of a cancelled or throwing task never
returns; a barrier counts an Await that timed out. A task or work function that
throws takes its thread with it, and a Cancel, Close or shutdown that waits for
it never returns; the liveness properties except it or are checked without it.

"A task having been put in the TimerTaskHandler cannot be put again"
(TimerTaskHandler.cpp:138 and 167) is not true of the code. The deadline is
tested and set without a lock, so that two callers can both pass the test: the
task is then in a heap twice or in two heaps, two threads may run it at once, the
second caller moves its deadline inside a heap, and a thread may oversleep. The
model has all of it. From the step in which the second caller passes the test the
task is in the history variable `raced`, and `QueuedOnce` and `OneThreadPerTask`
say that this is the only way to break the comment: whatever else happens, a
task that is not raced is put once and runs on one thread. `NeverEarly`,
`TurnsAreSpaced` and `CancelledNeverRuns` are about tasks that are not raced too;
`SleepsForEarliest` and `OverdueTasksAreFired` need that no task is, since a
raced task disturbs the heap for the others. After a race the top of a heap may
be any task (but an EndTimerTask, with its deadline 0, before all of them), which
allows more than a disturbed `std::priority_queue` can do. A timer thread reads
the fields of a task in one step; a caller that races could change them in
between, but of a raced task nothing is claimed. What is said of
shutdowns (`AwakeToClose`, `ShutDownReachesAll`, `ShutDownNowWaits`,
`ShutDownTerminates`) holds with raced tasks as well.

### Fairness

Weak fairness of a thread's steps says that the scheduler runs it. Strong
fairness is used where a step needs a mutex that others take again and again
(all threads of the scaling pool, the shutdown calls of the scheduled pool):
POSIX mutexes do not promise it, but the holder of each mutex here releases it and
goes on to sleep or to other work. `do_run` of a task returns in the end, by the
same fairness; tasks that throw are excepted in the properties or, in
`fixed_pool`, do not occur.

A time-out belongs to the steps of its thread where the code waits with one: a PopTimeWait (`TimeOut` of `BlockingQueue`), workers and monitor of the
scaling pool, and timer threads, once the clock has come to their deadline. It
comes in the end because the delay of the call is finite. The time-outs of a
barrier are not forced: `AwaitReturns` holds without them. Calls are not forced to
happen, with one exception: a `FutureTask` is run (`CallRun` is a `RunnerStep`), as
it is in the queue of a pool, and nobody could get a result otherwise. Spurious
wake-ups and cancellations are never forced, exceptions only as one of the ways in
which a task may end.

Of timers, only the clock and the timer threads are fair, in the scheduled pool
the timer threads and the calls of ShutDown, ShutDownNow and the destructor:
threads that add tasks may stop anywhere, since they do not hold a mutex between
two steps. The clock ticks until `MaxTime`, which `OverdueTasksAreFired` excepts.

## Proofs

For any threads, callers, tasks and bounds, from the named assumptions of the
modules (constants are sets and numbers of their kind, identities differ, the
workers of a pool are finitely many):

* `BlockingQueueProofs`: the type invariant, `NoLostWakeup`,
  `NeverFrontOfEmpty`, `ExactlyOnceInOrder` and `Spec => ImplementsAtomicQueue`.
  Between the notification of Push and the push nobody may fall asleep: the
  inductive invariant adds who holds the mutex (`LockInv`), that positions and
  calls agree (`CallInv`), and that a Push on an empty queue has emptied the
  sleepers (`PusherWokeAll`). `TimeWaitDeadline` proves that the timespec of
  `TimeWait` is valid and exact for every time and delay; `TimeWaitIsExact` is what
  the run checks of it, on both sides of a carry.
* `TaskBaseProofs`: the type invariant, `SleepersWillBeNotified` for any number
  of Runs, and, if `MaxRuns = 1`, `CancelMeansStopped` and `StopIsFinal` (a step
  never takes FINISHED or CANCELLED back). `OnceInv` says what "run
  once" means; without it both are false (`task_cycle`). For `FutureTask`:
  `FSpec => Spec`, by which the theorems about tasks hold of futures, its type
  invariant, `FinishedHasResult` and `GettersWillBeNotified`. `ResultInv` says that
  the result is published before the state is, and that nobody sleeps in
  `GetResult` while a Run holds the future's mutex, as it does from the notification
  to the publication, so that the early notification is enough.
* `CloseableThreadProofs`: the type invariant, `CloseWaitsForFinish`,
  `SleeperWillBeNotified`, `NoUseAfterDestruction`, that one Close at most
  waits, and `Spec => ImplementsContract`. `StateInv` ties FINISHED to the
  position of the thread: if it is set already, the notification is still ahead.
* `ScalingThreadPoolProofs`, for any sizes: the type invariant, `AtMostMax`,
  `NoOrphan` and `ClosedWorkersAreReaped`. The monitor holds the guard from the
  test of the size to the insertion (`GuardInv`); the worker it is creating can
  neither judge itself superfluous nor stop before it is in the map
  (`NewWorkerInv`) unless a shutdown was requested (`RequestInv`); an id is in the
  vector before its worker ends (`ReapInv`). Two more results say that no
  notification is lost: `MonitorWillBeNotified`, with `AsleepInv`, and
  `SleepersWillBeNotified`, that whoever sleeps in ShutDownNow when SHUTDOWN is
  set is still to be woken. For equal sizes (`FixedSpec`):
  `SizeIsFixed`, `ShutDownWaitsForWorkers` and `ImplementsThreadPool`. No worker
  leaves before the shutdown has closed the workers (`LateInv`), no worker closes
  itself (`NoReapInv`), and the stop counter is the number of workers past their
  increment (`CountInv`), so that the one that reads the full count is the last.
  `TaskInv` says that a task is at one place only, which makes every step of any
  scaling pool a step of `ThreadPool!TasksSpec` or none (`ImplementsTasks`), and
  every step of a fixed pool one of `ThreadPool`.
* `SingleThreadPoolProofs`: the type invariant, `SmallerNumberFirst` and
  `ImplementsThreadPool`. A task whose AddTask has returned is in the heap or has
  begun (`HeapInv`), no priority changes once somebody may have been added after
  it (`BeforeInv`), and the thread does not leave before SetState(STOP)
  (`LateInv`), so that its SHUTDOWN is never overwritten. `SleepsOnlyIfEmpty` says
  that notifying for the first task of an empty heap is enough, and
  `WaiterWillBeNotified`, if one thread at most calls ShutDownNow, that it does
  not sleep through SHUTDOWN (`WaitersInv`); with two of them it is false.
* `TimerTaskHandlerProofs`, for callers that race as they like: the type
  invariant, `SleepsForEarliest` and `QueuedOnce`. A thread sleeps for the task
  that its local variable names, so the task must still be in its heap with the
  same deadline (`SleepInv`); only the handler that has it changes the deadline
  (`QueuedOnce`), and a caller sets it before the task is in any heap (`AddInv`,
  `QueuedHasDeadline`). A task that is being put and is not raced is new, in no heap
  and in the hands of one caller (`PutInv`): the second one either finds the deadline
  or makes the task a raced one. On top of that `RunInv` follows a task from the heap into `Run`: a thread that has taken a
  task knows that the task has its deadline, so that no caller puts it again, that
  no other heap or thread has it, and that it is due unless somebody asked to
  cancel it. `OneThreadPerTask`, `NeverEarly` and `CancelledNeverRuns` follow.
  `TurnsAreSpaced` says that a deadline only moves on, by an interval at least.
  `AwakeToClose` says that a thread that is told to close does not sleep: the
  EndTimerTask, the top of any heap, is still in its heap, or the thread has
  ended (`EndInv`), and beside one no thread goes to sleep (`EndAwake`); this needs
  nothing of the other tasks, so that it holds with raced ones.
* `ScheduledThreadPoolProofs`: the type invariant of the pool, `ShutDownNowWaits`
  and `ShutDownReachesAll`. The shutter that finds the pool open is alone in the loop
  (`OneWinner`, `DestructorAlone`); the handlers ahead of it are not asked yet
  (`LoopInv`), so that each of its calls waits; the destructor has joined what it
  went through (`DestroyInv`). The loop has told the handlers behind it to close
  (`ReachInv`), and such a thread is awake, as the handlers of a pool are used as any
  may be (`PoolUsesTimers`). `PoolRunsTasksOnce` carries the results about tasks over.
* `CyclicBarrierProofs`: the type invariant, `SleepersAreCurrent` and
  `SuccessMeansAllArrived`. Those who came and those who are missing add up to
  `m_max_count` (`Counted`), and a generation that is over without a reset has
  tripped (`WaitInv`). `NeverAllAsleep` needs the number of those who wait
  (`CountInv`): together with `m_count` they are at most `m_max_count`, as those
  who time out leave their arrival behind.

Only model-checked: all liveness properties (`CallsReturn`, `CancelReturns`,
`GetResultReturns`, `CloseReturns`, `ShutDownTerminates`, `AcceptedTasksRun`,
`OverdueTasksAreFired`, `AwaitReturns`), which need fairness. Every safety
property of a passing run is a theorem. Only proved, as the theorem says more
than another run would: the type invariants, `StopIsFinal`, `CloseWaitsForFinish`,
`NoUseAfterDestruction`, `OneCloserWaits`, `ShutDownWaitsForWorkers` of a fixed
pool, `SleepersWillBeNotified` of a scaling pool, `SleepsOnlyIfEmpty` and
`WaiterWillBeNotified` of a single pool, and `TurnsAreSpaced`,
`CancelledNeverRuns` and `AwakeToClose` of timers.

## Not modelled

* `NoBlockingTaskQueue` (a `boost::lockfree::queue` that no pool uses),
  `ThreadPoolManager` (factories), `System` and `Util` (system calls).
* `TimerTaskQueue::Clear`, which only the destructor calls, when the thread has
  ended.
* Spurious failures of the compare-and-exchange in the single and the scheduled
  pool (there are none on x86; `CloseableThread` and `ScalingThreadPool` have them).
* `FutureTask::TryGetResult` and `MakeFunctorFutureTask`, which no caller can
  use: the first does not compile when instantiated, the second calls itself
  without end. `ConditionVariable.h` says that `TimeWait` of the locker returns
  true when the predicate is true; it does when it is false, which is what its
  callers expect and what the modules have.
* A pool of no threads (the scaling pool then never runs a task, the scheduled
  one divides by zero) and ShutDownNow from inside a task, which waits for itself.

## Plan

The order followed: monitor and queue, tasks and threads, the scaling pool and
its fixed case, the single pool, the timers and the scheduled pool, the barrier;
with each the proofs of what its users rely on, and the abstract specifications
that components see of each other. What remains: the order that a heap keeps
among the other tasks when the deadline of a raced one changes inside it, and the
liveness of several shutdowns of a fixed pool at once.
