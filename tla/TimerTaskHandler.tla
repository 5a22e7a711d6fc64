-------------------------- MODULE TimerTaskHandler --------------------------
(***************************************************************************)
(* Timers (src/src/TimerTaskHandler.cpp, TimerTaskQueue.cpp, TimerTask.cpp)*)
(* that share nothing but their tasks: every handler has a thread and a    *)
(* heap of deadlines, other threads put tasks into them, cancel tasks and  *)
(* shut handlers down.                                                     *)
(*                                                                         *)
(* Of a task, the module keeps what the timer reads: its deadline, its     *)
(* interval, the request to cancel it and whether it is CANCELLED; TaskBase*)
(* has the rest.  A CloseableThread is reduced to its close flag and to    *)
(* "exited", which is when Close returns.                                  *)
(*                                                                         *)
(* A heap is the number of times each task is in it.  While a deadline     *)
(* changes only at the top of a heap, the top is a task of least deadline. *)
(* Callers test and set the deadline of a task without a common lock: when *)
(* two of them have found the same task without a deadline, it is in       *)
(* "raced", deadlines may change inside heaps, and the top of a heap may   *)
(* be any of its tasks.                                                    *)
(***************************************************************************)
EXTENDS Integers

CONSTANTS
    ThreadNum,     \* the handlers are 1 .. ThreadNum
    Tasks,
    Cancellable,   \* those that somebody may cancel
    Throwing,      \* those that may throw an exception of their own
    Adders,        \* threads that put one task into a handler
    Shutters,      \* threads that shut handlers down
    Waiters,       \* those of them that call ShutDownNow
    Delays,        \* delays and intervals that callers pass
    MaxTime,       \* bound: the clock stops there
    NoTask

Handlers == 1 .. ThreadNum
EndTimerTask == "EndTimerTask"

ASSUME TimerAssumption ==
    /\ ThreadNum \in Nat \ {0}
    /\ Delays \subseteq Nat
    /\ MaxTime \in Nat \ {0}
    /\ Cancellable \subseteq Tasks
    /\ Throwing \subseteq Tasks
    /\ Waiters \subseteq Shutters
    /\ EndTimerTask \notin Tasks
    /\ NoTask \notin Tasks \cup {EndTimerTask}

VARIABLES
    now,                   \* GetCurrentTime()
    m_deadline,            \* m_deadline[k], m_interval[k]: 0 at first
    m_interval,
    m_isRequestCancel,     \* the tasks somebody wants to cancel
    cancelled,             \* the tasks whose state is CANCELLED
    m_queue,               \* m_queue[h][k]: how often k is in the heap of h
    m_isRequestShutDown,   \* the handlers for which a shutdown is requested
    m_isRequestClose,      \* the handlers whose thread is to close
    hpc,                   \* hpc[h]: where the thread of h is
    task,                  \* task[h]: its local variable task
    delay,                 \* delay[h]: its local variable delay
    wakeAt,                \* wakeAt[h]: when its TimedWait ends
    apc,                   \* apc[a]: where adder a is
    call,                  \* call[a]: the arguments of its call
    raced,                 \* history: the tasks that two callers put at once
    spc,                   \* spc[s]: where shutter s is
    target                 \* target[s]: the handler it shuts down

taskVars == <<m_deadline, m_interval, m_isRequestCancel, cancelled>>
threadVars == <<hpc, task, delay, wakeAt>>
addVars == <<apc, call, raced>>
shutVars == <<m_isRequestShutDown, m_isRequestClose, spc, target>>
timerVars == <<now, taskVars, m_queue, threadVars, addVars, shutVars>>

Entries == Tasks \cup {EndTimerTask}
Calls == [op : {"cron", "cycle"}, task : Tasks, handler : Handlers,
          deadline : Nat, interval : Nat]

Never == 0  \* a Wait without a time-out; the clock starts at 1

TimerInit ==
    /\ now = 1
    /\ m_deadline = [k \in Tasks |-> 0]
    /\ m_interval = [k \in Tasks |-> 0]
    /\ m_isRequestCancel = {}
    /\ cancelled = {}
    /\ m_queue = [h \in Handlers |-> [k \in Entries |-> 0]]
    /\ m_isRequestShutDown = {}
    /\ m_isRequestClose = {}
    /\ hpc = [h \in Handlers |-> "loop"]
    /\ task = [h \in Handlers |-> NoTask]
    /\ delay = [h \in Handlers |-> 0]
    /\ wakeAt = [h \in Handlers |-> Never]
    /\ apc = [a \in Adders |-> "idle"]
    /\ call = [a \in Adders |-> NoTask]
    /\ raced = {}
    /\ spc = [s \in Shutters |-> "idle"]
    /\ target = [s \in Shutters |-> 1]

Tick ==
    /\ now < MaxTime
    /\ now' = now + 1
    /\ UNCHANGED <<taskVars, m_queue, threadVars, addVars, shutVars>>

-----------------------------------------------------------------------------
(* The heap: TimerTaskQueue.  An EndTimerTask keeps the deadline and the   *)
(* interval of its constructor.                                            *)

GetDeadline(k) == IF k = EndTimerTask THEN 0 ELSE m_deadline[k]
GetInterval(k) == IF k = EndTimerTask THEN 0 ELSE m_interval[k]

Queued(h) == {k \in Entries : m_queue[h][k] > 0}
IsEmpty(h) == Queued(h) = {}

\* k may be above j in a heap.  Once deadlines change inside heaps, this says
\* nothing of tasks; but an EndTimerTask, with its 0, goes up past all of them.
MayPrecede(k, j) == GetDeadline(k) <= GetDeadline(j) \/ (raced # {} /\ j # EndTimerTask)

\* What GetMin may return.
Least(h) == {k \in Queued(h) : \A j \in Queued(h) : MayPrecede(k, j)}

PopMin(h, k) == m_queue' = [m_queue EXCEPT ![h][k] = @ - 1]

\* The least task is popped and pushed again, with the deadline it now has.
PopMinAndPush == UNCHANGED m_queue

\* m_queue_guard is free: the thread holds it while it looks at the heap.
Unlocked(h) == hpc[h] \notin {"locked", "timed_wait"}

\* Mutants: the thread is notified only when the heap was empty; never.
NotifiesIfEmpty(h) == hpc[h] = "asleep" /\ IsEmpty(h)
NotifiesNobody(h) == FALSE
Notifies(h) == hpc[h] = "asleep"

\* PushTask, with m_queue_guard: push and Notify.
PushTask(h, k) ==
    /\ Unlocked(h)
    /\ m_queue' = [m_queue EXCEPT ![h][k] = @ + 1]
    /\ hpc' = [hpc EXCEPT ![h] = IF Notifies(h) THEN "loop" ELSE @]
    /\ UNCHANGED <<task, delay, wakeAt>>

-----------------------------------------------------------------------------
(* The thread of a handler: ThreadFunction *)

ThreadGoes(h, from, to) == hpc[h] = from /\ hpc' = [hpc EXCEPT ![h] = to]

\* A turn of the loop begins: new local variables, the lock and checkFunc,
\* which throws the exit exception.
CheckClose(h) ==
    /\ ThreadGoes(h, "loop", IF h \in m_isRequestClose THEN "exited" ELSE "locked")
    /\ task' = [task EXCEPT ![h] = NoTask]
    /\ delay' = [delay EXCEPT ![h] = 0]
    /\ wakeAt' = [wakeAt EXCEPT ![h] = Never]
    /\ UNCHANGED <<now, taskVars, m_queue, addVars, shutVars>>

\* Wait on an empty heap
SleepEmpty(h) ==
    /\ IsEmpty(h)
    /\ ThreadGoes(h, "locked", "asleep")
    /\ UNCHANGED <<now, taskVars, m_queue, task, delay, wakeAt, addVars, shutVars>>

\* The least task is CANCELLED: drop it.
DropCancelled(h) ==
    /\ \E k \in Least(h) : k \in cancelled /\ PopMin(h, k)
    /\ ThreadGoes(h, "locked", "loop")
    /\ UNCHANGED <<now, taskVars, task, delay, wakeAt, addVars, shutVars>>

\* Somebody wants to cancel the least task: fire it, whatever its deadline.
FireRequested(h) ==
    /\ \E k \in Least(h) :
          /\ k \in m_isRequestCancel \ cancelled
          /\ PopMin(h, k)
          /\ task' = [task EXCEPT ![h] = k]
    /\ ThreadGoes(h, "locked", "run")
    /\ UNCHANGED <<now, taskVars, delay, wakeAt, addVars, shutVars>>

\* Mutant: the deadline is not looked at.
DueAtOnce(h, k) == k \in Least(h) /\ k \notin cancelled \cup m_isRequestCancel

Due(h, k) ==
    /\ k \in Least(h)
    /\ k \notin cancelled \cup m_isRequestCancel
    /\ GetDeadline(k) <= now

\* A cycle task is due: SetDeadline(now + interval) and PopMinAndPush
FireCycle(h) ==
    /\ \E k \in Tasks :
          /\ Due(h, k)
          /\ GetInterval(k) > 0
          /\ m_deadline' = [m_deadline EXCEPT ![k] = now + m_interval[k]]
          /\ task' = [task EXCEPT ![h] = k]
    /\ PopMinAndPush
    /\ ThreadGoes(h, "locked", "run")
    /\ UNCHANGED <<now, m_interval, m_isRequestCancel, cancelled, delay, wakeAt, addVars,
                   shutVars>>

\* Another task is due: PopMin
FireOnce(h) ==
    /\ \E k \in Tasks :
          /\ Due(h, k)
          /\ GetInterval(k) = 0
          /\ PopMin(h, k)
          /\ task' = [task EXCEPT ![h] = k]
    /\ ThreadGoes(h, "locked", "run")
    /\ UNCHANGED <<now, taskVars, delay, wakeAt, addVars, shutVars>>

\* An EndTimerTask is always due; it breaks the loop.
FireEnd(h) ==
    /\ Due(h, EndTimerTask)
    /\ PopMin(h, EndTimerTask)
    /\ ThreadGoes(h, "locked", "exited")
    /\ UNCHANGED <<now, taskVars, task, delay, wakeAt, addVars, shutVars>>

\* The least task is not due: the thread computes how long it may sleep ...
ComputeDelay(h) ==
    /\ \E k \in Least(h) :
          /\ k \notin cancelled \cup m_isRequestCancel
          /\ GetDeadline(k) > now
          /\ task' = [task EXCEPT ![h] = k]
          /\ delay' = [delay EXCEPT ![h] = GetDeadline(k) - now]
    /\ ThreadGoes(h, "locked", "timed_wait")
    /\ UNCHANGED <<now, taskVars, m_queue, wakeAt, addVars, shutVars>>

\* ... and sleeps that long, from what the clock says then.
TimedWait(h) ==
    /\ ThreadGoes(h, "timed_wait", "asleep")
    /\ wakeAt' = [wakeAt EXCEPT ![h] = now + delay[h]]
    /\ delay' = [delay EXCEPT ![h] = 0]
    /\ UNCHANGED <<now, taskVars, m_queue, task, addVars, shutVars>>

TimedOut(h) ==
    /\ wakeAt[h] # Never
    /\ wakeAt[h] <= now
    /\ ThreadGoes(h, "asleep", "loop")
    /\ UNCHANGED <<now, taskVars, m_queue, task, delay, wakeAt, addVars, shutVars>>

SpuriousWakeup(h) ==
    /\ ThreadGoes(h, "asleep", "loop")
    /\ UNCHANGED <<now, taskVars, m_queue, task, delay, wakeAt, addVars, shutVars>>

\* TaskBase::Run of the task: the check before it runs ...
RunCheck(h) ==
    /\ IF task[h] \in m_isRequestCancel
       THEN ThreadGoes(h, "run", "loop") /\ cancelled' = cancelled \cup {task[h]}
       ELSE ThreadGoes(h, "run", "do_run") /\ UNCHANGED cancelled
    /\ UNCHANGED <<now, m_deadline, m_interval, m_isRequestCancel, m_queue, task,
                   delay, wakeAt, addVars, shutVars>>

\* ... and DoRun, which returns, notices the cancellation, or throws.
RunReturns(h) ==
    /\ ThreadGoes(h, "do_run", "loop")
    /\ UNCHANGED <<now, taskVars, m_queue, task, delay, wakeAt, addVars, shutVars>>

RunCancelled(h) ==
    /\ task[h] \in m_isRequestCancel
    /\ ThreadGoes(h, "do_run", "loop")
    /\ cancelled' = cancelled \cup {task[h]}
    /\ UNCHANGED <<now, m_deadline, m_interval, m_isRequestCancel, m_queue, task,
                   delay, wakeAt, addVars, shutVars>>

RunThrows(h) ==
    /\ task[h] \in Throwing
    /\ ThreadGoes(h, "do_run", "thrown")
    /\ UNCHANGED <<now, taskVars, m_queue, task, delay, wakeAt, addVars, shutVars>>

ThreadStep(h) ==
    \/ CheckClose(h) \/ SleepEmpty(h) \/ DropCancelled(h) \/ FireRequested(h)
    \/ FireCycle(h) \/ FireOnce(h) \/ FireEnd(h) \/ ComputeDelay(h) \/ TimedWait(h)
    \/ TimedOut(h) \/ RunCheck(h) \/ RunReturns(h)

-----------------------------------------------------------------------------
(* AddCronTimerTask, AddCycleTimerTask and Cancel *)

AddGoes(a, from, to) == apc[a] = from /\ apc' = [apc EXCEPT ![a] = to]

\* What a call computes: a cron task, a cycle task that is run now, and one that
\* is not.
Times ==
    {[op |-> "cron", deadline |-> now + d, interval |-> 0] : d \in Delays}
    \cup {[op |-> "cycle", deadline |-> now, interval |-> d] : d \in Delays}
    \cup {[op |-> "cycle", deadline |-> now + d, interval |-> d] : d \in Delays}

CallAdd(a, h) ==
    /\ \E k \in Tasks, t \in Times :
          call' = [call EXCEPT ![a] = [op |-> t.op, task |-> k, handler |-> h,
                                       deadline |-> t.deadline, interval |-> t.interval]]
    /\ AddGoes(a, "idle", "test")
    /\ UNCHANGED <<now, taskVars, m_queue, threadVars, raced, shutVars>>

\* Mutant: a task may be put again.
MayPutAlways(h, k) == h \notin m_isRequestClose

\* The two tests; a task that was put has a deadline.
MayPut(h, k) == h \notin m_isRequestClose /\ m_deadline[k] = 0

\* Another caller has passed the test with the task and not yet set its deadline.
AnotherPuts(a, k) == \E b \in Adders \ {a} : apc[b] = "set_deadline" /\ call[b].task = k

AddPasses(a) ==
    /\ AddGoes(a, "test", "set_deadline")
    /\ MayPut(call[a].handler, call[a].task)
    /\ raced' = raced \cup {k \in {call[a].task} : AnotherPuts(a, k)}
    /\ UNCHANGED <<now, taskVars, m_queue, threadVars, call, shutVars>>

AddRefused(a) ==
    /\ AddGoes(a, "test", "returned")
    /\ ~MayPut(call[a].handler, call[a].task)
    /\ call' = [call EXCEPT ![a] = NoTask]
    /\ UNCHANGED <<now, taskVars, m_queue, threadVars, raced, shutVars>>

AddSetDeadline(a) ==
    /\ AddGoes(a, "set_deadline", IF call[a].op = "cycle" THEN "set_interval" ELSE "push")
    /\ m_deadline' = [m_deadline EXCEPT ![call[a].task] = call[a].deadline]
    /\ UNCHANGED <<now, m_interval, m_isRequestCancel, cancelled, m_queue, threadVars, call,
                   raced, shutVars>>

AddSetInterval(a) ==
    /\ AddGoes(a, "set_interval", "push")
    /\ m_interval' = [m_interval EXCEPT ![call[a].task] = call[a].interval]
    /\ UNCHANGED <<now, m_deadline, m_isRequestCancel, cancelled, m_queue, threadVars, call,
                   raced, shutVars>>

\* Only now is m_queue_guard taken.
AddPush(a) ==
    /\ AddGoes(a, "push", "returned")
    /\ PushTask(call[a].handler, call[a].task)
    /\ call' = [call EXCEPT ![a] = NoTask]
    /\ UNCHANGED <<now, taskVars, raced, shutVars>>

AddStep(a) ==
    AddPasses(a) \/ AddRefused(a) \/ AddSetDeadline(a) \/ AddSetInterval(a) \/ AddPush(a)

Cancel(k) ==
    /\ k \notin m_isRequestCancel
    /\ m_isRequestCancel' = m_isRequestCancel \cup {k}
    /\ UNCHANGED <<now, m_deadline, m_interval, cancelled, m_queue, threadVars,
                   addVars, shutVars>>

-----------------------------------------------------------------------------
(* ShutDown and ShutDownNow of a handler: ShutDownHelper *)

ShutGoes(s, from, to) == spc[s] = from /\ spc' = [spc EXCEPT ![s] = to]

CallShutDown(s, h) ==
    /\ ShutGoes(s, "idle", "request")
    /\ target' = [target EXCEPT ![s] = h]
    /\ UNCHANGED <<now, taskVars, m_queue, threadVars, addVars, m_isRequestShutDown,
                   m_isRequestClose>>

\* The compare-and-exchange on m_isRequestShutDown: a later call returns.
Request(s) ==
    /\ ShutGoes(s, "request", IF target[s] \in m_isRequestShutDown THEN "idle" ELSE "push_end")
    /\ m_isRequestShutDown' = m_isRequestShutDown \cup {target[s]}
    /\ UNCHANGED <<now, taskVars, m_queue, threadVars, addVars, m_isRequestClose, target>>

\* The EndTimerTask that is pushed is not the one whose deadline was set.
PushEnd(s) ==
    /\ ShutGoes(s, "push_end", "close")
    /\ PushTask(target[s], EndTimerTask)
    /\ UNCHANGED <<now, taskVars, addVars, m_isRequestShutDown, m_isRequestClose, target>>

\* Mutant: ShutDownNow does not wait either.
NeverWaits(s) == FALSE
Waits(s) == s \in Waiters

\* m_thread->Close() or m_thread->AsyncClose()
CloseThread(s) ==
    /\ ShutGoes(s, "close", IF Waits(s) THEN "closing" ELSE "idle")
    /\ m_isRequestClose' = m_isRequestClose \cup {target[s]}
    /\ UNCHANGED <<now, taskVars, m_queue, threadVars, addVars, m_isRequestShutDown, target>>

Closed(s) ==
    /\ hpc[target[s]] = "exited"
    /\ ShutGoes(s, "closing", "idle")
    /\ UNCHANGED <<now, taskVars, m_queue, threadVars, addVars, m_isRequestShutDown,
                   m_isRequestClose, target>>

ShutStep(s) == Request(s) \/ PushEnd(s) \/ CloseThread(s) \/ Closed(s)

-----------------------------------------------------------------------------

TimerEnvironment ==
    \/ Tick
    \/ \E h \in Handlers : SpuriousWakeup(h) \/ RunCancelled(h) \/ RunThrows(h)
    \/ \E k \in Cancellable : Cancel(k)

TimerStep ==
    \/ \E h \in Handlers : ThreadStep(h)
    \/ \E a \in Adders : AddStep(a)
    \/ \E s \in Shutters : ShutStep(s)

TimerNext ==
    \/ TimerEnvironment
    \/ TimerStep
    \/ \E a \in Adders, h \in Handlers : CallAdd(a, h)
    \/ \E s \in Shutters, h \in Handlers : CallShutDown(s, h)

\* Handlers that are used directly, by callers of their own choice
TimerSpec == TimerInit /\ [][TimerNext]_timerVars

\* Time passes, timer threads that can go on do, and tasks end; of the threads that
\* use a handler nothing is asked.
TimerFairSpec ==
    /\ TimerSpec
    /\ WF_timerVars(Tick)
    /\ \A h \in Handlers : WF_timerVars(ThreadStep(h))

-----------------------------------------------------------------------------

TimerTypeOK ==
    /\ now \in Nat \ {0}
    /\ m_deadline \in [Tasks -> Nat]
    /\ m_interval \in [Tasks -> Nat]
    /\ m_isRequestCancel \subseteq Tasks
    /\ cancelled \subseteq Tasks
    /\ m_queue \in [Handlers -> [Entries -> Nat]]
    /\ m_isRequestShutDown \subseteq Handlers
    /\ m_isRequestClose \subseteq Handlers
    /\ hpc \in [Handlers -> {"loop", "locked", "timed_wait", "asleep", "run", "do_run",
                             "exited", "thrown"}]
    /\ task \in [Handlers -> Tasks \cup {NoTask}]
    /\ delay \in [Handlers -> Nat]
    /\ wakeAt \in [Handlers -> Nat]
    /\ apc \in [Adders -> {"idle", "test", "set_deadline", "set_interval", "push", "returned"}]
    /\ call \in [Adders -> Calls \cup {NoTask}]
    /\ raced \subseteq Tasks
    /\ spc \in [Shutters -> {"idle", "request", "push_end", "close", "closing"}]
    /\ target \in [Shutters -> Handlers]

(* A sleeping timer thread sleeps for the earliest of its tasks, and without a
   time-out only when it has none: a task that is put while it sleeps, an
   earlier one too, wakes it up.  (Unless two callers have put a task at once:
   then deadlines change under its hands.) *)
SleepsForEarliest ==
    \A h \in Handlers :
        raced = {} /\ hpc[h] = "asleep" =>
            IF wakeAt[h] = Never
            THEN IsEmpty(h)
            ELSE \A k \in Queued(h) : m_deadline[task[h]] <= GetDeadline(k)

(* When is "A task having been put in the TimerTaskHandler cannot be put again"
   true?  Exactly up to the race of two callers between the test of the deadline
   and its assignment: a task that is not raced is in one heap at most, and
   there once, whatever handlers it is offered to while it is put by somebody
   else, waits, runs or, as a cycle task, is put back. *)
QueuedOnce ==
    \A k \in Tasks \ raced, g, h \in Handlers :
        /\ m_queue[h][k] <= 1
        /\ m_queue[g][k] > 0 /\ m_queue[h][k] > 0 => g = h

RunsOn(h, k) == hpc[h] \in {"run", "do_run"} /\ task[h] = k

(* Two timer threads run a task at once only if two callers put it at once, both
   past the test before either had set its deadline: without that race, no
   second thread gets it while it is fired, runs or waits for its next turn. *)
OneThreadPerTask ==
    \A k \in Tasks \ raced, g, h \in Handlers : RunsOn(g, k) /\ RunsOn(h, k) => g = h

(* A task that is run once is not run before its deadline.  A request to cancel
   it does take it from the heap early, but then TaskBase::Run does not run it,
   and no caller changes the deadline meanwhile, if it is not raced. *)
NeverEarly ==
    \A h \in Handlers :
        hpc[h] = "do_run" /\ task[h] \notin raced /\ m_interval[task[h]] = 0 =>
            m_deadline[task[h]] <= now

(* A deadline, once set, is changed only for the next turn of a cycle task, and
   then by an interval at least: no caller sets it again, if the task is not
   raced, and no turn is early. *)
TurnsAreSpaced ==
    [][\A k \in Tasks \ raced : m_deadline[k] > 0 =>
          \/ m_deadline'[k] = m_deadline[k]
          \/ m_interval[k] > 0 /\ m_deadline'[k] >= m_deadline[k] + m_interval[k]]_timerVars

(* A CANCELLED task that is not raced does not run, on any thread. *)
CancelledNeverRuns ==
    \A h \in Handlers : hpc[h] = "do_run" /\ task[h] \notin raced => task[h] \notin cancelled

(* Once its thread is told to close, a handler does not sleep any more, whatever
   deadlines it has and whoever changes them: the EndTimerTask woke it up and is
   the top of its heap until it ends the loop. *)
AwakeToClose == \A h \in m_isRequestClose : hpc[h] # "asleep"

Thrown(h) == hpc[h] = "thrown"

\* The clock stops before the time-out of a sleep comes: a bound of the model.
BeyondClock(h) == hpc[h] = "asleep" /\ wakeAt[h] > MaxTime

Overdue(h, k) == k \in Queued(h) /\ m_deadline[k] <= now

(* A task whose time has come is taken from its heap, or put back with a later
   deadline: no other task, sleep or cancellation keeps it there for ever,
   unless the handler is shut down, one of its tasks throws or one is raced. *)
OverdueTasksAreFired ==
    \A h \in Handlers, k \in Tasks :
        Overdue(h, k) ~>
            \/ ~Overdue(h, k) \/ h \in m_isRequestShutDown
            \/ BeyondClock(h) \/ Thrown(h) \/ raced # {}
=============================================================================
