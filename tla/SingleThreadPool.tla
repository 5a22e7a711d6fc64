-------------------------- MODULE SingleThreadPool --------------------------
(***************************************************************************)
(* SingleThreadPool (src/src/SingleThreadPool.cpp): one thread that takes  *)
(* tasks from a heap, threads that add tasks, threads that shut the pool   *)
(* down.  In the modes FIFO and LIFO the priority of a task is the second  *)
(* in which AddTask was called.                                            *)
(*                                                                         *)
(* The heap is a std::priority_queue: which of several equal elements is   *)
(* on top is not specified, and any of them may be.  Every task, and the   *)
(* EndPriorityTask, is in it once at most, so that a set will do.  The     *)
(* thread's CloseableThread is the Thread of CloseableThread's contract.   *)
(*                                                                         *)
(* What no step of a process changes is said once, in the process's step.  *)
(***************************************************************************)
EXTENDS Integers

CONSTANTS
    Tasks,         \* each added once, by a thread of its own
    RunModes,      \* the modes the pool may be constructed with
    Priorities,    \* what callers pass as priority in the mode PRIORITY
    MaxTime,       \* bound: seconds that pass
    Shutters,      \* threads that shut the pool down; they do it once
    Waiters,       \* those of them that call ShutDownNow
    Destructor,    \* the one of them that runs the destructor
    TaskMayThrow,  \* may a task throw an exception of its own?
    NoTask

EndPriorityTask == "EndPriorityTask"

ASSUME SingleThreadPoolAssumption ==
    /\ RunModes \subseteq {"FIFO", "LIFO", "PRIORITY"}
    /\ Priorities \subseteq Int
    /\ MaxTime \in Nat \ {0}
    /\ Waiters \subseteq Shutters
    /\ Destructor \notin Waiters
    /\ TaskMayThrow \in BOOLEAN
    /\ NoTask \notin Tasks /\ EndPriorityTask \notin Tasks

VARIABLES
    m_runMode,
    m_state,
    m_isRequestShutDown,
    m_taskQueue,     \* m_taskQueueGreater, or m_taskQueueLesser in LIFO
    priority,        \* priority[k]: m_priority
    time,            \* timeInSeconds()
    closeRequested,  \* m_isRequestClose of the thread
    tpc,             \* the thread
    asleep,          \* is it asleep on m_mutexCond?
    task,            \* the task it runs
    apc,             \* apc[k]: where AddTask of task k is
    spc,             \* spc[s]: where shutter s is
    stateSleepers,   \* the threads asleep on m_stateCond
    before,          \* history: <<j, k>>, if AddTask(j) returned before AddTask(k)
    begun            \* history: the tasks whose Run has begun

heapVars == <<m_taskQueue, asleep>>
runVars == <<tpc, task, begun>>
callVars == <<priority, apc, before>>
stateVars == <<m_state, stateSleepers>>
requestVars == <<m_isRequestShutDown, closeRequested, spc>>
vars == <<m_runMode, time, heapVars, runVars, callVars, stateVars, requestVars>>

\* The constructor has returned.
Init ==
    /\ m_runMode \in RunModes
    /\ m_state = "RUNNING"
    /\ m_isRequestShutDown = FALSE
    /\ m_taskQueue = {}
    /\ priority = [k \in Tasks |-> 0]
    /\ time = 1
    /\ closeRequested = FALSE
    /\ tpc = "check"
    /\ asleep = FALSE
    /\ task = NoTask
    /\ apc = [k \in Tasks |-> "idle"]
    /\ spc = [s \in Shutters |-> "idle"]
    /\ stateSleepers = {}
    /\ before = {}
    /\ begun = {}

Tick ==
    /\ time < MaxTime
    /\ time' = time + 1
    /\ UNCHANGED <<m_runMode, heapVars, runVars, callVars, stateVars, requestVars>>

-----------------------------------------------------------------------------
(* The heap *)

\* An EndPriorityTask keeps the priority of its constructor.
GetPriorityValue(k) == IF k = EndPriorityTask THEN 0 ELSE priority[k]

\* Mutant: the larger number is the higher priority.
CompareFuncGreaterSwapped(left, right) == GetPriorityValue(left) < GetPriorityValue(right)

CompareFuncGreater(left, right) == GetPriorityValue(left) > GetPriorityValue(right)

\* True of equal priorities, so not the strict order that a priority_queue asks
\* for; sifting with it still brings a task of the largest number to the top.
CompareFuncLesser(left, right) == ~CompareFuncGreater(left, right)

Compare(left, right) ==
    IF m_runMode = "LIFO" THEN CompareFuncLesser(left, right)
                          ELSE CompareFuncGreater(left, right)

\* What may be on top: no other element is strictly nearer to it.
Top == {k \in m_taskQueue : \A j \in m_taskQueue : ~Compare(k, j) \/ Compare(j, k)}

Empty == m_taskQueue = {}

\* Mutant: the thread is notified when the queue was not empty.
NotifyIfNotEmpty == asleep' = (asleep /\ Empty)

\* ConditionNotifyLocker(m_mutexCond, Empty)
NotifyIfEmpty == asleep' = (asleep /\ ~Empty)

\* PushTask: notify, then push.
PushTask(k) == NotifyIfEmpty /\ m_taskQueue' = m_taskQueue \cup {k}

-----------------------------------------------------------------------------
(* The thread: ThreadFunction *)

ThreadGoes(from, to) == tpc = from /\ tpc' = to

ThreadCheck ==
    /\ ThreadGoes("check", IF closeRequested THEN "stop" ELSE "get")
    /\ UNCHANGED <<heapVars, task, begun, stateVars>>

\* GetTask: sleep while the heap is empty ...
ThreadSleep ==
    /\ Empty
    /\ ~asleep
    /\ tpc = "get"
    /\ asleep' = TRUE
    /\ UNCHANGED <<m_taskQueue, runVars, stateVars>>

\* ... and take the top.  An EndPriorityTask breaks the loop ...
ThreadGetEnd ==
    /\ ~asleep
    /\ EndPriorityTask \in Top
    /\ ThreadGoes("get", "stop")
    /\ m_taskQueue' = m_taskQueue \ {EndPriorityTask}
    /\ UNCHANGED <<asleep, task, begun, stateVars>>

\* ... another task is run.
ThreadGet ==
    /\ ~asleep
    /\ ThreadGoes("get", "run")
    /\ \E k \in Top \cap Tasks :
          /\ m_taskQueue' = m_taskQueue \ {k}
          /\ task' = k
          /\ begun' = begun \cup {k}
    /\ UNCHANGED <<asleep, stateVars>>

ThreadRun ==
    /\ ThreadGoes("run", "check")
    /\ task' = NoTask
    /\ UNCHANGED <<heapVars, begun, stateVars>>

\* The finish action NotifyWhenThreadStop: SetState(SHUTDOWN) ...
ThreadShutDown ==
    /\ ThreadGoes("stop", "notify")
    /\ m_state' = "SHUTDOWN"
    /\ UNCHANGED <<heapVars, task, begun, stateSleepers>>

\* Mutant: nobody is notified once a shutdown is requested.
MayNotifyBeforeRequest == ~m_isRequestShutDown

\* CheckIsRequestShutDown, for ConditionNotifyLocker(m_stateCond, ...)
MayNotify == m_isRequestShutDown

\* ... and a notification, which wakes one of the sleepers.
ThreadNotify ==
    /\ ThreadGoes("notify", "exited")
    /\ IF MayNotify /\ stateSleepers # {}
       THEN \E s \in stateSleepers : stateSleepers' = stateSleepers \ {s}
       ELSE UNCHANGED stateSleepers
    /\ UNCHANGED <<heapVars, task, begun, m_state>>

NotOfThread == <<m_runMode, time, callVars, requestVars>>

ThreadStep ==
    /\ \/ ThreadCheck \/ ThreadSleep \/ ThreadGetEnd \/ ThreadGet \/ ThreadRun
       \/ ThreadShutDown \/ ThreadNotify
    /\ UNCHANGED NotOfThread

\* The exception is caught in Thread::ThreadFunction; no finish action.
ThreadThrows ==
    /\ TaskMayThrow
    /\ ThreadGoes("run", "thrown")
    /\ task' = NoTask
    /\ UNCHANGED <<heapVars, begun, stateVars, NotOfThread>>

ThreadSpurious ==
    /\ asleep
    /\ asleep' = FALSE
    /\ UNCHANGED <<m_taskQueue, runVars, stateVars, NotOfThread>>

-----------------------------------------------------------------------------
(* AddTask *)

AddGoes(k, from, to) == apc[k] = from /\ apc' = [apc EXCEPT ![k] = to]

Usable == \A s \in Shutters : s = Destructor => spc[s] = "idle"

\* The task is made with its priority; DoAddTask tests m_isRequestShutDown.
AddTask(k) ==
    /\ Usable
    /\ AddGoes(k, "idle", IF m_isRequestShutDown THEN "rejected" ELSE "push")
    /\ \E p \in IF m_runMode = "PRIORITY" THEN Priorities ELSE {time} :
          priority' = [priority EXCEPT ![k] = p]
    /\ before' = before \cup {<<j, k>> : j \in {i \in Tasks : apc[i] = "accepted"}}
    /\ UNCHANGED <<m_runMode, time, heapVars, runVars, stateVars, requestVars>>

AddPush(k) ==
    /\ AddGoes(k, "push", "accepted")
    /\ PushTask(k)
    /\ UNCHANGED <<m_runMode, time, runVars, priority, before, stateVars, requestVars>>

-----------------------------------------------------------------------------
(* ShutDown, ShutDownNow and the destructor *)

ShutGoes(s, from, to) == spc[s] = from /\ spc' = [spc EXCEPT ![s] = to]

flagVars == <<m_isRequestShutDown, closeRequested>>
NotOfShutDown == <<m_runMode, time, runVars, callVars>>

\* The destructor runs when nobody is inside a call any more.
MayShutDown(s) ==
    /\ Usable
    /\ s = Destructor =>
          /\ \A k \in Tasks : apc[k] # "push"
          /\ \A u \in Shutters \ {s} : spc[u] \in {"idle", "returned"}

\* Mutant: the result of the compare-and-exchange is ignored.
AlwaysFirst == TRUE

\* The compare-and-exchange on m_isRequestShutDown, which fails only when it
\* is TRUE (CloseableThread has the case that it fails spuriously)
IsFirst == ~m_isRequestShutDown

ShutDown(s) ==
    /\ MayShutDown(s)
    /\ m_isRequestShutDown' = TRUE
    /\ ShutGoes(s, "idle", IF IsFirst THEN "set_stop" ELSE "requested")
    /\ UNCHANGED <<closeRequested, heapVars, stateVars, NotOfShutDown>>

SetStop(s) ==
    /\ ShutGoes(s, "set_stop", "close")
    /\ m_state' = "STOP"
    /\ UNCHANGED <<flagVars, heapVars, stateSleepers>>

\* m_thread->AsyncClose()
CloseThread(s) ==
    /\ ShutGoes(s, "close", "push_end")
    /\ closeRequested' = TRUE
    /\ UNCHANGED <<m_isRequestShutDown, heapVars, stateVars>>

PushEnd(s) ==
    /\ ShutGoes(s, "push_end", "requested")
    /\ PushTask(EndPriorityTask)
    /\ UNCHANGED <<flagVars, stateVars>>

\* ShutDown returns, ShutDownNow waits, the destructor joins the thread.
ShutDownRequested(s) ==
    /\ ShutGoes(s, "requested",
                IF s \in Waiters THEN "test" ELSE IF s = Destructor THEN "join" ELSE "returned")
    /\ UNCHANGED <<flagVars, heapVars, stateVars>>

DoIsShutDown == m_state = "SHUTDOWN"

\* ConditionWaitLocker(m_stateCond, !DoIsShutDown)
AwaitTest(s) ==
    /\ IF DoIsShutDown
       THEN ShutGoes(s, "test", "returned") /\ UNCHANGED stateSleepers
       ELSE ShutGoes(s, "test", "waiting") /\ stateSleepers' = stateSleepers \cup {s}
    /\ UNCHANGED <<flagVars, heapVars, m_state>>

AwaitNotified(s) ==
    /\ s \notin stateSleepers
    /\ ShutGoes(s, "waiting", "test")
    /\ UNCHANGED <<flagVars, heapVars, stateVars>>

Join(s) ==
    /\ tpc \in {"exited", "thrown"}
    /\ ShutGoes(s, "join", "returned")
    /\ UNCHANGED <<flagVars, heapVars, stateVars>>

ShutStep(s) ==
    /\ \/ SetStop(s) \/ CloseThread(s) \/ PushEnd(s) \/ ShutDownRequested(s)
       \/ AwaitTest(s) \/ AwaitNotified(s) \/ Join(s)
    /\ UNCHANGED NotOfShutDown

AwaitSpurious(s) ==
    /\ s \in stateSleepers
    /\ stateSleepers' = stateSleepers \ {s}
    /\ UNCHANGED <<requestVars, heapVars, m_state, NotOfShutDown>>

-----------------------------------------------------------------------------

Next ==
    \/ Tick
    \/ ThreadStep \/ ThreadSpurious \/ ThreadThrows
    \/ \E k \in Tasks : AddTask(k) \/ AddPush(k)
    \/ \E s \in Shutters : ShutDown(s) \/ ShutStep(s) \/ AwaitSpurious(s)

Spec == Init /\ [][Next]_vars

\* Threads that can go on do, and tasks end.
FairSpec ==
    /\ Spec
    /\ WF_vars(ThreadStep)
    /\ \A k \in Tasks : WF_vars(AddPush(k))
    /\ \A s \in Shutters : WF_vars(ShutStep(s))

-----------------------------------------------------------------------------

TypeOK ==
    /\ m_runMode \in RunModes
    /\ m_state \in {"RUNNING", "STOP", "SHUTDOWN"}
    /\ m_isRequestShutDown \in BOOLEAN
    /\ m_taskQueue \subseteq Tasks \cup {EndPriorityTask}
    /\ priority \in [Tasks -> Int]
    /\ time \in Nat
    /\ closeRequested \in BOOLEAN
    /\ tpc \in {"check", "get", "run", "stop", "notify", "exited", "thrown"}
    /\ asleep \in BOOLEAN
    /\ task \in Tasks \cup {NoTask}
    /\ apc \in [Tasks -> {"idle", "push", "accepted", "rejected"}]
    /\ spc \in [Shutters -> {"idle", "set_stop", "close", "push_end", "requested",
                             "test", "waiting", "join", "returned"}]
    /\ stateSleepers \subseteq Shutters
    /\ before \subseteq Tasks \X Tasks
    /\ begun \subseteq Tasks

(* "The smaller the number, the higher the priority", and in FIFO the earlier
   second: a task with the smaller number that was in the pool before another
   one was added begins first, whatever the thread and other callers do. *)
SmallerNumberFirst ==
    \A j, k \in Tasks :
        <<j, k>> \in before /\ m_runMode # "LIFO" /\ priority[j] < priority[k] /\ k \in begun =>
            j \in begun

(* The thread never sleeps over a task: PushTask notifies it only when the heap
   was empty, and that is enough, because it sleeps at no other time. *)
SleepsOnlyIfEmpty == asleep => Empty

(* Whoever sleeps in ShutDownNow when SHUTDOWN is set is still to be notified.
   ConditionNotifyLocker wakes one thread: this is for a ShutDownNow alone. *)
WaiterWillBeNotified == m_state = "SHUTDOWN" /\ stateSleepers # {} => tpc = "notify"

\* How far task k has come, as the one who added it sees it
Stage(k) ==
    IF k \in begun THEN (IF task = k THEN "running" ELSE "ended")
    ELSE IF apc[k] = "accepted" THEN "accepted" ELSE "outside"

Promise == INSTANCE ThreadPool WITH state <- m_state, stage <- [k \in Tasks |-> Stage(k)]

(* The pool keeps the promise of ThreadPool, in every mode: SHUTDOWN is set by
   the thread, after its last task, and no SetState(STOP) follows it. *)
ImplementsThreadPool == Promise!Spec

(* ShutDown, the destructor and a ShutDownNow that waits alone return, unless
   a task has thrown. *)
ShutDownTerminates ==
    \A s \in Shutters :
        spc[s] # "idle" ~> spc[s] = "returned" \/ tpc = "thrown"

(* A task that was accepted is run, unless the pool is shut down or a task
   throws. *)
AcceptedTasksRun ==
    \A k \in Tasks :
        apc[k] = "accepted" ~> k \in begun \/ m_isRequestShutDown \/ tpc = "thrown"
=============================================================================
