------------------------- MODULE ScalingThreadPool -------------------------
(***************************************************************************)
(* ScalingThreadPool (src/src/ScalingThreadPool.cpp) with its WorkerThreads*)
(* (src/src/WorkerThread.cpp), its monitor thread, the threads that add    *)
(* tasks and the threads that shut it down.  FixedThreadPool is the same   *)
(* pool with minThreadSize = maxThreadSize.                                *)
(*                                                                         *)
(* The task queue is the atomic queue that BlockingQueue implements.  A    *)
(* worker's CloseableThread is the Thread of CloseableThread's contract:   *)
(* its close flag, and "work function, finish action, end" in that order;  *)
(* the finish action is NotifyWhenThreadsStop.                             *)
(*                                                                         *)
(* A critical section in which nothing can block is one step.  The mutex   *)
(* m_addOrSubThreadNumGuard is explicit: the monitor holds it while it     *)
(* joins a worker, ShutDown while it closes the workers.                   *)
(*                                                                         *)
(* What no step of a process changes is said once, in the process's own    *)
(* step: WorkerStep, MonitorStep, AddStep, ShutStep.                       *)
(***************************************************************************)
EXTENDS Integers, Sequences, FiniteSets, Functions

CONSTANTS
    Workers,        \* identities for worker threads, used at most once each
    CoreWorkers,    \* those that the constructor makes
    Max,            \* maxThreadSize
    Threshold,      \* TASK_QUEUE_SIZE_THRESHOLD
    Tasks,          \* each added by a thread of its own
    Shutters,       \* threads that shut the pool down; they do it once
    Destructor,     \* the one of them that runs the destructor, if any
    NoOne,          \* nobody holds the guard; also "no worker"
    TaskMayThrow,   \* may a task throw an exception of its own?
    WeakCasMayFail  \* may compare_exchange_weak fail on equal values?

Core == Cardinality(CoreWorkers)  \* minThreadSize

\* An EndTask, the id 0 that wakes the monitor, and the monitor as holder.
EndTask == "EndTask"
NoThreadId == "0"
Monitor == "monitor"

ASSUME PoolAssumption ==
    /\ IsFiniteSet(Workers) /\ CoreWorkers \subseteq Workers
    /\ Max \in Nat /\ Core <= Max /\ Threshold \in Nat
    /\ TaskMayThrow \in BOOLEAN /\ WeakCasMayFail \in BOOLEAN
    /\ NoOne \notin Workers \cup Shutters \cup {Monitor}
    /\ NoThreadId \notin Workers /\ EndTask \notin Tasks /\ Monitor \notin Shutters

VARIABLES
    m_state,
    m_isRequestShutDown,
    m_stoppedThreadNum,
    m_threads,            \* the workers in the map
    m_taskQueue,
    m_subWorkerThreadId,
    guard,                \* who holds m_addOrSubThreadNumGuard
    stateSleepers,        \* threads asleep on m_stateGuard, in ShutDownNow
    wpc,                  \* wpc[w]: where worker w is
    wtask,                \* wtask[w]: m_runningTask
    wnum,                 \* wnum[w]: the local stoppedThreadNum
    closeRequested,       \* the workers whose m_isRequestClose is set
    mpc,                  \* the monitor
    monitorAsleep,        \* is it asleep on m_addOrSubThreadCond?
    monitorClose,         \* its m_isRequestClose
    newWorker,            \* the worker it creates
    apc,                  \* apc[k]: where AddTask of task k is
    spc,                  \* spc[s]: where shutter s is
    ran                   \* history: the tasks that were run

fetchVars == <<m_taskQueue, wtask, ran>>
countVars == <<m_state, m_stoppedThreadNum, wnum, stateSleepers>>
leaveVars == <<closeRequested, m_subWorkerThreadId, monitorAsleep>>
mapVars == <<m_threads, newWorker>>
flagVars == <<m_isRequestShutDown, monitorClose>>
vars == <<fetchVars, countVars, leaveVars, mapVars, flagVars, guard, wpc, mpc, apc, spc>>

\* The constructor has returned: the core threads and the monitor run.
Init ==
    /\ m_state = "RUNNING"
    /\ m_isRequestShutDown = FALSE
    /\ m_stoppedThreadNum = 0
    /\ m_threads = CoreWorkers
    /\ m_taskQueue = <<>>
    /\ m_subWorkerThreadId = <<>>
    /\ guard = NoOne
    /\ stateSleepers = {}
    /\ wpc = [w \in Workers |-> IF w \in CoreWorkers THEN "check" ELSE "none"]
    /\ wtask = [w \in Workers |-> EndTask]
    /\ wnum = [w \in Workers |-> 0]
    /\ closeRequested = {}
    /\ mpc = "check"
    /\ monitorAsleep = FALSE
    /\ monitorClose = FALSE
    /\ newWorker = NoOne
    /\ apc = [k \in Tasks |-> "idle"]
    /\ spc = [s \in Shutters |-> "idle"]
    /\ ran = {}

ThreadNum == Cardinality(m_threads)

\* The queue is too long and there may be more threads.
ShouldAdd == Len(m_taskQueue) > Threshold /\ ThreadNum < Max

JudgeFunc == ShouldAdd \/ m_subWorkerThreadId # <<>>

\* Mutant: the notification is left out.
NotifyNobody == guard = NoOne /\ UNCHANGED monitorAsleep

\* ConditionNotifyLocker(m_addOrSubThreadCond, JudgeFunc), lock to unlock.
NotifyMonitor ==
    /\ guard = NoOne
    /\ monitorAsleep' = (monitorAsleep /\ ~JudgeFunc)

-----------------------------------------------------------------------------
(* WorkerThread::WorkFunction, and CloseableThread around it *)

WorkerGoes(w, from, to) == wpc[w] = from /\ wpc' = [wpc EXCEPT ![w] = to]

\* checkFunc() at the top of the loop
WorkerCheck(w) ==
    /\ WorkerGoes(w, "check", IF w \in closeRequested THEN "stop" ELSE "get")
    /\ UNCHANGED <<fetchVars, countVars, leaveVars>>

\* Mutant: GetTask's result is not negated.
AfterPopInverted(k) == "judge"

\* An EndTask breaks the loop.
AfterPop(k) == IF k = EndTask THEN "stop" ELSE "run"

\* Mutant: the element that is handed out stays in the queue.
NothingPopped == m_taskQueue

OtherTasks == Tail(m_taskQueue)

\* PopTimeWait finds an element, at once or after a wait.
WorkerGet(w) ==
    /\ m_taskQueue # <<>>
    /\ \E from \in {"get", "waiting"} : WorkerGoes(w, from, AfterPop(Head(m_taskQueue)))
    /\ wtask' = [wtask EXCEPT ![w] = Head(m_taskQueue)]
    /\ m_taskQueue' = OtherTasks
    /\ UNCHANGED <<ran, countVars, leaveVars>>

\* It finds none and waits ...
WorkerWaits(w) ==
    /\ m_taskQueue = <<>>
    /\ WorkerGoes(w, "get", "waiting")
    /\ UNCHANGED <<fetchVars, countVars, leaveVars>>

\* ... for MAX_WAIT_IN_MS; an element that comes at the last moment stays.
WorkerTimeOut(w) ==
    /\ WorkerGoes(w, "waiting", "judge")
    /\ UNCHANGED <<fetchVars, countVars, leaveVars>>

\* Mutant: >= for >.
IfMoreThanOrEqual == ThreadNum >= Core

IfMoreThan == ThreadNum > Core

\* m_judge(): an idle worker above the core size closes itself ...
WorkerJudge(w) ==
    /\ guard = NoOne
    /\ WorkerGoes(w, "judge", IF IfMoreThan THEN "stop" ELSE "check")
    /\ closeRequested' = IF IfMoreThan THEN closeRequested \cup {w} ELSE closeRequested
    /\ UNCHANGED <<fetchVars, countVars, m_subWorkerThreadId, monitorAsleep>>

\* ... or does not, when AsyncClose's compare-and-exchange fails.
WorkerJudgeFails(w) ==
    /\ WeakCasMayFail
    /\ guard = NoOne
    /\ IfMoreThan
    /\ WorkerGoes(w, "judge", "check")
    /\ UNCHANGED <<fetchVars, countVars, leaveVars>>

WorkerRun(w) ==
    /\ WorkerGoes(w, "run", "check")
    /\ ran' = ran \cup {wtask[w]}
    /\ UNCHANGED <<m_taskQueue, wtask, countVars, leaveVars>>

\* The exception is caught in Thread::ThreadFunction; no finish action.
WorkerThrows(w) ==
    /\ TaskMayThrow
    /\ WorkerGoes(w, "run", "thrown")
    /\ ran' = ran \cup {wtask[w]}
    /\ UNCHANGED <<m_taskQueue, wtask, countVars, leaveVars>>

(* The finish action: ScalingThreadPool::NotifyWhenThreadsStop *)

WorkerStop(w) ==
    /\ WorkerGoes(w, "stop", IF m_isRequestShutDown THEN "count" ELSE "sub_push")
    /\ UNCHANGED <<fetchVars, countVars, leaveVars>>

\* AddWorkerThreadIdToSubVector(threadId)
WorkerSubPush(w) ==
    /\ guard = NoOne
    /\ WorkerGoes(w, "sub_push", "sub_notify")
    /\ m_subWorkerThreadId' = Append(m_subWorkerThreadId, w)
    /\ UNCHANGED <<fetchVars, countVars, closeRequested, monitorAsleep>>

WorkerSubNotify(w) ==
    /\ WorkerGoes(w, "sub_notify", "exited")
    /\ NotifyMonitor
    /\ UNCHANGED <<fetchVars, countVars, closeRequested, m_subWorkerThreadId>>

WorkerCount(w) ==
    /\ WorkerGoes(w, "count", "compare")
    /\ m_stoppedThreadNum' = m_stoppedThreadNum + 1
    /\ wnum' = [wnum EXCEPT ![w] = m_stoppedThreadNum + 1]
    /\ UNCHANGED <<fetchVars, m_state, stateSleepers, leaveVars>>

\* Mutant: > for >=.
IsMore(n) == n > ThreadNum

\* m_threads.size() is read without the guard.
IsLast(n) == n >= ThreadNum

WorkerCompare(w) ==
    /\ WorkerGoes(w, "compare", IF IsLast(wnum[w]) THEN "set_shutdown" ELSE "exited")
    /\ UNCHANGED <<fetchVars, countVars, leaveVars>>

\* SetState(SHUTDOWN)
WorkerSetShutDown(w) ==
    /\ WorkerGoes(w, "set_shutdown", "notify_all")
    /\ m_state' = "SHUTDOWN"
    /\ UNCHANGED <<fetchVars, m_stoppedThreadNum, wnum, stateSleepers, leaveVars>>

\* Those that ConditionNotifyAllLocker(m_stateGuard, CheckIsRequestShutDown) wakes.
Woken == IF m_isRequestShutDown THEN stateSleepers ELSE {}

WorkerNotifyAll(w) ==
    /\ WorkerGoes(w, "notify_all", "exited")
    /\ stateSleepers' = stateSleepers \ Woken
    /\ UNCHANGED <<fetchVars, m_state, m_stoppedThreadNum, wnum, leaveVars>>

WorkerStep(w) ==
    /\ \/ WorkerCheck(w) \/ WorkerGet(w) \/ WorkerWaits(w) \/ WorkerTimeOut(w)
       \/ WorkerJudge(w) \/ WorkerJudgeFails(w) \/ WorkerRun(w) \/ WorkerThrows(w)
       \/ WorkerStop(w) \/ WorkerSubPush(w) \/ WorkerSubNotify(w) \/ WorkerCount(w)
       \/ WorkerCompare(w) \/ WorkerSetShutDown(w) \/ WorkerNotifyAll(w)
    /\ UNCHANGED <<mapVars, flagVars, guard, mpc, apc, spc>>

-----------------------------------------------------------------------------
(* The monitor: ScalingThreadPool::HandleWorkerThread *)

MonitorGoes(from, to) == mpc = from /\ mpc' = to

MonitorCheck ==
    /\ MonitorGoes("check", IF monitorClose THEN "exited" ELSE "lock")
    /\ UNCHANGED <<guard, monitorAsleep, m_subWorkerThreadId, mapVars, wpc>>

\* TimeWait: lock (again) and test ContraryJudgeFunc.
MonitorLock ==
    /\ guard = NoOne
    /\ MonitorGoes("lock", IF JudgeFunc THEN "check_locked" ELSE "waiting")
    /\ guard' = IF JudgeFunc THEN Monitor ELSE NoOne
    /\ monitorAsleep' = ~JudgeFunc
    /\ UNCHANGED <<m_subWorkerThreadId, mapVars, wpc>>

\* Awake, by a notification or spuriously: test again.
MonitorNotified ==
    /\ ~monitorAsleep
    /\ MonitorGoes("waiting", "lock")
    /\ UNCHANGED <<guard, monitorAsleep, m_subWorkerThreadId, mapVars, wpc>>

MonitorSpurious ==
    /\ monitorAsleep
    /\ monitorAsleep' = FALSE
    /\ UNCHANGED <<fetchVars, countVars, closeRequested, m_subWorkerThreadId, mapVars, flagVars,
                   guard, wpc, mpc, apc, spc>>

\* The 10 seconds are over: the loop body is entered all the same.
MonitorTimeOut ==
    /\ guard = NoOne
    /\ monitorAsleep
    /\ MonitorGoes("waiting", "check_locked")
    /\ guard' = Monitor
    /\ monitorAsleep' = FALSE
    /\ UNCHANGED <<m_subWorkerThreadId, mapVars, wpc>>

\* The second checkFunc() throws out of the locker's scope, which unlocks.
MonitorCheckLocked ==
    /\ MonitorGoes("check_locked", IF monitorClose THEN "exited" ELSE "add")
    /\ guard' = IF monitorClose THEN NoOne ELSE guard
    /\ UNCHANGED <<monitorAsleep, m_subWorkerThreadId, mapVars, wpc>>

\* Bound: a run of the model has finitely many workers, and adds none when no
\* identity is left.
Spare == {w \in Workers : wpc[w] = "none"}

\* The constructor of a WorkerThread, which tries until it has its thread.
Started(w) == [wpc EXCEPT ![w] = "check"]

\* Mutant: the thread limit is not looked at.
ShouldAddAlways == Len(m_taskQueue) > Threshold

ShouldAddNow == ShouldAdd

\* AddWorkerThread: the new worker runs before it is in m_threads.
MonitorCreate ==
    /\ ShouldAddNow
    /\ MonitorGoes("add", "insert")
    /\ \E w \in Spare :
          /\ newWorker' = w
          /\ wpc' = Started(w)
    /\ UNCHANGED <<guard, monitorAsleep, m_subWorkerThreadId, m_threads>>

MonitorNoCreate ==
    /\ ~ShouldAddNow \/ Spare = {}
    /\ MonitorGoes("add", "sub")
    /\ UNCHANGED <<guard, monitorAsleep, m_subWorkerThreadId, mapVars, wpc>>

MonitorInsert ==
    /\ MonitorGoes("insert", "sub")
    /\ m_threads' = m_threads \cup {newWorker}
    /\ newWorker' = NoOne
    /\ UNCHANGED <<guard, monitorAsleep, m_subWorkerThreadId, wpc>>

\* Mutants: the worker is not joined; the other ids are forgotten.
Detached(w) == TRUE
NoMoreIds == <<>>

\* The join of a worker that is in the map returns when its thread has ended.
Joined(w) == w \in m_threads => wpc[w] \in {"exited", "thrown"}

OtherIds == Tail(m_subWorkerThreadId)

\* SubWorkerThread for the next id of the vector.  Erasing a worker joins its
\* thread, and counts as done when the join returns.
MonitorSub ==
    /\ mpc = "sub" /\ m_subWorkerThreadId # <<>>
    /\ Joined(Head(m_subWorkerThreadId))
    /\ m_threads' = m_threads \ {Head(m_subWorkerThreadId)}
    /\ m_subWorkerThreadId' = OtherIds
    /\ UNCHANGED <<mpc, guard, monitorAsleep, newWorker, wpc>>

\* The end of the loop body: the locker unlocks.
MonitorUnlock ==
    /\ m_subWorkerThreadId = <<>>
    /\ MonitorGoes("sub", "check")
    /\ guard' = NoOne
    /\ UNCHANGED <<monitorAsleep, m_subWorkerThreadId, mapVars, wpc>>

MonitorStep ==
    /\ \/ MonitorCheck \/ MonitorLock \/ MonitorNotified \/ MonitorTimeOut
       \/ MonitorCheckLocked \/ MonitorCreate \/ MonitorNoCreate \/ MonitorInsert
       \/ MonitorSub \/ MonitorUnlock
    /\ UNCHANGED <<fetchVars, countVars, closeRequested, flagVars, apc, spc>>

-----------------------------------------------------------------------------
(* AddTask *)

AddGoes(k, from, to) == apc[k] = from /\ apc' = [apc EXCEPT ![k] = to]

\* No shutdown has returned and the object is not being destroyed.
Usable == \A s \in Shutters : s = Destructor => spc[s] = "idle"

AddTask(k) ==
    /\ Usable
    /\ AddGoes(k, "idle", IF m_isRequestShutDown THEN "rejected" ELSE "push")
    /\ UNCHANGED <<fetchVars, countVars, leaveVars, mapVars, flagVars, guard, wpc, mpc, spc>>

\* m_taskQueue->Push(task): the check may be stale by now.
AddPush(k) ==
    /\ AddGoes(k, "push", "notify")
    /\ m_taskQueue' = Append(m_taskQueue, k)
    /\ UNCHANGED monitorAsleep

AddNotify(k) ==
    /\ AddGoes(k, "notify", "accepted")
    /\ NotifyMonitor
    /\ UNCHANGED m_taskQueue

AddStep(k) ==
    /\ AddPush(k) \/ AddNotify(k)
    /\ UNCHANGED <<wtask, ran, countVars, closeRequested, m_subWorkerThreadId, mapVars,
                   flagVars, guard, wpc, mpc, spc>>

-----------------------------------------------------------------------------
(* ShutDown, ShutDownNow and the destructor *)

ShutGoes(s, from, to) == spc[s] = from /\ spc' = [spc EXCEPT ![s] = to]

\* What a shutdown may change, by what it is for
announceVars == <<m_state, m_isRequestShutDown, stateSleepers>>
closeVars == <<guard, closeRequested, monitorClose>>
wakeVars == <<m_taskQueue, m_subWorkerThreadId, monitorAsleep>>

\* The destructor runs when nobody is inside a call any more.
MayShutDown(s) ==
    /\ Usable
    /\ s = Destructor =>
          /\ \A k \in Tasks : apc[k] \notin {"push", "notify"}
          /\ \A u \in Shutters \ {s} : spc[u] \in {"idle", "returned"}

\* The compare-and-exchange on m_isRequestShutDown succeeds ...
ShutDown(s) ==
    /\ MayShutDown(s)
    /\ ~m_isRequestShutDown
    /\ m_isRequestShutDown' = TRUE
    /\ ShutGoes(s, "idle", "set_stop")
    /\ UNCHANGED <<m_state, stateSleepers, closeVars, wakeVars>>

\* Mutant: its result is ignored.
SkipNothing == "set_stop"

\* Where a ShutDown goes on that is not the first
SkipTo == "requested"

\* ... or fails.
ShutDownAgain(s) ==
    /\ MayShutDown(s)
    /\ m_isRequestShutDown \/ WeakCasMayFail
    /\ ShutGoes(s, "idle", SkipTo)
    /\ UNCHANGED <<announceVars, closeVars, wakeVars>>

SetStop(s) ==
    /\ ShutGoes(s, "set_stop", "close")
    /\ m_state' = "STOP"
    /\ UNCHANGED <<m_isRequestShutDown, stateSleepers, closeVars, wakeVars>>

\* What a set of AsyncCloses may come to.
Closed(S) == IF WeakCasMayFail THEN SUBSET S ELSE {S}

\* AsyncClose every worker in the map ...
CloseWorkers(s) ==
    /\ guard = NoOne
    /\ guard' = s
    /\ ShutGoes(s, "close", "push_ends")
    /\ \E S \in Closed(m_threads) : closeRequested' = closeRequested \cup S
    /\ UNCHANGED <<announceVars, monitorClose, wakeVars>>

\* ... and push one EndTask for each, so that sleeping ones wake up.
Ends == [i \in 1 .. ThreadNum |-> EndTask]

PushEnds(s) ==
    /\ ShutGoes(s, "push_ends", "close_monitor")
    /\ m_taskQueue' = m_taskQueue \o Ends
    /\ guard' = NoOne
    /\ UNCHANGED <<announceVars, closeRequested, monitorClose, m_subWorkerThreadId, monitorAsleep>>

\* NotifyMonitorThread: AsyncClose, then the id 0, then the notification.
CloseMonitor(s) ==
    /\ ShutGoes(s, "close_monitor", "push_zero")
    /\ \E S \in Closed({Monitor}) : monitorClose' = (Monitor \in S)
    /\ UNCHANGED <<announceVars, guard, closeRequested, wakeVars>>

PushZero(s) ==
    /\ guard = NoOne
    /\ ShutGoes(s, "push_zero", "notify_monitor")
    /\ m_subWorkerThreadId' = Append(m_subWorkerThreadId, NoThreadId)
    /\ UNCHANGED <<announceVars, closeVars, m_taskQueue, monitorAsleep>>

NotifyMonitorThread(s) ==
    /\ ShutGoes(s, "notify_monitor", "requested")
    /\ NotifyMonitor
    /\ UNCHANGED <<announceVars, closeVars, m_taskQueue, m_subWorkerThreadId>>

\* ShutDown returns here; ShutDownNow goes on to wait.
ShutDownReturns(s) ==
    /\ s # Destructor
    /\ ShutGoes(s, "requested", "returned")
    /\ UNCHANGED <<announceVars, closeVars, wakeVars>>

ShutDownNow(s) ==
    /\ ShutGoes(s, "requested", "test")
    /\ UNCHANGED <<announceVars, closeVars, wakeVars>>

DoIsShutDown == m_state = "SHUTDOWN"

\* ConditionWaitLocker(m_stateGuard, !DoIsShutDown)
AwaitTest(s) ==
    /\ IF DoIsShutDown
       THEN ShutGoes(s, "test", "stopped") /\ UNCHANGED stateSleepers
       ELSE ShutGoes(s, "test", "waiting") /\ stateSleepers' = stateSleepers \cup {s}
    /\ UNCHANGED <<m_state, m_isRequestShutDown, closeVars, wakeVars>>

AwaitNotified(s) ==
    /\ s \notin stateSleepers
    /\ ShutGoes(s, "waiting", "test")
    /\ UNCHANGED <<announceVars, closeVars, wakeVars>>

AwaitSpurious(s) ==
    /\ s \in stateSleepers
    /\ stateSleepers' = stateSleepers \ {s}
    /\ UNCHANGED <<m_state, m_isRequestShutDown, closeVars, wakeVars, spc>>

\* ShutDownNow returns; the destructor joins the monitor and the workers.
ShutDownNowReturns(s) ==
    /\ ShutGoes(s, "stopped", IF s = Destructor THEN "join_monitor" ELSE "returned")
    /\ UNCHANGED <<announceVars, closeVars, wakeVars>>

JoinMonitor(s) ==
    /\ mpc = "exited"
    /\ ShutGoes(s, "join_monitor", "join_workers")
    /\ UNCHANGED <<announceVars, closeVars, wakeVars>>

JoinWorkers(s) ==
    /\ \A w \in m_threads : Joined(w)
    /\ ShutGoes(s, "join_workers", "returned")
    /\ UNCHANGED <<announceVars, closeVars, wakeVars>>

\* What no shutdown changes
NotOfShutDown == <<wtask, ran, m_stoppedThreadNum, wnum, mapVars, wpc, mpc, apc>>

CallShutDown(s) ==
    /\ ShutDown(s) \/ ShutDownAgain(s) \/ AwaitSpurious(s)
    /\ UNCHANGED NotOfShutDown

ShutStep(s) ==
    /\ \/ SetStop(s) \/ CloseWorkers(s) \/ PushEnds(s) \/ CloseMonitor(s) \/ PushZero(s)
       \/ NotifyMonitorThread(s) \/ ShutDownReturns(s) \/ ShutDownNow(s) \/ AwaitTest(s)
       \/ AwaitNotified(s) \/ ShutDownNowReturns(s) \/ JoinMonitor(s) \/ JoinWorkers(s)
    /\ UNCHANGED NotOfShutDown

-----------------------------------------------------------------------------

Next ==
    \/ \E w \in Workers : WorkerStep(w)
    \/ MonitorStep
    \/ MonitorSpurious
    \/ \E k \in Tasks : AddTask(k) \/ AddStep(k)
    \/ \E s \in Shutters : CallShutDown(s) \/ ShutStep(s)

Spec == Init /\ [][Next]_vars

\* Threads that can go on do, and tasks end.  Strong fairness, because a thread
\* may find the guard taken again and again: whoever holds a mutex gives it
\* back, and a thread that waits for it gets it at some time.
FairSpec ==
    /\ Spec
    /\ \A w \in Workers : SF_vars(WorkerStep(w))
    /\ SF_vars(MonitorStep)
    /\ \A k \in Tasks : SF_vars(AddStep(k))
    /\ \A s \in Shutters : SF_vars(ShutStep(s))

-----------------------------------------------------------------------------

WorkerPCs == {"none", "check", "get", "waiting", "judge", "run", "stop", "sub_push", "sub_notify",
              "count", "compare", "set_shutdown", "notify_all", "exited", "thrown"}

TypeOK ==
    /\ m_state \in {"RUNNING", "STOP", "SHUTDOWN"}
    /\ m_isRequestShutDown \in BOOLEAN
    /\ m_stoppedThreadNum \in Nat
    /\ m_threads \subseteq Workers
    /\ m_taskQueue \in Seq(Tasks \cup {EndTask})
    /\ m_subWorkerThreadId \in Seq(Workers \cup {NoThreadId})
    /\ guard \in Shutters \cup {Monitor, NoOne}
    /\ stateSleepers \subseteq Shutters
    /\ wpc \in [Workers -> WorkerPCs]
    /\ wtask \in [Workers -> Tasks \cup {EndTask}]
    /\ wnum \in [Workers -> Nat]
    /\ closeRequested \subseteq Workers
    /\ mpc \in {"check", "lock", "waiting", "check_locked", "add", "insert", "sub", "exited"}
    /\ monitorAsleep \in BOOLEAN
    /\ monitorClose \in BOOLEAN
    /\ newWorker \in Workers \cup {NoOne}
    /\ apc \in [Tasks -> {"idle", "push", "notify", "accepted", "rejected"}]
    /\ spc \in [Shutters -> {"idle", "set_stop", "close", "push_ends", "close_monitor",
                             "push_zero", "notify_monitor", "requested", "test", "waiting",
                             "stopped", "join_monitor", "join_workers", "returned"}]
    /\ ran \subseteq Tasks

\* A worker that has left the loop for good, or does not exist.
Stopped(w) == wpc[w] \in {"none", "count", "compare", "set_shutdown", "notify_all",
                          "exited", "thrown"}

(* "Wait until all worker threads stop": once the pool says SHUTDOWN, and so
   ShutDownNow may return, no worker runs a task or can begin one. *)
ShutDownWaitsForWorkers == m_state = "SHUTDOWN" => \A w \in Workers : Stopped(w)

(* Whatever grows and shrinks the pool, it never has more threads than
   maxThreadSize. *)
AtMostMax == ThreadNum <= Max

(* Every running worker is in the map, or about to be put there by the
   monitor: the destructor joins them all. *)
NoOrphan ==
    \A w \in Workers :
        wpc[w] \notin {"none", "exited", "thrown"} => w \in m_threads \cup {newWorker}

(* A worker that closed itself is not lost: until the pool is shut down it is
   still running, or its id waits for the monitor. *)
ClosedWorkersAreReaped ==
    \A w \in m_threads :
        wpc[w] = "exited" /\ ~m_isRequestShutDown => w \in Range(m_subWorkerThreadId)

Running(k) == \E w \in Workers : wpc[w] = "run" /\ wtask[w] = k

\* A second worker runs the task, or a worker runs it when it has run already.
RunsTwice(k) ==
    \E w \in Workers :
        /\ wpc[w] = "run" /\ wtask[w] = k
        /\ k \in ran \/ \E v \in Workers \ {w} : wpc[v] = "run" /\ wtask[v] = k

\* How far task k has come, as the one who added it sees it
Stage(k) ==
    IF RunsTwice(k) THEN "run twice"
    ELSE IF k \in ran THEN "ended"
    ELSE IF Running(k) THEN "running"
    ELSE IF apc[k] \in {"notify", "accepted"} THEN "accepted" ELSE "outside"

Promise == INSTANCE ThreadPool WITH state <- m_state, stage <- [k \in Tasks |-> Stage(k)]

(* Grow and shrink as the pool may, each task that is added is begun once at
   most, by one worker, and only after AddTask accepted it: no worker that is
   created, closed, timed out or thrown out of its loop runs a task again. *)
ImplementsTasks == Promise!TasksSpec

\* Whoever is still to notify the monitor, or to push an id and then notify it.
NotifyPending ==
    \/ \E k \in Tasks : apc[k] = "notify"
    \/ \E w \in Workers : wpc[w] = "sub_notify"
    \/ \E s \in Shutters : spc[s] \in {"close_monitor", "push_zero", "notify_monitor"}

(* No notification is lost: when the monitor sleeps on while there is a worker
   to add or to take away, whoever brought that about is still to notify it. *)
MonitorWillBeNotified == monitorAsleep /\ JudgeFunc => NotifyPending

(* Nor is that of ShutDownNow: when SHUTDOWN is announced while a thread sleeps
   in ShutDownNow, a worker is still to wake it, or all of them. *)
SleepersWillBeNotified ==
    m_state = "SHUTDOWN" /\ stateSleepers # {} => \E w \in Workers : wpc[w] = "notify_all"

(* Every shutdown of a pool whose tasks do not throw returns, a ShutDown or a
   ShutDownNow and after it the destructor: the SHUTDOWN that the last worker
   announces reaches whoever sleeps or is about to, the monitor ends, and all
   threads are joined.  (Of threads that wait at the same time there is
   SleepersWillBeNotified.) *)
ShutDownTerminates == \A s \in Shutters : spc[s] # "idle" ~> spc[s] = "returned"

(* ShutDown is "Non blocking, send a close signal to each thread to return": it
   comes to its end, whatever the monitor and the workers are doing. *)
ShutDownDoesNotBlock == \A s \in Shutters : spc[s] = "set_stop" ~> spc[s] = "requested"

(* A task that AddTask accepted is run, unless the pool is shut down. *)
AcceptedTasksRun ==
    \A k \in Tasks : apc[k] = "accepted" ~> k \in ran \/ m_isRequestShutDown
=============================================================================
