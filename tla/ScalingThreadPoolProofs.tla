---------------------- MODULE ScalingThreadPoolProofs ----------------------
(***************************************************************************)
(* For any number of workers, tasks and threads that shut the pool down:   *)
(* a scaling pool never exceeds maxThreadSize, loses no worker and reaps   *)
(* the ones that closed themselves; a fixed pool keeps its workers, says   *)
(* SHUTDOWN only when the last one has stopped, and implements ThreadPool. *)
(*                                                                         *)
(* The pool's own properties are not inductive.  What they rest on: the    *)
(* monitor holds the guard from the test of the size to the insertion      *)
(* (GuardInv), so the worker that it is creating can neither judge itself  *)
(* superfluous nor stop before it is in the map (NewWorkerInv), unless a   *)
(* shutdown was requested (RequestInv).                                    *)
(***************************************************************************)
EXTENDS FixedThreadPool, FiniteSetTheorems, SequenceTheorems, TLAPS

Locked == {"check_locked", "add", "insert", "sub"}

\* Whoever is in a critical section of m_addOrSubThreadNumGuard holds it.
GuardInv ==
    /\ mpc \in Locked <=> guard = Monitor
    /\ \A s \in Shutters : spc[s] = "push_ends" <=> guard = s

\* What WorkerThread::GetTask hands over is a task.
RunsTask == \A w \in Workers : wpc[w] = "run" => wtask[w] \in Tasks

ShuttingDown == {"set_stop", "close", "push_ends", "close_monitor", "push_zero",
                 "notify_monitor"}

\* What nobody does before a shutdown is requested.
RequestInv ==
    /\ \A s \in Shutters : spc[s] \in ShuttingDown => m_isRequestShutDown
    /\ EndTask \in Range(m_taskQueue) => m_isRequestShutDown
    /\ \A w \in Workers :
          wpc[w] \in {"count", "compare", "set_shutdown", "notify_all"} => m_isRequestShutDown

\* A worker runs before it is closed or in the map.
StartedInv ==
    /\ \A w \in m_threads : wpc[w] # "none"
    /\ \A w \in closeRequested : wpc[w] # "none"

\* The worker between its creation and its insertion.
NewWorkerInv ==
    /\ mpc = "insert" <=> newWorker # NoOne
    /\ newWorker # NoOne =>
          /\ ThreadNum < Max
          /\ newWorker \notin m_threads
          /\ wpc[newWorker] # "none"
          /\ ~m_isRequestShutDown =>
                /\ newWorker \notin closeRequested
                /\ wpc[newWorker] \in {"check", "get", "waiting", "judge", "run", "thrown"}

\* ClosedWorkersAreReaped, from the moment the id is in the vector.
ReapInv ==
    \A w \in m_threads :
        wpc[w] \in {"sub_notify", "exited"} /\ ~m_isRequestShutDown =>
            w \in Range(m_subWorkerThreadId)

ScalingInv ==
    /\ TypeOK
    /\ GuardInv
    /\ RunsTask
    /\ RequestInv
    /\ StartedInv
    /\ NewWorkerInv
    /\ ReapInv
    /\ NoOrphan
    /\ AtMostMax

-----------------------------------------------------------------------------
(* Sequences and sets *)

(* The elements of a sequence that has grown by one. *)
LEMMA RangeOfAppend ==
    ASSUME NEW S, NEW seq \in Seq(S), NEW e \in S
    PROVE  \A x : x \in Range(Append(seq, e)) <=> x \in Range(seq) \/ x = e
  <1>1. DOMAIN Append(seq, e) = DOMAIN seq \cup {Len(seq) + 1}
    OBVIOUS
  <1>2. \A i \in DOMAIN seq : Append(seq, e)[i] = seq[i]
    OBVIOUS
  <1>3. Append(seq, e)[Len(seq) + 1] = e
    OBVIOUS
  <1> QED
    BY <1>1, <1>2, <1>3, Zenon DEF Range

(* The elements of a sequence that has lost its first. *)
LEMMA RangeOfTail ==
    ASSUME NEW S, NEW seq \in Seq(S), seq # <<>>
    PROVE  /\ Head(seq) \in Range(seq)
           /\ Range(Tail(seq)) \subseteq Range(seq)
           /\ \A x \in Range(seq) : x = Head(seq) \/ x \in Range(Tail(seq))
  <1>1. Head(seq) = seq[1] /\ 1 \in DOMAIN seq
    OBVIOUS
  <1>2. \A i \in DOMAIN Tail(seq) : i + 1 \in DOMAIN seq /\ Tail(seq)[i] = seq[i + 1]
    OBVIOUS
  <1>3. ASSUME NEW i \in DOMAIN seq, i # 1
        PROVE  i - 1 \in DOMAIN Tail(seq) /\ seq[i] = Tail(seq)[i - 1]
    BY <1>3
  <1>4. \A x \in Range(seq) : x = Head(seq) \/ x \in Range(Tail(seq))
    BY <1>1, <1>3, Zenon DEF Range
  <1>5. Range(Tail(seq)) \subseteq Range(seq)
    BY <1>2, Zenon DEF Range
  <1>6. Head(seq) \in Range(seq)
    BY <1>1, Zenon DEF Range
  <1> QED
    BY <1>4, <1>5, <1>6

(* The elements of a concatenation. *)
LEMMA RangeOfConcat ==
    ASSUME NEW S, NEW seq \in Seq(S), NEW rest \in Seq(S)
    PROVE  Range(seq \o rest) \subseteq Range(seq) \cup Range(rest)
  <1>1. ASSUME NEW i \in DOMAIN (seq \o rest)
        PROVE  \/ i \in DOMAIN seq /\ (seq \o rest)[i] = seq[i]
               \/ i - Len(seq) \in DOMAIN rest /\ (seq \o rest)[i] = rest[i - Len(seq)]
    BY ConcatProperties, LenProperties
  <1> QED
    BY <1>1, Zenon DEF Range

(* A pool has a natural number of threads. *)
LEMMA ThreadNumIsNat ==
    ASSUME TypeOK
    PROVE  IsFiniteSet(m_threads) /\ ThreadNum \in Nat
  BY PoolAssumption, FS_Subset, FS_CardinalityType DEF TypeOK, ThreadNum

-----------------------------------------------------------------------------
(* The scaling pool: workers *)

(* What a step of a worker does to its own position and to those of others. *)
LEMMA WorkerMoves ==
    ASSUME TypeOK, NEW w \in Workers, WorkerStep(w)
    PROVE  /\ wpc[w] \notin {"none", "exited", "thrown"}
           /\ wpc'[w] \in WorkerPCs \ {"none"}
           /\ wpc' = [wpc EXCEPT ![w] = wpc'[w]]
           /\ wpc' \in [Workers -> WorkerPCs]
           /\ \A v \in Workers \ {w} : wpc'[v] = wpc[v]
  <1>1. PICK from \in WorkerPCs \ {"none", "exited", "thrown"}, to \in WorkerPCs \ {"none"} :
           WorkerGoes(w, from, to)
    BY DEF WorkerStep, WorkerCheck, WorkerGet, WorkerWaits, WorkerTimeOut, WorkerJudge,
           WorkerJudgeFails, WorkerRun, WorkerThrows, WorkerStop, WorkerSubPush,
           WorkerSubNotify, WorkerCount, WorkerCompare, WorkerSetShutDown, WorkerNotifyAll,
           WorkerPCs, AfterPop
  <1> QED
    BY <1>1 DEF WorkerGoes, TypeOK

(* The tasks and the queue: fetched, run or left alone. *)
LEMMA WorkerFetches ==
    ASSUME TypeOK, RunsTask, NEW w \in Workers, WorkerStep(w)
    PROVE  /\ m_taskQueue' \in Seq(Tasks \cup {EndTask})
           /\ wtask' \in [Workers -> Tasks \cup {EndTask}]
           /\ ran' \subseteq Tasks
           /\ Range(m_taskQueue') \subseteq Range(m_taskQueue)
           /\ RunsTask'
  <1> USE DEF TypeOK
  <1>1. CASE WorkerGet(w)
    <2>1. /\ Head(m_taskQueue) \in Tasks \cup {EndTask}
          /\ Tail(m_taskQueue) \in Seq(Tasks \cup {EndTask})
      BY <1>1 DEF WorkerGet
    <2>2. Range(m_taskQueue') \subseteq Range(m_taskQueue)
      BY <1>1, RangeOfTail DEF WorkerGet, OtherTasks
    <2>3. wtask'[w] = Head(m_taskQueue) /\ \A v \in Workers \ {w} : wtask'[v] = wtask[v]
      BY <1>1 DEF WorkerGet
    <2>4. wpc'[w] = "run" => wtask'[w] # EndTask
      BY <1>1, <2>3 DEF WorkerGet, WorkerGoes, AfterPop
    <2>5. RunsTask'
      BY <2>1, <2>3, <2>4, WorkerMoves DEF RunsTask
    <2> QED
      BY <1>1, <2>1, <2>2, <2>5 DEF WorkerGet, OtherTasks
  <1>2. CASE WorkerRun(w) \/ WorkerThrows(w)
    BY <1>2 DEF WorkerRun, WorkerThrows, WorkerGoes, RunsTask
  <1>3. CASE ~WorkerGet(w) /\ ~WorkerRun(w) /\ ~WorkerThrows(w)
    <2>1. UNCHANGED fetchVars /\ wpc'[w] # "run"
      BY <1>3 DEF WorkerStep, WorkerCheck, WorkerWaits, WorkerTimeOut, WorkerJudge,
           WorkerJudgeFails, WorkerStop, WorkerSubPush,
           WorkerSubNotify, WorkerCount, WorkerCompare, WorkerSetShutDown, WorkerNotifyAll,
           WorkerGoes
    <2> QED
      BY <2>1, WorkerMoves DEF RunsTask, fetchVars
  <1> QED
    BY <1>1, <1>2, <1>3

(* The stop counter and the pool's state. *)
LEMMA WorkerCounts ==
    ASSUME TypeOK, NEW w \in Workers, WorkerStep(w)
    PROVE  /\ m_state' \in {"RUNNING", "STOP", "SHUTDOWN"}
           /\ m_stoppedThreadNum' \in Nat
           /\ wnum' \in [Workers -> Nat]
           /\ stateSleepers' \subseteq Shutters
  <1> USE DEF TypeOK
  <1>1. CASE WorkerCount(w)
    BY <1>1 DEF WorkerCount
  <1>2. CASE WorkerSetShutDown(w) \/ WorkerNotifyAll(w)
    BY <1>2 DEF WorkerSetShutDown, WorkerNotifyAll
  <1>3. CASE ~WorkerCount(w) /\ ~WorkerSetShutDown(w) /\ ~WorkerNotifyAll(w)
    BY <1>3 DEF WorkerStep, WorkerCheck, WorkerGet, WorkerWaits, WorkerTimeOut, WorkerJudge,
           WorkerJudgeFails, WorkerRun, WorkerThrows, WorkerStop, WorkerSubPush,
           WorkerSubNotify, WorkerCompare, countVars
  <1> QED
    BY <1>1, <1>2, <1>3

(* The way of a worker out of the pool: a worker closes no other, and a worker
   that goes has its id in the vector or was told to by a shutdown. *)
LEMMA WorkerLeaves ==
    ASSUME TypeOK, RequestInv, NEW w \in Workers, WorkerStep(w)
    PROVE  /\ monitorAsleep' \in BOOLEAN
           /\ m_subWorkerThreadId' \in Seq(Workers \cup {NoThreadId})
           /\ Range(m_subWorkerThreadId) \subseteq Range(m_subWorkerThreadId')
           /\ closeRequested \subseteq closeRequested'
           /\ closeRequested' \subseteq closeRequested \cup {w}
           /\ closeRequested' # closeRequested => guard = NoOne
           /\ wpc'[w] \in {"count", "compare", "set_shutdown", "notify_all"} =>
                  m_isRequestShutDown
           /\ wpc'[w] \in {"sub_notify", "exited"} /\ ~m_isRequestShutDown =>
                  \/ wpc[w] = "sub_notify"
                  \/ guard = NoOne /\ w \in Range(m_subWorkerThreadId')
           /\ wpc'[w] = "stop" /\ ~m_isRequestShutDown => w \in closeRequested \/ guard = NoOne
           /\ wpc'[w] = "sub_push" => wpc[w] = "stop"
  <1> USE DEF TypeOK, RequestInv, WorkerGoes
  <1>1. CASE WorkerSubPush(w)
    <2>1. m_subWorkerThreadId' = Append(m_subWorkerThreadId, w)
          /\ m_subWorkerThreadId' \in Seq(Workers \cup {NoThreadId})
      BY <1>1 DEF WorkerSubPush
    <2>2. \A x : x \in Range(m_subWorkerThreadId') <=> x \in Range(m_subWorkerThreadId) \/ x = w
      <3>1. m_subWorkerThreadId \in Seq(Workers \cup {NoThreadId})
            /\ w \in Workers \cup {NoThreadId}
        OBVIOUS
      <3>2. \A x : x \in Range(Append(m_subWorkerThreadId, w))
                     <=> x \in Range(m_subWorkerThreadId) \/ x = w
        BY ONLY <3>1, RangeOfAppend
      <3> QED
        BY <2>1, <3>2
    <2>3. /\ Range(m_subWorkerThreadId) \subseteq Range(m_subWorkerThreadId')
          /\ w \in Range(m_subWorkerThreadId')
      BY <2>2
    <2>4. guard = NoOne /\ wpc'[w] = "sub_notify"
      BY <1>1 DEF WorkerSubPush
    <2> QED
      BY <1>1, <2>1, <2>3, <2>4 DEF WorkerSubPush
  <1>2. CASE WorkerGet(w)
    <2>1. Head(m_taskQueue) \in Range(m_taskQueue)
      BY <1>2, RangeOfTail DEF WorkerGet
    <2> QED
      BY <1>2, <2>1 DEF WorkerGet, AfterPop, leaveVars
  <1>3. CASE WorkerSubNotify(w)
    BY <1>3 DEF WorkerSubNotify, NotifyMonitor
  <1>4. CASE WorkerJudge(w) \/ WorkerJudgeFails(w)
    BY <1>4 DEF WorkerJudge, WorkerJudgeFails, leaveVars
  <1>5. CASE WorkerCheck(w) \/ WorkerWaits(w) \/ WorkerTimeOut(w) \/ WorkerRun(w)
             \/ WorkerThrows(w) \/ WorkerStop(w)
    BY <1>5 DEF WorkerCheck, WorkerWaits, WorkerTimeOut, WorkerRun, WorkerThrows, WorkerStop,
                leaveVars
  <1>6. CASE WorkerCount(w) \/ WorkerCompare(w) \/ WorkerSetShutDown(w) \/ WorkerNotifyAll(w)
    BY <1>6 DEF WorkerCount, WorkerCompare, WorkerSetShutDown, WorkerNotifyAll, leaveVars
  <1> QED
    BY <1>1, <1>2, <1>3, <1>4, <1>5, <1>6 DEF WorkerStep

(* A step of a worker keeps the invariant. *)
LEMMA WorkerKeepsInv ==
    ASSUME ScalingInv, NEW w \in Workers, WorkerStep(w)
    PROVE  ScalingInv'
  <1> USE DEF ScalingInv
  <1>1. UNCHANGED <<m_threads, newWorker, m_isRequestShutDown, monitorClose, guard, mpc, apc, spc>>
    BY DEF WorkerStep, mapVars, flagVars
  <1>2. TypeOK'
    BY <1>1, WorkerMoves, WorkerFetches, WorkerCounts, WorkerLeaves DEF TypeOK
  <1>3. GuardInv'
    BY <1>1 DEF GuardInv
  <1>4. RunsTask'
    BY WorkerFetches
  <1>5. RequestInv'
    BY <1>1, WorkerMoves, WorkerFetches, WorkerLeaves DEF RequestInv, TypeOK
  <1>6. StartedInv'
    BY <1>1, WorkerMoves, WorkerLeaves DEF StartedInv, TypeOK
  <1>7. NewWorkerInv'
    <2>1. ThreadNum' = ThreadNum
      BY <1>1 DEF ThreadNum
    <2>2. newWorker # NoOne => guard # NoOne
      BY PoolAssumption DEF NewWorkerInv, GuardInv, Locked
    <2>3. CASE newWorker = w
      <3>1. wpc[w] \notin {"stop", "sub_push", "sub_notify"} \/ m_isRequestShutDown
        BY <2>3, PoolAssumption DEF NewWorkerInv
      <3> QED
        BY <1>1, <2>1, <2>2, <2>3, <3>1, WorkerMoves, WorkerLeaves DEF NewWorkerInv, WorkerPCs
    <2>4. CASE newWorker # w
      BY <1>1, <2>1, <2>4, WorkerMoves, WorkerLeaves DEF NewWorkerInv, TypeOK
    <2> QED
      BY <2>3, <2>4
  <1>8. ReapInv'
    BY <1>1, WorkerMoves, WorkerLeaves DEF ReapInv, TypeOK
  <1>9. NoOrphan'
    BY <1>1, WorkerMoves DEF NoOrphan
  <1>10. AtMostMax'
    BY <1>1 DEF AtMostMax, ThreadNum
  <1> QED
    BY <1>2, <1>3, <1>4, <1>5, <1>6, <1>7, <1>8, <1>9, <1>10

-----------------------------------------------------------------------------
(* The scaling pool: the monitor *)

(* What the monitor does to the mutex and to the map: it holds the mutex in its
   loop body, and takes nobody but ended workers out of the map. *)
LEMMA MonitorMoves ==
    ASSUME TypeOK, GuardInv, NewWorkerInv, MonitorStep
    PROVE  /\ mpc' \in {"check", "lock", "waiting", "check_locked", "add", "insert", "sub",
                        "exited"}
           /\ guard' \in Shutters \cup {Monitor, NoOne}
           /\ monitorAsleep' \in BOOLEAN
           /\ GuardInv'
  <1> USE PoolAssumption
      DEF TypeOK, GuardInv, Locked, MonitorGoes, MonitorStep
  <1>1. CASE MonitorCheck \/ MonitorNotified \/ MonitorCheckLocked
    BY <1>1 DEF MonitorCheck, MonitorNotified, MonitorCheckLocked
  <1>2. CASE MonitorLock \/ MonitorTimeOut
    BY <1>2 DEF MonitorLock, MonitorTimeOut
  <1>3. CASE MonitorCreate \/ MonitorNoCreate \/ MonitorInsert \/ MonitorSub \/ MonitorUnlock
    BY <1>3 DEF MonitorCreate, MonitorNoCreate, MonitorInsert, MonitorSub, MonitorUnlock
  <1> QED
    BY <1>1, <1>2, <1>3

(* A step of the monitor keeps the invariant. *)
LEMMA MonitorKeepsInv ==
    ASSUME ScalingInv, MonitorStep
    PROVE  ScalingInv'
  <1> USE DEF ScalingInv
  <1>1. UNCHANGED <<fetchVars, countVars, closeRequested, flagVars, apc, spc>>
    BY DEF MonitorStep
  <1> USE <1>1 DEF fetchVars, countVars, flagVars
  <1>2. CASE MonitorCreate
    <2>1. PICK w \in Workers : /\ wpc[w] = "none" /\ newWorker' = w
                               /\ wpc' = [wpc EXCEPT ![w] = "check"]
      BY <1>2 DEF MonitorCreate, Spare, Started
    <2>2. UNCHANGED <<m_threads, m_subWorkerThreadId>> /\ mpc = "add" /\ mpc' = "insert"
      BY <1>2 DEF MonitorCreate, MonitorGoes
    <2>3. TypeOK'
      BY <2>1, <2>2, MonitorMoves DEF TypeOK, WorkerPCs
    <2>4. RunsTask' /\ RequestInv' /\ StartedInv' /\ ReapInv'
      BY <2>1, <2>2 DEF TypeOK, RunsTask, RequestInv, StartedInv, ReapInv
    <2>5. NewWorkerInv'
      <3>1. ThreadNum' = ThreadNum /\ ThreadNum < Max
        BY <1>2, <2>2 DEF MonitorCreate, ShouldAddNow, ShouldAdd, ThreadNum
      <3>2. w \notin m_threads /\ w \notin closeRequested /\ w # NoOne
        BY <2>1, PoolAssumption DEF StartedInv
      <3> QED
        BY <2>1, <2>2, <3>1, <3>2 DEF NewWorkerInv, TypeOK
    <2>6. NoOrphan'
      <3>1. newWorker = NoOne
        BY <2>2 DEF NewWorkerInv
      <3> QED
        BY <2>1, <2>2, <3>1, PoolAssumption DEF NoOrphan, TypeOK
    <2>7. AtMostMax'
      BY <2>2 DEF AtMostMax, ThreadNum
    <2> QED
      BY <2>3, <2>4, <2>5, <2>6, <2>7, MonitorMoves
  <1>3. CASE MonitorInsert
    <2>1. /\ m_threads' = m_threads \cup {newWorker} /\ newWorker' = NoOne
          /\ mpc = "insert" /\ mpc' = "sub"
          /\ UNCHANGED <<wpc, m_subWorkerThreadId>>
      BY <1>3 DEF MonitorInsert, MonitorGoes
    <2>2. newWorker \in Workers
      BY <2>1 DEF NewWorkerInv, TypeOK
    <2>3. TypeOK'
      BY <2>1, <2>2, MonitorMoves DEF TypeOK
    <2>4. RunsTask' /\ RequestInv' /\ StartedInv' /\ NewWorkerInv'
      BY <2>1 DEF RunsTask, RequestInv, StartedInv, NewWorkerInv
    <2>5. ReapInv'
      BY <2>1, <2>2, PoolAssumption DEF ReapInv, NewWorkerInv
    <2>6. NoOrphan'
      BY <2>1 DEF NoOrphan
    <2>7. AtMostMax'
      <3>1. Cardinality(m_threads \cup {newWorker}) = Cardinality(m_threads) + 1
        BY <2>1, ThreadNumIsNat, FS_AddElement DEF NewWorkerInv
      <3>2. ThreadNum < Max
        BY <2>1 DEF NewWorkerInv
      <3> QED
        BY <2>1, <3>1, <3>2, ThreadNumIsNat, PoolAssumption DEF AtMostMax, ThreadNum
    <2> QED
      BY <2>3, <2>4, <2>5, <2>6, <2>7, MonitorMoves
  <1>4. CASE MonitorSub
    <2> DEFINE h == Head(m_subWorkerThreadId)
    <2>1. /\ m_threads' = m_threads \ {h}
          /\ m_subWorkerThreadId # <<>> /\ m_subWorkerThreadId' = Tail(m_subWorkerThreadId)
          /\ UNCHANGED <<wpc, newWorker, mpc>>
          /\ h \in m_threads => wpc[h] \in {"exited", "thrown"}
      BY <1>4 DEF MonitorSub, OtherIds, Joined
    <2> HIDE DEF h
    <2>2. m_subWorkerThreadId' \in Seq(Workers \cup {NoThreadId})
      BY <2>1 DEF TypeOK
    <2>3. TypeOK'
      BY <2>1, <2>2, MonitorMoves DEF TypeOK
    <2>4. ThreadNum' <= ThreadNum /\ ThreadNum' \in Nat
      BY <2>1, <2>3, ThreadNumIsNat, FS_Subset, FS_CardinalityType DEF ThreadNum
    <2>5. RunsTask' /\ RequestInv' /\ StartedInv'
      BY <2>1 DEF RunsTask, RequestInv, StartedInv
    <2>6. NewWorkerInv' /\ AtMostMax'
      BY <2>1, <2>4, ThreadNumIsNat, PoolAssumption DEF NewWorkerInv, AtMostMax
    <2>7. ReapInv'
      <3>1. \A x \in Range(m_subWorkerThreadId) : x = h \/ x \in Range(m_subWorkerThreadId')
        BY <2>1, RangeOfTail DEF TypeOK, h
      <3> QED
        BY <2>1, <3>1 DEF ReapInv
    <2>8. NoOrphan'
      BY <2>1 DEF NoOrphan
    <2> QED
      BY <2>3, <2>5, <2>6, <2>7, <2>8, MonitorMoves
  <1>5. CASE ~MonitorCreate /\ ~MonitorInsert /\ ~MonitorSub
    <2>1. UNCHANGED <<m_threads, newWorker, wpc, m_subWorkerThreadId>> /\ mpc # "insert"
          /\ mpc' # "insert"
      BY <1>5 DEF MonitorStep, MonitorCheck, MonitorLock, MonitorNotified, MonitorTimeOut,
                  MonitorCheckLocked, MonitorNoCreate, MonitorUnlock, MonitorGoes, mapVars
    <2>2. TypeOK'
      BY <2>1, MonitorMoves DEF TypeOK
    <2>3. RunsTask' /\ RequestInv' /\ StartedInv' /\ ReapInv' /\ NoOrphan' /\ AtMostMax'
      BY <2>1 DEF RunsTask, RequestInv, StartedInv, ReapInv, NoOrphan, AtMostMax, ThreadNum
    <2>4. NewWorkerInv'
      BY <2>1 DEF NewWorkerInv
    <2> QED
      BY <2>2, <2>3, <2>4, MonitorMoves
  <1> QED
    BY <1>2, <1>3, <1>4, <1>5

-----------------------------------------------------------------------------
(* The scaling pool: AddTask and the shutdowns *)

(* A step that touches neither workers, map nor mutex keeps the invariant if the
   types and the queue are right. *)
LEMMA QuietStepKeepsInv ==
    ASSUME ScalingInv, TypeOK',
           UNCHANGED <<wtask, wpc, mpc, m_threads, newWorker, guard, closeRequested,
                       m_subWorkerThreadId, spc, m_isRequestShutDown>>,
           EndTask \in Range(m_taskQueue') => EndTask \in Range(m_taskQueue)
    PROVE  ScalingInv'
  <1> USE DEF ScalingInv
  <1>1. GuardInv' /\ RunsTask' /\ RequestInv' /\ StartedInv' /\ ReapInv'
    BY DEF GuardInv, RunsTask, RequestInv, StartedInv, ReapInv
  <1>2. NewWorkerInv' /\ NoOrphan' /\ AtMostMax'
    BY DEF NewWorkerInv, NoOrphan, AtMostMax, ThreadNum
  <1> QED
    BY <1>1, <1>2

(* A step of AddTask, or a spurious wake-up of the monitor, keeps it. *)
LEMMA AddKeepsInv ==
    ASSUME ScalingInv, MonitorSpurious \/ \E k \in Tasks : AddTask(k) \/ AddStep(k)
    PROVE  ScalingInv'
  <1> USE DEF ScalingInv
  <1>1. CASE MonitorSpurious
    <2>1. TypeOK'
      BY <1>1 DEF TypeOK, MonitorSpurious, fetchVars, countVars, mapVars, flagVars
    <2> QED
      BY <1>1, <2>1, QuietStepKeepsInv DEF MonitorSpurious, fetchVars, mapVars, flagVars
  <1>2. ASSUME NEW k \in Tasks, AddTask(k) PROVE ScalingInv'
    <2>1. TypeOK'
      BY <1>2 DEF TypeOK, AddTask, AddGoes, fetchVars, countVars, leaveVars, mapVars, flagVars
    <2> QED
      BY <1>2, <2>1, QuietStepKeepsInv DEF AddTask, fetchVars, leaveVars, mapVars, flagVars
  <1>3. ASSUME NEW k \in Tasks, AddStep(k) PROVE ScalingInv'
    <2>1. m_taskQueue' \in Seq(Tasks \cup {EndTask})
          /\ (EndTask \in Range(m_taskQueue') => EndTask \in Range(m_taskQueue))
      <3>1. CASE m_taskQueue' = m_taskQueue
        BY <3>1 DEF TypeOK
      <3>2. CASE m_taskQueue' = Append(m_taskQueue, k)
        <4>1. m_taskQueue \in Seq(Tasks \cup {EndTask}) /\ k \in Tasks \cup {EndTask}
          BY DEF TypeOK
        <4>2. \A x : x \in Range(Append(m_taskQueue, k)) <=> x \in Range(m_taskQueue) \/ x = k
          BY ONLY <4>1, RangeOfAppend
        <4> QED
          BY <3>2, <4>1, <4>2, PoolAssumption
      <3> QED
        BY <1>3, <3>1, <3>2 DEF AddStep, AddPush, AddNotify
    <2>2. apc' \in [Tasks -> {"idle", "push", "notify", "accepted", "rejected"}]
          /\ monitorAsleep' \in BOOLEAN
      BY <1>3 DEF TypeOK, AddStep, AddPush, AddNotify, AddGoes, NotifyMonitor
    <2>3. TypeOK'
      BY <1>3, <2>1, <2>2 DEF TypeOK, AddStep, countVars, mapVars, flagVars
    <2> QED
      BY <1>3, <2>1, <2>3, QuietStepKeepsInv DEF AddStep, mapVars, flagVars
  <1> QED
    BY <1>1, <1>2, <1>3

ShutterPCs == {"idle", "set_stop", "close", "push_ends", "close_monitor", "push_zero",
               "notify_monitor", "requested", "test", "waiting", "stopped", "join_monitor",
               "join_workers", "returned"}

(* What a step of a shutdown does to its own position. *)
LEMMA ShutMoves ==
    ASSUME TypeOK, NEW s \in Shutters, CallShutDown(s) \/ ShutStep(s)
    PROVE  /\ spc' \in [Shutters -> ShutterPCs]
           /\ \A u \in Shutters \ {s} : spc'[u] = spc[u]
           /\ spc'[s] = "push_ends" /\ spc[s] # "push_ends" => CloseWorkers(s)
           /\ spc'[s] # "push_ends" /\ spc[s] = "push_ends" => PushEnds(s)
           /\ spc'[s] \in ShuttingDown => spc[s] \in ShuttingDown \/ m_isRequestShutDown'
           /\ m_isRequestShutDown' # m_isRequestShutDown => ShutDown(s)
  <1> USE DEF TypeOK, ShutGoes, ShutterPCs, ShuttingDown
  <1>1. CASE ShutDown(s) \/ ShutDownAgain(s) \/ AwaitSpurious(s)
    BY <1>1 DEF ShutDown, ShutDownAgain, AwaitSpurious, SkipTo, announceVars
  <1>2. CASE SetStop(s) \/ CloseWorkers(s) \/ PushEnds(s) \/ CloseMonitor(s) \/ PushZero(s)
             \/ NotifyMonitorThread(s)
    BY <1>2 DEF SetStop, CloseWorkers, PushEnds, CloseMonitor, PushZero, NotifyMonitorThread,
                announceVars
  <1>3. CASE ShutDownReturns(s) \/ ShutDownNow(s) \/ AwaitTest(s) \/ AwaitNotified(s)
             \/ ShutDownNowReturns(s) \/ JoinMonitor(s) \/ JoinWorkers(s)
    BY <1>3 DEF ShutDownReturns, ShutDownNow, AwaitTest, AwaitNotified, ShutDownNowReturns,
                JoinMonitor, JoinWorkers, announceVars
  <1> QED
    BY <1>1, <1>2, <1>3 DEF CallShutDown, ShutStep

(* What a shutdown does to the queue, the vector and the close flags. *)
LEMMA ShutEffects ==
    ASSUME ScalingInv, NEW s \in Shutters, CallShutDown(s) \/ ShutStep(s)
    PROVE  /\ m_taskQueue' \in Seq(Tasks \cup {EndTask})
           /\ m_taskQueue' # m_taskQueue =>
                 /\ spc[s] = "push_ends"
                 /\ Range(m_taskQueue') \subseteq Range(m_taskQueue) \cup {EndTask}
           /\ m_subWorkerThreadId' \in Seq(Workers \cup {NoThreadId})
           /\ Range(m_subWorkerThreadId) \subseteq Range(m_subWorkerThreadId')
           /\ Range(m_subWorkerThreadId') \subseteq Range(m_subWorkerThreadId) \cup {NoThreadId}
           /\ closeRequested' \subseteq closeRequested \cup m_threads
           /\ closeRequested' # closeRequested => spc[s] = "close"
           /\ m_state' \in {"RUNNING", "STOP", "SHUTDOWN"}
           /\ m_isRequestShutDown' \in BOOLEAN
           /\ stateSleepers' \subseteq Shutters
           /\ monitorAsleep' \in BOOLEAN
           /\ monitorClose' \in BOOLEAN
           /\ guard' \in Shutters \cup {Monitor, NoOne}
  <1> USE DEF ScalingInv, TypeOK, ShutGoes, announceVars, closeVars, wakeVars
  <1>1. CASE ShutDown(s) \/ ShutDownAgain(s) \/ AwaitSpurious(s) \/ SetStop(s)
    BY <1>1 DEF ShutDown, ShutDownAgain, AwaitSpurious, SetStop
  <1>2. CASE CloseWorkers(s)
    BY <1>2 DEF CloseWorkers, Closed
  <1>3. CASE PushEnds(s)
    <2>1. Ends \in Seq({EndTask})
      BY ThreadNumIsNat DEF Ends
    <2>2. Ends \in Seq(Tasks \cup {EndTask}) /\ Range(Ends) \subseteq {EndTask}
      BY <2>1, SeqMonotonic DEF Ends, Range
    <2>3. m_taskQueue' = m_taskQueue \o Ends /\ m_taskQueue' \in Seq(Tasks \cup {EndTask})
      BY <1>3, <2>2 DEF PushEnds
    <2>4. Range(m_taskQueue') \subseteq Range(m_taskQueue) \cup Range(Ends)
      BY <2>2, <2>3, RangeOfConcat
    <2> QED
      BY <1>3, <2>2, <2>3, <2>4 DEF PushEnds
  <1>4. CASE CloseMonitor(s)
    BY <1>4 DEF CloseMonitor, Closed
  <1>5. CASE PushZero(s)
    <2>1. m_subWorkerThreadId \in Seq(Workers \cup {NoThreadId})
          /\ NoThreadId \in Workers \cup {NoThreadId}
      OBVIOUS
    <2>2. \A x : x \in Range(Append(m_subWorkerThreadId, NoThreadId))
                   <=> x \in Range(m_subWorkerThreadId) \/ x = NoThreadId
      BY ONLY <2>1, RangeOfAppend
    <2>3. m_subWorkerThreadId' = Append(m_subWorkerThreadId, NoThreadId)
          /\ m_subWorkerThreadId' \in Seq(Workers \cup {NoThreadId})
      BY <1>5, <2>1 DEF PushZero
    <2> QED
      BY <1>5, <2>2, <2>3 DEF PushZero
  <1>6. CASE NotifyMonitorThread(s)
    BY <1>6 DEF NotifyMonitorThread, NotifyMonitor
  <1>7. CASE ShutDownReturns(s) \/ ShutDownNow(s) \/ AwaitTest(s) \/ AwaitNotified(s)
    BY <1>7 DEF ShutDownReturns, ShutDownNow, AwaitTest, AwaitNotified
  <1>8. CASE ShutDownNowReturns(s) \/ JoinMonitor(s) \/ JoinWorkers(s)
    BY <1>8 DEF ShutDownNowReturns, JoinMonitor, JoinWorkers
  <1> QED
    BY <1>1, <1>2, <1>3, <1>4, <1>5, <1>6, <1>7, <1>8 DEF CallShutDown, ShutStep

(* A step of a shutdown keeps the invariant. *)
LEMMA ShutKeepsInv ==
    ASSUME ScalingInv, NEW s \in Shutters, CallShutDown(s) \/ ShutStep(s)
    PROVE  ScalingInv'
  <1> USE DEF ScalingInv
  <1>1. UNCHANGED <<wtask, ran, m_stoppedThreadNum, wnum, m_threads, newWorker, wpc, mpc, apc>>
    BY DEF CallShutDown, ShutStep, NotOfShutDown, mapVars
  <1>2. m_isRequestShutDown => m_isRequestShutDown'
    BY ShutMoves DEF ShutDown
  <1>3. TypeOK'
    BY <1>1, ShutMoves, ShutEffects DEF TypeOK, ShutterPCs
  <1>4. GuardInv'
    <2>1. CASE CloseWorkers(s)
      BY <1>1, <2>1, ShutMoves, PoolAssumption DEF GuardInv, CloseWorkers, ShutGoes, TypeOK
    <2>2. CASE PushEnds(s)
      BY <1>1, <2>2, ShutMoves, PoolAssumption DEF GuardInv, PushEnds, ShutGoes, TypeOK
    <2>3. CASE ~CloseWorkers(s) /\ ~PushEnds(s)
      <3>1. UNCHANGED guard
        BY <2>3 DEF CallShutDown, ShutStep, ShutDown, ShutDownAgain, AwaitSpurious, SetStop,
             CloseMonitor, PushZero, NotifyMonitorThread, ShutDownReturns, ShutDownNow, AwaitTest,
             AwaitNotified, ShutDownNowReturns, JoinMonitor, JoinWorkers, closeVars
      <3> QED
        BY <1>1, <2>3, <3>1, ShutMoves DEF GuardInv
    <2> QED
      BY <2>1, <2>2, <2>3
  <1>5. RunsTask' /\ NoOrphan' /\ AtMostMax'
    BY <1>1 DEF RunsTask, NoOrphan, AtMostMax, ThreadNum
  <1>6. RequestInv'
    <2>1. EndTask \in Range(m_taskQueue') => m_isRequestShutDown'
      BY <1>2, ShutEffects DEF RequestInv, ShuttingDown
    <2>2. \A u \in Shutters : spc'[u] \in ShuttingDown => m_isRequestShutDown'
      BY <1>2, ShutMoves DEF RequestInv
    <2> QED
      BY <1>1, <1>2, <2>1, <2>2 DEF RequestInv
  <1>7. StartedInv'
    BY <1>1, ShutEffects DEF StartedInv
  <1>8. NewWorkerInv'
    <2>1. ~m_isRequestShutDown => closeRequested' = closeRequested
      BY ShutEffects DEF RequestInv, ShuttingDown
    <2> QED
      BY <1>1, <1>2, <2>1 DEF NewWorkerInv, ThreadNum
  <1>9. ReapInv'
    BY <1>1, <1>2, ShutEffects DEF ReapInv
  <1> QED
    BY <1>3, <1>4, <1>5, <1>6, <1>7, <1>8, <1>9

-----------------------------------------------------------------------------
(* The scaling pool: theorems *)

(* The invariant holds when the constructor has returned. *)
LEMMA InitHasInv == Init => ScalingInv
  <1> SUFFICES ASSUME Init PROVE ScalingInv
    OBVIOUS
  <1> USE PoolAssumption DEF Init
  <1>1. m_isRequestShutDown \in BOOLEAN /\ monitorAsleep \in BOOLEAN /\ monitorClose \in BOOLEAN
    OBVIOUS
  <1>2. TypeOK
    BY <1>1 DEF TypeOK, WorkerPCs
  <1>3. Range(m_taskQueue) = {} /\ Range(m_subWorkerThreadId) = {}
    BY DEF Range
  <1>4. GuardInv /\ RunsTask /\ StartedInv
    BY DEF GuardInv, Locked, RunsTask, StartedInv
  <1>5. RequestInv /\ ReapInv
    BY <1>3 DEF RequestInv, ReapInv, ShuttingDown
  <1>6. NewWorkerInv /\ NoOrphan
    BY DEF NewWorkerInv, NoOrphan
  <1>7. AtMostMax
    BY DEF AtMostMax, ThreadNum, Core
  <1> QED
    BY <1>2, <1>4, <1>5, <1>6, <1>7 DEF ScalingInv

(* Every step keeps it. *)
LEMMA StepKeepsInv ==
    ASSUME ScalingInv, [Next]_vars
    PROVE  ScalingInv'
  <1>1. CASE UNCHANGED vars
    <2>1. TypeOK'
      BY <1>1 DEF ScalingInv, TypeOK, vars, fetchVars, countVars, leaveVars, mapVars, flagVars
    <2> QED
      BY <1>1, <2>1, QuietStepKeepsInv DEF vars, fetchVars, leaveVars, mapVars, flagVars
  <1>2. CASE Next
    BY <1>2, WorkerKeepsInv, MonitorKeepsInv, AddKeepsInv, ShutKeepsInv DEF Next
  <1> QED
    BY <1>1, <1>2

(* ScalingInv holds in every reachable state. *)
THEOREM ScalingInvariance == Spec => []ScalingInv
  BY InitHasInv, StepKeepsInv, PTL DEF Spec

(* The variables keep their types: in particular only tasks are run, never the
   EndTasks of a shutdown. *)
THEOREM PoolTypeCorrect == Spec => []TypeOK
  BY ScalingInvariance, PTL DEF ScalingInv

(* For any sizes, the pool never has more than maxThreadSize threads. *)
THEOREM SizeIsBounded == Spec => []AtMostMax
  BY ScalingInvariance, PTL DEF ScalingInv

(* For any sizes, every running worker is in the map or about to be put there. *)
THEOREM NoWorkerIsLost == Spec => []NoOrphan
  BY ScalingInvariance, PTL DEF ScalingInv

(* For any sizes, a worker that closed itself is taken care of by the monitor. *)
THEOREM WorkersAreReaped == Spec => []ClosedWorkersAreReaped
  <1>1. ScalingInv => ClosedWorkersAreReaped
    BY DEF ScalingInv, ReapInv, ClosedWorkersAreReaped
  <1> QED
    BY <1>1, ScalingInvariance, PTL

-----------------------------------------------------------------------------
(* The monitor's condition variable *)

\* The monitor sleeps only in its wait, so it has not taken the guard meanwhile.
AsleepInv == monitorAsleep => mpc = "waiting" /\ (JudgeFunc => NotifyPending)

(* A notifier looks at JudgeFunc under the guard: if the monitor sleeps on
   after that, there was nothing for it to do. *)
LEMMA NotifierWakes ==
    ASSUME AsleepInv, NotifyMonitor, UNCHANGED <<m_taskQueue, m_threads, m_subWorkerThreadId, mpc>>
    PROVE  AsleepInv'
  BY DEF AsleepInv, NotifyMonitor, JudgeFunc, ShouldAdd, ThreadNum

(* A step after which the monitor is asleep only if it was, that gives it
   nothing new to do and after which whoever was to notify it still is. *)
LEMMA StillPending ==
    ASSUME AsleepInv, monitorAsleep' => monitorAsleep /\ mpc' = mpc,
           JudgeFunc' => JudgeFunc \/ NotifyPending', NotifyPending => NotifyPending'
    PROVE  AsleepInv'
  BY DEF AsleepInv

(* A worker that has pushed its id is the one to notify. *)
LEMMA WorkerKeepsAsleepInv ==
    ASSUME TypeOK, AsleepInv, NEW w \in Workers, WorkerStep(w)
    PROVE  AsleepInv'
  <1>1. UNCHANGED <<mapVars, mpc, apc, spc>>
    BY DEF WorkerStep
  <1>2. CASE WorkerSubNotify(w)
    BY <1>1, <1>2, NotifierWakes DEF WorkerSubNotify, fetchVars, mapVars
  <1>3. CASE WorkerSubPush(w)
    <2>1. NotifyPending' /\ UNCHANGED <<monitorAsleep, mpc>>
      BY <1>1, <1>3 DEF WorkerSubPush, WorkerGoes, NotifyPending, TypeOK
    <2> QED
      BY <2>1, StillPending
  <1>4. CASE ~WorkerSubNotify(w) /\ ~WorkerSubPush(w)
    <2>1. /\ UNCHANGED <<monitorAsleep, m_subWorkerThreadId, m_threads, mpc>>
          /\ wpc[w] # "sub_notify"
      BY <1>1, <1>4
      DEF WorkerStep, WorkerCheck, WorkerGet, WorkerWaits, WorkerTimeOut, WorkerJudge,
          WorkerJudgeFails, WorkerRun, WorkerThrows, WorkerStop, WorkerCount, WorkerCompare,
          WorkerSetShutDown, WorkerNotifyAll, WorkerGoes, leaveVars, mapVars
    <2>2. m_taskQueue' = m_taskQueue \/ (m_taskQueue # <<>> /\ m_taskQueue' = Tail(m_taskQueue))
      BY <1>4
      DEF WorkerStep, WorkerCheck, WorkerGet, OtherTasks, WorkerWaits, WorkerTimeOut,
          WorkerJudge, WorkerJudgeFails, WorkerRun, WorkerThrows, WorkerStop, WorkerCount,
          WorkerCompare, WorkerSetShutDown, WorkerNotifyAll, fetchVars
    <2>3. Len(m_taskQueue') <= Len(m_taskQueue) /\ Len(m_taskQueue') \in Nat
      BY <2>2 DEF TypeOK
    <2>4. JudgeFunc' => JudgeFunc
      BY <2>1, <2>3, PoolAssumption DEF JudgeFunc, ShouldAdd, ThreadNum, TypeOK
    <2>5. \A v \in Workers : wpc[v] = "sub_notify" => wpc'[v] = "sub_notify"
      BY <2>1, WorkerMoves DEF ScalingInv
    <2>6. NotifyPending => NotifyPending'
      BY <1>1, <2>5 DEF NotifyPending
    <2> QED
      BY <2>1, <2>4, <2>6, StillPending
  <1> QED
    BY <1>2, <1>3, <1>4

(* The monitor goes to sleep only after it found nothing to do, with the guard. *)
LEMMA MonitorKeepsAsleepInv ==
    ASSUME TypeOK, AsleepInv, MonitorStep \/ MonitorSpurious
    PROVE  AsleepInv'
  <1>1. CASE MonitorLock
    BY <1>1 DEF MonitorStep, MonitorSpurious, MonitorLock, MonitorGoes, AsleepInv, JudgeFunc,
                ShouldAdd, ThreadNum, fetchVars, mapVars
  <1>2. CASE ~MonitorLock
    <2>1. ~monitorAsleep'
      BY <1>2
      DEF AsleepInv, TypeOK, MonitorStep, MonitorSpurious, MonitorCheck, MonitorNotified,
          MonitorTimeOut, MonitorCheckLocked, MonitorCreate, MonitorNoCreate, MonitorInsert,
          MonitorSub, MonitorUnlock, MonitorGoes
    <2> QED
      BY <2>1 DEF AsleepInv
  <1> QED
    BY <1>1, <1>2

(* AddTask pushes and then notifies. *)
LEMMA AddKeepsAsleepInv ==
    ASSUME TypeOK, AsleepInv, NEW k \in Tasks, AddTask(k) \/ AddStep(k)
    PROVE  AsleepInv'
  <1>1. UNCHANGED <<m_threads, m_subWorkerThreadId, mpc, wpc, spc>>
    BY DEF AddTask, AddStep, leaveVars, mapVars
  <1>2. CASE AddNotify(k)
    BY <1>1, <1>2, NotifierWakes DEF AddNotify
  <1>3. CASE AddPush(k)
    <2>1. NotifyPending' /\ UNCHANGED monitorAsleep
      BY <1>3 DEF AddPush, AddGoes, NotifyPending, TypeOK
    <2> QED
      BY <1>1, <2>1, StillPending
  <1>4. CASE AddTask(k)
    <2>1. UNCHANGED <<monitorAsleep, m_taskQueue>>
      BY <1>4 DEF AddTask, fetchVars, leaveVars
    <2>2. \A j \in Tasks : apc[j] = "notify" => apc'[j] = "notify"
      BY <1>4 DEF AddTask, AddGoes, TypeOK
    <2>3. NotifyPending => NotifyPending'
      BY <1>1, <2>2 DEF NotifyPending
    <2>4. JudgeFunc' => JudgeFunc
      BY <1>1, <2>1 DEF JudgeFunc, ShouldAdd, ThreadNum
    <2> QED
      BY <1>1, <2>1, <2>3, <2>4, StillPending
  <1> QED
    BY <1>2, <1>3, <1>4 DEF AddStep

(* A shutdown that has pushed the EndTasks goes on to the monitor. *)
LEMMA ShutKeepsAsleepInv ==
    ASSUME TypeOK, AsleepInv, NEW s \in Shutters, CallShutDown(s) \/ ShutStep(s)
    PROVE  AsleepInv'
  <1>1. UNCHANGED <<m_threads, mpc, wpc, apc>>
    BY DEF CallShutDown, ShutStep, NotOfShutDown, mapVars
  <1>2. CASE NotifyMonitorThread(s)
    BY <1>1, <1>2, NotifierWakes DEF NotifyMonitorThread
  <1>3. CASE PushEnds(s) \/ CloseMonitor(s) \/ PushZero(s)
    <2>1. NotifyPending' /\ UNCHANGED monitorAsleep
      BY <1>3 DEF PushEnds, CloseMonitor, PushZero, ShutGoes, NotifyPending, TypeOK, wakeVars
    <2> QED
      BY <1>1, <2>1, StillPending
  <1>4. CASE /\ ~NotifyMonitorThread(s) /\ ~PushEnds(s) /\ ~CloseMonitor(s) /\ ~PushZero(s)
    <2>1. /\ UNCHANGED wakeVars
          /\ \A u \in Shutters \ {s} : spc'[u] = spc[u]
          /\ spc[s] \in {"close_monitor", "push_zero", "notify_monitor"} => spc'[s] = spc[s]
      BY <1>4
      DEF TypeOK, CallShutDown, ShutStep, ShutDown, ShutDownAgain, AwaitSpurious, SetStop,
          CloseWorkers, ShutDownReturns, ShutDownNow, AwaitTest, AwaitNotified,
          ShutDownNowReturns, JoinMonitor, JoinWorkers, ShutGoes
    <2>2. NotifyPending => NotifyPending'
      BY <1>1, <2>1 DEF NotifyPending
    <2>3. JudgeFunc' => JudgeFunc
      BY <1>1, <2>1 DEF JudgeFunc, ShouldAdd, ThreadNum, wakeVars
    <2> QED
      BY <1>1, <2>1, <2>2, <2>3, StillPending DEF wakeVars
  <1> QED
    BY <1>2, <1>3, <1>4

(* No notification of the monitor is lost, whoever of the adders, the workers
   and the shutdowns gives it something to do, and however it times out: while
   it sleeps with a worker to add or to take away, somebody will notify it. *)
THEOREM NoLostNotification == Spec => []MonitorWillBeNotified
  <1>1. Init => AsleepInv
    BY DEF Init, AsleepInv
  <1>2. TypeOK /\ AsleepInv /\ [Next]_vars => AsleepInv'
    <2> SUFFICES ASSUME TypeOK, AsleepInv, [Next]_vars PROVE AsleepInv'
      OBVIOUS
    <2>1. CASE UNCHANGED vars
      BY <2>1 DEF vars, fetchVars, leaveVars, mapVars, AsleepInv, NotifyPending, JudgeFunc,
                  ShouldAdd, ThreadNum
    <2> QED
      BY <2>1, WorkerKeepsAsleepInv, MonitorKeepsAsleepInv, AddKeepsAsleepInv,
         ShutKeepsAsleepInv DEF Next
  <1>3. AsleepInv => MonitorWillBeNotified
    BY DEF AsleepInv, MonitorWillBeNotified
  <1> QED
    BY <1>1, <1>2, <1>3, PoolTypeCorrect, PTL DEF Spec

(* Whoever sleeps in ShutDownNow when SHUTDOWN is announced will be woken: the
   worker that announced it has the notification still to give, and with
   m_isRequestShutDown set it wakes everybody; later tests do not sleep. *)
THEOREM NoSleepThroughShutDown == Spec => []SleepersWillBeNotified
  <1>1. Init => SleepersWillBeNotified
    BY DEF Init, SleepersWillBeNotified
  <1>2. ScalingInv /\ SleepersWillBeNotified /\ [Next]_vars => SleepersWillBeNotified'
    <2> SUFFICES ASSUME ScalingInv, SleepersWillBeNotified, [Next]_vars,
                        m_state' = "SHUTDOWN", stateSleepers' # {}
                 PROVE  \E v \in Workers : wpc'[v] = "notify_all"
      BY DEF SleepersWillBeNotified
    <2>0. TypeOK /\ RequestInv
      BY DEF ScalingInv
    <2>1. CASE UNCHANGED countVars /\ (\A v \in Workers : wpc[v] = "notify_all" => wpc'[v] = wpc[v])
      BY <2>1 DEF SleepersWillBeNotified, countVars
    <2>2. ASSUME NEW w \in Workers, WorkerStep(w)
          PROVE  \E v \in Workers : wpc'[v] = "notify_all"
      <3>1. \A v \in Workers \ {w} : wpc'[v] = wpc[v]
        BY <2>0, <2>2, WorkerMoves
      <3>2. CASE WorkerSetShutDown(w)
        BY <2>0, <3>2 DEF WorkerSetShutDown, WorkerGoes, TypeOK
      <3>3. CASE WorkerNotifyAll(w)
        <4>1. m_isRequestShutDown
          BY <2>0, <3>3 DEF RequestInv, WorkerNotifyAll, WorkerGoes
        <4> QED
          BY <3>3, <4>1 DEF WorkerNotifyAll, Woken
      <3>4. CASE ~WorkerSetShutDown(w) /\ ~WorkerNotifyAll(w)
        <4>1. UNCHANGED <<m_state, stateSleepers>> /\ wpc[w] # "notify_all"
          BY <2>2, <3>4
          DEF WorkerStep, WorkerCheck, WorkerGet, WorkerWaits, WorkerTimeOut, WorkerJudge,
              WorkerJudgeFails, WorkerRun, WorkerThrows, WorkerStop, WorkerSubPush,
              WorkerSubNotify, WorkerCount, WorkerCompare, WorkerGoes, countVars
        <4> QED
          BY <3>1, <4>1 DEF SleepersWillBeNotified
      <3> QED
        BY <3>2, <3>3, <3>4
    <2>3. ASSUME NEW s \in Shutters, CallShutDown(s) \/ ShutStep(s)
          PROVE  \E v \in Workers : wpc'[v] = "notify_all"
      <3>1. UNCHANGED wpc /\ m_state = "SHUTDOWN" /\ stateSleepers' \subseteq stateSleepers
        BY <2>3
        DEF CallShutDown, ShutStep, NotOfShutDown, ShutDown, ShutDownAgain, AwaitSpurious,
            SetStop, CloseWorkers, PushEnds, CloseMonitor, PushZero, NotifyMonitorThread,
            ShutDownReturns, ShutDownNow, AwaitTest, DoIsShutDown, AwaitNotified,
            ShutDownNowReturns, JoinMonitor, JoinWorkers, announceVars
      <3> QED
        BY <3>1 DEF SleepersWillBeNotified
    <2>4. CASE MonitorStep \/ MonitorSpurious
      <3>1. UNCHANGED countVars
        BY <2>4 DEF MonitorStep, MonitorSpurious
      <3>2. \A v \in Workers : wpc[v] = "notify_all" => wpc'[v] = wpc[v]
        BY <2>0, <2>4
        DEF TypeOK, MonitorStep, MonitorSpurious, MonitorCheck, MonitorLock, MonitorNotified,
            MonitorTimeOut, MonitorCheckLocked, MonitorCreate, Spare, Started, MonitorNoCreate,
            MonitorInsert, MonitorSub, MonitorUnlock
      <3> QED
        BY <2>1, <3>1, <3>2
    <2>5. ASSUME NEW k \in Tasks, AddTask(k) \/ AddStep(k)
          PROVE  \E v \in Workers : wpc'[v] = "notify_all"
      BY <2>1, <2>5 DEF AddTask, AddStep
    <2>6. CASE UNCHANGED vars
      BY <2>1, <2>6 DEF vars
    <2> QED
      BY <2>2, <2>3, <2>4, <2>5, <2>6 DEF Next
  <1> QED
    BY <1>1, <1>2, ScalingInvariance, PTL DEF Spec

-----------------------------------------------------------------------------
(* The fixed pool *)

\* The workers are the ones of the constructor.
SizeInv ==
    /\ SizeIsFixed
    /\ mpc # "insert"
    /\ \A w \in Workers : wpc[w] = "none" <=> w \notin CoreWorkers

\* No worker closes itself; the vector only carries the wake-up of the monitor.
NoReapInv ==
    /\ Range(m_subWorkerThreadId) \subseteq {NoThreadId}
    /\ \A w \in Workers : wpc[w] \notin {"sub_push", "sub_notify"}

\* One shutdown goes through all the steps, SetState(STOP) among the first.
OrderInv ==
    /\ \A s \in Shutters : spc[s] = "set_stop" => m_state = "RUNNING"
    /\ \A s \in Shutters : spc[s] \in ShuttingDown \ {"set_stop"} => m_state # "RUNNING"
    /\ m_state # "RUNNING" => m_isRequestShutDown
    /\ \A s, u \in Shutters : {spc[s], spc[u]} \subseteq ShuttingDown => s = u

\* The shutdown has begun to close the workers.
Late == m_state # "RUNNING" /\ \A s \in Shutters : spc[s] \notin {"set_stop", "close"}

Leaving == {"stop", "count", "compare", "set_shutdown", "notify_all", "exited"}

\* No worker leaves before that.
LateInv ==
    /\ closeRequested # {} => Late
    /\ EndTask \in Range(m_taskQueue) => Late
    /\ \A w \in Workers : wpc[w] \in Leaving => Late

\* m_stoppedThreadNum counts the workers that have stopped.
Counted == {w \in Workers : wpc[w] \in {"compare", "set_shutdown", "notify_all", "exited"}}

CountInv ==
    /\ m_stoppedThreadNum = Cardinality(Counted)
    /\ \A w \in Workers : wnum[w] <= m_stoppedThreadNum
    /\ \A w \in Workers : wpc[w] \in {"set_shutdown", "notify_all"} => m_stoppedThreadNum >= Core
    /\ m_state = "SHUTDOWN" => m_stoppedThreadNum >= Core

FixedInv == SizeInv /\ NoReapInv /\ OrderInv /\ LateInv /\ CountInv

(* A pool with the workers of the constructor has none to add and none too many. *)
LEMMA SizeFacts ==
    ASSUME SameSizes, SizeInv
    PROVE  /\ ThreadNum = Core /\ Core \in Nat
           /\ ~ShouldAdd
           /\ ~IfMoreThan
  <1>1. ThreadNum = Core /\ Core \in Nat
    BY PoolAssumption, FS_Subset, FS_CardinalityType DEF SizeInv, SizeIsFixed, ThreadNum, Core
  <1> QED
    BY <1>1 DEF SameSizes, ShouldAdd, IfMoreThan

(* The shutdown does not go back. *)
LEMMA LateStays ==
    ASSUME TypeOK, OrderInv, Late, [Next]_vars
    PROVE  Late'
  <1> USE DEF Late
  <1>1. CASE UNCHANGED vars
    BY <1>1 DEF vars, countVars
  <1>2. ASSUME NEW w \in Workers, WorkerStep(w) PROVE Late'
    BY <1>2 DEF WorkerStep, WorkerCheck, WorkerGet, WorkerWaits, WorkerTimeOut, WorkerJudge,
           WorkerJudgeFails, WorkerRun, WorkerThrows, WorkerStop, WorkerSubPush,
           WorkerSubNotify, WorkerCount, WorkerCompare, WorkerSetShutDown, WorkerNotifyAll,
           countVars
  <1>3. CASE MonitorStep \/ MonitorSpurious \/ \E k \in Tasks : AddTask(k) \/ AddStep(k)
    BY <1>3 DEF MonitorStep, MonitorSpurious, AddTask, AddStep, countVars
  <1>4. ASSUME NEW s \in Shutters, CallShutDown(s) \/ ShutStep(s) PROVE Late'
    <2>1. ~ShutDown(s) /\ ~SetStop(s)
      BY DEF OrderInv, ShutDown, SetStop, ShutGoes
    <2>2. UNCHANGED m_state /\ spc'[s] \notin {"set_stop", "close"}
      BY <1>4, <2>1 DEF CallShutDown, ShutStep, ShutDownAgain, SkipTo, AwaitSpurious,
           CloseWorkers, PushEnds, CloseMonitor, PushZero, NotifyMonitorThread, ShutDownReturns,
           ShutDownNow, AwaitTest, AwaitNotified, ShutDownNowReturns, JoinMonitor, JoinWorkers,
           ShutGoes, TypeOK, announceVars
    <2> QED
      BY <1>4, <2>2, ShutMoves
  <1> QED
    BY <1>1, <1>2, <1>3, <1>4 DEF Next

(* What a step of a worker of a fixed pool changes: a worker leaves the loop
   because of a shutdown only, and is counted when it does. *)
LEMMA FixedWorkerLeaves ==
    ASSUME SameSizes, ScalingInv, FixedInv, NEW w \in Workers, WorkerStep(w)
    PROVE  /\ UNCHANGED <<closeRequested, m_subWorkerThreadId>>
           /\ wpc'[w] \notin {"sub_push", "sub_notify"}
           /\ wpc'[w] \in Leaving => Late
  <1> USE DEF FixedInv, LateInv, Leaving, WorkerGoes, ScalingInv, TypeOK
  <1>1. CASE WorkerGet(w)
    <2>1. Head(m_taskQueue) \in Range(m_taskQueue)
      BY <1>1, RangeOfTail DEF WorkerGet
    <2> QED
      BY <1>1, <2>1 DEF WorkerGet, AfterPop, leaveVars
  <1>2. CASE WorkerJudge(w) \/ WorkerJudgeFails(w)
    BY <1>2, SizeFacts DEF WorkerJudge, WorkerJudgeFails, leaveVars
  <1>3. CASE WorkerStop(w)
    BY <1>3 DEF WorkerStop, leaveVars, OrderInv, Late
  <1>4. CASE WorkerSubPush(w) \/ WorkerSubNotify(w)
    BY <1>4 DEF WorkerSubPush, WorkerSubNotify, NoReapInv
  <1>5. CASE WorkerCheck(w) \/ WorkerWaits(w) \/ WorkerTimeOut(w) \/ WorkerRun(w)
             \/ WorkerThrows(w)
    BY <1>5 DEF WorkerCheck, WorkerWaits, WorkerTimeOut, WorkerRun, WorkerThrows, leaveVars
  <1>6. CASE WorkerCount(w) \/ WorkerCompare(w) \/ WorkerSetShutDown(w) \/ WorkerNotifyAll(w)
    BY <1>6 DEF WorkerCount, WorkerCompare, WorkerSetShutDown, WorkerNotifyAll, leaveVars
  <1> QED
    BY <1>1, <1>2, <1>3, <1>4, <1>5, <1>6 DEF WorkerStep

(* A step of a worker keeps the count. *)
LEMMA WorkerKeepsCount ==
    ASSUME SameSizes, ScalingInv, FixedInv, NEW w \in Workers, WorkerStep(w)
    PROVE  CountInv'
  <1> USE DEF FixedInv
  <1>1. IsFiniteSet(Counted) /\ Cardinality(Counted) \in Nat
    BY PoolAssumption, FS_Subset, FS_CardinalityType DEF Counted
  <1>2. TypeOK
    BY DEF ScalingInv
  <1>3. CASE WorkerCount(w)
    <2>1. Counted' = Counted \cup {w} /\ w \notin Counted
      BY <1>2, <1>3, WorkerMoves DEF Counted, WorkerCount, WorkerGoes
    <2>2. Cardinality(Counted') = Cardinality(Counted) + 1
      BY <1>1, <2>1, FS_AddElement
    <2>3. m_stoppedThreadNum' = m_stoppedThreadNum + 1 /\ UNCHANGED m_state /\ wpc'[w] = "compare"
      BY <1>2, <1>3 DEF WorkerCount, WorkerGoes, TypeOK
    <2>4. \A v \in Workers : wnum'[v] <= m_stoppedThreadNum'
      BY <1>2, <1>3, <2>3 DEF WorkerCount, TypeOK, CountInv
    <2>5. m_stoppedThreadNum \in Nat /\ Core \in Nat
      BY <1>2, SizeFacts DEF TypeOK
    <2> QED
      BY <1>2, <2>2, <2>3, <2>4, <2>5, WorkerMoves DEF CountInv
  <1>4. CASE ~WorkerCount(w)
    <2>1. UNCHANGED <<m_stoppedThreadNum, wnum>>
      BY <1>4 DEF WorkerStep, WorkerCheck, WorkerGet, WorkerWaits, WorkerTimeOut, WorkerJudge,
           WorkerJudgeFails, WorkerRun, WorkerThrows, WorkerStop, WorkerSubPush,
           WorkerSubNotify, WorkerCompare, WorkerSetShutDown, WorkerNotifyAll, countVars
    <2>2. w \in Counted' <=> w \in Counted
      <3>1. wpc[w] \notin {"sub_push", "sub_notify"}
        BY DEF NoReapInv
      <3> QED
        BY <1>2, <1>4, <3>1
        DEF Counted, TypeOK, WorkerStep, WorkerCheck, WorkerGet, AfterPop, WorkerWaits,
           WorkerTimeOut, WorkerJudge, WorkerJudgeFails, WorkerRun, WorkerThrows, WorkerStop,
           WorkerSubPush, WorkerSubNotify, WorkerCompare, WorkerSetShutDown, WorkerNotifyAll,
           WorkerGoes
    <2>3. Counted' = Counted
      BY <1>2, <2>2, WorkerMoves DEF Counted
    <2>4. wpc'[w] \in {"set_shutdown", "notify_all"} \/ (m_state' # m_state) =>
             m_stoppedThreadNum >= Core
      <3>1. wpc[w] = "compare" /\ IsLast(wnum[w]) => m_stoppedThreadNum >= Core
        BY <1>2, SizeFacts DEF IsLast, CountInv, TypeOK
      <3> QED
        BY <1>2, <1>4, <3>1
        DEF CountInv, TypeOK, WorkerStep, WorkerCheck, WorkerGet, AfterPop, WorkerWaits,
           WorkerTimeOut, WorkerJudge, WorkerJudgeFails, WorkerRun, WorkerThrows, WorkerStop,
           WorkerSubPush, WorkerSubNotify, WorkerCompare, WorkerSetShutDown, WorkerNotifyAll,
           WorkerGoes, countVars
    <2> QED
      BY <1>2, <2>1, <2>3, <2>4, WorkerMoves DEF CountInv
  <1> QED
    BY <1>3, <1>4

(* A step of a worker keeps the invariant of the fixed pool. *)
LEMMA FixedWorkerKeepsInv ==
    ASSUME SameSizes, ScalingInv, FixedInv, NEW w \in Workers, WorkerStep(w)
    PROVE  FixedInv'
  <1> USE DEF FixedInv
  <1>1. TypeOK /\ RunsTask /\ [Next]_vars
    BY DEF ScalingInv, Next
  <1>2. UNCHANGED <<m_threads, m_isRequestShutDown, mpc, spc>>
    BY DEF WorkerStep, mapVars, flagVars
  <1>3. SizeInv'
    BY <1>1, <1>2, WorkerMoves DEF SizeInv, SizeIsFixed
  <1>4. NoReapInv'
    BY <1>1, WorkerMoves, FixedWorkerLeaves DEF NoReapInv
  <1>5. OrderInv'
    <2>1. UNCHANGED m_state \/ (m_state' = "SHUTDOWN" /\ wpc[w] \in Leaving)
      BY DEF WorkerStep, WorkerCheck, WorkerGet, WorkerWaits, WorkerTimeOut, WorkerJudge,
           WorkerJudgeFails, WorkerRun, WorkerThrows, WorkerStop, WorkerSubPush,
           WorkerSubNotify, WorkerCount, WorkerCompare, WorkerSetShutDown, WorkerNotifyAll,
           WorkerGoes, countVars, Leaving
    <2> QED
      BY <1>2, <2>1 DEF OrderInv, LateInv, Late
  <1>6. LateInv'
    BY <1>1, WorkerMoves, WorkerFetches, FixedWorkerLeaves, LateStays DEF LateInv
  <1> QED
    BY <1>3, <1>4, <1>5, <1>6, WorkerKeepsCount

(* What the other threads leave alone keeps the count. *)
LEMMA OthersKeepCount ==
    ASSUME CountInv, UNCHANGED <<wpc, wnum, m_stoppedThreadNum>>,
           m_state' = "SHUTDOWN" => m_state = "SHUTDOWN"
    PROVE  CountInv'
  <1>1. Counted' = Counted
    BY DEF Counted
  <1> QED
    BY <1>1 DEF CountInv

(* A step of the monitor keeps the invariant of the fixed pool. *)
LEMMA FixedMonitorKeepsInv ==
    ASSUME SameSizes, ScalingInv, FixedInv, MonitorStep
    PROVE  FixedInv'
  <1> USE DEF FixedInv
  <1>1. TypeOK /\ [Next]_vars
    BY DEF ScalingInv, Next
  <1>2. UNCHANGED <<fetchVars, countVars, closeRequested, flagVars, apc, spc>>
    BY DEF MonitorStep
  <1>3. ~MonitorCreate /\ ~MonitorInsert
    BY SizeFacts DEF MonitorCreate, ShouldAddNow, MonitorInsert, MonitorGoes, SizeInv
  <1>4. UNCHANGED <<wpc, newWorker>> /\ mpc' # "insert"
    BY <1>3 DEF MonitorStep, MonitorCheck, MonitorLock, MonitorNotified, MonitorTimeOut,
                MonitorCheckLocked, MonitorNoCreate, MonitorSub, MonitorUnlock, MonitorGoes,
                mapVars
  <1>5. m_threads' = m_threads /\ Range(m_subWorkerThreadId') \subseteq Range(m_subWorkerThreadId)
    <2>1. CASE MonitorSub
      <3>1. /\ m_subWorkerThreadId \in Seq(Workers \cup {NoThreadId})
            /\ m_subWorkerThreadId # <<>> /\ m_subWorkerThreadId' = Tail(m_subWorkerThreadId)
            /\ m_threads' = m_threads \ {Head(m_subWorkerThreadId)}
        BY <1>1, <2>1 DEF MonitorSub, OtherIds, TypeOK
      <3>2. Head(m_subWorkerThreadId) \in Range(m_subWorkerThreadId)
            /\ Range(m_subWorkerThreadId') \subseteq Range(m_subWorkerThreadId)
        BY <3>1, RangeOfTail
      <3> QED
        BY <1>1, <3>1, <3>2, PoolAssumption DEF NoReapInv, TypeOK
    <2>2. CASE ~MonitorSub
      BY <1>3, <2>2 DEF MonitorStep, MonitorCheck, MonitorLock, MonitorNotified, MonitorTimeOut,
                MonitorCheckLocked, MonitorNoCreate, MonitorUnlock, mapVars
    <2> QED
      BY <2>1, <2>2
  <1>6. SizeInv' /\ NoReapInv' /\ OrderInv'
    BY <1>2, <1>4, <1>5 DEF SizeInv, SizeIsFixed, NoReapInv, OrderInv, countVars, flagVars
  <1>7. LateInv'
    BY <1>1, <1>2, <1>4, LateStays DEF LateInv, fetchVars
  <1>8. CountInv'
    BY <1>2, <1>4, OthersKeepCount DEF countVars
  <1> QED
    BY <1>6, <1>7, <1>8

(* A step of AddTask, or a spurious wake-up of the monitor, keeps it. *)
LEMMA FixedAddKeepsInv ==
    ASSUME SameSizes, ScalingInv, FixedInv,
           MonitorSpurious \/ \E k \in Tasks : AddTask(k) \/ AddStep(k)
    PROVE  FixedInv'
  <1> USE DEF FixedInv
  <1>1. TypeOK /\ [Next]_vars
    BY DEF ScalingInv, Next
  <1>2. UNCHANGED <<countVars, closeRequested, flagVars, spc, wpc, mpc, mapVars,
                    m_subWorkerThreadId>>
    BY DEF MonitorSpurious, AddTask, AddStep, leaveVars
  <1>3. EndTask \in Range(m_taskQueue') => EndTask \in Range(m_taskQueue)
    <2>1. CASE m_taskQueue' = m_taskQueue
      BY <2>1
    <2>2. ASSUME NEW k \in Tasks, m_taskQueue' = Append(m_taskQueue, k)
          PROVE  EndTask \in Range(m_taskQueue') => EndTask \in Range(m_taskQueue)
      <3>1. m_taskQueue \in Seq(Tasks \cup {EndTask}) /\ k \in Tasks \cup {EndTask}
        BY <1>1 DEF TypeOK
      <3>2. \A x : x \in Range(Append(m_taskQueue, k)) <=> x \in Range(m_taskQueue) \/ x = k
        BY ONLY <3>1, RangeOfAppend
      <3> QED
        BY <2>2, <3>2, PoolAssumption
    <2> QED
      BY <2>1, <2>2 DEF MonitorSpurious, AddTask, AddStep, AddPush, AddNotify, fetchVars
  <1>4. SizeInv' /\ NoReapInv' /\ OrderInv'
    BY <1>2 DEF SizeInv, SizeIsFixed, NoReapInv, OrderInv, countVars, flagVars, mapVars
  <1>5. LateInv'
    BY <1>1, <1>2, <1>3, LateStays DEF LateInv
  <1>6. CountInv'
    BY <1>2, OthersKeepCount DEF countVars
  <1> QED
    BY <1>4, <1>5, <1>6

(* A step of a shutdown keeps the invariant of the fixed pool. *)
LEMMA FixedShutKeepsInv ==
    ASSUME SameSizes, ScalingInv, FixedInv, NEW s \in Shutters, CallShutDown(s) \/ ShutStep(s)
    PROVE  FixedInv'
  <1> USE DEF FixedInv
  <1>1. TypeOK /\ [Next]_vars
    BY DEF ScalingInv, Next
  <1>2. UNCHANGED <<m_stoppedThreadNum, wnum, m_threads, wpc, mpc>>
    BY DEF CallShutDown, ShutStep, NotOfShutDown, mapVars
  <1>3. SizeInv' /\ NoReapInv'
    BY <1>2, ShutEffects DEF SizeInv, SizeIsFixed, NoReapInv
  <1>4. CASE ShutDown(s)
    <2>1. ~m_isRequestShutDown /\ m_isRequestShutDown' /\ spc[s] = "idle" /\ spc'[s] = "set_stop"
          /\ UNCHANGED <<m_state, closeRequested, m_taskQueue>>
      BY <1>1, <1>4 DEF ShutDown, ShutGoes, TypeOK, closeVars, wakeVars
    <2>2. m_state = "RUNNING" /\ ~Late
      BY <2>1 DEF OrderInv, Late
    <2>3. \A u \in Shutters : spc[u] \notin ShuttingDown
      BY <2>1 DEF ScalingInv, RequestInv
    <2>4. OrderInv'
      BY <1>1, <2>1, <2>2, <2>3, ShutMoves DEF OrderInv
    <2>5. LateInv'
      BY <1>2, <2>1, <2>2 DEF LateInv
    <2> QED
      BY <1>2, <1>3, <2>1, <2>4, <2>5, OthersKeepCount
  <1>5. CASE SetStop(s)
    <2>1. m_state' = "STOP" /\ spc[s] = "set_stop" /\ spc'[s] = "close"
          /\ UNCHANGED <<m_isRequestShutDown, closeRequested, m_taskQueue>>
      BY <1>1, <1>5 DEF SetStop, ShutGoes, TypeOK, closeVars, wakeVars
    <2>2. \A u \in Shutters \ {s} : spc[u] \notin ShuttingDown
      BY <2>1 DEF OrderInv, ShuttingDown
    <2>3. m_isRequestShutDown
      BY <2>1 DEF ScalingInv, RequestInv, ShuttingDown
    <2>4. OrderInv'
      BY <1>1, <2>1, <2>2, <2>3, ShutMoves DEF OrderInv, ShuttingDown
    <2>5. LateInv'
      BY <1>2, <2>1 DEF LateInv, Late
    <2> QED
      BY <1>2, <1>3, <2>1, <2>4, <2>5, OthersKeepCount
  <1>6. CASE ~ShutDown(s) /\ ~SetStop(s)
    <2>1. UNCHANGED <<m_state, m_isRequestShutDown>>
          /\ (spc'[s] \in ShuttingDown => spc[s] \in ShuttingDown)
          /\ (spc'[s] = "set_stop" <=> spc[s] = "set_stop")
          /\ (spc'[s] = "close" => spc[s] = "close")
      BY <1>1, <1>6 DEF CallShutDown, ShutStep, ShutDownAgain, SkipTo, AwaitSpurious,
           CloseWorkers, PushEnds, CloseMonitor, PushZero, NotifyMonitorThread, ShutDownReturns,
           ShutDownNow, AwaitTest, AwaitNotified, ShutDownNowReturns, JoinMonitor, JoinWorkers,
           ShutGoes, TypeOK, announceVars, ShuttingDown
    <2>2. OrderInv'
      <3>1. \A u \in Shutters : /\ spc'[u] = "set_stop" <=> spc[u] = "set_stop"
                                /\ spc'[u] \in ShuttingDown => spc[u] \in ShuttingDown
        BY <1>1, <2>1, ShutMoves
      <3> QED
        BY <2>1, <3>1 DEF OrderInv
    <2>3. ASSUME closeRequested' # closeRequested \/ m_taskQueue' # m_taskQueue PROVE Late'
      <3>1. /\ spc[s] \in {"close", "push_ends"} /\ spc'[s] \in {"push_ends", "close_monitor"}
        BY <1>1, <1>6, <2>3 DEF CallShutDown, ShutStep, ShutDownAgain, AwaitSpurious,
           CloseWorkers, PushEnds, CloseMonitor, PushZero, NotifyMonitorThread, ShutDownReturns,
           ShutDownNow, AwaitTest, AwaitNotified, ShutDownNowReturns, JoinMonitor, JoinWorkers,
           ShutGoes, TypeOK, closeVars, wakeVars
      <3>2. \A u \in Shutters \ {s} : spc[u] \notin ShuttingDown
        BY <3>1 DEF OrderInv, ShuttingDown
      <3> QED
        BY <1>1, <2>1, <3>1, <3>2, ShutMoves DEF Late, OrderInv, ShuttingDown
    <2>4. LateInv'
      BY <1>1, <1>2, <2>3, LateStays DEF LateInv
    <2> QED
      BY <1>2, <1>3, <2>1, <2>2, <2>4, OthersKeepCount
  <1> QED
    BY <1>4, <1>5, <1>6

(* The invariant of the fixed pool holds when the constructor has returned. *)
LEMMA InitHasFixedInv ==
    ASSUME SameSizes, Init
    PROVE  FixedInv
  <1> USE DEF Init
  <1>1. SizeInv
    BY PoolAssumption DEF SizeInv, SizeIsFixed
  <1>2. NoReapInv /\ OrderInv /\ LateInv
    BY DEF NoReapInv, OrderInv, LateInv, Late, Leaving, ShuttingDown, Range
  <1>3. Counted = {}
    BY DEF Counted
  <1>4. CountInv
    BY <1>3, FS_EmptySet DEF CountInv
  <1> QED
    BY <1>1, <1>2, <1>4 DEF FixedInv

(* Every step keeps it. *)
LEMMA StepKeepsFixedInv ==
    ASSUME SameSizes, ScalingInv, FixedInv, [Next]_vars
    PROVE  FixedInv'
  <1>1. CASE UNCHANGED vars
    <2> USE <1>1 DEF FixedInv, vars, fetchVars, countVars, leaveVars, mapVars, flagVars
    <2>1. SizeInv' /\ NoReapInv' /\ OrderInv'
      BY DEF SizeInv, SizeIsFixed, NoReapInv, OrderInv
    <2>2. LateInv' /\ CountInv'
      BY OthersKeepCount DEF LateInv, Late
    <2> QED
      BY <2>1, <2>2
  <1>2. CASE Next
    BY <1>2, FixedWorkerKeepsInv, FixedMonitorKeepsInv, FixedAddKeepsInv, FixedShutKeepsInv
    DEF Next
  <1> QED
    BY <1>1, <1>2

(* FixedInv holds in every reachable state of a pool with minThreadSize =
   maxThreadSize. *)
THEOREM FixedInvariance == FixedSpec => [](ScalingInv /\ FixedInv)
  <1>1. SameSizes /\ Init => ScalingInv /\ FixedInv
    BY InitHasInv, InitHasFixedInv
  <1>2. SameSizes /\ ScalingInv /\ FixedInv /\ [Next]_vars => ScalingInv' /\ FixedInv'
    BY StepKeepsInv, StepKeepsFixedInv
  <1>3. SameSizes => [](SameSizes)
    BY DEF SameSizes, Core
  <1> QED
    BY <1>1, <1>2, <1>3, PTL DEF FixedSpec, Spec

(* For any size, the workers of a fixed pool stay the ones it began with. *)
THEOREM FixedSize == FixedSpec => []SizeIsFixed
  <1>1. ScalingInv /\ FixedInv => SizeIsFixed
    BY DEF FixedInv, SizeInv
  <1> QED
    BY <1>1, FixedInvariance, PTL

(* When m_stoppedThreadNum has reached the size, every worker is counted. *)
LEMMA AllAreCounted ==
    ASSUME ScalingInv, FixedInv, m_stoppedThreadNum >= Core
    PROVE  Counted = CoreWorkers /\ \A w \in Workers : Stopped(w)
  <1>1. Counted \subseteq CoreWorkers
    BY DEF Counted, FixedInv, SizeInv
  <1>2. IsFiniteSet(CoreWorkers)
    BY PoolAssumption, FS_Subset
  <1>3. Cardinality(Counted) <= Core /\ Cardinality(Counted) \in Nat /\ Core \in Nat
    BY <1>1, <1>2, FS_Subset, FS_CardinalityType DEF Core
  <1>4. Cardinality(Counted) = Core
    BY <1>3 DEF FixedInv, CountInv
  <1>5. Counted = CoreWorkers
    BY <1>1, <1>2, <1>4, FS_Subset DEF Core
  <1> QED
    BY <1>5 DEF Counted, Stopped, FixedInv, SizeInv

(* For any size and any number of shutdowns, the pool says SHUTDOWN only when
   every worker has stopped: ShutDownNow has waited for them all. *)
THEOREM ShutDownHasWaited == FixedSpec => []ShutDownWaitsForWorkers
  <1>1. ScalingInv /\ FixedInv => ShutDownWaitsForWorkers
    BY AllAreCounted DEF FixedInv, CountInv, ShutDownWaitsForWorkers
  <1> QED
    BY <1>1, FixedInvariance, PTL

-----------------------------------------------------------------------------
(* Tasks: each is in one place at most. *)

\* A task that was not pushed is nowhere.
OutsideInv ==
    \A k \in Tasks : apc[k] \in {"idle", "push", "rejected"} =>
        k \notin ran /\ k \notin Range(m_taskQueue) /\ ~Running(k)

\* A task in the queue is there once and nowhere else.
QueuedInv ==
    /\ \A k \in Tasks : k \in Range(m_taskQueue) => k \notin ran /\ ~Running(k)
    /\ \A i, j \in DOMAIN m_taskQueue :
          m_taskQueue[i] = m_taskQueue[j] /\ m_taskQueue[i] \in Tasks => i = j

\* A task that runs does so on one worker, for the first time.
RunningInv ==
    /\ \A w, v \in Workers :
          wpc[w] = "run" /\ wpc[v] = "run" /\ wtask[w] = wtask[v] => w = v
    /\ \A w \in Workers : wpc[w] = "run" => wtask[w] \notin ran

TaskInv == OutsideInv /\ QueuedInv /\ RunningInv

\* The same workers run the same tasks.
SameRuns ==
    /\ \A v \in Workers : wpc'[v] = "run" <=> wpc[v] = "run"
    /\ UNCHANGED <<wtask, ran>>

LEMMA SameRunsSameTasks ==
    ASSUME SameRuns, NEW k \in Tasks
    PROVE  Running(k)' <=> Running(k)
  BY DEF SameRuns, Running

(* A step that starts and ends no run, and pushes no task, keeps TaskInv. *)
LEMMA SameRunsKeepTaskInv ==
    ASSUME TaskInv, SameRuns, UNCHANGED m_taskQueue,
           \A k \in Tasks : apc'[k] \in {"idle", "push", "rejected"} =>
                               apc[k] \in {"idle", "push", "rejected"}
    PROVE  TaskInv'
  <1> USE DEF TaskInv
  <1>1. OutsideInv' /\ QueuedInv'
    BY SameRunsSameTasks DEF OutsideInv, QueuedInv, SameRuns
  <1>2. RunningInv'
    BY DEF RunningInv, SameRuns
  <1> QED
    BY <1>1, <1>2

(* WorkerGet moves a task from the queue to a worker, or takes an EndTask. *)
LEMMA GetKeepsTaskInv ==
    ASSUME ScalingInv, TaskInv, NEW w \in Workers, WorkerStep(w), WorkerGet(w)
    PROVE  TaskInv'
  <1> DEFINE e == Head(m_taskQueue)
  <1>1. TypeOK
    BY DEF ScalingInv
  <1>2. /\ m_taskQueue \in Seq(Tasks \cup {EndTask}) /\ m_taskQueue # <<>>
        /\ m_taskQueue' = Tail(m_taskQueue)
        /\ wtask'[w] = e /\ \A v \in Workers \ {w} : wtask'[v] = wtask[v]
        /\ UNCHANGED <<ran, apc>>
        /\ wpc[w] # "run"
        /\ (wpc'[w] = "run" <=> e # EndTask)
        /\ \A v \in Workers \ {w} : wpc'[v] = wpc[v]
    BY <1>1, WorkerMoves DEF TypeOK, WorkerGet, OtherTasks, WorkerGoes, AfterPop, WorkerStep
  <1>3. e \in Range(m_taskQueue) /\ Range(m_taskQueue') \subseteq Range(m_taskQueue)
        /\ e \in Tasks \cup {EndTask}
    BY <1>2, RangeOfTail
  <1>4. \A i \in DOMAIN m_taskQueue' :
           i + 1 \in DOMAIN m_taskQueue /\ m_taskQueue'[i] = m_taskQueue[i + 1] /\ i \in Nat \ {0}
    BY <1>2
  <1>5. 1 \in DOMAIN m_taskQueue /\ e = m_taskQueue[1]
    BY <1>2
  <1> HIDE DEF e
  <1>6. e \in Tasks => e \notin Range(m_taskQueue')
    <2>1. \A i \in DOMAIN m_taskQueue' : e \in Tasks => m_taskQueue'[i] # e
      BY <1>4, <1>5 DEF TaskInv, QueuedInv
    <2> QED
      BY <2>1 DEF Range
  <1>7. \A k \in Tasks : Running(k)' <=> Running(k) \/ k = e
    BY <1>2, PoolAssumption DEF Running
  <1>8. OutsideInv'
    BY <1>2, <1>3, <1>7 DEF TaskInv, OutsideInv
  <1>9. QueuedInv'
    <2>1. \A i, j \in DOMAIN m_taskQueue' :
             m_taskQueue'[i] = m_taskQueue'[j] /\ m_taskQueue'[i] \in Tasks => i + 1 = j + 1
      BY <1>4 DEF TaskInv, QueuedInv
    <2>2. \A i, j \in DOMAIN m_taskQueue' :
             m_taskQueue'[i] = m_taskQueue'[j] /\ m_taskQueue'[i] \in Tasks => i = j
      BY <1>4, <2>1
    <2> QED
      BY <1>2, <1>3, <1>6, <1>7, <2>2 DEF TaskInv, QueuedInv
  <1>10. RunningInv'
    <2>1. e # EndTask => e \notin ran /\ \A v \in Workers : wpc[v] = "run" => wtask[v] # e
      BY <1>3 DEF TaskInv, QueuedInv, Running
    <2> QED
      BY <1>2, <2>1 DEF TaskInv, RunningInv
  <1> QED
    BY <1>8, <1>9, <1>10 DEF TaskInv

(* A task that ends has been run once. *)
LEMMA RunKeepsTaskInv ==
    ASSUME ScalingInv, TaskInv, NEW w \in Workers, WorkerStep(w), WorkerRun(w) \/ WorkerThrows(w)
    PROVE  TaskInv'
  <1>1. TypeOK
    BY DEF ScalingInv
  <1>2. /\ wpc[w] = "run" /\ wpc'[w] # "run" /\ ran' = ran \cup {wtask[w]}
        /\ \A v \in Workers \ {w} : wpc'[v] = wpc[v]
        /\ UNCHANGED <<m_taskQueue, wtask, apc>>
    BY <1>1, WorkerMoves DEF TypeOK, WorkerRun, WorkerThrows, WorkerGoes, WorkerStep
  <1>3. Running(wtask[w])
    BY <1>2 DEF Running
  <1>4. \A k \in Tasks : Running(k)' => Running(k)
    BY <1>2 DEF Running
  <1>5. OutsideInv' /\ QueuedInv'
    BY <1>2, <1>3, <1>4 DEF TaskInv, OutsideInv, QueuedInv
  <1>6. RunningInv'
    BY <1>2 DEF TaskInv, RunningInv
  <1> QED
    BY <1>5, <1>6 DEF TaskInv

(* Any other step of a worker, and any step of the monitor, leaves the tasks
   where they are. *)
LEMMA OtherWorkerSteps ==
    ASSUME ScalingInv, NEW w \in Workers, WorkerStep(w),
           ~WorkerGet(w), ~WorkerRun(w), ~WorkerThrows(w)
    PROVE  SameRuns /\ UNCHANGED <<m_taskQueue, apc>>
  <1>1. TypeOK
    BY DEF ScalingInv
  <1>2. UNCHANGED <<m_taskQueue, wtask, ran, apc>> /\ wpc[w] # "run" /\ wpc'[w] # "run"
    BY <1>1 DEF WorkerStep, WorkerCheck, WorkerWaits, WorkerTimeOut, WorkerJudge,
           WorkerJudgeFails, WorkerStop, WorkerSubPush, WorkerSubNotify, WorkerCount,
           WorkerCompare, WorkerSetShutDown, WorkerNotifyAll, WorkerGoes, fetchVars, TypeOK
  <1> QED
    BY <1>1, <1>2, WorkerMoves DEF SameRuns

LEMMA MonitorSteps ==
    ASSUME ScalingInv, MonitorStep \/ MonitorSpurious
    PROVE  SameRuns /\ UNCHANGED <<m_taskQueue, apc, m_state>>
  <1>1. UNCHANGED <<m_taskQueue, wtask, ran, apc, m_state>>
    BY DEF MonitorStep, MonitorSpurious, fetchVars, countVars
  <1>2. CASE MonitorCreate
    <2>1. PICK w \in Workers : wpc[w] = "none" /\ wpc' = [wpc EXCEPT ![w] = "check"]
      BY <1>2 DEF MonitorCreate, Spare, Started
    <2> QED
      BY <1>1, <2>1 DEF SameRuns, ScalingInv, TypeOK
  <1>3. CASE ~MonitorCreate
    <2>1. UNCHANGED wpc
      BY <1>3 DEF MonitorStep, MonitorSpurious, MonitorCheck, MonitorLock, MonitorNotified,
           MonitorTimeOut, MonitorCheckLocked, MonitorNoCreate, MonitorInsert, MonitorSub,
           MonitorUnlock
    <2> QED
      BY <1>1, <2>1 DEF SameRuns
  <1> QED
    BY <1>2, <1>3

(* AddPush puts a task into the queue that was nowhere before. *)
LEMMA PushKeepsTaskInv ==
    ASSUME ScalingInv, TaskInv, NEW k \in Tasks, AddStep(k), AddPush(k)
    PROVE  TaskInv'
  <1>1. /\ m_taskQueue \in Seq(Tasks \cup {EndTask}) /\ k \in Tasks \cup {EndTask}
        /\ m_taskQueue' = Append(m_taskQueue, k)
        /\ apc[k] = "push" /\ apc'[k] = "notify"
        /\ \A j \in Tasks \ {k} : apc'[j] = apc[j]
        /\ SameRuns
    BY DEF ScalingInv, TypeOK, AddStep, AddPush, AddGoes, SameRuns
  <1>2. \A x : x \in Range(Append(m_taskQueue, k)) <=> x \in Range(m_taskQueue) \/ x = k
    BY ONLY <1>1, RangeOfAppend
  <1>3. k \notin ran /\ k \notin Range(m_taskQueue) /\ ~Running(k)
    BY <1>1 DEF TaskInv, OutsideInv
  <1>4. OutsideInv'
    BY <1>1, <1>2, SameRunsSameTasks DEF TaskInv, OutsideInv, SameRuns
  <1>5. QueuedInv'
    <2>1. \A i \in DOMAIN m_taskQueue : m_taskQueue[i] # k /\ m_taskQueue'[i] = m_taskQueue[i]
      BY <1>1, <1>3 DEF Range
    <2>2. DOMAIN m_taskQueue' = DOMAIN m_taskQueue \cup {Len(m_taskQueue) + 1}
          /\ m_taskQueue'[Len(m_taskQueue) + 1] = k
      BY <1>1
    <2>3. \A i, j \in DOMAIN m_taskQueue' :
             m_taskQueue'[i] = m_taskQueue'[j] /\ m_taskQueue'[i] \in Tasks => i = j
      BY <2>1, <2>2 DEF TaskInv, QueuedInv
    <2> QED
      BY <1>1, <1>2, <1>3, <2>3, SameRunsSameTasks DEF TaskInv, QueuedInv, SameRuns
  <1>6. RunningInv'
    BY <1>1 DEF TaskInv, RunningInv, SameRuns
  <1> QED
    BY <1>4, <1>5, <1>6 DEF TaskInv

(* The EndTasks of a shutdown are no tasks. *)
LEMMA ShutKeepsTaskInv ==
    ASSUME ScalingInv, TaskInv, NEW s \in Shutters, CallShutDown(s) \/ ShutStep(s)
    PROVE  TaskInv' /\ SameRuns /\ UNCHANGED apc
  <1>1. SameRuns /\ UNCHANGED apc
    BY DEF CallShutDown, ShutStep, NotOfShutDown, SameRuns
  <1>2. CASE m_taskQueue' = m_taskQueue
    BY <1>1, <1>2, SameRunsKeepTaskInv
  <1>3. CASE PushEnds(s)
    <2>1. Ends \in Seq({EndTask}) /\ \A i \in DOMAIN Ends : Ends[i] = EndTask
      BY ThreadNumIsNat DEF ScalingInv, Ends
    <2>2. Ends \in Seq(Tasks \cup {EndTask})
      BY <2>1, SeqMonotonic
    <2>3. m_taskQueue' = m_taskQueue \o Ends /\ m_taskQueue \in Seq(Tasks \cup {EndTask})
      BY <1>3 DEF PushEnds, ScalingInv, TypeOK
    <2>4. \A i \in DOMAIN m_taskQueue' :
             \/ i \in DOMAIN m_taskQueue /\ m_taskQueue'[i] = m_taskQueue[i]
             \/ m_taskQueue'[i] = EndTask
      <3>1. ASSUME NEW i \in DOMAIN m_taskQueue', i \notin DOMAIN m_taskQueue
            PROVE  i - Len(m_taskQueue) \in DOMAIN Ends
                   /\ m_taskQueue'[i] = Ends[i - Len(m_taskQueue)]
        BY <2>2, <2>3, <3>1, ConcatProperties, LenProperties
      <3>2. ASSUME NEW i \in DOMAIN m_taskQueue PROVE m_taskQueue'[i] = m_taskQueue[i]
        BY <2>2, <2>3, <3>2, ConcatProperties, LenProperties
      <3> QED
        BY <2>1, <3>1, <3>2
    <2>5. \A k \in Tasks : k \in Range(m_taskQueue') => k \in Range(m_taskQueue)
      BY <2>4, PoolAssumption DEF Range
    <2>6. OutsideInv' /\ QueuedInv'
      BY <1>1, <2>4, <2>5, SameRunsSameTasks, PoolAssumption
      DEF TaskInv, OutsideInv, QueuedInv, SameRuns
    <2>7. RunningInv'
      BY <1>1 DEF TaskInv, RunningInv, SameRuns
    <2> QED
      BY <1>1, <2>6, <2>7 DEF TaskInv
  <1>4. m_taskQueue' = m_taskQueue \/ PushEnds(s)
    BY DEF CallShutDown, ShutStep, ShutDown, ShutDownAgain, AwaitSpurious, SetStop, CloseWorkers,
           CloseMonitor, PushZero, NotifyMonitorThread, ShutDownReturns, ShutDownNow, AwaitTest,
           AwaitNotified, ShutDownNowReturns, JoinMonitor, JoinWorkers, wakeVars
  <1> QED
    BY <1>1, <1>2, <1>3, <1>4

(* Every step keeps TaskInv. *)
LEMMA StepKeepsTaskInv ==
    ASSUME ScalingInv, TaskInv, [Next]_vars
    PROVE  TaskInv'
  <1>1. CASE UNCHANGED vars
    BY <1>1, SameRunsKeepTaskInv DEF vars, fetchVars, SameRuns
  <1>2. ASSUME NEW w \in Workers, WorkerStep(w) PROVE TaskInv'
    BY <1>2, GetKeepsTaskInv, RunKeepsTaskInv, OtherWorkerSteps, SameRunsKeepTaskInv
  <1>3. CASE MonitorStep \/ MonitorSpurious
    BY <1>3, MonitorSteps, SameRunsKeepTaskInv
  <1>4. ASSUME NEW k \in Tasks, AddTask(k) \/ AddStep(k) PROVE TaskInv'
    <2>1. CASE AddPush(k) /\ AddStep(k)
      BY <2>1, PushKeepsTaskInv
    <2>2. CASE AddTask(k) \/ (AddStep(k) /\ AddNotify(k))
      <3>1. SameRuns /\ UNCHANGED m_taskQueue
        BY <2>2 DEF AddTask, AddStep, AddNotify, fetchVars, SameRuns
      <3>2. \A j \in Tasks : apc'[j] \in {"idle", "push", "rejected"} =>
                                apc[j] \in {"idle", "push", "rejected"}
        BY <2>2 DEF AddTask, AddNotify, AddGoes, ScalingInv, TypeOK
      <3> QED
        BY <3>1, <3>2, SameRunsKeepTaskInv
    <2> QED
      BY <1>4, <2>1, <2>2 DEF AddStep
  <1>5. ASSUME NEW s \in Shutters, CallShutDown(s) \/ ShutStep(s) PROVE TaskInv'
    BY <1>5, ShutKeepsTaskInv
  <1> QED
    BY <1>1, <1>2, <1>3, <1>4, <1>5 DEF Next

(* In any pool, whatever its sizes, a task is in one place at most. *)
THEOREM TasksAreUnique == Spec => []TaskInv
  <1>1. Init => TaskInv
    BY DEF Init, TaskInv, OutsideInv, QueuedInv, RunningInv, Running, Range
  <1> QED
    BY <1>1, StepKeepsTaskInv, ScalingInvariance, PTL DEF Spec

-----------------------------------------------------------------------------
(* The fixed pool implements ThreadPool. *)

Stages == [k \in Tasks |-> Stage(k)]

\* What the refinement rests on
PromiseInv == ScalingInv /\ FixedInv /\ TaskInv

\* One task goes from one stage to the next.
OneMoves(from, to) ==
    \E k \in Tasks : Stages[k] = from /\ Stages' = [Stages EXCEPT ![k] = to]

(* No task runs twice. *)
LEMMA NeverRunsTwice ==
    ASSUME TaskInv, NEW k \in Tasks
    PROVE  ~RunsTwice(k)
  BY DEF TaskInv, RunningInv, RunsTwice

LEMMA NeverRunsTwiceNow ==
    ASSUME TaskInv', NEW k \in Tasks
    PROVE  ~RunsTwice(k)'
  BY DEF TaskInv, RunningInv, RunsTwice

LEMMA SameRunsNotTwice ==
    ASSUME SameRuns, NEW k \in Tasks
    PROVE  RunsTwice(k)' <=> RunsTwice(k)
  BY DEF SameRuns, RunsTwice

(* A step that starts and ends no run and accepts no task. *)
LEMMA SameRunsSameStages ==
    ASSUME SameRuns,
           \A k \in Tasks : apc'[k] \in {"notify", "accepted"} <=> apc[k] \in {"notify", "accepted"}
    PROVE  Stages' = Stages
  <1>1. \A k \in Tasks : Stage(k)' = Stage(k)
    BY SameRunsSameTasks, SameRunsNotTwice DEF Stage, SameRuns
  <1> QED
    BY <1>1 DEF Stages

(* A step that changes the stage of one task. *)
LEMMA OneStage ==
    ASSUME NEW k \in Tasks, \A j \in Tasks \ {k} : Stage(j)' = Stage(j)
    PROVE  Stages' = [Stages EXCEPT ![k] = Stage(k)'] /\ Stages[k] = Stage(k)
  BY DEF Stages

(* WorkerGet begins a task that was accepted, or none. *)
LEMMA GetBegins ==
    ASSUME ScalingInv, TaskInv, NEW w \in Workers, WorkerStep(w), WorkerGet(w)
    PROVE  (Stages' = Stages \/ OneMoves("accepted", "running")) /\ UNCHANGED m_state
  <1>1. TypeOK
    BY DEF ScalingInv
  <1>0. m_taskQueue \in Seq(Tasks \cup {EndTask}) /\ m_taskQueue # <<>>
    BY <1>1 DEF TypeOK, WorkerGet
  <1> PICK e \in Tasks \cup {EndTask} : e = Head(m_taskQueue)
    BY <1>0
  <1>2. /\ e = Head(m_taskQueue)
        /\ wtask'[w] = e /\ \A v \in Workers \ {w} : wtask'[v] = wtask[v]
        /\ UNCHANGED <<ran, apc, m_state>>
        /\ wpc[w] \in {"get", "waiting"}
        /\ (wpc'[w] = "run" <=> e # EndTask)
        /\ \A v \in Workers \ {w} : wpc'[v] = wpc[v]
    BY <1>1, WorkerMoves DEF TypeOK, WorkerGet, WorkerGoes, AfterPop, WorkerStep, countVars
  <1>3. e \in Range(m_taskQueue)
    BY <1>0, <1>2, RangeOfTail
  <1>4. \A k \in Tasks : Running(k)' <=> Running(k) \/ k = e
    BY <1>2, PoolAssumption DEF Running
  <1>4a. \A k \in Tasks : ~RunsTwice(k) /\ ~RunsTwice(k)'
    BY NeverRunsTwice, NeverRunsTwiceNow, GetKeepsTaskInv
  <1>5. \A k \in Tasks \ {e} : Stage(k)' = Stage(k)
    BY <1>2, <1>4, <1>4a DEF Stage
  <1>6. CASE e = EndTask
    <2>1. Stages' = Stages
      BY <1>5, <1>6, PoolAssumption DEF Stages
    <2> QED
      BY <1>2, <2>1
  <1>7. CASE e \in Tasks
    <2>1. e \notin ran /\ ~Running(e)
      BY <1>3, <1>7 DEF TaskInv, QueuedInv
    <2>2. apc[e] \in {"notify", "accepted"}
      BY <1>1, <1>3, <1>7 DEF TaskInv, OutsideInv, TypeOK
    <2>3. Stage(e) = "accepted" /\ Stage(e)' = "running"
      BY <1>2, <1>4, <1>7, <1>4a, <2>1, <2>2 DEF Stage
    <2>4. Stages' = [Stages EXCEPT ![e] = "running"] /\ Stages[e] = "accepted"
      BY <1>5, <1>7, <2>3, OneStage
    <2> QED
      BY <1>2, <1>7, <2>4 DEF OneMoves
  <1> QED
    BY <1>6, <1>7

(* A run that returns or throws ends its task. *)
LEMMA RunEnds ==
    ASSUME ScalingInv, TaskInv, NEW w \in Workers, WorkerStep(w), WorkerRun(w) \/ WorkerThrows(w)
    PROVE  OneMoves("running", "ended") /\ UNCHANGED m_state
  <1>1. TypeOK /\ RunsTask
    BY DEF ScalingInv
  <1> PICK k \in Tasks : k = wtask[w]
    BY <1>1 DEF RunsTask, WorkerRun, WorkerThrows, WorkerGoes
  <1>2. /\ k = wtask[w]
        /\ wpc[w] = "run" /\ wpc'[w] # "run" /\ ran' = ran \cup {k}
        /\ \A v \in Workers \ {w} : wpc'[v] = wpc[v]
        /\ UNCHANGED <<wtask, apc, m_state>>
    BY <1>1, WorkerMoves
    DEF TypeOK, WorkerRun, WorkerThrows, WorkerGoes, WorkerStep, countVars
  <1>3. k \notin ran /\ Running(k)
    BY <1>2 DEF TaskInv, RunningInv, Running
  <1>4. \A j \in Tasks \ {k} : Running(j)' <=> Running(j)
    BY <1>2 DEF Running
  <1>4a. \A j \in Tasks : ~RunsTwice(j) /\ ~RunsTwice(j)'
    BY NeverRunsTwice, NeverRunsTwiceNow, RunKeepsTaskInv
  <1>5. \A j \in Tasks \ {k} : Stage(j)' = Stage(j)
    BY <1>2, <1>4, <1>4a DEF Stage
  <1>6. Stage(k) = "running" /\ Stage(k)' = "ended"
    BY <1>2, <1>3, <1>4a DEF Stage
  <1>7. Stages' = [Stages EXCEPT ![k] = "ended"] /\ Stages[k] = "running"
    BY <1>3, <1>5, <1>6, OneStage
  <1> QED
    BY <1>2, <1>7 DEF OneMoves

(* AddPush accepts a task; the rest of AddTask does nothing. *)
LEMMA AddAccepts ==
    ASSUME ScalingInv, TaskInv, NEW k \in Tasks, AddTask(k) \/ AddStep(k)
    PROVE  (Stages' = Stages \/ OneMoves("outside", "accepted")) /\ UNCHANGED m_state
  <1>1. TypeOK /\ SameRuns /\ UNCHANGED m_state
    BY DEF ScalingInv, AddTask, AddStep, fetchVars, countVars, SameRuns
  <1>2. CASE AddPush(k)
    <2>1. /\ apc[k] = "push" /\ apc'[k] = "notify"
          /\ \A j \in Tasks \ {k} : apc'[j] = apc[j]
      BY <1>1, <1>2 DEF AddPush, AddGoes, TypeOK
    <2>2. k \notin ran /\ ~Running(k)
      BY <2>1 DEF TaskInv, OutsideInv
    <2>3. \A j \in Tasks \ {k} : Stage(j)' = Stage(j)
      BY <1>1, <2>1, SameRunsSameTasks, SameRunsNotTwice DEF Stage, SameRuns
    <2>4. Stage(k) = "outside" /\ Stage(k)' = "accepted"
      BY <1>1, <2>1, <2>2, SameRunsSameTasks, SameRunsNotTwice, NeverRunsTwice DEF Stage, SameRuns
    <2>5. Stages' = [Stages EXCEPT ![k] = "accepted"] /\ Stages[k] = "outside"
      BY <2>3, <2>4, OneStage
    <2> QED
      BY <1>1, <2>5 DEF OneMoves
  <1>3. CASE AddTask(k) \/ AddNotify(k)
    <2>1. \A j \in Tasks :
             apc'[j] \in {"notify", "accepted"} <=> apc[j] \in {"notify", "accepted"}
      BY <1>1, <1>3 DEF AddTask, AddNotify, AddGoes, TypeOK
    <2>2. Stages' = Stages
      BY <1>1, <2>1, SameRunsSameStages
    <2> QED
      BY <1>1, <2>2
  <1> QED
    BY <1>2, <1>3 DEF AddStep

(* What a step does to the stages is a step of Promise!TasksNext, or nothing. *)
LEMMA StepMovesTasks ==
    ASSUME ScalingInv, TaskInv, [Next]_vars
    PROVE  \/ Stages' = Stages
           \/ OneMoves("outside", "accepted")
           \/ OneMoves("accepted", "running")
           \/ OneMoves("running", "ended")
  <1>1. CASE UNCHANGED vars
    BY <1>1, SameRunsSameStages DEF vars, fetchVars, SameRuns
  <1>2. ASSUME NEW w \in Workers, WorkerStep(w), ~WorkerGet(w), ~WorkerRun(w), ~WorkerThrows(w)
        PROVE  Stages' = Stages
    BY <1>2, OtherWorkerSteps, SameRunsSameStages
  <1>3. CASE MonitorStep \/ MonitorSpurious
    BY <1>3, MonitorSteps, SameRunsSameStages
  <1>4. ASSUME NEW s \in Shutters, CallShutDown(s) \/ ShutStep(s) PROVE Stages' = Stages
    BY <1>4, ShutKeepsTaskInv, SameRunsSameStages
  <1> QED
    BY <1>1, <1>2, <1>3, <1>4, GetBegins, RunEnds, AddAccepts DEF Next

(* Nothing has been added yet. *)
LEMMA InitIsOutside == Init => Stages = [k \in Tasks |-> "outside"]
  <1> SUFFICES ASSUME Init PROVE Stages = [k \in Tasks |-> "outside"]
    OBVIOUS
  <1>1. \A k \in Tasks : Stage(k) = "outside"
    BY DEF Init, Stage, Running, RunsTwice
  <1> QED
    BY <1>1 DEF Stages

(* However a scaling pool grows and shrinks, with tasks that throw, and even
   when its shutdown says SHUTDOWN too early: each task goes from outside to
   accepted to running to ended, and no worker begins it again. *)
THEOREM TasksGoTheirWay == Spec => ImplementsTasks
  <1>1. Init => Promise!TasksInit
    BY InitIsOutside DEF Promise!TasksInit, Stages
  <1>2. ScalingInv /\ TaskInv /\ [Next]_vars => [Promise!TasksNext]_Stages
    BY StepMovesTasks
    DEF OneMoves, Promise!TasksNext, Promise!Accept, Promise!Begin, Promise!End, Promise!Moves,
        Stages
  <1> QED
    BY <1>1, <1>2, ScalingInvariance, TasksAreUnique, PTL
    DEF Spec, ImplementsTasks, Promise!TasksSpec, Stages

-----------------------------------------------------------------------------

(* WorkerGet begins its task before SHUTDOWN. *)
LEMMA GetIsBegin ==
    ASSUME SameSizes, PromiseInv, NEW w \in Workers, WorkerStep(w), WorkerGet(w)
    PROVE  [Promise!Next]_Promise!vars
  <1>1. ShutDownWaitsForWorkers
    BY AllAreCounted DEF PromiseInv, ScalingInv, FixedInv, CountInv, ShutDownWaitsForWorkers
  <1>2. m_state # "SHUTDOWN"
    BY <1>1 DEF ShutDownWaitsForWorkers, Stopped, WorkerGet, WorkerGoes
  <1> QED
    BY <1>2, GetBegins
    DEF PromiseInv, OneMoves, Promise!Next, Promise!Begin, Promise!Moves, Promise!vars, Stages

(* Another step of a worker announces SHUTDOWN when no task is running, or
   changes nothing that the promise is about. *)
LEMMA StopIsFinish ==
    ASSUME SameSizes, PromiseInv, NEW w \in Workers, WorkerStep(w),
           ~WorkerGet(w), ~WorkerRun(w), ~WorkerThrows(w)
    PROVE  [Promise!Next]_Promise!vars
  <1>1. Stages' = Stages
    BY OtherWorkerSteps, SameRunsSameStages DEF PromiseInv
  <1>2. CASE UNCHANGED m_state
    BY <1>1, <1>2 DEF Promise!vars, Stages
  <1>3. CASE WorkerSetShutDown(w)
    <2>1. wpc[w] = "set_shutdown" /\ m_state' = "SHUTDOWN"
      BY <1>3 DEF WorkerSetShutDown, WorkerGoes
    <2>2. m_state # "RUNNING" /\ m_stoppedThreadNum >= Core
      BY <2>1 DEF PromiseInv, FixedInv, LateInv, Late, Leaving, CountInv
    <2>3. \A v \in Workers : Stopped(v)
      BY <2>2, AllAreCounted DEF PromiseInv
    <2>4. \A k \in Tasks : Stage(k) # "running"
      BY <2>3 DEF Stage, Running, RunsTwice, Stopped
    <2>5. \A k \in Tasks : Stages[k] # "running"
      BY <2>4 DEF Stages
    <2>6. m_state \in {"STOP", "SHUTDOWN"}
      BY <2>2 DEF PromiseInv, ScalingInv, TypeOK
    <2> QED
      BY <1>1, <2>1, <2>5, <2>6 DEF Promise!Next, Promise!Finish, Promise!vars, Stages
  <1>4. UNCHANGED m_state \/ WorkerSetShutDown(w)
    BY DEF WorkerStep, WorkerCheck, WorkerWaits, WorkerTimeOut, WorkerJudge,
           WorkerJudgeFails, WorkerStop, WorkerSubPush, WorkerSubNotify, WorkerCount,
           WorkerCompare, WorkerNotifyAll, countVars
  <1> QED
    BY <1>2, <1>3, <1>4

(* SetState(STOP) comes while the pool says RUNNING. *)
LEMMA ShutDownIsStop ==
    ASSUME PromiseInv, NEW s \in Shutters, CallShutDown(s) \/ ShutStep(s)
    PROVE  [Promise!Next]_Promise!vars
  <1>1. Stages' = Stages
    BY ShutKeepsTaskInv, SameRunsSameStages DEF PromiseInv
  <1>2. CASE SetStop(s)
    <2>1. m_state = "RUNNING" /\ m_state' = "STOP"
      BY <1>2 DEF SetStop, ShutGoes, PromiseInv, FixedInv, OrderInv
    <2> QED
      BY <1>1, <2>1 DEF Promise!Next, Promise!Stop, Stages
  <1>3. CASE ~SetStop(s)
    <2>1. UNCHANGED m_state
      BY <1>3 DEF CallShutDown, ShutStep, ShutDown, ShutDownAgain, AwaitSpurious, CloseWorkers,
           PushEnds, CloseMonitor, PushZero, NotifyMonitorThread, ShutDownReturns, ShutDownNow,
           AwaitTest, AwaitNotified, ShutDownNowReturns, JoinMonitor, JoinWorkers, announceVars
    <2> QED
      BY <1>1, <2>1 DEF Promise!vars, Stages
  <1> QED
    BY <1>2, <1>3

(* For any size, any number of tasks and of shutdowns, with tasks that throw and
   compare_exchange_weak that fails for nothing: a fixed pool implements
   ThreadPool. *)
THEOREM FixedPoolKeepsPromise == FixedSpec => ImplementsThreadPool
  <1>1. Init => Promise!Init
    BY InitIsOutside DEF Init, Promise!Init, Promise!TasksInit, Stages
  <1>2. SameSizes /\ PromiseInv /\ [Next]_vars => [Promise!Next]_Promise!vars
    <2> SUFFICES ASSUME SameSizes, PromiseInv, [Next]_vars PROVE [Promise!Next]_Promise!vars
      OBVIOUS
    <2>1. CASE UNCHANGED vars
      <3>1. SameRuns /\ UNCHANGED <<apc, m_state>>
        BY <2>1 DEF vars, fetchVars, countVars, SameRuns
      <3>2. Stages' = Stages
        BY <3>1, SameRunsSameStages
      <3> QED
        BY <3>1, <3>2 DEF Promise!vars, Stages
    <2>2. ASSUME NEW w \in Workers, WorkerStep(w) PROVE [Promise!Next]_Promise!vars
      <3>1. CASE WorkerRun(w) \/ WorkerThrows(w)
        BY <2>2, <3>1, RunEnds
        DEF PromiseInv, OneMoves, Promise!Next, Promise!End, Promise!Moves, Stages
      <3> QED
        BY <2>2, <3>1, GetIsBegin, StopIsFinish
    <2>3. CASE MonitorStep \/ MonitorSpurious
      <3>1. Stages' = Stages /\ UNCHANGED m_state
        BY <2>3, MonitorSteps, SameRunsSameStages DEF PromiseInv
      <3> QED
        BY <3>1 DEF Promise!vars, Stages
    <2>4. ASSUME NEW k \in Tasks, AddTask(k) \/ AddStep(k) PROVE [Promise!Next]_Promise!vars
      BY <2>4, AddAccepts
      DEF PromiseInv, OneMoves, Promise!Next, Promise!Accept, Promise!Moves, Promise!vars, Stages
    <2> QED
      BY <2>1, <2>2, <2>3, <2>4, ShutDownIsStop DEF Next
  <1>3. SameSizes => [](SameSizes)
    BY DEF SameSizes, Core
  <1>4. ScalingInv /\ FixedInv /\ TaskInv => PromiseInv
    BY DEF PromiseInv
  <1>5. FixedSpec => []PromiseInv
    BY <1>4, FixedInvariance, TasksAreUnique, PTL DEF FixedSpec
  <1> QED
    BY <1>1, <1>2, <1>3, <1>5, PTL DEF FixedSpec, Spec, ImplementsThreadPool, Promise!Spec
=============================================================================
