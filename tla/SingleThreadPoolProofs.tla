----------------------- MODULE SingleThreadPoolProofs -----------------------
(***************************************************************************)
(* For any number of tasks, priorities and threads that shut the pool down:*)
(* the single pool begins tasks in the order of their numbers, implements  *)
(* ThreadPool and loses no notification.                                   *)
(*                                                                         *)
(* SmallerNumberFirst needs to know that a task whose AddTask has returned *)
(* is in the heap or has begun (HeapInv) and that no priority changes once *)
(* somebody may have been added after it (BeforeInv); the promise, that    *)
(* nothing makes the thread stop before SetState(STOP) (LateInv).          *)
(***************************************************************************)
EXTENDS SingleThreadPool, TLAPS

\* Where a task is.
HeapInv ==
    /\ \A k \in Tasks : k \in m_taskQueue => k \notin begun
    /\ \A k \in Tasks : apc[k] = "accepted" <=> k \in m_taskQueue \cup begun
    /\ task # NoTask <=> tpc = "run"
    /\ task # NoTask => task \in begun

\* A task is before another one only if its own AddTask has returned.
BeforeInv ==
    \A j, k \in Tasks : <<j, k>> \in before => apc[j] = "accepted" /\ apc[k] # "idle"

ShuttingDown == {"set_stop", "close", "push_end"}

\* One shutdown goes through all the steps, SetState(STOP) among the first.
OrderInv ==
    /\ \A s \in Shutters : spc[s] \in ShuttingDown => m_isRequestShutDown
    /\ \A s \in Shutters : spc[s] = "set_stop" => m_state = "RUNNING"
    /\ \A s \in Shutters : spc[s] \in {"close", "push_end"} => m_state # "RUNNING"
    /\ m_state # "RUNNING" => m_isRequestShutDown
    /\ \A s, u \in Shutters : {spc[s], spc[u]} \subseteq ShuttingDown => s = u

\* The shutdown has begun to close the thread.
Late == m_state # "RUNNING" /\ \A s \in Shutters : spc[s] \notin {"set_stop", "close"}

\* The thread does not leave before that, and SHUTDOWN is its own doing.
LateInv ==
    /\ closeRequested => Late
    /\ EndPriorityTask \in m_taskQueue => Late
    /\ tpc \in {"stop", "notify", "exited"} => Late
    /\ m_state = "SHUTDOWN" => tpc \in {"notify", "exited"}

IInv == TypeOK /\ HeapInv /\ BeforeInv /\ SmallerNumberFirst /\ OrderInv /\ LateInv

-----------------------------------------------------------------------------

(* The invariant holds when the constructor has returned. *)
LEMMA InitInv == Init => IInv
  <1> SUFFICES ASSUME Init PROVE IInv
    OBVIOUS
  <1> USE SingleThreadPoolAssumption DEF Init
  <1>1. m_isRequestShutDown \in BOOLEAN /\ closeRequested \in BOOLEAN /\ asleep \in BOOLEAN
    OBVIOUS
  <1>2. TypeOK
    BY <1>1 DEF TypeOK
  <1>3. HeapInv /\ BeforeInv /\ SmallerNumberFirst
    BY DEF HeapInv, BeforeInv, SmallerNumberFirst
  <1>4. OrderInv /\ LateInv
    BY DEF OrderInv, LateInv, ShuttingDown
  <1> QED
    BY <1>2, <1>3, <1>4 DEF IInv

(* The thread takes a task with the smallest number, so that the ones before it
   have begun. *)
LEMMA GetKeepsInv ==
    ASSUME IInv, ThreadGet, UNCHANGED NotOfThread
    PROVE  IInv'
  <1> USE SingleThreadPoolAssumption DEF IInv, NotOfThread, callVars, requestVars, stateVars
  <1>1. PICK k \in Top \cap Tasks : /\ m_taskQueue' = m_taskQueue \ {k}
                                    /\ task' = k
                                    /\ begun' = begun \cup {k}
    BY DEF ThreadGet
  <1>2. tpc = "get" /\ tpc' = "run" /\ UNCHANGED <<asleep, m_state, stateSleepers>>
    BY DEF ThreadGet, ThreadGoes
  <1>3. TypeOK' /\ BeforeInv'
    BY <1>1, <1>2 DEF TypeOK, BeforeInv
  <1>4. HeapInv'
    BY <1>1, <1>2 DEF HeapInv, TypeOK, Top
  <1>5. SmallerNumberFirst'
    <2> SUFFICES ASSUME NEW j \in Tasks, <<j, k>> \in before, m_runMode # "LIFO",
                        priority[j] < priority[k], j \notin begun
                 PROVE  FALSE
      BY <1>1, <1>2 DEF SmallerNumberFirst
    <2>1. j \in m_taskQueue
      BY DEF BeforeInv, HeapInv
    <2>2. ~Compare(k, j) \/ Compare(j, k)
      BY <1>1, <2>1 DEF Top
    <2>3. priority[j] \in Int /\ priority[k] \in Int
      BY <1>1 DEF TypeOK
    <2> QED
      BY <1>1, <2>2, <2>3 DEF Compare, CompareFuncGreater, GetPriorityValue
  <1>6. OrderInv' /\ LateInv'
    BY <1>1, <1>2 DEF OrderInv, LateInv, Late
  <1> QED
    BY <1>3, <1>4, <1>5, <1>6

(* The other steps of the thread. *)
LEMMA ThreadKeepsInv ==
    ASSUME IInv, ThreadStep \/ ThreadThrows \/ ThreadSpurious
    PROVE  IInv'
  <1> USE SingleThreadPoolAssumption
      DEF IInv, NotOfThread, callVars, requestVars, stateVars, heapVars, runVars, ThreadGoes
  <1>1. UNCHANGED NotOfThread
    BY DEF ThreadStep, ThreadThrows, ThreadSpurious
  <1>2. CASE ThreadCheck \/ ThreadSleep \/ ThreadSpurious
    <2>1. TypeOK' /\ BeforeInv' /\ SmallerNumberFirst'
      BY <1>1, <1>2
      DEF ThreadCheck, ThreadSleep, ThreadSpurious, TypeOK, BeforeInv, SmallerNumberFirst
    <2>2. HeapInv' /\ OrderInv' /\ LateInv'
      BY <1>1, <1>2
      DEF ThreadCheck, ThreadSleep, ThreadSpurious, HeapInv, OrderInv, LateInv, Late
    <2> QED
      BY <2>1, <2>2
  <1>3. CASE ThreadGetEnd
    <2>1. TypeOK' /\ BeforeInv' /\ SmallerNumberFirst'
      BY <1>1, <1>3 DEF ThreadGetEnd, TypeOK, BeforeInv, SmallerNumberFirst
    <2>2. HeapInv' /\ OrderInv' /\ LateInv'
      BY <1>1, <1>3 DEF ThreadGetEnd, Top, HeapInv, OrderInv, LateInv, Late
    <2> QED
      BY <2>1, <2>2
  <1>4. CASE ThreadRun \/ ThreadThrows
    <2>1. TypeOK' /\ BeforeInv' /\ SmallerNumberFirst'
      BY <1>1, <1>4 DEF ThreadRun, ThreadThrows, TypeOK, BeforeInv, SmallerNumberFirst
    <2>2. HeapInv' /\ OrderInv' /\ LateInv'
      BY <1>1, <1>4 DEF ThreadRun, ThreadThrows, HeapInv, OrderInv, LateInv, Late
    <2> QED
      BY <2>1, <2>2
  <1>5. CASE ThreadShutDown \/ ThreadNotify
    <2>1. TypeOK' /\ BeforeInv' /\ SmallerNumberFirst'
      BY <1>1, <1>5 DEF ThreadShutDown, ThreadNotify, TypeOK, BeforeInv, SmallerNumberFirst
    <2>2. HeapInv' /\ OrderInv' /\ LateInv'
      BY <1>1, <1>5 DEF ThreadShutDown, ThreadNotify, HeapInv, OrderInv, LateInv, Late
    <2> QED
      BY <2>1, <2>2
  <1> QED
    BY <1>1, <1>2, <1>3, <1>4, <1>5, GetKeepsInv DEF ThreadStep

(* AddTask sets the priority of a task that is before no other one yet. *)
LEMMA AddKeepsInv ==
    ASSUME IInv, NEW k \in Tasks, AddTask(k) \/ AddPush(k)
    PROVE  IInv'
  <1> USE SingleThreadPoolAssumption
      DEF IInv, callVars, requestVars, stateVars, heapVars, runVars, AddGoes
  <1>1. CASE AddTask(k)
    <2>1. PICK p \in (IF m_runMode = "PRIORITY" THEN Priorities ELSE {time}) :
             priority' = [priority EXCEPT ![k] = p]
      BY <1>1 DEF AddTask
    <2>2. p \in Int
      BY <2>1 DEF TypeOK
    <2>3. /\ apc[k] = "idle" /\ apc'[k] \in {"push", "rejected"}
          /\ \A j \in Tasks \ {k} : apc'[j] = apc[j] /\ priority'[j] = priority[j]
          /\ before' = before \cup {<<j, k>> : j \in {i \in Tasks : apc[i] = "accepted"}}
          /\ UNCHANGED <<m_runMode, time, heapVars, runVars, stateVars, requestVars>>
      BY <1>1, <2>1 DEF AddTask, TypeOK
    <2>4. TypeOK'
      <3>1. apc' \in [Tasks -> {"idle", "push", "accepted", "rejected"}]
        BY <1>1 DEF AddTask, TypeOK
      <3>2. priority' \in [Tasks -> Int] /\ before' \subseteq Tasks \X Tasks
        BY <2>1, <2>2, <2>3 DEF TypeOK
      <3> QED
        BY <2>3, <3>1, <3>2 DEF TypeOK
    <2>5. HeapInv' /\ OrderInv' /\ LateInv'
      BY <2>3 DEF HeapInv, OrderInv, LateInv, Late
    <2>6. BeforeInv'
      BY <2>3 DEF BeforeInv
    <2>7. SmallerNumberFirst'
      <3>1. k \notin begun
        BY <2>3 DEF HeapInv
      <3>2. \A i, j \in Tasks : j # k /\ <<i, j>> \in before' => i # k /\ <<i, j>> \in before
        BY <2>3 DEF BeforeInv
      <3> QED
        BY <2>3, <3>1, <3>2 DEF SmallerNumberFirst
    <2> QED
      BY <2>4, <2>5, <2>6, <2>7
  <1>2. CASE AddPush(k)
    <2>1. /\ apc[k] = "push" /\ apc'[k] = "accepted"
          /\ \A j \in Tasks \ {k} : apc'[j] = apc[j]
          /\ m_taskQueue' = m_taskQueue \cup {k}
          /\ UNCHANGED <<m_runMode, time, runVars, priority, before, stateVars, requestVars>>
      BY <1>2 DEF AddPush, PushTask, TypeOK
    <2>2. TypeOK'
      <3>1. apc' \in [Tasks -> {"idle", "push", "accepted", "rejected"}]
        BY <1>2 DEF AddPush, TypeOK
      <3>2. asleep' \in BOOLEAN
        BY <1>2 DEF AddPush, PushTask, NotifyIfEmpty
      <3> QED
        BY <2>1, <3>1, <3>2 DEF TypeOK
    <2>3. HeapInv' /\ BeforeInv'
      BY <2>1 DEF HeapInv, BeforeInv
    <2>4. SmallerNumberFirst' /\ OrderInv' /\ LateInv'
      BY <2>1 DEF SmallerNumberFirst, OrderInv, LateInv, Late
    <2> QED
      BY <2>2, <2>3, <2>4
  <1> QED
    BY <1>1, <1>2

ShutterPCs == {"idle", "set_stop", "close", "push_end", "requested", "test", "waiting", "join",
               "returned"}

(* What a step of a shutdown does to its own position. *)
LEMMA ShutMoves ==
    ASSUME TypeOK, NEW s \in Shutters, ShutDown(s) \/ ShutStep(s) \/ AwaitSpurious(s)
    PROVE  /\ spc' \in [Shutters -> ShutterPCs]
           /\ \A u \in Shutters \ {s} : spc'[u] = spc[u]
           /\ stateSleepers' \subseteq Shutters
           /\ UNCHANGED NotOfShutDown
  <1> USE DEF TypeOK, ShutGoes, ShutterPCs, stateVars, requestVars, heapVars
  <1>1. UNCHANGED NotOfShutDown
    BY DEF ShutDown, ShutStep, AwaitSpurious
  <1>2. CASE ShutDown(s) \/ AwaitSpurious(s)
    BY <1>1, <1>2 DEF ShutDown, AwaitSpurious
  <1>3. CASE SetStop(s) \/ CloseThread(s) \/ PushEnd(s)
    BY <1>1, <1>3 DEF SetStop, CloseThread, PushEnd
  <1>4. CASE ShutDownRequested(s) \/ AwaitTest(s) \/ AwaitNotified(s) \/ Join(s)
    BY <1>1, <1>4 DEF ShutDownRequested, AwaitTest, AwaitNotified, Join
  <1> QED
    BY <1>2, <1>3, <1>4 DEF ShutStep

(* The steps of a shutdown. *)
LEMMA ShutKeepsInv ==
    ASSUME IInv, NEW s \in Shutters, ShutDown(s) \/ ShutStep(s) \/ AwaitSpurious(s)
    PROVE  IInv'
  <1> USE SingleThreadPoolAssumption DEF IInv, stateVars, heapVars, flagVars
  <1>1. /\ UNCHANGED <<m_runMode, time, tpc, task, begun, priority, apc, before>>
        /\ \A u \in Shutters \ {s} : spc'[u] = spc[u]
        /\ spc' \in [Shutters -> ShutterPCs]
        /\ stateSleepers' \subseteq Shutters
    BY ShutMoves DEF NotOfShutDown, runVars, callVars
  <1>2. BeforeInv' /\ SmallerNumberFirst'
    BY <1>1 DEF BeforeInv, SmallerNumberFirst
  <1>3. CASE ShutDown(s)
    <2>1. /\ m_isRequestShutDown' = TRUE
          /\ UNCHANGED <<m_state, closeRequested, m_taskQueue, asleep>>
          /\ spc[s] = "idle" /\ spc'[s] = IF IsFirst THEN "set_stop" ELSE "requested"
      BY <1>3 DEF ShutDown, ShutGoes, TypeOK
    <2>2. TypeOK' /\ HeapInv'
      BY <1>1, <2>1 DEF TypeOK, ShutterPCs, HeapInv
    <2>3. CASE m_isRequestShutDown
      <3>1. spc'[s] = "requested"
        BY <2>1, <2>3 DEF IsFirst
      <3> QED
        BY <1>1, <1>2, <2>1, <2>2, <2>3, <3>1 DEF OrderInv, LateInv, Late, ShuttingDown
    <2>4. CASE ~m_isRequestShutDown
      <3>1. m_state = "RUNNING" /\ \A u \in Shutters : spc[u] \notin ShuttingDown
        BY <2>4 DEF OrderInv
      <3>2. OrderInv'
        BY <1>1, <2>1, <3>1 DEF OrderInv, ShuttingDown
      <3>3. LateInv'
        BY <1>1, <2>1, <3>1 DEF LateInv, Late
      <3> QED
        BY <1>2, <2>2, <3>2, <3>3
    <2> QED
      BY <2>3, <2>4
  <1>4. CASE SetStop(s)
    <2>1. /\ m_state' = "STOP" /\ spc[s] = "set_stop" /\ spc'[s] = "close"
          /\ UNCHANGED <<m_isRequestShutDown, closeRequested, m_taskQueue, asleep>>
      BY <1>4 DEF SetStop, ShutGoes, TypeOK
    <2>2. TypeOK' /\ HeapInv'
      BY <1>1, <2>1 DEF TypeOK, ShutterPCs, HeapInv
    <2>3. m_isRequestShutDown /\ \A u \in Shutters \ {s} : spc[u] \notin ShuttingDown
      BY <2>1 DEF OrderInv, ShuttingDown
    <2>4. OrderInv' /\ LateInv'
      BY <1>1, <2>1, <2>3 DEF OrderInv, LateInv, Late, ShuttingDown
    <2> QED
      BY <1>2, <2>2, <2>4
  <1>5. CASE CloseThread(s)
    <2>1. /\ closeRequested' = TRUE /\ spc[s] = "close" /\ spc'[s] = "push_end"
          /\ UNCHANGED <<m_isRequestShutDown, m_state, m_taskQueue, asleep>>
      BY <1>5 DEF CloseThread, ShutGoes, TypeOK
    <2>2. TypeOK' /\ HeapInv'
      BY <1>1, <2>1 DEF TypeOK, ShutterPCs, HeapInv
    <2>3. \A u \in Shutters \ {s} : spc[u] \notin ShuttingDown
      BY <2>1 DEF OrderInv, ShuttingDown
    <2>4. OrderInv' /\ LateInv'
      BY <1>1, <2>1, <2>3 DEF OrderInv, LateInv, Late, ShuttingDown
    <2> QED
      BY <1>2, <2>2, <2>4
  <1>6. CASE PushEnd(s)
    <2>1. /\ m_taskQueue' = m_taskQueue \cup {EndPriorityTask} /\ asleep' \in BOOLEAN
          /\ spc[s] = "push_end" /\ spc'[s] = "requested"
          /\ UNCHANGED <<m_isRequestShutDown, m_state, closeRequested>>
      BY <1>6 DEF PushEnd, PushTask, NotifyIfEmpty, ShutGoes, TypeOK
    <2>2. TypeOK' /\ HeapInv'
      BY <1>1, <2>1 DEF TypeOK, ShutterPCs, HeapInv
    <2>3. \A u \in Shutters \ {s} : spc[u] \notin ShuttingDown
      BY <2>1 DEF OrderInv, ShuttingDown
    <2>4. OrderInv' /\ LateInv'
      BY <1>1, <2>1, <2>3 DEF OrderInv, LateInv, Late, ShuttingDown
    <2> QED
      BY <1>2, <2>2, <2>4
  <1>7. CASE ShutDownRequested(s) \/ AwaitTest(s) \/ AwaitNotified(s) \/ Join(s)
             \/ AwaitSpurious(s)
    <2>1. /\ UNCHANGED <<m_isRequestShutDown, m_state, closeRequested, m_taskQueue, asleep>>
          /\ spc'[s] = spc[s] \/ spc'[s] \notin ShuttingDown
      BY <1>7 DEF ShutDownRequested, AwaitTest, AwaitNotified, Join, AwaitSpurious, ShutGoes,
                  TypeOK, ShuttingDown, requestVars
    <2>2. TypeOK' /\ HeapInv'
      BY <1>1, <2>1 DEF TypeOK, ShutterPCs, HeapInv
    <2>3. OrderInv' /\ LateInv'
      BY <1>1, <2>1 DEF OrderInv, LateInv, Late, ShuttingDown
    <2> QED
      BY <1>2, <2>2, <2>3
  <1> QED
    BY <1>3, <1>4, <1>5, <1>6, <1>7 DEF ShutStep

(* Every step keeps the invariant. *)
LEMMA StepKeepsInv ==
    ASSUME IInv, [Next]_vars
    PROVE  IInv'
  <1>1. CASE UNCHANGED vars \/ Tick
    <2> USE DEF IInv
    <2>1. UNCHANGED <<m_runMode, heapVars, runVars, callVars, stateVars, requestVars>>
          /\ time' \in Nat
      BY <1>1 DEF vars, Tick, TypeOK
    <2> USE <2>1 DEF heapVars, runVars, callVars, stateVars, requestVars
    <2>2. TypeOK' /\ HeapInv' /\ BeforeInv'
      BY DEF TypeOK, HeapInv, BeforeInv
    <2>3. SmallerNumberFirst' /\ OrderInv' /\ LateInv'
      BY DEF SmallerNumberFirst, OrderInv, LateInv, Late
    <2> QED
      BY <2>2, <2>3
  <1>2. CASE Next /\ ~Tick
    BY <1>2, ThreadKeepsInv, AddKeepsInv, ShutKeepsInv DEF Next
  <1> QED
    BY <1>1, <1>2

(* IInv holds in every reachable state. *)
THEOREM SingleInvariance == Spec => []IInv
  BY InitInv, StepKeepsInv, PTL DEF Spec

(* For any tasks, priorities and shutdowns, the variables keep their types. *)
THEOREM SingleTypeCorrect == Spec => []TypeOK
  BY SingleInvariance, PTL DEF IInv

(* For any tasks and priorities, in the modes FIFO and PRIORITY: the smaller
   number begins first. *)
THEOREM SmallerNumberIsFirst == Spec => []SmallerNumberFirst
  BY SingleInvariance, PTL DEF IInv

(* GetTask sleeps only on an empty heap, however many callers push: every other
   push finds the thread awake. *)
THEOREM NoSleepOverTasks == Spec => []SleepsOnlyIfEmpty
  <1>1. Init => SleepsOnlyIfEmpty
    BY DEF Init, SleepsOnlyIfEmpty
  <1>2. SleepsOnlyIfEmpty /\ [Next]_vars => SleepsOnlyIfEmpty'
    <2> SUFFICES ASSUME SleepsOnlyIfEmpty, [Next]_vars PROVE SleepsOnlyIfEmpty'
      OBVIOUS
    <2>1. ASSUME NEW k, PushTask(k) PROVE SleepsOnlyIfEmpty'
      BY <2>1 DEF PushTask, NotifyIfEmpty, SleepsOnlyIfEmpty
    <2>2. CASE ThreadStep \/ ThreadSpurious \/ ThreadThrows
      BY <2>2 DEF ThreadStep, ThreadSpurious, ThreadThrows, ThreadCheck, ThreadSleep,
                  ThreadGetEnd, ThreadGet, ThreadRun, ThreadShutDown, ThreadNotify, heapVars,
                  SleepsOnlyIfEmpty, Empty
    <2>3. CASE UNCHANGED heapVars
      BY <2>3 DEF heapVars, SleepsOnlyIfEmpty, Empty
    <2>4. ASSUME NEW s \in Shutters, ShutDown(s) \/ ShutStep(s) \/ AwaitSpurious(s)
          PROVE  UNCHANGED heapVars \/ PushTask(EndPriorityTask)
      BY <2>4 DEF ShutDown, ShutStep, AwaitSpurious, SetStop, CloseThread, PushEnd,
                  ShutDownRequested, AwaitTest, AwaitNotified, Join
    <2>5. ASSUME NEW k \in Tasks, AddTask(k) \/ AddPush(k)
          PROVE  UNCHANGED heapVars \/ PushTask(k)
      BY <2>5 DEF AddTask, AddPush
    <2> QED
      BY <2>1, <2>2, <2>3, <2>4, <2>5 DEF Next, Tick, vars
  <1> QED
    BY <1>1, <1>2, PTL DEF Spec

\* Only ShutDownNow waits for SHUTDOWN.
WaitersInv ==
    /\ \A s \in Shutters : spc[s] \in {"test", "waiting"} => s \in Waiters
    /\ stateSleepers \subseteq Waiters

(* A ShutDownNow that waits alone is not left asleep: SHUTDOWN is set before the
   notification, a test that comes later does not sleep, and the one sleeper is
   the one that is woken. *)
THEOREM LoneWaiterIsNotified ==
    ASSUME \A s, u \in Waiters : s = u
    PROVE  Spec => []WaiterWillBeNotified
  <1> DEFINE J == WaitersInv /\ WaiterWillBeNotified
  <1>1. Init => J
    BY DEF Init, WaitersInv, WaiterWillBeNotified
  <1>2. IInv /\ J /\ [Next]_vars => J'
    <2> SUFFICES ASSUME IInv, J, [Next]_vars PROVE J'
      OBVIOUS
    <2>1. CASE UNCHANGED <<stateVars, spc, tpc>>
      BY <2>1 DEF WaitersInv, WaiterWillBeNotified, stateVars
    <2>2. CASE ThreadNotify /\ UNCHANGED NotOfThread
      <3>1. m_isRequestShutDown /\ UNCHANGED <<m_state, spc>> /\ stateSleepers' \subseteq stateSleepers
        BY <2>2 DEF ThreadNotify, ThreadGoes, IInv, LateInv, Late, OrderInv, NotOfThread,
                    requestVars
      <3>2. stateSleepers' = {}
        BY <2>2, <3>1 DEF ThreadNotify, MayNotify, WaitersInv
      <3> QED
        BY <3>1, <3>2 DEF WaitersInv, WaiterWillBeNotified
    <2>3. CASE ThreadStep \/ ThreadThrows \/ ThreadSpurious
      <3>1. CASE ThreadShutDown /\ UNCHANGED NotOfThread
        BY <3>1 DEF ThreadShutDown, ThreadGoes, NotOfThread, requestVars, WaitersInv,
                    WaiterWillBeNotified
      <3>2. CASE UNCHANGED <<stateVars, spc>> /\ tpc # "notify"
        BY <3>2 DEF WaitersInv, WaiterWillBeNotified, stateVars
      <3>3. CASE ThreadSpurious
        BY <2>1, <3>3 DEF ThreadSpurious, runVars, NotOfThread, requestVars
      <3> QED
        BY <2>2, <2>3, <3>1, <3>2, <3>3
        DEF ThreadStep, ThreadThrows, ThreadCheck, ThreadSleep, ThreadGetEnd, ThreadGet,
            ThreadRun, ThreadGoes, NotOfThread, requestVars
    <2>4. ASSUME NEW s \in Shutters, ShutDown(s) \/ ShutStep(s) \/ AwaitSpurious(s)
          PROVE  J'
      <3>1. /\ UNCHANGED tpc
            /\ m_state' = m_state \/ m_state' = "STOP"
            /\ stateSleepers' \subseteq stateSleepers
                  \/ (stateSleepers' = stateSleepers \cup {s} /\ spc[s] = "test"
                        /\ m_state # "SHUTDOWN")
        BY <2>4
        DEF ShutDown, ShutStep, AwaitSpurious, NotOfShutDown, runVars, SetStop, CloseThread,
            PushEnd, ShutDownRequested, AwaitTest, DoIsShutDown, AwaitNotified, Join, ShutGoes,
            stateVars
      <3>2. \A u \in Shutters : spc'[u] \in {"test", "waiting"} =>
               spc[u] \in {"test", "waiting"} \/ u \in Waiters
        BY <2>4
        DEF IInv, TypeOK, ShutDown, ShutStep, AwaitSpurious, requestVars, SetStop, CloseThread,
            PushEnd, ShutDownRequested, AwaitTest, AwaitNotified, Join, ShutGoes
      <3> QED
        BY <3>1, <3>2 DEF WaitersInv, WaiterWillBeNotified
    <2>5. CASE Tick \/ UNCHANGED vars \/ \E k \in Tasks : AddTask(k) \/ AddPush(k)
      BY <2>1, <2>5 DEF Tick, vars, AddTask, AddPush, runVars, requestVars
    <2> QED
      BY <2>3, <2>4, <2>5 DEF Next
  <1>3. J => WaiterWillBeNotified
    OBVIOUS
  <1> QED
    BY <1>1, <1>2, <1>3, SingleInvariance, PTL DEF Spec

-----------------------------------------------------------------------------
(* The single pool implements ThreadPool. *)

Stages == [k \in Tasks |-> Stage(k)]

(* A step that begins, ends and accepts no task. *)
LEMMA SameStages ==
    ASSUME UNCHANGED <<begun, task>>,
           \A k \in Tasks : apc'[k] = "accepted" <=> apc[k] = "accepted"
    PROVE  Stages' = Stages
  <1>1. \A k \in Tasks : Stage(k)' = Stage(k)
    BY DEF Stage
  <1> QED
    BY <1>1 DEF Stages

(* A step that changes the stage of one task. *)
LEMMA OneStage ==
    ASSUME NEW k \in Tasks, \A j \in Tasks \ {k} : Stage(j)' = Stage(j)
    PROVE  Stages' = [Stages EXCEPT ![k] = Stage(k)'] /\ Stages[k] = Stage(k)
  BY DEF Stages

(* ThreadGet begins a task that was accepted, before SHUTDOWN. *)
LEMMA GetIsBegin ==
    ASSUME IInv, ThreadGet, UNCHANGED NotOfThread
    PROVE  [Promise!Next]_Promise!vars
  <1> USE SingleThreadPoolAssumption DEF IInv, NotOfThread, callVars, stateVars
  <1>1. PICK k \in Top \cap Tasks : task' = k /\ begun' = begun \cup {k}
    BY DEF ThreadGet
  <1>2. tpc = "get" /\ UNCHANGED <<m_state, apc>>
    BY DEF ThreadGet, ThreadGoes
  <1>3. k \in m_taskQueue /\ k \notin begun /\ apc[k] = "accepted" /\ task = NoTask
    BY <1>1, <1>2 DEF Top, HeapInv
  <1>4. \A j \in Tasks \ {k} : Stage(j)' = Stage(j)
    BY <1>1, <1>2, <1>3 DEF Stage
  <1>5. Stage(k) = "accepted" /\ Stage(k)' = "running"
    BY <1>1, <1>2, <1>3 DEF Stage
  <1>6. Stages' = [Stages EXCEPT ![k] = "running"] /\ Stages[k] = "accepted"
    BY <1>4, <1>5, OneStage
  <1>7. m_state # "SHUTDOWN"
    BY <1>2 DEF LateInv
  <1> QED
    BY <1>2, <1>6, <1>7 DEF Promise!Next, Promise!Begin, Promise!Moves, Stages

(* A run that returns or throws ends its task. *)
LEMMA RunIsEnd ==
    ASSUME IInv, ThreadRun \/ ThreadThrows, UNCHANGED NotOfThread
    PROVE  [Promise!Next]_Promise!vars
  <1> USE SingleThreadPoolAssumption DEF IInv, NotOfThread, callVars, stateVars
  <1>1. tpc = "run" /\ task' = NoTask /\ UNCHANGED <<begun, m_state, apc>>
    BY DEF ThreadRun, ThreadThrows, ThreadGoes
  <1>2. PICK k \in Tasks : k = task /\ k \in begun
    BY <1>1 DEF HeapInv, TypeOK
  <1>3. \A j \in Tasks \ {k} : Stage(j)' = Stage(j)
    BY <1>1, <1>2 DEF Stage
  <1>4. Stage(k) = "running" /\ Stage(k)' = "ended"
    BY <1>1, <1>2 DEF Stage
  <1>5. Stages' = [Stages EXCEPT ![k] = "ended"] /\ Stages[k] = "running"
    BY <1>3, <1>4, OneStage
  <1> QED
    BY <1>1, <1>5 DEF Promise!Next, Promise!End, Promise!Moves, Stages

(* SHUTDOWN is announced by the thread, when it runs no task. *)
LEMMA ThreadKeepsPromise ==
    ASSUME IInv, ThreadStep \/ ThreadThrows \/ ThreadSpurious
    PROVE  [Promise!Next]_Promise!vars
  <1>1. UNCHANGED NotOfThread
    BY DEF ThreadStep, ThreadThrows, ThreadSpurious
  <1>2. CASE ThreadShutDown
    <2>1. tpc = "stop" /\ m_state' = "SHUTDOWN" /\ UNCHANGED <<begun, task>>
      BY <1>2 DEF ThreadShutDown, ThreadGoes
    <2>2. Stages' = Stages
      BY <1>1, <2>1, SameStages DEF NotOfThread, callVars
    <2>3. task = NoTask /\ m_state = "STOP"
      BY <2>1 DEF IInv, TypeOK, HeapInv, LateInv, Late
    <2>4. \A k \in Tasks : Stages[k] # "running"
      BY <2>3, SingleThreadPoolAssumption DEF Stages, Stage
    <2> QED
      BY <2>1, <2>2, <2>3, <2>4 DEF Promise!Next, Promise!Finish, Stages
  <1>3. CASE ThreadCheck \/ ThreadSleep \/ ThreadGetEnd \/ ThreadNotify \/ ThreadSpurious
    <2>1. UNCHANGED <<begun, task, m_state>>
      BY <1>3 DEF ThreadCheck, ThreadSleep, ThreadGetEnd, ThreadNotify, ThreadSpurious, runVars,
                  stateVars
    <2>2. Stages' = Stages
      BY <1>1, <2>1, SameStages DEF NotOfThread, callVars
    <2> QED
      BY <2>1, <2>2 DEF Promise!vars, Stages
  <1> QED
    BY <1>1, <1>2, <1>3, GetIsBegin, RunIsEnd DEF ThreadStep

(* AddPush accepts a task. *)
LEMMA AddKeepsPromise ==
    ASSUME IInv, NEW k \in Tasks, AddTask(k) \/ AddPush(k)
    PROVE  [Promise!Next]_Promise!vars
  <1> USE DEF AddGoes
  <1>1. UNCHANGED <<begun, task, m_state>>
    BY DEF AddTask, AddPush, runVars, stateVars
  <1>2. CASE AddTask(k)
    <2>1. \A j \in Tasks : apc'[j] = "accepted" <=> apc[j] = "accepted"
      BY <1>2 DEF AddTask, IInv, TypeOK
    <2>2. Stages' = Stages
      BY <1>1, <2>1, SameStages
    <2> QED
      BY <1>1, <2>2 DEF Promise!vars, Stages
  <1>3. CASE AddPush(k)
    <2>1. apc[k] = "push" /\ apc'[k] = "accepted" /\ \A j \in Tasks \ {k} : apc'[j] = apc[j]
      BY <1>3 DEF AddPush, IInv, TypeOK
    <2>2. k \notin begun
      BY <2>1 DEF IInv, HeapInv
    <2>3. Stage(k) = "outside" /\ Stage(k)' = "accepted"
      BY <1>1, <2>1, <2>2 DEF Stage
    <2>4. \A j \in Tasks \ {k} : Stage(j)' = Stage(j)
      BY <1>1, <2>1 DEF Stage
    <2>5. Stages' = [Stages EXCEPT ![k] = "accepted"] /\ Stages[k] = "outside"
      BY <2>3, <2>4, OneStage
    <2> QED
      BY <1>1, <2>5 DEF Promise!Next, Promise!Accept, Promise!Moves, Stages
  <1> QED
    BY <1>2, <1>3

(* SetState(STOP) comes while the pool says RUNNING. *)
LEMMA ShutDownKeepsPromise ==
    ASSUME IInv, NEW s \in Shutters, ShutDown(s) \/ ShutStep(s) \/ AwaitSpurious(s)
    PROVE  [Promise!Next]_Promise!vars
  <1>1. UNCHANGED <<begun, task, apc>>
    BY ShutMoves DEF IInv, NotOfShutDown, runVars, callVars
  <1>2. Stages' = Stages
    BY <1>1, SameStages
  <1>3. CASE SetStop(s)
    <2>1. m_state = "RUNNING" /\ m_state' = "STOP"
      BY <1>3 DEF SetStop, ShutGoes, IInv, OrderInv
    <2> QED
      BY <1>2, <2>1 DEF Promise!Next, Promise!Stop, Stages
  <1>4. CASE ~SetStop(s)
    <2>1. UNCHANGED m_state
      BY <1>4 DEF ShutDown, ShutStep, CloseThread, PushEnd, ShutDownRequested, AwaitTest,
                  AwaitNotified, Join, AwaitSpurious, stateVars
    <2> QED
      BY <1>2, <2>1 DEF Promise!vars, Stages
  <1> QED
    BY <1>3, <1>4

(* For any tasks, priorities and shutdowns, in every mode, with tasks that throw:
   the single pool implements ThreadPool. *)
THEOREM SinglePoolKeepsPromise == Spec => ImplementsThreadPool
  <1>1. Init => Promise!Init
    BY DEF Init, Stage, Promise!Init, Promise!TasksInit
  <1>2. IInv /\ [Next]_vars => [Promise!Next]_Promise!vars
    <2> SUFFICES ASSUME IInv, [Next]_vars PROVE [Promise!Next]_Promise!vars
      OBVIOUS
    <2>1. CASE UNCHANGED vars \/ Tick
      <3>1. UNCHANGED <<begun, task, apc, m_state>>
        BY <2>1 DEF vars, Tick, runVars, callVars, stateVars
      <3>2. Stages' = Stages
        BY <3>1, SameStages
      <3> QED
        BY <3>1, <3>2 DEF Promise!vars, Stages
    <2>2. CASE Next /\ ~Tick
      BY <2>2, ThreadKeepsPromise, AddKeepsPromise, ShutDownKeepsPromise DEF Next
    <2> QED
      BY <2>1, <2>2
  <1> QED
    BY <1>1, <1>2, SingleInvariance, PTL DEF Spec, ImplementsThreadPool, Promise!Spec
=============================================================================
