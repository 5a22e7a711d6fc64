--------------------- MODULE ScheduledThreadPoolProofs ---------------------
(***************************************************************************)
(* A ScheduledThreadPool uses its handlers as any caller may, so what is   *)
(* true of TimerTaskHandlers is true of those of a pool; and the shutdown  *)
(* that waits has waited for every one of them.                            *)
(*                                                                         *)
(* ShutDownNowWaits needs to know that the shutter that found the pool     *)
(* open is alone in the loop (OneWinner, DestructorAlone): no handler it   *)
(* comes to has been asked before (LoopInv), so that each of its calls     *)
(* really waits for the thread.  ShutDownReachesAll takes from the same    *)
(* facts that each call has told the thread to close (ReachInv), and from  *)
(* the timers that such a thread is awake.                                 *)
(***************************************************************************)
EXTENDS ScheduledThreadPool, TimerTaskHandlerProofs

Gone(h) == hpc[h] \in {"exited", "thrown"}

\* Nobody has begun a shutdown.
OpenInv ==
    ~isRequestShutDown =>
        winner = {} /\ m_isRequestShutDown = {} /\ \A s \in Shutters : ppc[s] = "idle"

OneWinner ==
    /\ \A s, u \in winner : s = u
    /\ \A s \in winner : ppc[s] # "idle"
    /\ \A s \in Shutters : ppc[s] \in {"set_stop", "loop"} => s \in winner

\* The destructor runs alone, and only it destroys and joins.
DestructorAlone ==
    /\ \A s \in Shutters : ppc[s] \in {"destroy", "join"} => s = Destructor
    /\ \A s, u \in Shutters :
          s = Destructor /\ u # s /\ ppc[s] # "idle" => ppc[u] \in {"idle", "returned"}

\* Inside the call of a handler, the handler is the one the loop has come to.
CallInv ==
    \A s \in Shutters :
        /\ spc[s] # "idle" => ppc[s] \in {"loop", "join"} /\ target[s] = current[s]
        /\ ppc[s] \in {"idle", "set_stop"} => current[s] = 0
        /\ ppc[s] = "join" => current[s] > 0

\* The loop of the winner has asked the handlers it went through, and no others.
LoopInv ==
    \A s \in Shutters :
        /\ ppc[s] = "set_stop" => m_isRequestShutDown = {}
        /\ ppc[s] = "loop" => \A h \in m_isRequestShutDown : h <= current[s]
        /\ ppc[s] = "loop" /\ spc[s] = "request" => current[s] \notin m_isRequestShutDown
        /\ ppc[s] = "loop" /\ s \in Waiters =>
              \A h \in Handlers :
                  h < current[s] \/ (h = current[s] /\ spc[s] = "idle") => hpc[h] = "exited"

\* The destructor has joined the handlers it went through.
DestroyInv ==
    \A s \in Shutters :
        /\ ppc[s] \in {"destroy", "returned"} /\ s = Destructor =>
              \A h \in Handlers : h <= current[s] => Gone(h)
        /\ ppc[s] = "join" => \A h \in Handlers : h < current[s] => Gone(h)
        /\ ppc[s] = "returned" /\ s = Destructor => current[s] = ThreadNum

WaitedInv ==
    \A s \in winner \cap Waiters :
        ppc[s] = "returned" => \A h \in Handlers : hpc[h] = "exited"

PoolInv ==
    /\ TypeOK
    /\ OpenInv
    /\ OneWinner
    /\ DestructorAlone
    /\ CallInv
    /\ LoopInv
    /\ DestroyInv
    /\ WaitedInv

(* Every step of the pool is a step of its handlers or leaves them alone. *)
LEMMA PoolStepIsTimerStep ==
    ASSUME TypeOK, [Next]_vars
    PROVE  [TimerNext]_timerVars
  <1>1. CASE UNCHANGED vars
    BY <1>1 DEF vars
  <1>2. CASE TimerEnvironment \/ TimerStep
    BY <1>2 DEF TimerNext
  <1>3. ASSUME NEW a \in Adders, AddTimerTask(a) PROVE TimerNext
    <2>1. NextHandler \in Handlers
      BY TimerAssumption DEF TypeOK, Handlers, NextHandler
    <2> QED
      BY <1>3, <2>1 DEF AddTimerTask, TimerNext
  <1>4. ASSUME NEW s \in Shutters, ShutDownHandler(s) \/ DestroyHandler(s) PROVE TimerNext
    <2>1. current[s] + 1 \in Handlers
      BY <1>4, TimerAssumption DEF TypeOK, Handlers, ShutDownHandler, DestroyHandler
    <2> QED
      BY <1>4, <2>1 DEF ShutDownHandler, DestroyHandler, TimerNext
  <1>5. ASSUME NEW s \in Shutters, ShutDown(s) \/ SetStop(s) \/ SetShutDown(s) \/ Join(s)
        PROVE  UNCHANGED timerVars
    BY <1>5 DEF ShutDown, SetStop, SetShutDown, Join
  <1> QED
    BY <1>1, <1>2, <1>3, <1>4, <1>5 DEF Next, PoolStep

(* A timer thread that is gone stays so. *)
LEMMA GoneStays ==
    ASSUME TimerTypeOK, [TimerNext]_timerVars, NEW g \in Handlers, Gone(g)
    PROVE  hpc'[g] = hpc[g]
  <1>1. ASSUME NEW h \in Handlers,
               ThreadStep(h) \/ SpuriousWakeup(h) \/ RunCancelled(h) \/ RunThrows(h)
        PROVE  hpc'[g] = hpc[g]
    <2>1. hpc[h] \notin {"exited", "thrown"} /\ \E to : hpc' = [hpc EXCEPT ![h] = to]
      BY <1>1 DEF ThreadStep, SpuriousWakeup, RunCancelled, RunThrows, CheckClose, SleepEmpty,
                  DropCancelled, FireRequested, FireCycle, PopMinAndPush, FireOnce,
                  FireEnd, ComputeDelay,
                  TimedWait, TimedOut, RunCheck, RunReturns, ThreadGoes
    <2> QED
      BY <2>1 DEF TimerTypeOK, Gone
  <1>2. ASSUME NEW a \in Adders, AddStep(a) PROVE hpc'[g] = hpc[g]
    BY <1>2 DEF AddStep, AddPasses, AddRefused, AddSetDeadline, AddSetInterval, AddPush, PushTask,
                Notifies, TimerTypeOK, threadVars, Gone
  <1>3. ASSUME NEW s \in Shutters, ShutStep(s) PROVE hpc'[g] = hpc[g]
    BY <1>3 DEF ShutStep, Request, PushEnd, CloseThread, Waits, Closed, PushTask, Notifies,
                TimerTypeOK,
                threadVars, Gone
  <1>4. CASE \/ UNCHANGED timerVars \/ Tick
             \/ \E k \in Cancellable : Cancel(k)
             \/ \E a \in Adders, h \in Handlers : CallAdd(a, h)
             \/ \E s \in Shutters, h \in Handlers : CallShutDown(s, h)
    BY <1>4 DEF timerVars, threadVars, Tick, Cancel, CallAdd, CallShutDown
  <1> QED
    BY <1>1, <1>2, <1>3, <1>4 DEF TimerNext, TimerEnvironment, TimerStep

(* Only shutters change what a shutdown is about. *)
LEMMA OthersLeaveShutVars ==
    ASSUME \/ TimerEnvironment
           \/ \E h \in Handlers : ThreadStep(h)
           \/ \E a \in Adders : AddStep(a)
    PROVE  UNCHANGED shutVars
  <1>1. CASE TimerEnvironment
    BY <1>1 DEF TimerEnvironment, Tick, SpuriousWakeup, RunCancelled, RunThrows, Cancel
  <1>2. ASSUME NEW h \in Handlers, ThreadStep(h) PROVE UNCHANGED shutVars
    BY <1>2 DEF ThreadStep, CheckClose, SleepEmpty, DropCancelled, FireRequested, FireCycle,
                PopMinAndPush,
                FireOnce, FireEnd, ComputeDelay, TimedWait, TimedOut, RunCheck, RunReturns
  <1>3. ASSUME NEW a \in Adders, AddStep(a) PROVE UNCHANGED shutVars
    BY <1>3 DEF AddStep, AddPasses, AddRefused, AddSetDeadline, AddSetInterval, AddPush
  <1> QED
    BY <1>1, <1>2, <1>3

(* Steps that leave the shutdown alone: threads that are gone stay so. *)
LEMMA OthersKeepInv ==
    ASSUME PoolInv, TimerTypeOK', m_index' \in Nat,
           UNCHANGED <<shutVars, m_state, isRequestShutDown, ppc, current, winner>>,
           \A g \in Handlers : Gone(g) => hpc'[g] = hpc[g]
    PROVE  PoolInv'
  <1> USE DEF PoolInv, shutVars
  <1>1. TypeOK'
    BY DEF TypeOK
  <1>2. OpenInv' /\ OneWinner' /\ DestructorAlone' /\ CallInv'
    BY DEF OpenInv, OneWinner, DestructorAlone, CallInv
  <1>3. LoopInv'
    BY DEF LoopInv, Gone
  <1>4. DestroyInv' /\ WaitedInv'
    BY DEF DestroyInv, WaitedInv, Gone
  <1> QED
    BY <1>1, <1>2, <1>3, <1>4

(* A step inside ShutDownHelper of a handler: only the winner's loop and the
   destructor are there, never both. *)
LEMMA HandlerCallKeepsInv ==
    ASSUME PoolInv, TimerTypeOK', NEW s \in Shutters, ShutStep(s), UNCHANGED poolVars,
           \A g \in Handlers : Gone(g) => hpc'[g] = hpc[g]
    PROVE  PoolInv'
  <1> USE DEF PoolInv, poolVars
  <1>1. TypeOK'
    BY DEF TypeOK
  <1>2. /\ target' = target /\ spc[s] # "idle"
        /\ \E to : spc' = [spc EXCEPT ![s] = to]
        /\ m_isRequestShutDown' \in {m_isRequestShutDown, m_isRequestShutDown \cup {target[s]}}
    BY DEF ShutStep, Request, PushEnd, CloseThread, Waits, Closed, ShutGoes
  <1>3. ppc[s] \in {"loop", "join"} /\ target[s] = current[s]
    BY <1>2 DEF CallInv
  <1>4. isRequestShutDown
    BY <1>3 DEF OpenInv
  <1>5. OpenInv' /\ OneWinner' /\ DestructorAlone'
    BY <1>4 DEF OpenInv, OneWinner, DestructorAlone, TypeOK
  <1>6. CallInv'
    BY <1>2, <1>3 DEF CallInv, TypeOK, TimerTypeOK
  <1>7. DestroyInv' /\ WaitedInv'
    BY DEF DestroyInv, WaitedInv, Gone
  <1>8. \A u \in Shutters : ppc[u] \in {"set_stop", "loop"} => u = s /\ ppc[s] = "loop"
    BY <1>3 DEF OneWinner, DestructorAlone, TypeOK
  <1>9. LoopInv'
    <2>1. ASSUME NEW u \in Shutters, u # s, ppc[u] \in {"set_stop", "loop"} PROVE FALSE
      BY <1>8, <2>1
    <2>2. CASE Request(s)
      <3>1. hpc' = hpc /\ current' = current /\ ppc' = ppc
        BY <2>2 DEF Request, threadVars
      <3>2. ppc[s] = "loop" => spc'[s] = "push_end"
        BY <1>3, <2>2 DEF LoopInv, Request, ShutGoes, TypeOK, TimerTypeOK
      <3>3. m_isRequestShutDown' = m_isRequestShutDown \cup {current[s]}
        BY <1>3, <2>2 DEF Request
      <3>4. ppc[s] = "loop" => \A h \in m_isRequestShutDown' : h <= current[s]
        BY <3>3, <1>1 DEF LoopInv, TypeOK
      <3>5. ppc[s] = "loop" /\ s \in Waiters =>
              \A h \in Handlers : h < current[s] => hpc[h] = "exited"
        BY DEF LoopInv
      <3>6. ASSUME NEW u \in Shutters, ppc[u] \in {"set_stop", "loop"} PROVE u = s
        BY <1>8, <3>6
      <3>7. ppc[s] # "set_stop"
        BY <1>3
      <3> QED
        BY <3>1, <3>2, <3>4, <3>5, <3>6, <3>7 DEF LoopInv
    <2>3. CASE PushEnd(s)
      BY <1>3, <2>1, <2>3 DEF LoopInv, PushEnd, ShutGoes, TypeOK, TimerTypeOK, Handlers, Gone
    <2>4. CASE CloseThread(s)
      BY <1>3, <2>1, <2>4 DEF LoopInv, CloseThread, Waits, ShutGoes, TypeOK, TimerTypeOK, threadVars
    <2>5. CASE Closed(s)
      BY <1>3, <2>1, <2>5 DEF LoopInv, Closed, ShutGoes, TypeOK, TimerTypeOK, threadVars
    <2> QED
      BY <2>2, <2>3, <2>4, <2>5 DEF ShutStep
  <1> QED
    BY <1>1, <1>5, <1>6, <1>7, <1>9

(* What the pool itself does: each of its calls goes on as its place in the
   call lets it. *)
LEMMA PoolActionKeepsInv ==
    ASSUME PoolInv, TimerTypeOK', NEW s \in Shutters, ShutDown(s) \/ PoolStep(s)
    PROVE  PoolInv'
  <1> USE TimerAssumption, ScheduledThreadPoolAssumption DEF PoolInv
  <1>1. TypeOK /\ TimerTypeOK /\ TypeOK'
    <2>1. CASE ShutDown(s) \/ SetStop(s) \/ SetShutDown(s) \/ Join(s)
      <3>1. isRequestShutDown' \in BOOLEAN
        BY <2>1 DEF TypeOK, ShutDown, SetStop, SetShutDown, Join
      <3> QED
        BY <2>1, <3>1 DEF TypeOK, ShutDown, ShutDownReturns, SetStop, SetShutDown, Join, PoolGoes
    <2>2. CASE ShutDownHandler(s) \/ DestroyHandler(s)
      BY <2>2 DEF TypeOK, ShutDownHandler, DestroyHandler, PoolGoes
    <2> QED
      BY <2>1, <2>2 DEF PoolStep, TypeOK
  <1>2. CASE ShutDown(s)
    <2>1. ppc[s] = "idle" /\ spc[s] = "idle" /\ current[s] = 0 /\ isRequestShutDown'
      BY <1>2, <1>1 DEF ShutDown, PoolGoes, CallInv
    <2>2. UNCHANGED <<hpc, spc, target, current, m_isRequestShutDown>>
      BY <1>2 DEF ShutDown, timerVars, threadVars, shutVars
    <2>3. CASE isRequestShutDown
      <3>1. winner' = winner /\ s \notin winner /\ ppc' = [ppc EXCEPT ![s] = ShutDownReturns(s)]
        BY <1>2, <2>1, <2>3 DEF ShutDown, PoolGoes, OneWinner
      <3>2. OpenInv' /\ OneWinner'
        BY <1>1, <2>1, <3>1 DEF OpenInv, OneWinner, TypeOK, ShutDownReturns
      <3>3. DestructorAlone'
        BY <1>1, <1>2, <3>1 DEF DestructorAlone, TypeOK, ShutDownReturns, ShutDown, MayShutDown,
                                Usable
      <3>4. CallInv' /\ LoopInv'
        BY <1>1, <2>1, <2>2, <3>1 DEF CallInv, LoopInv, TypeOK, ShutDownReturns
      <3>5. DestroyInv' /\ WaitedInv'
        BY <1>1, <2>1, <2>2, <3>1 DEF DestroyInv, WaitedInv, TypeOK, ShutDownReturns, Gone, Handlers
      <3> QED
        BY <1>1, <3>2, <3>3, <3>4, <3>5
    <2>4. CASE ~isRequestShutDown
      <3>1. winner' = {s} /\ ppc' = [ppc EXCEPT ![s] = "set_stop"]
        BY <1>2, <2>4 DEF ShutDown, PoolGoes
      <3>2. m_isRequestShutDown = {} /\ \A u \in Shutters : ppc[u] = "idle"
        BY <2>4 DEF OpenInv
      <3>3. OpenInv' /\ OneWinner' /\ DestructorAlone'
        BY <1>1, <2>1, <3>1, <3>2 DEF OpenInv, OneWinner, DestructorAlone, TypeOK
      <3>4. CallInv' /\ LoopInv'
        BY <1>1, <2>1, <2>2, <3>1, <3>2 DEF CallInv, LoopInv, TypeOK
      <3>5. DestroyInv' /\ WaitedInv'
        BY <1>1, <2>2, <3>1, <3>2 DEF DestroyInv, WaitedInv, TypeOK
      <3> QED
        BY <1>1, <3>3, <3>4, <3>5
    <2> QED
      BY <1>1, <2>3, <2>4 DEF TypeOK
  <1>3. ASSUME NEW to \in {"loop", "destroy", "join", "returned"},
               ppc[s] # "idle", ppc' = [ppc EXCEPT ![s] = to],
               to = "loop" => ppc[s] \in {"set_stop", "loop"},
               to \in {"destroy", "join"} => s = Destructor,
               UNCHANGED <<isRequestShutDown, winner, m_isRequestShutDown>>
        PROVE  OpenInv' /\ OneWinner' /\ DestructorAlone'
    <2>1. OpenInv'
      BY <1>1, <1>3 DEF OpenInv, TypeOK
    <2>2. OneWinner'
      BY <1>1, <1>3 DEF OneWinner, TypeOK
    <2>3. DestructorAlone'
      BY <1>1, <1>3 DEF DestructorAlone, TypeOK
    <2> QED
      BY <2>1, <2>2, <2>3
  <1>4. \A u \in Shutters \ {s} :
            ppc[s] \in {"set_stop", "loop"} => ppc[u] \notin {"set_stop", "loop"}
    BY DEF OneWinner
  <1>5. CASE SetStop(s)
    <2>1. /\ ppc[s] = "set_stop" /\ ppc' = [ppc EXCEPT ![s] = "loop"]
          /\ UNCHANGED <<hpc, spc, target, current, m_isRequestShutDown, isRequestShutDown, winner>>
      BY <1>5 DEF SetStop, PoolGoes, timerVars, threadVars, shutVars
    <2>2. spc[s] = "idle" /\ current[s] = 0
      BY <2>1 DEF CallInv
    <2>3. OpenInv' /\ OneWinner' /\ DestructorAlone'
      BY <1>3, <2>1
    <2>4. CallInv' /\ LoopInv'
      BY <1>1, <1>4, <2>1, <2>2 DEF CallInv, LoopInv, TypeOK, Handlers
    <2>5. DestroyInv' /\ WaitedInv'
      BY <1>1, <2>1 DEF DestroyInv, WaitedInv, TypeOK, Gone
    <2> QED
      BY <1>1, <2>3, <2>4, <2>5
  <1>6. CASE ShutDownHandler(s)
    <2>1. /\ ppc[s] = "loop" /\ ppc' = ppc /\ spc[s] = "idle"
          /\ current[s] < ThreadNum
          /\ current' = [current EXCEPT ![s] = @ + 1]
          /\ spc' = [spc EXCEPT ![s] = "request"]
          /\ target' = [target EXCEPT ![s] = current[s] + 1]
          /\ UNCHANGED <<hpc, m_isRequestShutDown, isRequestShutDown, winner>>
      BY <1>1, <1>6 DEF ShutDownHandler, PoolGoes, CallShutDown, ShutGoes, threadVars, TypeOK
    <2>2. OpenInv' /\ OneWinner' /\ DestructorAlone'
      BY <2>1 DEF OpenInv, OneWinner, DestructorAlone
    <2>3. CallInv'
      BY <1>1, <2>1 DEF CallInv, TypeOK, TimerTypeOK
    <2>4. LoopInv'
      <3>1. ASSUME NEW u \in Shutters, u # s PROVE ppc[u] \notin {"set_stop", "loop"}
        BY <1>4, <2>1, <3>1
      <3>2. current'[s] = current[s] + 1 /\ spc'[s] = "request" /\ current[s] \in Nat
        BY <1>1, <2>1 DEF TypeOK, TimerTypeOK
      <3>3. m_isRequestShutDown \subseteq Handlers
        BY <1>1 DEF TimerTypeOK
      <3> QED
        BY <2>1, <3>1, <3>2, <3>3 DEF LoopInv, Handlers
    <2>5. DestroyInv' /\ WaitedInv'
      BY <1>1, <2>1 DEF DestroyInv, WaitedInv, TypeOK, Gone
    <2> QED
      BY <1>1, <2>2, <2>3, <2>4, <2>5
  <1>7. CASE SetShutDown(s)
    <2>1. /\ ppc[s] = "loop" /\ ppc' = [ppc EXCEPT ![s] = ShutDownReturns(s)]
          /\ spc[s] = "idle"
          /\ current[s] = ThreadNum
          /\ current' = [current EXCEPT ![s] = 0]
          /\ UNCHANGED <<hpc, spc, target, m_isRequestShutDown, isRequestShutDown, winner>>
      BY <1>7 DEF SetShutDown, PoolGoes, timerVars, threadVars, shutVars
    <2>2. ShutDownReturns(s) \in {"destroy", "returned"}
            /\ (ShutDownReturns(s) = "destroy" <=> s = Destructor)
      BY DEF ShutDownReturns
    <2>3. OpenInv' /\ OneWinner' /\ DestructorAlone'
      BY <1>3, <2>1, <2>2
    <2>4. CallInv' /\ LoopInv'
      BY <1>1, <2>1, <2>2 DEF CallInv, LoopInv, TypeOK
    <2>5. DestroyInv'
      BY <1>1, <2>1, <2>2 DEF DestroyInv, TypeOK, Handlers, Gone
    <2>6. WaitedInv'
      <3>1. s \in Waiters => \A h \in Handlers : hpc[h] = "exited"
        BY <2>1 DEF LoopInv, Handlers
      <3> QED
        BY <1>1, <2>1, <3>1 DEF WaitedInv, TypeOK
    <2> QED
      BY <1>1, <2>3, <2>4, <2>5, <2>6
  <1>8. CASE DestroyHandler(s)
    <2>1. /\ ppc[s] = "destroy" /\ ppc' = [ppc EXCEPT ![s] = "join"]
          /\ spc[s] = "idle"
          /\ current[s] < ThreadNum
          /\ current' = [current EXCEPT ![s] = @ + 1]
          /\ spc' = [spc EXCEPT ![s] = "request"]
          /\ target' = [target EXCEPT ![s] = current[s] + 1]
          /\ UNCHANGED <<hpc, m_isRequestShutDown, isRequestShutDown, winner>>
      BY <1>8 DEF DestroyHandler, PoolGoes, CallShutDown, ShutGoes, threadVars
    <2>2. s = Destructor
      BY <2>1 DEF DestructorAlone
    <2>3. OpenInv' /\ OneWinner' /\ DestructorAlone'
      BY <1>3, <2>1, <2>2
    <2>4. CallInv'
      BY <1>1, <2>1 DEF CallInv, TypeOK, TimerTypeOK
    <2>5. LoopInv'
      BY <1>1, <2>1, <2>2 DEF LoopInv, DestructorAlone, TypeOK
    <2>6. DestroyInv' /\ WaitedInv'
      BY <1>1, <2>1, <2>2 DEF DestroyInv, WaitedInv, TypeOK, Handlers, Gone
    <2> QED
      BY <1>1, <2>3, <2>4, <2>5, <2>6
  <1>9. CASE Join(s)
    <2> DEFINE to == IF current[s] = ThreadNum THEN "returned" ELSE "destroy"
    <2>1. /\ ppc[s] = "join" /\ ppc' = [ppc EXCEPT ![s] = to]
          /\ spc[s] = "idle"
          /\ Gone(current[s])
          /\ UNCHANGED <<hpc, spc, target, current, m_isRequestShutDown, isRequestShutDown, winner>>
      BY <1>9 DEF Join, PoolGoes, timerVars, threadVars, shutVars, Gone
    <2>2. s = Destructor
      BY <2>1 DEF DestructorAlone
    <2>3. OpenInv' /\ OneWinner' /\ DestructorAlone'
      BY <1>3, <2>1, <2>2
    <2>4. CallInv' /\ LoopInv'
      BY <1>1, <2>1 DEF CallInv, LoopInv, TypeOK
    <2>5. DestroyInv'
      <3>1. \A h \in Handlers : h <= current[s] => Gone(h)
        BY <1>1, <2>1 DEF DestroyInv, TypeOK, Handlers
      <3>2. ppc'[s] = to /\ \A u \in Shutters : u # s => ppc'[u] = ppc[u]
        BY <1>1, <2>1 DEF TypeOK
      <3> QED
        BY <1>1, <2>1, <2>2, <3>1, <3>2 DEF DestroyInv, TypeOK, Gone
    <2>6. WaitedInv'
      BY <1>1, <2>1, <2>2 DEF WaitedInv, TypeOK
    <2> QED
      BY <1>1, <2>3, <2>4, <2>5, <2>6
  <1> QED
    BY <1>2, <1>5, <1>6, <1>7, <1>8, <1>9 DEF PoolStep

LEMMA PoolInitHasInv ==
    ASSUME Init
    PROVE  IInv /\ PoolInv
  <1>1. TimerInit
    BY DEF Init
  <1>2. IInv
    BY <1>1, InitHasInv
  <1>3. TypeOK
    <2>1. isRequestShutDown \in BOOLEAN
      BY DEF Init
    <2>2. ppc \in [Shutters -> {"idle"}] /\ current \in [Shutters -> {0}]
      BY DEF Init
    <2> QED
      BY <1>2, <2>1, <2>2, TimerAssumption DEF Init, TypeOK, IInv
  <1>4. OpenInv /\ OneWinner /\ DestructorAlone /\ CallInv /\ LoopInv /\ DestroyInv /\ WaitedInv
    BY DEF Init, TimerInit, OpenInv, OneWinner, DestructorAlone, CallInv, LoopInv, DestroyInv,
           WaitedInv
  <1> QED
    BY <1>2, <1>3, <1>4 DEF PoolInv

LEMMA PoolStepKeepsInv ==
    ASSUME IInv, PoolInv, [Next]_vars
    PROVE  IInv' /\ PoolInv'
  <1>1. [TimerNext]_timerVars /\ TimerTypeOK
    BY PoolStepIsTimerStep DEF PoolInv, TypeOK
  <1>2. IInv' /\ TimerTypeOK'
    BY <1>1, StepKeepsInv DEF IInv
  <1>3. \A g \in Handlers : Gone(g) => hpc'[g] = hpc[g]
    BY <1>1, GoneStays
  <1>4. CASE UNCHANGED vars
    BY <1>2, <1>3, <1>4, OthersKeepInv DEF vars, timerVars, poolVars, PoolInv, TypeOK
  <1>5. CASE UNCHANGED poolVars /\ (\/ TimerEnvironment
                                    \/ \E h \in Handlers : ThreadStep(h)
                                    \/ \E a \in Adders : AddStep(a))
    <2>1. UNCHANGED shutVars
      BY <1>5, OthersLeaveShutVars
    <2> QED
      BY <1>2, <1>3, <1>5, <2>1, OthersKeepInv DEF poolVars, PoolInv, TypeOK
  <1>6. ASSUME NEW s \in Shutters, ShutStep(s), UNCHANGED poolVars PROVE PoolInv'
    BY <1>2, <1>3, <1>6, HandlerCallKeepsInv
  <1>7. ASSUME NEW a \in Adders, AddTimerTask(a) PROVE PoolInv'
    BY <1>2, <1>3, <1>7, OthersKeepInv DEF AddTimerTask, CallAdd, PoolInv, TypeOK
  <1>8. ASSUME NEW s \in Shutters, ShutDown(s) \/ PoolStep(s) PROVE PoolInv'
    BY <1>2, <1>8, PoolActionKeepsInv
  <1> QED
    BY <1>2, <1>4, <1>5, <1>6, <1>7, <1>8 DEF Next, TimerStep

THEOREM PoolInvariance == Spec => [](IInv /\ PoolInv)
  BY PoolInitHasInv, PoolStepKeepsInv, PTL DEF Spec

(* The pool does with its handlers what any caller may do: what is proved of
   TimerTaskHandlers holds of those of a pool. *)
LEMMA PoolUsesTimers == Spec => TimerSpec
  <1>1. Init => TimerInit
    BY DEF Init
  <1>2. TypeOK /\ [Next]_vars => [TimerNext]_timerVars
    BY PoolStepIsTimerStep
  <1>3. IInv /\ PoolInv => TypeOK
    BY DEF PoolInv
  <1> QED
    BY <1>1, <1>2, <1>3, PoolInvariance, PTL DEF Spec, TimerSpec

(* In a pool, too, a task that is not raced runs on one thread at a time, not
   before its time and not when it is CANCELLED, although its callers choose no
   handler and two of them may be given different ones. *)
THEOREM PoolRunsTasksOnce == Spec => [](OneThreadPerTask /\ NeverEarly /\ CancelledNeverRuns)
  BY PoolUsesTimers, RunsOnOneThread, NotBeforeDeadline, CancelledStayAway, PTL

(* The type invariant of the pool: in particular, the loops over the handlers
   stay among them. *)
THEOREM PoolTypeCorrect == Spec => []TypeOK
  <1>1. IInv /\ PoolInv => TypeOK
    BY DEF PoolInv
  <1> QED
    BY <1>1, PoolInvariance, PTL

(* When the ShutDownNow that shut the pool down has returned, and when the
   destructor has, every timer thread has ended. *)
THEOREM ShutDownNowHasWaited == Spec => []ShutDownNowWaits
  <1>1. IInv /\ PoolInv => ShutDownNowWaits
    <2> SUFFICES ASSUME PoolInv, NEW s \in Shutters, ppc[s] = "returned",
                        s \in winner \cap Waiters \/ s = Destructor,
                        NEW h \in Handlers
                 PROVE  hpc[h] = "exited" \/ Thrown(h)
      BY DEF ShutDownNowWaits
    <2>1. CASE s \in winner \cap Waiters
      BY <2>1 DEF PoolInv, WaitedInv
    <2>2. CASE s = Destructor
      BY <2>2 DEF PoolInv, DestroyInv, Handlers, Gone, Thrown
    <2> QED
      BY <2>1, <2>2
  <1> QED
    BY <1>1, PoolInvariance, PTL

-----------------------------------------------------------------------------
(* The signals of a shutdown *)

\* The loop of the winner has told the handlers it went through to close, and
\* SHUTDOWN is said after the last of them.
ReachInv ==
    /\ \A s \in Shutters, h \in Handlers :
          /\ ppc[s] = "loop"
          /\ h < current[s] \/ (h = current[s] /\ spc[s] \in {"closing", "idle"})
          => h \in m_isRequestClose
    /\ m_state = "SHUTDOWN" => Handlers \subseteq m_isRequestClose

(* Steps that leave shutdowns where they are, or that only a destructor takes. *)
LEMMA OthersKeepReach ==
    ASSUME ReachInv, m_isRequestClose \subseteq m_isRequestClose',
           UNCHANGED m_state,
           \A s \in Shutters : ppc'[s] = "loop" =>
               /\ ppc[s] = "loop" /\ current'[s] = current[s]
               /\ spc'[s] \in {"closing", "idle"} => spc[s] \in {"closing", "idle"}
    PROVE  ReachInv'
  BY DEF ReachInv

(* A step inside ShutDownHelper: no handler of the loop was asked before, so the
   call ends, or waits, with the thread told to close. *)
LEMMA HandlerCallKeepsReach ==
    ASSUME PoolInv, ReachInv, NEW s \in Shutters, ShutStep(s), UNCHANGED poolVars
    PROVE  ReachInv'
  <1>1. TimerTypeOK /\ ppc \in [Shutters -> {"idle", "set_stop", "loop", "destroy", "join", "returned"}]
    BY DEF PoolInv, TypeOK
  <1>2. UNCHANGED <<m_state, ppc, current>>
    BY DEF poolVars
  <1>3. CASE Request(s)
    <2>1. spc[s] = "request"
      BY <1>3 DEF Request, ShutGoes
    <2>2. ppc[s] = "loop" => target[s] \notin m_isRequestShutDown
      BY <2>1 DEF PoolInv, LoopInv, CallInv
    <2>3. ppc[s] = "loop" => spc'[s] = "push_end"
      BY <1>1, <1>3, <2>2 DEF Request, ShutGoes, TimerTypeOK
    <2>4. m_isRequestClose' = m_isRequestClose
            /\ \A u \in Shutters : u # s => spc'[u] = spc[u]
      BY <1>1, <1>3 DEF Request, ShutGoes, TimerTypeOK
    <2> QED
      BY <1>2, <2>3, <2>4, OthersKeepReach
  <1>4. CASE PushEnd(s)
    <2>1. /\ m_isRequestClose' = m_isRequestClose /\ spc'[s] = "close"
          /\ \A u \in Shutters : u # s => spc'[u] = spc[u]
      BY <1>1, <1>4 DEF PushEnd, ShutGoes, TimerTypeOK
    <2> QED
      BY <1>2, <2>1, OthersKeepReach
  <1>5. CASE CloseThread(s)
    <2>1. /\ m_isRequestClose' = m_isRequestClose \cup {target[s]}
          /\ spc[s] = "close"
          /\ \A u \in Shutters : u # s => spc'[u] = spc[u]
      BY <1>1, <1>5 DEF CloseThread, ShutGoes, TimerTypeOK
    <2>2. target[s] = current[s]
      BY <2>1 DEF PoolInv, CallInv
    <2> QED
      BY <1>2, <2>1, <2>2 DEF ReachInv
  <1>6. CASE Closed(s)
    <2>1. /\ m_isRequestClose' = m_isRequestClose /\ spc[s] = "closing"
          /\ \A u \in Shutters : u # s => spc'[u] = spc[u]
      BY <1>1, <1>6 DEF Closed, ShutGoes, TimerTypeOK
    <2> QED
      BY <1>2, <2>1, OthersKeepReach
  <1> QED
    BY <1>3, <1>4, <1>5, <1>6 DEF ShutStep

(* What the pool itself does: SHUTDOWN comes after the last handler. *)
LEMMA PoolActionKeepsReach ==
    ASSUME PoolInv, ReachInv, NEW s \in Shutters, ShutDown(s) \/ PoolStep(s)
    PROVE  ReachInv'
  <1>1. TypeOK /\ TimerTypeOK
    BY DEF PoolInv, TypeOK
  <1>2. m_isRequestClose' = m_isRequestClose
    BY DEF ShutDown, PoolStep, SetStop, ShutDownHandler, SetShutDown, DestroyHandler, Join,
           CallShutDown, timerVars, shutVars
  <1>3. CASE ShutDown(s) \/ DestroyHandler(s) \/ Join(s)
    <2>1. /\ m_state' = m_state /\ ppc'[s] # "loop"
          /\ \A u \in Shutters : u # s =>
                ppc'[u] = ppc[u] /\ current'[u] = current[u] /\ spc'[u] = spc[u]
      BY <1>1, <1>3 DEF ShutDown, ShutDownReturns, DestroyHandler, Join, PoolGoes, CallShutDown,
                        ShutGoes, timerVars, shutVars, TypeOK, TimerTypeOK
    <2> QED
      BY <1>2, <2>1, OthersKeepReach
  <1>4. CASE SetStop(s)
    <2>1. /\ m_state' = "STOP" /\ UNCHANGED <<current, spc>> /\ current[s] = 0
          /\ \A u \in Shutters : u # s => ppc'[u] = ppc[u]
      BY <1>1, <1>4 DEF SetStop, PoolGoes, timerVars, shutVars, TypeOK, PoolInv, CallInv
    <2> QED
      BY <1>2, <2>1 DEF ReachInv, Handlers
  <1>5. CASE ShutDownHandler(s)
    <2>1. /\ m_state' = m_state /\ ppc' = ppc /\ ppc[s] = "loop" /\ spc[s] = "idle"
          /\ current[s] \in Nat /\ current'[s] = current[s] + 1 /\ spc'[s] = "request"
          /\ \A u \in Shutters : u # s => current'[u] = current[u] /\ spc'[u] = spc[u]
      BY <1>1, <1>5 DEF ShutDownHandler, PoolGoes, CallShutDown, ShutGoes, TypeOK, TimerTypeOK
    <2>2. \A h \in Handlers : h < current[s] + 1 => h < current[s] \/ h = current[s]
      BY <2>1 DEF Handlers
    <2> QED
      BY <1>2, <2>1, <2>2 DEF ReachInv
  <1>6. CASE SetShutDown(s)
    <2>1. /\ ppc[s] = "loop" /\ spc[s] = "idle" /\ current[s] = ThreadNum /\ ppc'[s] # "loop"
          /\ \A u \in Shutters : u # s =>
                ppc'[u] = ppc[u] /\ current'[u] = current[u] /\ spc'[u] = spc[u]
      BY <1>1, <1>6 DEF SetShutDown, ShutDownReturns, PoolGoes, timerVars, shutVars, TypeOK
    <2>2. \A h \in Handlers : h < current[s] \/ h = current[s]
      BY <2>1, TimerAssumption DEF Handlers
    <2>3. Handlers \subseteq m_isRequestClose
      BY <2>1, <2>2 DEF ReachInv
    <2> QED
      BY <1>2, <2>1, <2>3 DEF ReachInv
  <1> QED
    BY <1>3, <1>4, <1>5, <1>6 DEF PoolStep

LEMMA StepKeepsReach ==
    ASSUME PoolInv, ReachInv, [Next]_vars
    PROVE  ReachInv'
  <1>1. CASE UNCHANGED vars
    BY <1>1, OthersKeepReach DEF vars, timerVars, shutVars, poolVars
  <1>2. CASE UNCHANGED poolVars /\ (\/ TimerEnvironment
                                    \/ \E h \in Handlers : ThreadStep(h)
                                    \/ \E a \in Adders : AddStep(a))
    <2>1. UNCHANGED shutVars
      BY <1>2, OthersLeaveShutVars
    <2> QED
      BY <1>2, <2>1, OthersKeepReach DEF poolVars, shutVars
  <1>3. ASSUME NEW s \in Shutters, ShutStep(s), UNCHANGED poolVars PROVE ReachInv'
    BY <1>3, HandlerCallKeepsReach
  <1>4. ASSUME NEW a \in Adders, AddTimerTask(a) PROVE ReachInv'
    BY <1>4, OthersKeepReach DEF AddTimerTask, CallAdd, shutVars
  <1>5. ASSUME NEW s \in Shutters, ShutDown(s) \/ PoolStep(s) PROVE ReachInv'
    BY <1>5, PoolActionKeepsReach
  <1> QED
    BY <1>1, <1>2, <1>3, <1>4, <1>5 DEF Next, TimerStep

(* When the pool says SHUTDOWN, every timer thread has been told to close and
   none is asleep, also when a ShutDown that does not wait has said so and also
   when tasks are put at once by several threads. *)
THEOREM ShutDownHasReachedAll == Spec => []ShutDownReachesAll
  <1>1. Init => ReachInv
    BY DEF Init, ReachInv
  <1>2. Spec => []ReachInv
    BY <1>1, StepKeepsReach, PoolInvariance, PTL DEF Spec
  <1>3. Spec => []AwakeToClose
    BY PoolUsesTimers, NoSleepAfterClose, PTL
  <1>4. ReachInv /\ AwakeToClose => ShutDownReachesAll
    BY DEF ReachInv, AwakeToClose, ShutDownReachesAll
  <1> QED
    BY <1>2, <1>3, <1>4, PTL
=============================================================================
