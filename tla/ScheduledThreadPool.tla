------------------------ MODULE ScheduledThreadPool ------------------------
(***************************************************************************)
(* ScheduledThreadPool (src/src/ScheduledThreadPool.cpp): timer handlers   *)
(* that get the tasks in turn, and a shutdown that goes through them one   *)
(* by one.                                                                 *)
(***************************************************************************)
EXTENDS TimerTaskHandler

CONSTANT Destructor  \* the shutter that runs the destructor

ASSUME ScheduledThreadPoolAssumption == Destructor \notin Waiters

VARIABLES
    m_state,
    m_index,
    isRequestShutDown,  \* the pool's m_isRequestShutDown
    ppc,                \* ppc[s]: where shutter s is in a call of the pool
    current,            \* current[s]: the handler its loop has come to
    winner              \* history: the shutter that found isRequestShutDown FALSE

poolVars == <<m_state, m_index, isRequestShutDown, ppc, current, winner>>
vars == <<timerVars, poolVars>>

\* The constructor has returned.
Init ==
    /\ TimerInit
    /\ m_state = "RUNNING"
    /\ m_index = 0
    /\ isRequestShutDown = FALSE
    /\ ppc = [s \in Shutters |-> "idle"]
    /\ current = [s \in Shutters |-> 0]
    /\ winner = {}

Usable == \A s \in Shutters : s = Destructor => ppc[s] = "idle"

-----------------------------------------------------------------------------

\* The handlers are numbered from 1.
NextHandler == (m_index % ThreadNum) + 1

\* DoAddCronTimerTask, DoAddCycleTimerTask: the handlers take turns.  A call
\* after the shutdown, or with a null task, changes nothing.
AddTimerTask(a) ==
    /\ Usable
    /\ ~isRequestShutDown
    /\ m_index' = m_index + 1
    /\ CallAdd(a, NextHandler)
    /\ UNCHANGED <<m_state, isRequestShutDown, ppc, current, winner>>

-----------------------------------------------------------------------------
(* ShutDown, ShutDownNow and the destructor *)

PoolGoes(s, from, to) == ppc[s] = from /\ ppc' = [ppc EXCEPT ![s] = to]

\* The destructor runs when nobody is inside a call any more.
MayShutDown(s) ==
    /\ Usable
    /\ s = Destructor =>
          /\ \A a \in Adders : apc[a] \in {"idle", "returned"}
          /\ \A u \in Shutters \ {s} : ppc[u] \in {"idle", "returned"}

ShutDownReturns(s) == IF s = Destructor THEN "destroy" ELSE "returned"

\* The compare-and-exchange on isRequestShutDown
ShutDown(s) ==
    /\ MayShutDown(s)
    /\ isRequestShutDown' = TRUE
    /\ IF isRequestShutDown
       THEN PoolGoes(s, "idle", ShutDownReturns(s)) /\ UNCHANGED winner
       ELSE PoolGoes(s, "idle", "set_stop") /\ winner' = {s}
    /\ UNCHANGED <<timerVars, m_state, m_index, current>>

SetStop(s) ==
    /\ PoolGoes(s, "set_stop", "loop")
    /\ m_state' = "STOP"
    /\ UNCHANGED <<timerVars, m_index, isRequestShutDown, current, winner>>

\* The body of the loop: t->ShutDownNow() or t->ShutDown()
ShutDownHandler(s) ==
    /\ current[s] < ThreadNum
    /\ PoolGoes(s, "loop", "loop")
    /\ current' = [current EXCEPT ![s] = @ + 1]
    /\ CallShutDown(s, current[s] + 1)
    /\ UNCHANGED <<m_state, m_index, isRequestShutDown, winner>>

SetShutDown(s) ==
    /\ spc[s] = "idle"
    /\ current[s] = ThreadNum
    /\ PoolGoes(s, "loop", ShutDownReturns(s))
    /\ m_state' = "SHUTDOWN"
    /\ current' = [current EXCEPT ![s] = 0]
    /\ UNCHANGED <<timerVars, m_index, isRequestShutDown, winner>>

\* The destructor of the pool destroys the handlers: ~TimerTaskHandler calls
\* ShutDown ...
DestroyHandler(s) ==
    /\ current[s] < ThreadNum
    /\ PoolGoes(s, "destroy", "join")
    /\ current' = [current EXCEPT ![s] = @ + 1]
    /\ CallShutDown(s, current[s] + 1)
    /\ UNCHANGED <<m_state, m_index, isRequestShutDown, winner>>

\* ... and destroys m_thread, which joins the thread.
Join(s) ==
    /\ PoolGoes(s, "join", IF current[s] = ThreadNum THEN "returned" ELSE "destroy")
    /\ spc[s] = "idle"
    /\ hpc[current[s]] \in {"exited", "thrown"}
    /\ UNCHANGED <<timerVars, m_state, m_index, isRequestShutDown, current, winner>>

PoolStep(s) ==
    SetStop(s) \/ ShutDownHandler(s) \/ SetShutDown(s) \/ DestroyHandler(s) \/ Join(s)

-----------------------------------------------------------------------------

Next ==
    \/ TimerEnvironment /\ UNCHANGED poolVars
    \/ TimerStep /\ UNCHANGED poolVars
    \/ \E a \in Adders : AddTimerTask(a)
    \/ \E s \in Shutters : ShutDown(s) \/ PoolStep(s)

Spec == Init /\ [][Next]_vars

\* Timer threads that can go on do, as in TimerTaskHandler, and so does a call of
\* ShutDown, of ShutDownNow or of the destructor; threads that add may stop.
FairSpec ==
    /\ Spec
    /\ \A h \in Handlers : WF_vars(ThreadStep(h) /\ UNCHANGED poolVars)
    /\ SF_vars(\E s \in Shutters : PoolStep(s) \/ (ShutStep(s) /\ UNCHANGED poolVars))

-----------------------------------------------------------------------------

TypeOK ==
    /\ TimerTypeOK
    /\ m_state \in {"RUNNING", "STOP", "SHUTDOWN"}
    /\ m_index \in Nat
    /\ isRequestShutDown \in BOOLEAN
    /\ ppc \in [Shutters -> {"idle", "set_stop", "loop", "destroy", "join", "returned"}]
    /\ current \in [Shutters -> 0 .. ThreadNum]
    /\ winner \subseteq Shutters

(* "Closing the thread pool blocking method waits for all threads to end": when
   the ShutDownNow that shuts the pool down has returned, and when the
   destructor has, no timer thread runs. *)
ShutDownNowWaits ==
    \A s \in Shutters :
        ppc[s] = "returned" /\ (s \in winner \cap Waiters \/ s = Destructor) =>
            \A h \in Handlers : hpc[h] = "exited" \/ Thrown(h)

(* "Non blocking, send a close signal to each thread": a ShutDown says SHUTDOWN
   while timer threads still run, but every one of them has its signal by then
   and is awake, so that none waits for a deadline any more, whichever shutdown
   it was and whatever was put meanwhile. *)
ShutDownReachesAll ==
    m_state = "SHUTDOWN" => \A h \in Handlers : h \in m_isRequestClose /\ hpc[h] # "asleep"

(* Every call of ShutDown, of ShutDownNow and of the destructor returns, unless
   a task has thrown. *)
ShutDownTerminates ==
    \A s \in Shutters :
        ppc[s] # "idle" ~> ppc[s] = "returned" \/ \E h \in Handlers : Thrown(h)
=============================================================================
