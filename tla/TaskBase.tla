----------------------------- MODULE TaskBase ------------------------------
(***************************************************************************)
(* One task (src/src/TaskBase.cpp): threads that Run it and threads that   *)
(* Cancel it.  A pool runs a task once; TimerTaskHandler runs a cycle task *)
(* again and again, one Run after the other.                               *)
(*                                                                         *)
(* Every critical section of m_stateGuard is one step: none of them blocks *)
(* inside, except in pthread_cond_wait, which gives the mutex back.        *)
(***************************************************************************)
EXTENDS Naturals

CONSTANTS
    Runners,      \* threads that call Run
    Cancellers,   \* threads that call Cancel, once each
    MaxRuns,      \* bound: how often Run is called on the task
    BodyMayThrow  \* may DoRun throw an exception of its own?

ASSUME TaskBaseAssumption == MaxRuns \in Nat /\ BodyMayThrow \in BOOLEAN

VARIABLES
    m_state,
    m_isRequestCancel,
    sleepers,  \* the threads asleep on m_cancelCondition
    rpc,       \* rpc[r]: where in Run runner r is
    cpc,       \* cpc[c]: where in Cancel canceller c is
    runs       \* calls of Run so far

vars == <<m_state, m_isRequestCancel, sleepers, rpc, cpc, runs>>

States == {"INIT", "RUNNING", "FINISHED", "CANCELLED"}
RunnerPCs == {"idle", "check", "set_running", "body", "set_finished",
              "set_cancelled", "notify", "thrown"}
CancellerPCs == {"idle", "test", "waiting", "returned"}

Init ==
    /\ m_state = "INIT"
    /\ m_isRequestCancel = FALSE
    /\ sleepers = {}
    /\ rpc = [r \in Runners |-> "idle"]
    /\ cpc = [c \in Cancellers |-> "idle"]
    /\ runs = 0

\* Mutant: a task that runs is taken for a stopped one.
IsNotInit == m_state # "INIT"

\* "Stop" means FINISHED or CANCELLED
IsStopState == m_state \in {"FINISHED", "CANCELLED"}

-----------------------------------------------------------------------------
(* Run *)

RunGoes(r, from, to) == rpc[r] = from /\ rpc' = [rpc EXCEPT ![r] = to]

CallRun(r) ==
    /\ runs < MaxRuns
    /\ runs' = runs + 1
    /\ RunGoes(r, "idle", "check")
    /\ UNCHANGED <<m_state, m_isRequestCancel, sleepers, cpc>>

\* CheckCancellation throws, and Run's handler sets CANCELLED, or returns.
CheckCancellation(r) ==
    /\ RunGoes(r, "check", IF m_isRequestCancel THEN "set_cancelled" ELSE "set_running")
    /\ UNCHANGED <<m_state, m_isRequestCancel, sleepers, cpc, runs>>

SetState(r, from, state, to) ==
    /\ RunGoes(r, from, to)
    /\ m_state' = state
    /\ UNCHANGED <<m_isRequestCancel, sleepers, cpc, runs>>

SetRunning(r) == SetState(r, "set_running", "RUNNING", "body")

\* Mutants: a state is set and the waiting cancellers are forgotten.
SetFinishedQuietly(r) == SetState(r, "set_finished", "FINISHED", "idle")
SetFinished(r) == SetState(r, "set_finished", "FINISHED", "notify")

SetCancelledQuietly(r) == SetState(r, "set_cancelled", "CANCELLED", "idle")
SetCancelled(r) == SetState(r, "set_cancelled", "CANCELLED", "notify")

\* DoRun is the user's: it returns, or calls CheckCancellation and is thrown
\* out of it, or throws something that Run does not catch.
DoRunReturns(r) ==
    /\ RunGoes(r, "body", "set_finished")
    /\ UNCHANGED <<m_state, m_isRequestCancel, sleepers, cpc, runs>>

DoRunCancelled(r) ==
    /\ m_isRequestCancel
    /\ RunGoes(r, "body", "set_cancelled")
    /\ UNCHANGED <<m_state, m_isRequestCancel, sleepers, cpc, runs>>

DoRunThrows(r) ==
    /\ BodyMayThrow
    /\ RunGoes(r, "body", "thrown")
    /\ UNCHANGED <<m_state, m_isRequestCancel, sleepers, cpc, runs>>

\* ConditionNotifyAllLocker(m_cancelCondition, IsRequestCancel); Run returns.
NotifyCancellers(r) ==
    /\ RunGoes(r, "notify", "idle")
    /\ sleepers' = IF m_isRequestCancel THEN {} ELSE sleepers
    /\ UNCHANGED <<m_state, m_isRequestCancel, cpc, runs>>

-----------------------------------------------------------------------------
(* Cancel *)

CancelGoes(c, from, to) == cpc[c] = from /\ cpc' = [cpc EXCEPT ![c] = to]

\* m_isRequestCancel.store(true)
CallCancel(c) ==
    /\ CancelGoes(c, "idle", "test")
    /\ m_isRequestCancel' = TRUE
    /\ UNCHANGED <<m_state, sleepers, rpc, runs>>

\* ConditionWaitLocker(m_cancelCondition, !IsStopState)
CancelTest(c) ==
    /\ IF IsStopState
       THEN CancelGoes(c, "test", "returned") /\ UNCHANGED sleepers
       ELSE CancelGoes(c, "test", "waiting") /\ sleepers' = sleepers \cup {c}
    /\ UNCHANGED <<m_state, m_isRequestCancel, rpc, runs>>

\* Awake, by a notification or spuriously: the predicate is tested again.
CancelNotified(c) ==
    /\ c \notin sleepers
    /\ CancelGoes(c, "waiting", "test")
    /\ UNCHANGED <<m_state, m_isRequestCancel, sleepers, rpc, runs>>

CancelSpurious(c) ==
    /\ c \in sleepers
    /\ CancelGoes(c, "waiting", "test")
    /\ sleepers' = sleepers \ {c}
    /\ UNCHANGED <<m_state, m_isRequestCancel, rpc, runs>>

-----------------------------------------------------------------------------

RunStep(r) ==
    \/ CheckCancellation(r) \/ SetRunning(r) \/ SetFinished(r) \/ SetCancelled(r)
    \/ NotifyCancellers(r)

DoRun(r) == DoRunReturns(r) \/ DoRunCancelled(r) \/ DoRunThrows(r)
CancelStep(c) == CancelTest(c) \/ CancelNotified(c)

Next ==
    \/ \E r \in Runners : CallRun(r) \/ RunStep(r) \/ DoRun(r)
    \/ \E c \in Cancellers : CallCancel(c) \/ CancelStep(c) \/ CancelSpurious(c)

Spec == Init /\ [][Next]_vars

-----------------------------------------------------------------------------

TypeOK ==
    /\ m_state \in States
    /\ m_isRequestCancel \in BOOLEAN
    /\ sleepers \subseteq Cancellers
    /\ rpc \in [Runners -> RunnerPCs]
    /\ cpc \in [Cancellers -> CancellerPCs]
    /\ runs \in 0 .. MaxRuns

(* When Cancel has returned the task is not running and is not about to run:
   no Run is between its cancellation check and the end of DoRun. *)
CancelMeansStopped ==
    (\E c \in Cancellers : cpc[c] = "returned")
        => \A r \in Runners : rpc[r] \notin {"set_running", "body"}

(* A task that has stopped has stopped for good: no Run takes FINISHED or
   CANCELLED back. *)
StopIsFinal == [][IsStopState => UNCHANGED m_state]_vars

(* Run's last notification reaches every canceller: whoever sleeps has asked
   for the cancellation, and the state it waits for is still to come or has
   just been set by a Run that will notify. *)
SleepersWillBeNotified ==
    sleepers # {} =>
        /\ m_isRequestCancel
        /\ IsStopState => \E r \in Runners : rpc[r] = "notify"

(* A Cancel that was called returns, once the task is run: unless DoRun throws
   an exception of its own, which leaves the task RUNNING for ever. *)
CancelReturns ==
    \A c \in Cancellers :
        cpc[c] = "test" ~> \/ cpc[c] = "returned"
                          \/ \E r \in Runners : rpc[r] = "thrown"
=============================================================================
