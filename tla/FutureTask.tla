---------------------------- MODULE FutureTask -----------------------------
(***************************************************************************)
(* FutureTask<T> (src/include/empool/FutureTask.h): a TaskBase whose DoRun *)
(* computes a result that other threads wait for in GetResult.  DoRun      *)
(* holds the result's mutex for the whole of the user's Call, and notifies *)
(* before the result exists.                                               *)
(***************************************************************************)
EXTENDS TaskBase

CONSTANTS
    Getters,  \* threads that call GetResult, once each
    NoRunner  \* the mutex m_mutex is free

ASSUME NoRunnerAssumption == NoRunner \notin Runners

VARIABLES
    m_isResultReturned,
    holder,   \* the Run that holds m_mutex while it is inside Call
    gsleepers, \* the threads asleep on m_resultCondition
    gpc       \* gpc[g]: where in GetResult getter g is

fvars == <<m_isResultReturned, holder, gsleepers, gpc>>
allvars == <<vars, fvars>>

FInit ==
    /\ Init
    /\ m_isResultReturned = FALSE
    /\ holder = NoRunner
    /\ gsleepers = {}
    /\ gpc = [g \in Getters |-> "idle"]

-----------------------------------------------------------------------------
(* DoRun: lock and notify, Call, publish the result, unlock. *)

\* Mutant: the notification is forgotten.
NobodyWoken == {}
Woken == IF m_isResultReturned THEN {} ELSE gsleepers

\* ConditionNotifyAllLocker(m_resultCondition, !IsResultReturned)
FutureLock(r) ==
    /\ rpc[r] = "body"
    /\ holder = NoRunner
    /\ holder' = r
    /\ gsleepers' = gsleepers \ Woken
    /\ UNCHANGED <<vars, m_isResultReturned, gpc>>

\* Mutant: the result is not published.
Unpublished == m_isResultReturned
Published == TRUE

CallReturns(r) ==
    /\ holder = r
    /\ DoRunReturns(r)
    /\ m_isResultReturned' = Published
    /\ holder' = NoRunner
    /\ UNCHANGED <<gsleepers, gpc>>

\* An exception leaves DoRun; the locker's destructor unlocks.
CallThrows(r) ==
    /\ holder = r
    /\ DoRunCancelled(r) \/ DoRunThrows(r)
    /\ holder' = NoRunner
    /\ UNCHANGED <<m_isResultReturned, gsleepers, gpc>>

-----------------------------------------------------------------------------
(* GetResult *)

GetGoes(g, from, to) == gpc[g] = from /\ gpc' = [gpc EXCEPT ![g] = to]

CallGetResult(g) ==
    /\ GetGoes(g, "idle", "test")
    /\ UNCHANGED <<vars, m_isResultReturned, holder, gsleepers>>

\* ConditionWaitLocker(m_resultCondition, !IsResultReturned)
GetTest(g) ==
    /\ holder = NoRunner
    /\ IF m_isResultReturned
       THEN GetGoes(g, "test", "returned") /\ UNCHANGED gsleepers
       ELSE GetGoes(g, "test", "waiting") /\ gsleepers' = gsleepers \cup {g}
    /\ UNCHANGED <<vars, m_isResultReturned, holder>>

GetNotified(g) ==
    /\ g \notin gsleepers
    /\ GetGoes(g, "waiting", "test")
    /\ UNCHANGED <<vars, m_isResultReturned, holder, gsleepers>>

GetSpurious(g) ==
    /\ g \in gsleepers
    /\ GetGoes(g, "waiting", "test")
    /\ gsleepers' = gsleepers \ {g}
    /\ UNCHANGED <<vars, m_isResultReturned, holder>>

-----------------------------------------------------------------------------

\* The task is run, and a Run that has begun goes on.
RunnerStep(r) ==
    \/ (CallRun(r) \/ RunStep(r)) /\ UNCHANGED fvars
    \/ FutureLock(r) \/ CallReturns(r) \/ CallThrows(r)

CancellerStep(c) == CancelStep(c) /\ UNCHANGED fvars
GetStep(g) == GetTest(g) \/ GetNotified(g)

FNext ==
    \/ \E r \in Runners : RunnerStep(r)
    \/ \E c \in Cancellers :
          \/ CancellerStep(c)
          \/ (CallCancel(c) \/ CancelSpurious(c)) /\ UNCHANGED fvars
    \/ \E g \in Getters : CallGetResult(g) \/ GetStep(g) \/ GetSpurious(g)

\* The task is in the queue of a pool, so it is run; Call ends; a thread that
\* can take a step takes it.  The mutex is not assumed to be fair.
FSpec ==
    /\ FInit
    /\ [][FNext]_allvars
    /\ \A r \in Runners : WF_allvars(RunnerStep(r))
    /\ \A c \in Cancellers : WF_allvars(CancellerStep(c))
    /\ \A g \in Getters : WF_allvars(GetStep(g))

-----------------------------------------------------------------------------

FTypeOK ==
    /\ TypeOK
    /\ m_isResultReturned \in BOOLEAN
    /\ holder \in Runners \cup {NoRunner}
    /\ gsleepers \subseteq Getters
    /\ gpc \in [Getters -> {"idle", "test", "waiting", "returned"}]

(* A task is FINISHED only when its result can be got. *)
FinishedHasResult == m_state = "FINISHED" => m_isResultReturned

(* Nobody sleeps beside a result, or while it is computed: whoever sleeps will
   see a Run that locks and notifies, although no notification follows the
   result. *)
GettersWillBeNotified == gsleepers # {} => ~m_isResultReturned /\ holder = NoRunner

(* GetResult returns when the task finishes.  (It never does for a task that
   is cancelled or throws.) *)
GetResultReturns ==
    \A g \in Getters :
        gpc[g] = "test" ~>
            \/ gpc[g] = "returned"
            \/ m_state = "CANCELLED"
            \/ \E r \in Runners : rpc[r] = "thrown"
=============================================================================
