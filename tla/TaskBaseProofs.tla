--------------------------- MODULE TaskBaseProofs --------------------------
(***************************************************************************)
(* For any number of runners and cancellers: no canceller is forgotten by  *)
(* the Runs (for any number of Runs), and a task that is run once is not   *)
(* running when a Cancel has returned.  A FutureTask is such a task, with  *)
(* any number of getters, and is FINISHED only when it has its result.     *)
(***************************************************************************)
EXTENDS FutureTask, TLAPS

\* A thread inside Cancel has stored the flag; only such threads sleep.
CancelInv ==
    /\ \A c \in Cancellers : cpc[c] # "idle" => m_isRequestCancel
    /\ \A c \in sleepers : cpc[c] = "waiting"

IInv == TypeOK /\ CancelInv /\ SleepersWillBeNotified

\* The positions of a Run before it has set the state it ends in.
Unfinished == {"check", "set_running", "body", "set_finished", "set_cancelled", "thrown"}

\* What "run once" means: one Run at most, and the task is not stopped
\* before the end of it.
OnceInv ==
    /\ runs = 0 => m_state = "INIT" /\ \A r \in Runners : rpc[r] = "idle"
    /\ \A r, s \in Runners : rpc[r] # "idle" /\ rpc[s] # "idle" => r = s
    /\ \A r \in Runners : rpc[r] \in Unfinished => ~IsStopState
    /\ \A c \in Cancellers : cpc[c] = "returned" => IsStopState

-----------------------------------------------------------------------------

(* A new task satisfies the invariants. *)
LEMMA InitInv == Init => IInv /\ OnceInv
  <1> SUFFICES ASSUME Init PROVE IInv /\ OnceInv
    OBVIOUS
  <1>1. TypeOK
    <2>1. runs \in 0 .. MaxRuns
      BY TaskBaseAssumption DEF Init
    <2>2. m_isRequestCancel \in BOOLEAN
      BY DEF Init
    <2> QED
      BY <2>1, <2>2 DEF Init, TypeOK, States, RunnerPCs, CancellerPCs
  <1>2. CancelInv /\ SleepersWillBeNotified
    BY DEF Init, CancelInv, SleepersWillBeNotified
  <1>3. OnceInv
    BY DEF Init, OnceInv, Unfinished, IsStopState
  <1> QED
    BY <1>1, <1>2, <1>3 DEF IInv

(* A step of Run keeps IInv: a Run that sets a final state is about to notify,
   and the notification wakes every sleeper. *)
LEMMA RunKeepsIInv ==
    ASSUME IInv, NEW r \in Runners, CallRun(r) \/ RunStep(r) \/ DoRun(r)
    PROVE  IInv'
  <1> USE DEF IInv, RunGoes
  <1>1. TypeOK'
    BY TaskBaseAssumption
    DEF TypeOK, CallRun, RunStep, DoRun, CheckCancellation, SetRunning, SetFinished,
        SetCancelled, SetState, NotifyCancellers, DoRunReturns, DoRunCancelled,
        DoRunThrows, States, RunnerPCs
  <1>2. CancelInv'
    BY DEF TypeOK, CancelInv, CallRun, RunStep, DoRun, CheckCancellation, SetRunning,
        SetFinished, SetCancelled, SetState, NotifyCancellers, DoRunReturns,
        DoRunCancelled, DoRunThrows
  <1>3. SleepersWillBeNotified'
    <2>1. CASE NotifyCancellers(r)
      BY <2>1 DEF SleepersWillBeNotified, NotifyCancellers
    <2>2. CASE SetFinished(r) \/ SetCancelled(r)
      BY <2>2 DEF TypeOK, SleepersWillBeNotified, SetFinished, SetCancelled, SetState
    <2>3. CASE SetRunning(r)
      BY <2>3 DEF SleepersWillBeNotified, SetRunning, SetState, IsStopState
    <2>4. CASE CallRun(r) \/ CheckCancellation(r) \/ DoRun(r)
      BY <2>4 DEF TypeOK, SleepersWillBeNotified, CallRun, CheckCancellation, DoRun,
                  DoRunReturns, DoRunCancelled, DoRunThrows, IsStopState
    <2> QED
      BY <2>1, <2>2, <2>3, <2>4 DEF RunStep
  <1> QED
    BY <1>1, <1>2, <1>3

(* A step of Cancel keeps IInv: a thread goes to sleep after it has stored the
   flag, and only if the task is not stopped. *)
LEMMA CancelKeepsIInv ==
    ASSUME IInv, NEW c \in Cancellers,
           CallCancel(c) \/ CancelStep(c) \/ CancelSpurious(c)
    PROVE  IInv'
  <1> USE DEF IInv, CancelGoes, CancelStep, CallCancel, CancelTest, CancelNotified,
              CancelSpurious
  <1>1. TypeOK'
    BY DEF TypeOK, CancellerPCs
  <1>2. CancelInv'
    BY DEF TypeOK, CancelInv, CancellerPCs
  <1>3. SleepersWillBeNotified'
    BY DEF TypeOK, CancelInv, SleepersWillBeNotified, IsStopState
  <1> QED
    BY <1>1, <1>2, <1>3

(* IInv holds in every reachable state, whatever MaxRuns is. *)
THEOREM Invariance == Spec => []IInv
  <1>1. IInv /\ [Next]_vars => IInv'
    <2>1. SUFFICES ASSUME IInv, [Next]_vars PROVE IInv'
      OBVIOUS
    <2>2. CASE UNCHANGED vars
      BY <2>1, <2>2 DEF vars, IInv, TypeOK, CancelInv, SleepersWillBeNotified, IsStopState
    <2>3. CASE Next
      BY <2>1, <2>3, RunKeepsIInv, CancelKeepsIInv DEF Next
    <2> QED
      BY <2>1, <2>2, <2>3
  <1> QED
    BY <1>1, InitInv, PTL DEF Spec

(* The variables of TaskBase keep their types. *)
THEOREM TypeCorrect == Spec => []TypeOK
  BY Invariance, PTL DEF IInv

(* However often and by however many threads the task is run, a canceller that
   sleeps will still be notified. *)
THEOREM CancellersAreNotified == Spec => []SleepersWillBeNotified
  BY Invariance, PTL DEF IInv

-----------------------------------------------------------------------------

(* A task that is run once stays stopped, and is stopped only by the end of
   its Run. *)
LEMMA OnceKept ==
    ASSUME TypeOK, OnceInv, MaxRuns = 1, [Next]_vars
    PROVE  OnceInv'
  <1> USE DEF OnceInv, Unfinished
  <1>1. CASE UNCHANGED vars
    BY <1>1 DEF vars, IsStopState
  <1>2. ASSUME NEW r \in Runners, CallRun(r) PROVE OnceInv'
    <2>1. runs = 0 /\ runs' = 1
      BY <1>2, TaskBaseAssumption DEF CallRun, TypeOK
    <2> QED
      BY <1>2, <2>1 DEF TypeOK, CallRun, RunGoes, IsStopState
  <1>3. ASSUME NEW r \in Runners, RunStep(r) \/ DoRun(r) PROVE OnceInv'
    <2> USE DEF RunGoes, TypeOK, IsStopState
    <2>0. runs # 0 /\ \A s \in Runners : rpc[s] # "idle" => s = r
      BY <1>3 DEF RunStep, DoRun, CheckCancellation, SetRunning, SetFinished,
                  SetCancelled, SetState, NotifyCancellers, DoRunReturns,
                  DoRunCancelled, DoRunThrows
    <2>1. CASE SetRunning(r) \/ SetFinished(r) \/ SetCancelled(r)
      BY <2>0, <2>1 DEF SetRunning, SetFinished, SetCancelled, SetState
    <2>2. CASE CheckCancellation(r) \/ NotifyCancellers(r)
      BY <2>0, <2>2 DEF CheckCancellation, NotifyCancellers
    <2>3. CASE DoRun(r)
      BY <2>0, <2>3 DEF DoRun, DoRunReturns, DoRunCancelled, DoRunThrows
    <2> QED
      BY <1>3, <2>1, <2>2, <2>3 DEF RunStep
  <1>4. ASSUME NEW c \in Cancellers,
               CallCancel(c) \/ CancelStep(c) \/ CancelSpurious(c)
        PROVE  OnceInv'
    BY <1>4 DEF TypeOK, CallCancel, CancelStep, CancelTest, CancelNotified,
                CancelSpurious, CancelGoes, IsStopState
  <1> QED
    BY <1>1, <1>2, <1>3, <1>4 DEF Next

(* A task that is run once, by any of any number of threads: when a Cancel has
   returned, DoRun is not running and will not run. *)
THEOREM CancelIsFinal == MaxRuns = 1 /\ Spec => []CancelMeansStopped
  <1>1. TypeOK /\ OnceInv /\ MaxRuns = 1 /\ [Next]_vars => OnceInv'
    BY OnceKept
  <1>2. OnceInv => CancelMeansStopped
    BY DEF OnceInv, CancelMeansStopped, Unfinished
  <1>3. Init => OnceInv
    BY InitInv
  <1>4. SUFFICES ASSUME MaxRuns = 1 PROVE Spec => []CancelMeansStopped
    OBVIOUS
  <1> QED
    BY <1>1, <1>2, <1>3, <1>4, TypeCorrect, PTL DEF Spec

(* A task that is run once keeps the state in which it has stopped: nothing
   makes a CANCELLED task FINISHED, or either of them RUNNING again. *)
THEOREM StoppedForGood == MaxRuns = 1 /\ Spec => StopIsFinal
  <1>1. TypeOK /\ OnceInv /\ MaxRuns = 1 /\ [Next]_vars => OnceInv'
    BY OnceKept
  <1>2. ASSUME OnceInv, [Next]_vars, IsStopState PROVE UNCHANGED m_state
    <2>1. ASSUME NEW r \in Runners, RunStep(r) PROVE UNCHANGED m_state
      BY <1>2, <2>1 DEF OnceInv, Unfinished, RunStep, CheckCancellation, SetRunning,
                        SetFinished, SetCancelled, SetState, NotifyCancellers, RunGoes
    <2>2. ASSUME ~\E r \in Runners : RunStep(r) PROVE UNCHANGED m_state
      BY <1>2, <2>2 DEF Next, vars, CallRun, DoRun, DoRunReturns, DoRunCancelled, DoRunThrows,
                        CallCancel, CancelStep, CancelTest, CancelNotified, CancelSpurious
    <2> QED
      BY <2>1, <2>2
  <1>3. Init => OnceInv
    BY InitInv
  <1>4. SUFFICES ASSUME MaxRuns = 1 PROVE Spec => StopIsFinal
    OBVIOUS
  <1> QED
    BY <1>1, <1>2, <1>3, <1>4, TypeCorrect, PTL DEF Spec, StopIsFinal

-----------------------------------------------------------------------------
(* FutureTask *)

(* DoRun of a FutureTask does to the task what DoRun of a task may do, and
   what is done to the result does not concern the task: a FutureTask
   implements TaskBase. *)
THEOREM FutureIsTask == FSpec => Spec
  <1>1. FInit => Init
    BY DEF FInit
  <1>2. [FNext]_allvars => [Next]_vars
    <2> SUFFICES ASSUME [FNext]_allvars PROVE [Next]_vars
      OBVIOUS
    <2>1. CASE UNCHANGED allvars
      BY <2>1 DEF allvars
    <2>2. ASSUME NEW r \in Runners, RunnerStep(r) PROVE [Next]_vars
      BY <2>2 DEF RunnerStep, FutureLock, CallReturns, CallThrows, Next, DoRun
    <2>3. ASSUME NEW c \in Cancellers,
                 CancellerStep(c) \/ CallCancel(c) \/ CancelSpurious(c)
          PROVE  [Next]_vars
      BY <2>3 DEF CancellerStep, Next
    <2>4. ASSUME NEW g \in Getters, CallGetResult(g) \/ GetStep(g) \/ GetSpurious(g)
          PROVE  [Next]_vars
      BY <2>4 DEF CallGetResult, GetStep, GetTest, GetNotified, GetSpurious
    <2> QED
      BY <2>1, <2>2, <2>3, <2>4 DEF FNext
  <1> QED
    BY <1>1, <1>2, PTL DEF FSpec, Spec

\* A Run that comes to set FINISHED has published the result; nobody falls
\* asleep between its notification and that.
ResultInv ==
    /\ FTypeOK
    /\ \A r \in Runners : rpc[r] = "set_finished" => m_isResultReturned
    /\ FinishedHasResult
    /\ GettersWillBeNotified

(* A new FutureTask has no result and needs none. *)
LEMMA FutureInit == FInit => ResultInv
  <1> SUFFICES ASSUME FInit PROVE ResultInv
    OBVIOUS
  <1>1. TypeOK
    BY InitInv DEF FInit, IInv
  <1>2. m_isResultReturned \in BOOLEAN
    BY DEF FInit
  <1> QED
    BY <1>1, <1>2
    DEF FInit, Init, ResultInv, FTypeOK, FinishedHasResult, GettersWillBeNotified

(* Every step of the task, its result and its getters: the result is published
   before DoRun returns, and is never taken back. *)
LEMMA FutureKeepsResult ==
    ASSUME ResultInv, TypeOK', [FNext]_allvars
    PROVE  ResultInv'
  <1> USE NoRunnerAssumption DEF ResultInv, FTypeOK, FinishedHasResult, GettersWillBeNotified
  <1>1. CASE UNCHANGED allvars
    BY <1>1 DEF allvars, vars, fvars
  <1>2. ASSUME NEW r \in Runners, CallRun(r) \/ RunStep(r), UNCHANGED fvars
        PROVE  ResultInv'
    BY <1>2 DEF fvars, TypeOK, CallRun, RunStep, CheckCancellation, SetRunning,
                SetFinished, SetCancelled, SetState, NotifyCancellers, RunGoes
  <1>3. ASSUME NEW r \in Runners, FutureLock(r) PROVE ResultInv'
    BY <1>3 DEF FutureLock, Woken, vars
  <1>4. ASSUME NEW r \in Runners, CallReturns(r) PROVE ResultInv'
    BY <1>4 DEF CallReturns, Published
  <1>5. ASSUME NEW r \in Runners, CallThrows(r) PROVE ResultInv'
    BY <1>5 DEF CallThrows, DoRunCancelled, DoRunThrows, RunGoes, TypeOK
  <1>6. ASSUME NEW c \in Cancellers,
               CancelStep(c) \/ CallCancel(c) \/ CancelSpurious(c), UNCHANGED fvars
        PROVE  ResultInv'
    BY <1>6 DEF fvars, CancelStep, CallCancel, CancelTest, CancelNotified, CancelSpurious
  <1>7. ASSUME NEW g \in Getters, CallGetResult(g) \/ GetStep(g) \/ GetSpurious(g)
        PROVE  ResultInv'
    BY <1>7 DEF vars, CallGetResult, GetStep, GetTest, GetNotified, GetSpurious, GetGoes
  <1> QED
    BY <1>1, <1>2, <1>3, <1>4, <1>5, <1>6, <1>7 DEF FNext, RunnerStep, CancellerStep

(* The result's invariant holds, the type of the task's part being known. *)
THEOREM FutureInvariance == FSpec => []ResultInv
  <1>1. ResultInv /\ TypeOK' /\ [FNext]_allvars => ResultInv'
    BY FutureKeepsResult
  <1>2. FSpec => []TypeOK
    BY FutureIsTask, TypeCorrect, PTL
  <1> QED
    BY <1>1, <1>2, FutureInit, PTL DEF FSpec

(* The variables of a FutureTask keep their types. *)
THEOREM FutureTypeCorrect == FSpec => []FTypeOK
  BY FutureInvariance, PTL DEF ResultInv

(* A FutureTask is FINISHED only when GetResult can return its result, for any
   runners, cancellers and getters and any number of Runs. *)
THEOREM FinishedMeansResult == FSpec => []FinishedHasResult
  BY FutureInvariance, PTL DEF ResultInv

(* No getter sleeps beside a result or while one is computed, though DoRun only
   notifies before it calls Call: the notification is not lost, for any number
   of Runs and getters. *)
THEOREM GettersAreNotified == FSpec => []GettersWillBeNotified
  BY FutureInvariance, PTL DEF ResultInv

(* What CancelIsFinal says of a task holds of a FutureTask. *)
THEOREM FutureCancelIsFinal == MaxRuns = 1 /\ FSpec => []CancelMeansStopped
  BY FutureIsTask, CancelIsFinal, PTL
=============================================================================
