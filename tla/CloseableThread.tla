-------------------------- MODULE CloseableThread --------------------------
(***************************************************************************)
(* One CloseableThread (src/src/CloseableThread.cpp) from its constructor  *)
(* to its destructor: the owner that constructs and destroys it, the       *)
(* threads that call Close or AsyncClose in between, and the thread itself *)
(* with its work function and its finish action.                           *)
(*                                                                         *)
(* m_state is a plain member, written without the mutex.  Its only reader  *)
(* is Close, under the mutex that NotifyFinished takes after the write; a  *)
(* read that misses the write behaves as one that came before it, so the   *)
(* write is one step of its own.                                           *)
(***************************************************************************)
EXTENDS Naturals

CONSTANTS
    Closers,         \* threads that call Close or AsyncClose, once each
    MaxCreateFails,  \* bound: how often pthread_create fails
    WeakCasMayFail,  \* may compare_exchange_weak fail on equal values?
    WorkMayThrow     \* may the work function throw an exception of its own?

ASSUME CloseableThreadAssumption ==
    /\ MaxCreateFails \in Nat
    /\ WeakCasMayFail \in BOOLEAN
    /\ WorkMayThrow \in BOOLEAN

VARIABLES
    m_state,
    m_isRequestClose,
    sleepers,    \* the threads asleep on m_stateGuard
    opc,         \* the owner
    tpc,         \* the thread
    cpc,         \* cpc[c]: where closer c is
    finishDone,  \* history: has m_finishAction been executed?
    fails        \* failures of pthread_create so far

vars == <<m_state, m_isRequestClose, sleepers, opc, tpc, cpc, finishDone, fails>>

OwnerPCs == {"create", "assign", "alive", "join", "destroyed"}
ThreadPCs == {"none", "set_running", "check", "work", "caught", "finish",
              "set_finished", "notify", "exited", "thrown", "crashed"}
CloserPCs == {"idle", "test", "waiting", "finished", "not_waited"}

Init ==
    /\ m_state = "INIT"
    /\ m_isRequestClose = FALSE
    /\ sleepers = {}
    /\ opc = "create"
    /\ tpc = "none"
    /\ cpc = [c \in Closers |-> "idle"]
    /\ finishDone = FALSE
    /\ fails = 0

\* A null m_thread was dereferenced: the process is gone.
Alive == tpc # "crashed"

-----------------------------------------------------------------------------
(* The owner: Init, and the destructor, which joins. *)

OwnerGoes(from, to) == Alive /\ opc = from /\ opc' = to

OwnerMoves(from, to) ==
    /\ OwnerGoes(from, to)
    /\ UNCHANGED <<m_state, m_isRequestClose, sleepers, tpc, cpc, finishDone, fails>>

CreateFails ==
    /\ OwnerGoes("create", "create")
    /\ fails < MaxCreateFails
    /\ fails' = fails + 1
    /\ UNCHANGED <<m_state, m_isRequestClose, sleepers, tpc, cpc, finishDone>>

\* pthread_create succeeds: the thread runs, but m_thread is still null.
Create ==
    /\ OwnerGoes("create", "assign")
    /\ tpc' = "set_running"
    /\ UNCHANGED <<m_state, m_isRequestClose, sleepers, cpc, finishDone, fails>>

\* m_thread.reset(...); the constructor returns.
Assign == OwnerMoves("assign", "alive")

\* The owner destroys the object when nobody is inside a call.
CallDestructor ==
    /\ OwnerMoves("alive", "join")
    /\ \A c \in Closers : cpc[c] \notin {"test", "waiting"}

\* pthread_join returns.
Joined == tpc \in {"exited", "thrown"}

Join == OwnerMoves("join", "destroyed") /\ Joined

-----------------------------------------------------------------------------
(* The thread: ThreadFunction. *)

ThreadGoes(from, to) == tpc = from /\ tpc' = to

ThreadMoves(from, to) ==
    /\ ThreadGoes(from, to)
    /\ UNCHANGED <<m_state, m_isRequestClose, sleepers, opc, cpc, finishDone, fails>>

SetState(from, state, to) ==
    /\ ThreadGoes(from, to)
    /\ m_state' = state
    /\ UNCHANGED <<m_isRequestClose, sleepers, opc, cpc, finishDone, fails>>

SetRunning == SetState("set_running", "RUNNING", "check")

CheckIsRequestClose == ThreadMoves("check", IF m_isRequestClose THEN "caught" ELSE "work")

\* The work function returns by itself ...
WorkReturns == ThreadMoves("work", "finish")

\* ... or calls checkFunc, which throws the exit exception ...
WorkChecks == m_isRequestClose /\ ThreadMoves("work", "caught")

\* ... or throws something that only Thread::ThreadFunction catches: neither
\* m_finishAction nor NotifyFinished is executed.
WorkThrows == WorkMayThrow /\ ThreadMoves("work", "thrown")

\* Mutant: the finish action belongs to the try block.
AfterCatchNoAction == "set_finished"

AfterCatch == "finish"

\* The handler prints m_thread->GetThreadId().
CaughtExit == ThreadMoves("caught", IF opc = "assign" THEN "crashed" ELSE AfterCatch)

\* m_finishAction(GetThreadId())
ExecuteFinishAction ==
    /\ ThreadGoes("finish", IF opc = "assign" THEN "crashed" ELSE "set_finished")
    /\ finishDone' = (opc # "assign")
    /\ UNCHANGED <<m_state, m_isRequestClose, sleepers, opc, cpc, fails>>

\* Mutant: FINISHED is not followed by the notification.
SetFinishedQuietly == SetState("set_finished", "FINISHED", "exited")

SetFinished == SetState("set_finished", "FINISHED", "notify")

\* ConditionNotifyAllLocker(m_stateGuard, IsRequestClose)
NotifyFinished ==
    /\ ThreadGoes("notify", "exited")
    /\ sleepers' = IF m_isRequestClose THEN {} ELSE sleepers
    /\ UNCHANGED <<m_state, m_isRequestClose, opc, cpc, finishDone, fails>>

-----------------------------------------------------------------------------
(* The closers. *)

CloserGoes(c, from, to) ==
    /\ Alive /\ cpc[c] = from /\ cpc' = [cpc EXCEPT ![c] = to]
    /\ UNCHANGED <<m_state, opc, tpc, finishDone, fails>>

\* The compare-and-exchange finds FALSE.
Close(c) ==
    /\ opc = "alive"
    /\ ~m_isRequestClose
    /\ CloserGoes(c, "idle", "test")
    /\ m_isRequestClose' = TRUE
    /\ UNCHANGED sleepers

\* It fails: somebody has asked before, or compare_exchange_weak just fails.
CloseAgain(c) ==
    /\ opc = "alive"
    /\ m_isRequestClose \/ WeakCasMayFail
    /\ CloserGoes(c, "idle", "not_waited")
    /\ UNCHANGED <<m_isRequestClose, sleepers>>

AsyncClose(c) ==
    /\ opc = "alive"
    /\ CloserGoes(c, "idle", "not_waited")
    /\ \/ m_isRequestClose' = TRUE
       \/ WeakCasMayFail /\ UNCHANGED m_isRequestClose
    /\ UNCHANGED sleepers

\* Mutant: the not1 of the condition is forgotten.
IsNotFinished == m_state # "FINISHED"

IsFinished == m_state = "FINISHED"

\* ConditionWaitLocker(m_stateGuard, !IsFinished)
CloseTest(c) ==
    /\ CloserGoes(c, "test", IF IsFinished THEN "finished" ELSE "waiting")
    /\ sleepers' = IF IsFinished THEN sleepers ELSE sleepers \cup {c}
    /\ UNCHANGED m_isRequestClose

CloseNotified(c) ==
    /\ c \notin sleepers
    /\ CloserGoes(c, "waiting", "test")
    /\ UNCHANGED <<m_isRequestClose, sleepers>>

CloseSpurious(c) ==
    /\ c \in sleepers
    /\ CloserGoes(c, "waiting", "test")
    /\ sleepers' = sleepers \ {c}
    /\ UNCHANGED m_isRequestClose

-----------------------------------------------------------------------------

OwnerStep == Create \/ Assign \/ Join
ThreadEnds == CaughtExit \/ ExecuteFinishAction \/ SetFinished \/ NotifyFinished
ThreadStep == SetRunning \/ CheckIsRequestClose \/ WorkChecks \/ ThreadEnds
CloserStep(c) == CloseTest(c) \/ CloseNotified(c)

Next ==
    \/ OwnerStep \/ CreateFails \/ CallDestructor
    \/ ThreadStep \/ WorkReturns \/ WorkThrows
    \/ \E c \in Closers :
          \/ Close(c) \/ CloseAgain(c) \/ AsyncClose(c)
          \/ CloserStep(c) \/ CloseSpurious(c)

Spec == Init /\ [][Next]_vars

\* Every thread that can go on does; the work function calls checkFunc again
\* and again, as the library's own ones do, but need not ever return.
FairSpec ==
    /\ Spec
    /\ WF_vars(OwnerStep)
    /\ WF_vars(ThreadStep)
    /\ \A c \in Closers : WF_vars(CloserStep(c))

-----------------------------------------------------------------------------

TypeOK ==
    /\ m_state \in {"INIT", "RUNNING", "FINISHED"}
    /\ m_isRequestClose \in BOOLEAN
    /\ sleepers \subseteq Closers
    /\ opc \in OwnerPCs
    /\ tpc \in ThreadPCs
    /\ cpc \in [Closers -> CloserPCs]
    /\ finishDone \in BOOLEAN
    /\ fails \in 0 .. MaxCreateFails

(* A Close that waited returns only when the thread has executed its finish
   action and has nothing left to do but to notify. *)
CloseWaitsForFinish ==
    (\E c \in Closers : cpc[c] = "finished") => finishDone /\ tpc \in {"notify", "exited"}

(* At most one Close waits: every other call returns at once. *)
OneCloserWaits ==
    \A c, d \in Closers :
        {cpc[c], cpc[d]} \subseteq {"test", "waiting", "finished"} => c = d

(* A closer that sleeps will be notified, unless the work function threw: the
   thread sets FINISHED without the mutex, and the closer may test the state
   just before. *)
SleeperWillBeNotified ==
    sleepers # {} => m_isRequestClose /\ tpc # "exited"

(* The destructor returns only when the thread is over, so no thread touches a
   destroyed object. *)
NoUseAfterDestruction ==
    opc = "destroyed" => tpc \in {"exited", "thrown"} /\ sleepers = {}

\* How far the thread has come, as its owner sees it
Phase ==
    IF tpc \in {"none", "exited", "thrown", "crashed"} THEN tpc
    ELSE IF finishDone THEN "finished" ELSE "working"

Contract ==
    INSTANCE ThreadContract WITH
        closeRequested <- m_isRequestClose, phase <- Phase,
        closed <- {c \in Closers : cpc[c] = "finished"}, destroyed <- (opc = "destroyed")

(* The thread keeps the contract that the pools and timers rely on: whichever way
   the work ends, the finish action comes before the end, Close returns between
   the two at the earliest, and the destructor after the end. *)
ImplementsContract == Contract!Spec

(* A Close that waits returns, unless the work function throws. *)
CloseReturns ==
    \A c \in Closers : cpc[c] = "test" ~> cpc[c] = "finished" \/ tpc = "thrown"
=============================================================================
