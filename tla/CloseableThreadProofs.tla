----------------------- MODULE CloseableThreadProofs -----------------------
(***************************************************************************)
(* For any number of closers: a Close that waits is notified, returns only *)
(* after the finish action, and nobody uses a destroyed CloseableThread.   *)
(*                                                                         *)
(* SleeperWillBeNotified needs to know more than that a sleeper has asked: *)
(* if FINISHED is set already (without the mutex), NotifyFinished must     *)
(* still be ahead, which StateInv ties to the thread's position.           *)
(***************************************************************************)
EXTENDS CloseableThread, TLAPS

Closing == {"test", "waiting", "finished"}

\* m_state and the history say where the thread is.
StateInv ==
    /\ m_state = "FINISHED" <=> tpc \in {"notify", "exited"}
    /\ finishDone <=> tpc \in {"set_finished", "notify", "exited"}

\* What a closer's position implies.
CloserInv ==
    /\ \A c \in Closers : cpc[c] \in Closing => m_isRequestClose
    /\ \A c \in Closers : cpc[c] = "finished" => m_state = "FINISHED"
    /\ \A c \in sleepers : cpc[c] = "waiting"

\* The thread is created once; the object is destroyed when no call is in
\* progress.
OwnerInv ==
    /\ opc = "create" <=> tpc = "none"
    /\ opc \in {"join", "destroyed"} =>
           \A c \in Closers : cpc[c] \notin {"test", "waiting"}
    /\ opc = "destroyed" => tpc \in {"exited", "thrown"}

IInv ==
    /\ TypeOK
    /\ StateInv
    /\ CloserInv
    /\ OwnerInv
    /\ OneCloserWaits
    /\ SleeperWillBeNotified

-----------------------------------------------------------------------------

(* The invariant holds when the constructor begins. *)
LEMMA InitInv == Init => IInv
  <1> SUFFICES ASSUME Init PROVE IInv
    OBVIOUS
  <1>1. fails \in 0 .. MaxCreateFails
    BY CloseableThreadAssumption DEF Init
  <1>2. m_isRequestClose \in BOOLEAN /\ finishDone \in BOOLEAN
    BY DEF Init
  <1>3. TypeOK
    BY <1>1, <1>2 DEF Init, TypeOK, OwnerPCs, ThreadPCs, CloserPCs
  <1>4. StateInv /\ CloserInv /\ OwnerInv
    BY DEF Init, StateInv, CloserInv, OwnerInv, Closing
  <1>5. OneCloserWaits /\ SleeperWillBeNotified
    BY DEF Init, OneCloserWaits, SleeperWillBeNotified
  <1> QED
    BY <1>3, <1>4, <1>5 DEF IInv

(* The owner creates, joins and destroys. *)
LEMMA OwnerKeepsInv ==
    ASSUME IInv, OwnerStep \/ CreateFails \/ CallDestructor
    PROVE  IInv'
  <1> USE DEF IInv, OwnerStep, CreateFails, Create, Assign, CallDestructor, Join,
              OwnerGoes, OwnerMoves, Joined
  <1>1. TypeOK'
    <2>1. fails' \in 0 .. MaxCreateFails
      BY CloseableThreadAssumption DEF TypeOK
    <2> QED
      BY <2>1 DEF TypeOK, OwnerPCs, ThreadPCs
  <1>2. StateInv' /\ CloserInv'
    BY DEF StateInv, CloserInv, OwnerInv
  <1>3. OwnerInv'
    BY DEF OwnerInv
  <1>4. OneCloserWaits' /\ SleeperWillBeNotified'
    BY DEF OneCloserWaits, SleeperWillBeNotified
  <1> QED
    BY <1>1, <1>2, <1>3, <1>4

(* The thread's own steps.  Only NotifyFinished makes it "exited", and it
   leaves no sleeper. *)
LEMMA ThreadKeepsInv ==
    ASSUME IInv, ThreadStep \/ WorkReturns \/ WorkThrows
    PROVE  IInv'
  <1> USE DEF IInv, ThreadStep, ThreadEnds, SetRunning, CheckIsRequestClose, WorkChecks,
              WorkReturns, WorkThrows, CaughtExit, ExecuteFinishAction, SetFinished,
              NotifyFinished, SetState, ThreadGoes, ThreadMoves, AfterCatch
  <1>1. TypeOK'
    <2>1. finishDone' \in BOOLEAN
      BY DEF TypeOK
    <2> QED
      BY <2>1 DEF TypeOK, ThreadPCs
  <1>2. StateInv'
    <2>1. m_state' = "FINISHED" <=> tpc' \in {"notify", "exited"}
      BY DEF StateInv
    <2>2. CASE ExecuteFinishAction
      <3>1. tpc' \in {"set_finished", "notify", "exited"} <=> opc # "assign"
        BY <2>2
      <3>2. finishDone' <=> opc # "assign"
        BY <2>2
      <3> QED
        BY <2>1, <3>1, <3>2 DEF StateInv
    <2>3. CASE ~ExecuteFinishAction
      <3>1. UNCHANGED finishDone
        BY <2>3
      <3>2. tpc' \in {"set_finished", "notify", "exited"}
              <=> tpc \in {"set_finished", "notify", "exited"}
        BY <2>3
      <3> QED
        BY <2>1, <3>1, <3>2 DEF StateInv
    <2> QED
      BY <2>2, <2>3
  <1>3. CloserInv'
    BY DEF StateInv, CloserInv
  <1>4. OwnerInv'
    BY DEF OwnerInv
  <1>5. OneCloserWaits'
    BY DEF OneCloserWaits
  <1>6. SleeperWillBeNotified'
    BY DEF SleeperWillBeNotified
  <1> QED
    BY <1>1, <1>2, <1>3, <1>4, <1>5, <1>6

(* A closer's steps.  It sleeps only if FINISHED is not set, so the
   notification is still to come. *)
LEMMA CloserKeepsInv ==
    ASSUME IInv, NEW c \in Closers,
           \/ Close(c) \/ CloseAgain(c) \/ AsyncClose(c)
           \/ CloserStep(c) \/ CloseSpurious(c)
    PROVE  IInv'
  <1> USE DEF IInv, Close, CloseAgain, AsyncClose, CloserStep, CloseTest, CloseNotified,
              CloseSpurious, CloserGoes, IsFinished
  <1>1. TypeOK'
    BY DEF TypeOK, CloserPCs
  <1>2. StateInv'
    BY DEF StateInv
  <1>3. CloserInv'
    BY DEF TypeOK, CloserInv, Closing
  <1>4. OwnerInv'
    BY DEF TypeOK, OwnerInv
  <1>5. OneCloserWaits'
    BY DEF TypeOK, CloserInv, OneCloserWaits, Closing
  <1>6. SleeperWillBeNotified'
    BY DEF TypeOK, StateInv, CloserInv, SleeperWillBeNotified, Closing
  <1> QED
    BY <1>1, <1>2, <1>3, <1>4, <1>5, <1>6

(* IInv holds in every reachable state. *)
THEOREM Invariance == Spec => []IInv
  <1>1. IInv /\ [Next]_vars => IInv'
    <2>1. SUFFICES ASSUME IInv, [Next]_vars PROVE IInv'
      OBVIOUS
    <2>2. CASE UNCHANGED vars
      BY <2>1, <2>2 DEF vars, IInv, TypeOK, StateInv, CloserInv, OwnerInv,
                        OneCloserWaits, SleeperWillBeNotified
    <2>3. CASE Next
      BY <2>1, <2>3, OwnerKeepsInv, ThreadKeepsInv, CloserKeepsInv DEF Next
    <2> QED
      BY <2>1, <2>2, <2>3
  <1> QED
    BY <1>1, InitInv, PTL DEF Spec

-----------------------------------------------------------------------------

(* The variables keep their types. *)
THEOREM TypeCorrect == Spec => []TypeOK
  BY Invariance, PTL DEF IInv

(* For any number of closers, the notification of NotifyFinished cannot pass a
   sleeping Close by. *)
THEOREM ClosersAreNotified == Spec => []SleeperWillBeNotified
  BY Invariance, PTL DEF IInv

(* For any number of closers, a Close that waited returns after the finish
   action. *)
THEOREM CloseIsAfterFinish == Spec => []CloseWaitsForFinish
  <1>1. IInv => CloseWaitsForFinish
    BY DEF IInv, StateInv, CloserInv, CloseWaitsForFinish
  <1> QED
    BY <1>1, Invariance, PTL

(* For any number of closers, at most one of them waits. *)
THEOREM SingleWaiter == Spec => []OneCloserWaits
  BY Invariance, PTL DEF IInv

(* For any number of closers, the destructor leaves nobody inside the object. *)
THEOREM DestructionIsSafe == Spec => []NoUseAfterDestruction
  <1>1. IInv => NoUseAfterDestruction
    BY DEF IInv, TypeOK, CloserInv, OwnerInv, NoUseAfterDestruction
  <1> QED
    BY <1>1, Invariance, PTL

-----------------------------------------------------------------------------
(* The contract: the owner's step is Start, Destroy or none of the contract's,
   a closer's is Request, Close or none. *)

\* finishDone is no more than the thread's position.
PhaseByPosition ==
    /\ tpc \in {"none", "exited", "thrown", "crashed"} => Phase = tpc
    /\ tpc \in {"set_finished", "notify"} => Phase = "finished"
    /\ tpc \in {"set_running", "check", "work", "caught", "finish"} => Phase = "working"

(* Under IInv the phase of the contract can be read off the thread's position. *)
LEMMA PhaseFacts == (IInv => PhaseByPosition) /\ (IInv' => PhaseByPosition')
  <1>1. IInv => PhaseByPosition
    BY DEF IInv, StateInv, Phase, PhaseByPosition
  <1>2. IInv' => PhaseByPosition'
    BY DEF IInv, StateInv, Phase, PhaseByPosition
  <1> QED
    BY <1>1, <1>2

\* The set that stands for the contract's variable closed
Closed == {c \in Closers : cpc[c] = "finished"}

(* A step of the owner is a step of the contract. *)
LEMMA OwnerKeepsContract ==
    ASSUME IInv, IInv', OwnerStep \/ CreateFails \/ CallDestructor
    PROVE  [Contract!Next]_Contract!vars
  <1> USE DEF IInv, OwnerGoes, OwnerMoves, Joined
  <1>1. CASE Create
    <2>1. Phase = "none" /\ Phase' = "working"
      BY <1>1, PhaseFacts DEF PhaseByPosition, Create, OwnerInv
    <2> QED
      BY <1>1, <2>1 DEF Create, Contract!Next, Contract!Start, Contract!ThreadGoes
  <1>2. CASE Join
    <2>1. Phase \in {"exited", "thrown"} /\ Phase' = Phase
      BY <1>2, PhaseFacts DEF PhaseByPosition, Join
    <2> QED
      BY <1>2, <2>1 DEF Join, Contract!Next, Contract!Destroy
  <1>3. CASE Assign \/ CreateFails \/ CallDestructor
    <2>1. UNCHANGED <<tpc, finishDone, m_isRequestClose, cpc>>
          /\ opc # "destroyed" /\ opc' # "destroyed"
      BY <1>3 DEF Assign, CreateFails, CallDestructor
    <2>2. UNCHANGED Phase
      BY <2>1 DEF Phase
    <2> QED
      BY <2>1, <2>2 DEF Contract!vars
  <1> QED
    BY <1>1, <1>2, <1>3 DEF OwnerStep

(* A step of the thread is a step of the contract. *)
LEMMA ThreadKeepsContract ==
    ASSUME IInv, IInv', ThreadStep \/ WorkReturns \/ WorkThrows
    PROVE  [Contract!Next]_Contract!vars
  <1> USE DEF IInv, ThreadGoes, ThreadMoves, SetState, AfterCatch
  <1>1. UNCHANGED <<m_isRequestClose, opc, cpc>>
    BY DEF ThreadStep, ThreadEnds, SetRunning, CheckIsRequestClose, WorkChecks, WorkReturns,
           WorkThrows, CaughtExit, ExecuteFinishAction, SetFinished, NotifyFinished
  <1>2. CASE SetRunning \/ CheckIsRequestClose \/ WorkChecks \/ WorkReturns \/ SetFinished
    <2>1. UNCHANGED Phase
      BY <1>2, PhaseFacts
      DEF PhaseByPosition, SetRunning, CheckIsRequestClose, WorkChecks, WorkReturns, SetFinished
    <2> QED
      BY <1>1, <2>1 DEF Contract!vars
  <1>3. CASE WorkThrows \/ CaughtExit
    <2>1. Phase = "working" /\ Phase' \in {"working", "thrown", "crashed"}
      BY <1>3, PhaseFacts DEF PhaseByPosition, WorkThrows, CaughtExit
    <2> QED
      BY <1>1, <2>1 DEF Contract!Next, Contract!Throw, Contract!Crash, Contract!ThreadGoes,
                        Contract!vars
  <1>4. CASE ExecuteFinishAction
    <2>1. Phase = "working" /\ Phase' \in {"finished", "crashed"}
      BY <1>4, PhaseFacts DEF PhaseByPosition, ExecuteFinishAction
    <2> QED
      BY <1>1, <2>1 DEF Contract!Next, Contract!Finish, Contract!Crash, Contract!ThreadGoes
  <1>5. CASE NotifyFinished
    <2>1. Phase = "finished" /\ Phase' = "exited"
      BY <1>5, PhaseFacts DEF PhaseByPosition, NotifyFinished
    <2> QED
      BY <1>1, <2>1 DEF Contract!Next, Contract!Exit, Contract!ThreadGoes
  <1> QED
    BY <1>2, <1>3, <1>4, <1>5 DEF ThreadStep, ThreadEnds

(* A step of a closer is a step of the contract. *)
LEMMA CloserKeepsContract ==
    ASSUME IInv, IInv', NEW c \in Closers,
           \/ Close(c) \/ CloseAgain(c) \/ AsyncClose(c)
           \/ CloserStep(c) \/ CloseSpurious(c)
    PROVE  [Contract!Next]_Contract!vars
  <1> USE DEF IInv, CloserGoes
  <1>1. UNCHANGED <<tpc, finishDone, opc>>
    BY DEF Close, CloseAgain, AsyncClose, CloserStep, CloseTest, CloseNotified, CloseSpurious
  <1>2. UNCHANGED Phase
    BY <1>1 DEF Phase
  <1>3. CASE cpc'[c] # "finished"
    <2>1. Closed' = Closed
      BY <1>3 DEF TypeOK, Closed, Close, CloseAgain, AsyncClose, CloserStep, CloseTest,
                  CloseNotified, CloseSpurious
    <2>2. CASE UNCHANGED m_isRequestClose
      BY <1>1, <1>2, <2>1, <2>2 DEF Closed, Contract!vars
    <2>3. CASE ~UNCHANGED m_isRequestClose
      <3>1. m_isRequestClose' = TRUE /\ opc = "alive"
        BY <2>3 DEF Close, CloseAgain, AsyncClose, CloserStep, CloseTest, CloseNotified,
                    CloseSpurious
      <3>2. Phase # "none"
        BY <3>1, PhaseFacts DEF PhaseByPosition, TypeOK, ThreadPCs, OwnerInv
      <3> QED
        BY <1>1, <1>2, <2>1, <3>1, <3>2 DEF Closed, Contract!Next, Contract!Request
    <2> QED
      BY <2>2, <2>3
  <1>4. CASE cpc'[c] = "finished"
    <2>1. CloseTest(c) /\ m_state = "FINISHED"
      BY <1>4 DEF TypeOK, Close, CloseAgain, AsyncClose, CloserStep, CloseTest,
                  CloseNotified, CloseSpurious, IsFinished
    <2>2. Closed' = Closed \cup {c}
      BY <1>4, <2>1 DEF TypeOK, Closed, CloseTest
    <2>3. m_isRequestClose /\ m_isRequestClose' = m_isRequestClose /\ opc # "destroyed"
      BY <2>1 DEF CloseTest, CloserInv, OwnerInv, Closing
    <2>4. Phase \in {"finished", "exited"}
      BY <2>1, PhaseFacts DEF PhaseByPosition, StateInv
    <2> QED
      BY <1>1, <1>2, <2>2, <2>3, <2>4 DEF Closed, Contract!Next, Contract!Close
  <1> QED
    BY <1>3, <1>4

(* For any number of closers, whatever fails, throws or wakes up for nothing,
   the thread keeps the contract that its owners are written against. *)
THEOREM KeepsContract == Spec => ImplementsContract
  <1>1. Init => Contract!Init
    BY DEF Init, Phase, Contract!Init
  <1>2. IInv /\ IInv' /\ [Next]_vars => [Contract!Next]_Contract!vars
    <2>1. SUFFICES ASSUME IInv, IInv', [Next]_vars PROVE [Contract!Next]_Contract!vars
      OBVIOUS
    <2>2. CASE UNCHANGED vars
      BY <2>2 DEF vars, Phase, Contract!vars
    <2>3. CASE Next
      BY <2>1, <2>3, OwnerKeepsContract, ThreadKeepsContract, CloserKeepsContract DEF Next
    <2> QED
      BY <2>1, <2>2, <2>3
  <1> QED
    BY <1>1, <1>2, Invariance, PTL DEF Spec, ImplementsContract, Contract!Spec
=============================================================================
