------------------------ MODULE CyclicBarrierProofs ------------------------
(***************************************************************************)
(* For any threads, any m_max_count and any number of Awaits and Resets:   *)
(* nobody sleeps through the end of its generation, SUCCESS means that all *)
(* have come, and m_max_count threads are never asleep at once.            *)
(***************************************************************************)
EXTENDS CyclicBarrier, FiniteSetTheorems, TLAPS

\* Who has come and who is missing are m_max_count together.
Counted ==
    /\ m_count + arrivals = MaxCount
    /\ m_barrier_cond <= awaits

\* A thread in Await remembers a generation that is not ahead of the barrier;
\* if that is over and was not reset, it tripped.
WaitInv ==
    \A t \in Threads : pc[t] = "waiting" =>
        /\ current[t].reset <= m_reset_index
        /\ current[t] # Generation /\ current[t].reset = m_reset_index
              => current[t] \in tripped
        /\ result[t] = "NONE"

IInv == TypeOK /\ Counted /\ SleepersAreCurrent /\ WaitInv /\ SuccessMeansAllArrived

-----------------------------------------------------------------------------

(* A generation is a pair of counters within their bounds. *)
LEMMA GenerationType == TypeOK => Generation \in Generations
  BY DEF TypeOK, Generation, Generations

(* The constructor establishes the invariant. *)
LEMMA InitInv == Init => IInv
  <1> SUFFICES ASSUME Init PROVE IInv
    OBVIOUS
  <1>1. Generation \in Generations
    BY CyclicBarrierAssumption DEF Init, Generation, Generations
  <1>2. TypeOK
    BY <1>1, CyclicBarrierAssumption DEF Init, TypeOK
  <1> QED
    BY <1>2, CyclicBarrierAssumption
    DEF Init, IInv, Counted, SleepersAreCurrent, WaitInv, SuccessMeansAllArrived

(* The last one to come finds m_max_count - 1 others counted, so its
   generation is one of those that tripped with all arrived; nobody is asleep
   when the next one begins. *)
LEMMA LastKeepsInv ==
    ASSUME IInv, NEW t \in Threads, AwaitLast(t)
    PROVE  IInv'
  <1> USE CyclicBarrierAssumption DEF IInv, AwaitLast, Arrive, NotifyAll, Restart
  <1>1. tripped' = tripped \cup {Generation}
    BY DEF Counted, TypeOK
  <1>2. current' = [current EXCEPT ![t] = Generation] /\ current \in [Threads -> Generations]
    BY DEF TypeOK
  <1>3. TypeOK'
    <2>1. PICK isTimed \in BOOLEAN : timed' = [timed EXCEPT ![t] = isTimed]
      OBVIOUS
    <2>2. timed' \in [Threads -> BOOLEAN]
      BY <2>1 DEF TypeOK
    <2>3. m_barrier_cond' \in 0 .. MaxAwaits /\ awaits' \in 0 .. MaxAwaits
      BY DEF TypeOK, Counted
    <2>4. current' \in [Threads -> Generations] /\ tripped' \subseteq Generations
      BY <1>1, GenerationType DEF TypeOK
    <2> QED
      BY <2>2, <2>3, <2>4 DEF TypeOK
  <1>4. Counted'
    BY DEF Counted, TypeOK
  <1>5. SleepersAreCurrent'
    BY DEF SleepersAreCurrent
  <1>6. WaitInv'
    <2> SUFFICES ASSUME NEW u \in Threads, pc'[u] = "waiting"
                 PROVE  /\ current'[u].reset <= m_reset_index'
                        /\ current'[u].reset = m_reset_index' => current'[u] \in tripped'
                        /\ result'[u] = "NONE"
      BY DEF WaitInv
    <2>1. u # t /\ pc[u] = "waiting" /\ current'[u] = current[u] /\ result'[u] = result[u]
      BY DEF TypeOK
    <2> QED
      BY <1>1, <2>1 DEF WaitInv
  <1>7. SuccessMeansAllArrived'
    BY <1>1, <1>2 DEF SuccessMeansAllArrived, TypeOK
  <1> QED
    BY <1>3, <1>4, <1>5, <1>6, <1>7

(* One that comes and waits is counted, and sleeps in the generation of now. *)
LEMMA WaitKeepsInv ==
    ASSUME IInv, NEW t \in Threads, AwaitWait(t)
    PROVE  IInv'
  <1> USE CyclicBarrierAssumption DEF IInv, AwaitWait, Arrive
  <1>1. Generation' = Generation
    BY DEF Generation
  <1>2. Generation \in Generations /\ Generation.reset = m_reset_index
    BY GenerationType DEF Generation
  <1>3. current' = [current EXCEPT ![t] = Generation] /\ current \in [Threads -> Generations]
    BY DEF TypeOK
  <1>4. TypeOK'
    <2>1. PICK isTimed \in BOOLEAN : timed' = [timed EXCEPT ![t] = isTimed]
      OBVIOUS
    <2>2. timed' \in [Threads -> BOOLEAN]
      BY <2>1 DEF TypeOK
    <2>3. m_count' \in 1 .. MaxCount /\ arrivals' \in 0 .. MaxCount
      BY DEF TypeOK, Counted
    <2> QED
      BY <1>2, <1>3, <2>2, <2>3 DEF TypeOK
  <1>5. Counted'
    BY DEF Counted, TypeOK
  <1>6. SleepersAreCurrent'
    BY <1>1, <1>3 DEF SleepersAreCurrent, TypeOK
  <1>7. WaitInv'
    <2> SUFFICES ASSUME NEW u \in Threads, pc'[u] = "waiting"
                 PROVE  /\ current'[u].reset <= m_reset_index
                        /\ current'[u] # Generation /\ current'[u].reset = m_reset_index
                              => current'[u] \in tripped
                        /\ result'[u] = "NONE"
      BY <1>1 DEF WaitInv
    <2>1. CASE u = t
      BY <1>2, <1>3, <2>1 DEF TypeOK
    <2>2. CASE u # t
      BY <1>3, <2>2 DEF WaitInv, TypeOK
    <2> QED
      BY <2>1, <2>2
  <1>8. SuccessMeansAllArrived'
    BY <1>3 DEF SuccessMeansAllArrived, TypeOK
  <1> QED
    BY <1>4, <1>5, <1>6, <1>7, <1>8

(* A thread that has come sleeps, wakes and returns: the barrier stays as it
   is, and SUCCESS is returned for a generation that is over and was not
   reset. *)
LEMMA StepKeepsInv ==
    ASSUME IInv, NEW t \in Threads, Step(t) \/ SpuriousWakeup(t) \/ TimeOut(t)
    PROVE  IInv'
  <1> USE DEF IInv, barrier
  <1>1. /\ m_count' = m_count /\ m_reset_index' = m_reset_index
        /\ m_barrier_cond' = m_barrier_cond /\ timed' = timed /\ current' = current
        /\ awaits' = awaits /\ arrivals' = arrivals /\ tripped' = tripped
    BY DEF Step, SpuriousWakeup, TimeOut, AwaitAgain, AwaitReturn, TimeOutReturn, Return
  <1>2. Generation' = Generation
    BY <1>1 DEF Generation
  <1>3. CASE SpuriousWakeup(t) \/ AwaitAgain(t) \/ TimeOut(t)
    <2> USE <1>1, <1>2, <1>3 DEF SpuriousWakeup, AwaitAgain, TimeOut
    <2>1. TypeOK' /\ Counted' /\ SuccessMeansAllArrived'
      BY DEF TypeOK, Counted, SuccessMeansAllArrived
    <2>2. SleepersAreCurrent'
      BY DEF SleepersAreCurrent, TypeOK
    <2>3. WaitInv'
      BY DEF WaitInv, TypeOK
    <2> QED
      BY <2>1, <2>2, <2>3
  <1>4. ASSUME NEW r \in {"SUCCESS", "BROKEN", "TIMEOUT"}, Return(t, r), t \notin sleepers,
               r = "SUCCESS" => current[t] \in tripped
        PROVE  IInv'
    <2> USE <1>1, <1>2, <1>4 DEF Return
    <2>1. TypeOK' /\ Counted'
      BY DEF TypeOK, Counted
    <2>2. SleepersAreCurrent'
      BY DEF SleepersAreCurrent, TypeOK
    <2>3. WaitInv'
      BY DEF WaitInv, TypeOK
    <2>4. SuccessMeansAllArrived'
      BY DEF SuccessMeansAllArrived, TypeOK
    <2> QED
      BY <2>1, <2>2, <2>3, <2>4
  <1>5. CASE AwaitReturn(t)
    <2>1. Outcome(t) = "SUCCESS" => current[t] \in tripped
      BY <1>5 DEF AwaitReturn, Outcome, WaitInv
    <2> QED
      BY <1>4, <1>5, <2>1 DEF AwaitReturn, Outcome
  <1>6. CASE TimeOutReturn(t)
    BY <1>4, <1>6 DEF TimeOutReturn, SleepersAreCurrent
  <1> QED
    BY <1>3, <1>5, <1>6 DEF Step

(* A reset wakes everybody, and no one in Await takes the new generation for
   its own. *)
LEMMA ResetKeepsInv ==
    ASSUME IInv, Reset
    PROVE  IInv'
  <1> USE CyclicBarrierAssumption DEF IInv, Reset, NotifyAll, Restart
  <1>1. TypeOK' /\ Counted'
    BY DEF TypeOK, Counted
  <1>2. SleepersAreCurrent' /\ SuccessMeansAllArrived'
    BY DEF SleepersAreCurrent, SuccessMeansAllArrived
  <1>3. WaitInv'
    <2> SUFFICES ASSUME NEW u \in Threads, pc[u] = "waiting"
                 PROVE  current[u].reset < m_reset_index + 1 /\ result[u] = "NONE"
      BY DEF WaitInv, TypeOK, Generations
    <2> QED
      BY DEF WaitInv, TypeOK, Generations
  <1> QED
    BY <1>1, <1>2, <1>3

(* The inductive invariant: the counters, who may sleep, what a waiting thread
   will find, and what those that returned were told. *)
THEOREM BarrierInvariance == Spec => []IInv
  <1>1. IInv /\ [Next]_vars => IInv'
    <2> SUFFICES ASSUME IInv, [Next]_vars PROVE IInv'
      OBVIOUS
    <2>1. CASE UNCHANGED vars
      BY <2>1 DEF vars, barrier, IInv, TypeOK, Counted, SleepersAreCurrent, WaitInv,
                  SuccessMeansAllArrived, Generation
    <2>2. CASE Next
      BY <2>2, LastKeepsInv, WaitKeepsInv, StepKeepsInv, ResetKeepsInv DEF Next
    <2> QED
      BY <2>1, <2>2
  <1> QED
    BY <1>1, InitInv, PTL DEF Spec

(* The variables of the barrier keep their types; m_count never reaches 0. *)
THEOREM BarrierTypeCorrect == Spec => []TypeOK
  BY BarrierInvariance, PTL DEF IInv

(* Nobody sleeps on through the end of its generation, by a trip or a Reset. *)
THEOREM NobodySleepsOn == Spec => []SleepersAreCurrent
  BY BarrierInvariance, PTL DEF IInv

(* An Await that returns SUCCESS came in a generation to which m_max_count
   Awaits came, whatever trips and resets followed before it ran. *)
THEOREM SuccessIsEarned == Spec => []SuccessMeansAllArrived
  BY BarrierInvariance, PTL DEF IInv

-----------------------------------------------------------------------------

\* The threads that wait for the barrier as it is now, asleep or about to be.
WaitingNow == {t \in Threads : pc[t] = "waiting" /\ current[t] = Generation}

\* Each of them was counted when it came, and nobody waits for a trip to come.
CountInv ==
    /\ \A t \in Threads : pc[t] = "waiting" => current[t].trip <= m_barrier_cond
    /\ IsFiniteSet(WaitingNow)
    /\ Cardinality(WaitingNow) <= arrivals

(* A new generation begins with nobody waiting in it. *)
LEMMA NewGenerationIsEmpty ==
    ASSUME IInv, CountInv, (\E t \in Threads : AwaitLast(t)) \/ Reset
    PROVE  CountInv'
  <1> USE DEF IInv, TypeOK
  <1>1. \A u \in Threads : pc'[u] = "waiting" =>
            /\ pc[u] = "waiting" /\ current'[u] = current[u]
            /\ current[u].trip <= m_barrier_cond /\ current[u].reset <= m_reset_index
            /\ current[u].trip \in Nat /\ current[u].reset \in Nat
    BY DEF CountInv, WaitInv, AwaitLast, Arrive, Reset, Generations
  <1>2. \/ m_barrier_cond' = m_barrier_cond + 1 /\ m_reset_index' = m_reset_index
        \/ m_barrier_cond' = m_barrier_cond /\ m_reset_index' = m_reset_index + 1
    BY DEF AwaitLast, Reset
  <1>3. WaitingNow' = {}
    BY <1>1, <1>2 DEF WaitingNow, Generation
  <1>4. arrivals' = 0
    BY DEF AwaitLast, Reset, Restart
  <1> QED
    BY <1>1, <1>2, <1>3, <1>4, FS_EmptySet DEF CountInv

(* One that comes and waits adds one to those that wait and to the arrivals. *)
LEMMA ComingIsCounted ==
    ASSUME IInv, CountInv, NEW t \in Threads, AwaitWait(t)
    PROVE  CountInv'
  <1> USE DEF IInv, TypeOK, AwaitWait, Arrive
  <1>1. Generation' = Generation /\ Generation.trip = m_barrier_cond
    BY DEF Generation
  <1>2. WaitingNow' = WaitingNow \cup {t} /\ t \notin WaitingNow
    BY <1>1 DEF WaitingNow
  <1>3. /\ IsFiniteSet(WaitingNow')
        /\ Cardinality(WaitingNow') = Cardinality(WaitingNow) + 1
        /\ Cardinality(WaitingNow) \in Nat
    BY <1>2, FS_AddElement, FS_CardinalityType DEF CountInv
  <1>4. \A u \in Threads : pc'[u] = "waiting" => current'[u].trip <= m_barrier_cond'
    BY <1>1 DEF CountInv
  <1> QED
    BY <1>3, <1>4 DEF CountInv

(* A step of a thread that has come takes at most that thread away. *)
LEMMA StepKeepsCount ==
    ASSUME IInv, CountInv, NEW t \in Threads, Step(t) \/ SpuriousWakeup(t) \/ TimeOut(t)
    PROVE  CountInv'
  <1> USE DEF IInv, TypeOK
  <1>1. /\ current' = current /\ arrivals' = arrivals
        /\ m_barrier_cond' = m_barrier_cond /\ m_reset_index' = m_reset_index
        /\ \A u \in Threads : pc'[u] = "waiting" => pc[u] = "waiting"
    BY DEF Step, SpuriousWakeup, TimeOut, AwaitAgain, AwaitReturn, TimeOutReturn, Return,
           barrier
  <1>2. WaitingNow' \subseteq WaitingNow
    BY <1>1 DEF WaitingNow, Generation
  <1>3. IsFiniteSet(WaitingNow') /\ Cardinality(WaitingNow') <= Cardinality(WaitingNow)
    BY <1>2, FS_Subset DEF CountInv
  <1>4. Cardinality(WaitingNow) \in Nat /\ Cardinality(WaitingNow') \in Nat
    BY <1>3, FS_CardinalityType DEF CountInv
  <1> QED
    BY <1>1, <1>3, <1>4 DEF CountInv

(* The threads that wait for this generation are no more than its arrivals. *)
THEOREM WaitingAreCounted == Spec => []CountInv
  <1>1. Init => CountInv
    <2> SUFFICES ASSUME Init PROVE CountInv
      OBVIOUS
    <2>1. WaitingNow = {}
      BY DEF Init, WaitingNow
    <2> QED
      BY <2>1, FS_EmptySet DEF Init, CountInv
  <1>2. IInv /\ CountInv /\ [Next]_vars => CountInv'
    <2> SUFFICES ASSUME IInv, CountInv, [Next]_vars PROVE CountInv'
      OBVIOUS
    <2>1. CASE UNCHANGED vars
      BY <2>1 DEF vars, barrier, CountInv, WaitingNow, Generation
    <2>2. CASE Next
      BY <2>2, NewGenerationIsEmpty, ComingIsCounted, StepKeepsCount DEF Next
    <2> QED
      BY <2>1, <2>2
  <1> QED
    BY <1>1, <1>2, BarrierInvariance, PTL DEF Spec

(* However trips, resets and time-outs interleave, m_max_count threads never
   sleep at once: those asleep wait for this generation, were counted in it, and
   m_count, which is what is left, never reaches 0. *)
THEOREM NotAllAsleep == Spec => []NeverAllAsleep
  <1>1. IInv /\ CountInv => NeverAllAsleep
    <2> SUFFICES ASSUME IInv, CountInv PROVE Cardinality(sleepers) < MaxCount
      BY DEF NeverAllAsleep
    <2>1. sleepers \subseteq WaitingNow
      BY DEF IInv, TypeOK, SleepersAreCurrent, WaitingNow
    <2>2. /\ IsFiniteSet(sleepers) /\ IsFiniteSet(WaitingNow)
          /\ Cardinality(sleepers) <= Cardinality(WaitingNow)
      BY <2>1, FS_Subset DEF CountInv
    <2>3. Cardinality(sleepers) \in Nat /\ Cardinality(WaitingNow) \in Nat
      BY <2>2, FS_CardinalityType
    <2>4. arrivals < MaxCount /\ arrivals \in Nat
      BY CyclicBarrierAssumption DEF IInv, TypeOK, Counted
    <2> QED
      BY <2>2, <2>3, <2>4, CyclicBarrierAssumption DEF CountInv
  <1> QED
    BY <1>1, BarrierInvariance, WaitingAreCounted, PTL
=============================================================================
