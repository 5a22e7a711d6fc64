--------------------------- MODULE CyclicBarrier ---------------------------
(***************************************************************************)
(* CyclicBarrier (src/src/CyclicBarrier.cpp): threads that Await, with or  *)
(* without a time-out, and threads that Reset the barrier.  A barrier goes *)
(* from generation to generation; a generation ends when the barrier trips *)
(* or is reset, and both counters together name it.                        *)
(*                                                                         *)
(* Every critical section of m_mutex is one step: nothing in one blocks,   *)
(* except the wait, which gives the mutex back.                            *)
(***************************************************************************)
EXTENDS Naturals, FiniteSets

CONSTANTS
    Threads,
    MaxCount,   \* m_max_count
    MaxAwaits,  \* bound: calls of Await in a behaviour
    MaxResets   \* bound: calls of Reset in a behaviour

ASSUME CyclicBarrierAssumption ==
    /\ MaxCount \in Nat \ {0}
    /\ MaxAwaits \in Nat /\ MaxResets \in Nat

VARIABLES
    m_count,
    m_reset_index,
    m_barrier_cond,
    sleepers,   \* the threads asleep on m_condition_variable
    pc,         \* pc[t]: "idle", "waiting" or "timed_out"
    timed,      \* timed[t]: is its Await the one with a time-out?
    current,    \* current[t]: the generation its Await came in
    result,     \* result[t]: what its last Await returned
    awaits,
    arrivals,   \* history: the Awaits of this generation
    tripped     \* history: the generations that tripped with all arrived

\* What a thread that waits leaves alone.
barrier == <<m_count, m_reset_index, m_barrier_cond, timed, current, awaits, arrivals,
             tripped>>
vars == <<sleepers, pc, result, barrier>>

Generation == [trip |-> m_barrier_cond, reset |-> m_reset_index]

Init ==
    /\ m_count = MaxCount
    /\ m_reset_index = 0
    /\ m_barrier_cond = 0
    /\ sleepers = {}
    /\ pc = [t \in Threads |-> "idle"]
    /\ timed = [t \in Threads |-> FALSE]
    /\ current = [t \in Threads |-> Generation]
    /\ result = [t \in Threads |-> "NONE"]
    /\ awaits = 0
    /\ arrivals = 0
    /\ tripped = {}

-----------------------------------------------------------------------------

Arrive(t) ==
    /\ pc[t] = "idle"
    /\ awaits < MaxAwaits
    /\ awaits' = awaits + 1
    /\ \E isTimed \in BOOLEAN : timed' = [timed EXCEPT ![t] = isTimed]
    /\ current' = [current EXCEPT ![t] = Generation]

\* Mutant: the count does not start again.
RestartAtZero == m_count' = 0 /\ arrivals' = 0
Restart == m_count' = MaxCount /\ arrivals' = 0

\* Mutants: only one of those that wait is notified; nobody is.
NotifyOne == sleepers' = sleepers \ {CHOOSE u \in Threads : sleepers # {} => u \in sleepers}
NotifyNobody == UNCHANGED sleepers
NotifyAll == sleepers' = {}

\* The last one to come trips the barrier and does not wait.
AwaitLast(t) ==
    /\ Arrive(t)
    /\ m_count = 1
    /\ NotifyAll
    /\ Restart
    /\ m_barrier_cond' = m_barrier_cond + 1
    /\ tripped' = IF arrivals + 1 = MaxCount THEN tripped \cup {Generation} ELSE tripped
    /\ result' = [result EXCEPT ![t] = "SUCCESS"]
    /\ UNCHANGED <<m_reset_index, pc>>

\* Any other remembers the generation and waits.
AwaitWait(t) ==
    /\ Arrive(t)
    /\ m_count # 1
    /\ m_count' = m_count - 1
    /\ arrivals' = arrivals + 1
    /\ sleepers' = sleepers \cup {t}
    /\ pc' = [pc EXCEPT ![t] = "waiting"]
    /\ result' = [result EXCEPT ![t] = "NONE"]
    /\ UNCHANGED <<m_reset_index, m_barrier_cond, tripped>>

SpuriousWakeup(t) ==
    /\ t \in sleepers
    /\ sleepers' = sleepers \ {t}
    /\ UNCHANGED <<pc, result, barrier>>

\* Awake and with the mutex: sleep again, if it is still the same generation.
AwaitAgain(t) ==
    /\ pc[t] = "waiting"
    /\ t \notin sleepers
    /\ current[t] = Generation
    /\ sleepers' = sleepers \cup {t}
    /\ UNCHANGED <<pc, result, barrier>>

Return(t, r) ==
    /\ pc' = [pc EXCEPT ![t] = "idle"]
    /\ result' = [result EXCEPT ![t] = r]
    /\ UNCHANGED <<sleepers, barrier>>

\* Mutant: a reset is taken for a trip.
OutcomeSuccess(t) == "SUCCESS"
Outcome(t) == IF current[t].reset # m_reset_index THEN "BROKEN" ELSE "SUCCESS"

AwaitReturn(t) ==
    /\ pc[t] = "waiting"
    /\ t \notin sleepers
    /\ current[t] # Generation
    /\ Return(t, Outcome(t))

\* pthread_cond_timedwait has timed out, but needs the mutex to return ...
TimeOut(t) ==
    /\ t \in sleepers
    /\ timed[t]
    /\ sleepers' = sleepers \ {t}
    /\ pc' = [pc EXCEPT ![t] = "timed_out"]
    /\ UNCHANGED <<result, barrier>>

\* ... and TIMEOUT is returned whatever has happened meanwhile.  m_count is
\* not given back.
TimeOutReturn(t) ==
    /\ pc[t] = "timed_out"
    /\ Return(t, "TIMEOUT")

\* Called by any thread.
Reset ==
    /\ m_reset_index < MaxResets
    /\ NotifyAll
    /\ Restart
    /\ m_reset_index' = m_reset_index + 1
    /\ UNCHANGED <<m_barrier_cond, pc, timed, current, result, awaits, tripped>>

-----------------------------------------------------------------------------

Step(t) == AwaitAgain(t) \/ AwaitReturn(t) \/ TimeOutReturn(t)

Next ==
    \/ \E t \in Threads :
          \/ AwaitLast(t) \/ AwaitWait(t) \/ SpuriousWakeup(t) \/ TimeOut(t)
          \/ Step(t)
    \/ Reset

Spec == Init /\ [][Next]_vars

\* A thread that is awake goes on.  Nobody has to come to the barrier.
FairSpec == Spec /\ \A t \in Threads : WF_vars(Step(t))

-----------------------------------------------------------------------------

Generations == [trip : 0 .. MaxAwaits, reset : 0 .. MaxResets]

TypeOK ==
    /\ m_count \in 1 .. MaxCount
    /\ m_reset_index \in 0 .. MaxResets
    /\ m_barrier_cond \in 0 .. MaxAwaits
    /\ sleepers \subseteq Threads
    /\ pc \in [Threads -> {"idle", "waiting", "timed_out"}]
    /\ timed \in [Threads -> BOOLEAN]
    /\ current \in [Threads -> Generations]
    /\ result \in [Threads -> {"NONE", "SUCCESS", "BROKEN", "TIMEOUT"}]
    /\ awaits \in 0 .. MaxAwaits
    /\ arrivals \in 0 .. MaxCount
    /\ tripped \subseteq Generations

(* Nobody sleeps on through the end of its generation: whoever sleeps is
   waiting for the barrier as it is now. *)
SleepersAreCurrent == \A t \in sleepers : pc[t] = "waiting" /\ current[t] = Generation

(* The barrier never lets m_max_count threads sleep at once, each waiting for
   the others: whatever time-outs, resets and trips come between, m_count is at
   most the number of those who are missing. *)
NeverAllAsleep == Cardinality(sleepers) < MaxCount

(* SUCCESS means that m_max_count Awaits came to the generation this one came
   in, resets and trips that follow before the thread runs notwithstanding. *)
SuccessMeansAllArrived ==
    \A t \in Threads : result[t] = "SUCCESS" => current[t] \in tripped

(* Once its generation is over, an Await returns. *)
AwaitReturns ==
    \A t \in Threads :
        pc[t] = "waiting" /\ current[t] # Generation ~> pc[t] = "idle"
=============================================================================
