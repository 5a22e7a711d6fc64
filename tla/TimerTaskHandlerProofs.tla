----------------------- MODULE TimerTaskHandlerProofs -----------------------
(***************************************************************************)
(* For any number of handlers, any tasks, callers and delays: a thread that*)
(* is told to close does not sleep; of a task that two callers have not put*)
(* at once, it is in one heap, runs on one thread, and neither early nor   *)
(* when it is CANCELLED; and while there are only such tasks, a sleeping   *)
(* timer thread sleeps for its earliest one.                               *)
(*                                                                         *)
(* None of these is inductive.  A thread sleeps for the task its local     *)
(* variable names, so that task must still be in its heap (SleepInv), and  *)
(* its deadline must not change: only the handler that has the task in its *)
(* heap changes it (QueuedOnce), and a caller does so only before it puts  *)
(* the task there (PutInv, QueuedHasDeadline).  That a second caller finds *)
(* a deadline, or else makes the task a raced one, is what PutInv says.    *)
(* The same keeps everybody away from a task that runs (RunInv); the       *)
(* EndTimerTask is the top of the heap until it ends the loop (EndInv).    *)
(***************************************************************************)
EXTENDS TimerTaskHandler, TLAPS

\* Caller a has passed the test with task k and has not pushed it yet.
Puts(a, k) == apc[a] \in {"set_deadline", "set_interval", "push"} /\ call[a].task = k

AddInv ==
    \A a \in Adders :
        /\ apc[a] \notin {"idle", "returned"} => call[a] \in Calls /\ call[a].deadline > 0
        /\ apc[a] \in {"set_interval", "push"} => m_deadline[call[a].task] > 0

\* A task that is put, and not raced, is new, and its caller has it alone.
PutInv ==
    \A k \in Tasks \ raced, a \in Adders : Puts(a, k) =>
        /\ apc[a] = "set_deadline" => m_deadline[k] = 0
        /\ \A h \in Handlers : m_queue[h][k] = 0
        /\ \A b \in Adders : Puts(b, k) => a = b

QueuedHasDeadline ==
    \A h \in Handlers, k \in Tasks : m_queue[h][k] > 0 => m_deadline[k] > 0

\* The task of h is in its heap, and none there is earlier.
IsEarliest(h) ==
    /\ task[h] \in Tasks
    /\ m_queue[h][task[h]] > 0
    /\ \A k \in Queued(h) : m_deadline[task[h]] <= GetDeadline(k)

ThreadInv(h) ==
    /\ hpc[h] = "locked" => wakeAt[h] = Never
    /\ hpc[h] \in {"run", "do_run"} => task[h] \in Tasks
    /\ raced = {} =>
          /\ hpc[h] = "timed_wait" => IsEarliest(h)
          /\ hpc[h] = "asleep" => IF wakeAt[h] = Never THEN IsEmpty(h) ELSE IsEarliest(h)

SleepInv == \A h \in Handlers : ThreadInv(h)

IInv ==
    /\ TimerTypeOK
    /\ AddInv
    /\ PutInv
    /\ QueuedOnce
    /\ QueuedHasDeadline
    /\ SleepInv

(* One entry of one heap changes. *)
LEMMA QueueUpdate ==
    ASSUME NEW q \in [Handlers -> [Entries -> Nat]], NEW h \in Handlers,
           NEW k \in Entries, NEW n \in Nat
    PROVE  LET r == [q EXCEPT ![h][k] = n]
           IN  /\ r \in [Handlers -> [Entries -> Nat]]
               /\ \A g \in Handlers, j \in Entries :
                     r[g][j] = IF g = h /\ j = k THEN n ELSE q[g][j]
  OBVIOUS

(* What is said of a heap depends on it, on the deadlines and on the task. *)
LEMMA HeapUnchanged ==
    ASSUME UNCHANGED <<m_queue, m_deadline>>, NEW g \in Handlers
    PROVE  /\ IsEmpty(g)' <=> IsEmpty(g)
           /\ task'[g] = task[g] => (IsEarliest(g)' <=> IsEarliest(g))
  <1>1. Queued(g)' = Queued(g)
    BY DEF Queued
  <1>2. \A k : GetDeadline(k)' = GetDeadline(k)
    BY DEF GetDeadline
  <1> QED
    BY <1>1, <1>2 DEF IsEmpty, IsEarliest

(* The other handlers are left alone. *)
LEMMA OtherThreads ==
    ASSUME SleepInv, NEW h \in Handlers, ThreadInv(h)', wakeAt' = wakeAt, raced' = raced,
           \A g \in Handlers \ {h} :
               /\ hpc'[g] = hpc[g] /\ task'[g] = task[g]
               /\ IsEmpty(g)' <=> IsEmpty(g)
               /\ raced = {} /\ IsEarliest(g) => IsEarliest(g)'
    PROVE  SleepInv'
  <1>1. ASSUME NEW g \in Handlers \ {h} PROVE ThreadInv(g)'
    BY DEF SleepInv, ThreadInv
  <1> QED
    BY <1>1 DEF SleepInv

(* The thread sleeps for a task of its heap, which is not yet due. *)
LEMMA DelayFacts ==
    ASSUME TimerTypeOK, NEW h \in Handlers, ComputeDelay(h)
    PROVE  /\ UNCHANGED <<now, taskVars, m_queue, wakeAt, addVars, shutVars>>
           /\ hpc' = [hpc EXCEPT ![h] = "timed_wait"]
           /\ raced = {} => IsEarliest(h)'
           /\ \E j \in Tasks, d \in Nat : /\ task' = [task EXCEPT ![h] = j]
                                        /\ delay' = [delay EXCEPT ![h] = d]
  <1>1. PICK k \in Least(h) : /\ GetDeadline(k) > now
                              /\ task' = [task EXCEPT ![h] = k]
                              /\ delay' = [delay EXCEPT ![h] = GetDeadline(k) - now]
    BY DEF ComputeDelay
  <1>2. UNCHANGED <<now, taskVars, m_queue, wakeAt, addVars, shutVars>>
    BY DEF ComputeDelay
  <1>3. k \in Tasks /\ GetDeadline(k) = m_deadline[k]
    BY <1>1 DEF Least, Queued, Entries, GetDeadline, TimerTypeOK
  <1>4. m_deadline[k] - now \in Nat
    BY <1>1, <1>3 DEF TimerTypeOK
  <1>5. Queued(h)' = Queued(h) /\ \A j : GetDeadline(j)' = GetDeadline(j)
    BY <1>2 DEF Queued, GetDeadline, taskVars
  <1>6. /\ m_queue[h][k] > 0
        /\ raced = {} => \A j \in Queued(h) : GetDeadline(k) <= GetDeadline(j)
    BY <1>1 DEF Least, Queued, MayPrecede
  <1>7. task'[h] = k
    BY <1>1 DEF TimerTypeOK
  <1>8. raced = {} => IsEarliest(h)'
    BY <1>2, <1>3, <1>5, <1>6, <1>7 DEF IsEarliest, taskVars
  <1> QED
    BY <1>1, <1>2, <1>3, <1>4, <1>8 DEF ComputeDelay, ThreadGoes

(* The steps of a timer thread that leave its heap as it is. *)
LEMMA ThreadKeepsInv ==
    ASSUME IInv, NEW h \in Handlers,
           \/ CheckClose(h) \/ SleepEmpty(h) \/ ComputeDelay(h) \/ TimedWait(h)
           \/ TimedOut(h) \/ SpuriousWakeup(h)
           \/ RunCheck(h) \/ RunReturns(h) \/ RunCancelled(h) \/ RunThrows(h)
    PROVE  IInv'
  <1> USE DEF IInv, taskVars, addVars, shutVars
  <1>1. UNCHANGED <<now, m_queue, m_deadline, m_interval, m_isRequestCancel, addVars, shutVars>>
    BY DEF CheckClose, SleepEmpty, ComputeDelay, TimedWait, TimedOut, SpuriousWakeup,
           RunCheck, RunReturns, RunCancelled, RunThrows
  <1>2. AddInv' /\ PutInv' /\ QueuedOnce' /\ QueuedHasDeadline'
    BY <1>1 DEF AddInv, PutInv, Puts, QueuedOnce, QueuedHasDeadline
  <1>3. \A g \in Handlers : /\ IsEmpty(g)' <=> IsEmpty(g)
                            /\ task'[g] = task[g] => (IsEarliest(g)' <=> IsEarliest(g))
    BY <1>1, HeapUnchanged
  <1>4. CASE CheckClose(h)
    <2>1. TimerTypeOK'
      BY <1>4 DEF CheckClose, ThreadGoes, TimerTypeOK, Never
    <2>2. SleepInv'
      BY <1>3, <1>4 DEF CheckClose, ThreadGoes, TimerTypeOK, SleepInv, ThreadInv
    <2> QED
      BY <1>2, <2>1, <2>2
  <1>5. CASE SleepEmpty(h)
    BY <1>2, <1>3, <1>5 DEF SleepEmpty, ThreadGoes, TimerTypeOK, SleepInv, ThreadInv
  <1>6. CASE ComputeDelay(h)
    <2>0. /\ UNCHANGED <<cancelled, wakeAt>>
          /\ hpc' = [hpc EXCEPT ![h] = "timed_wait"]
          /\ raced = {} => IsEarliest(h)'
      BY <1>6, DelayFacts
    <2>1. PICK j \in Tasks, d \in Nat : /\ task' = [task EXCEPT ![h] = j]
                                       /\ delay' = [delay EXCEPT ![h] = d]
      BY <1>6, DelayFacts
    <2>2. TimerTypeOK'
      <3>1. hpc' \in [Handlers -> {"loop", "locked", "timed_wait", "asleep", "run", "do_run",
                                   "exited", "thrown"}]
        BY <2>0 DEF TimerTypeOK
      <3>2. task' \in [Handlers -> Tasks \cup {NoTask}] /\ delay' \in [Handlers -> Nat]
        BY <2>1 DEF TimerTypeOK
      <3> QED
        BY <1>1, <2>0, <3>1, <3>2 DEF TimerTypeOK
    <2>3. ThreadInv(h)'
      BY <1>1, <2>0 DEF TimerTypeOK, ThreadInv
    <2>4. ASSUME NEW g \in Handlers \ {h} PROVE ThreadInv(g)'
      <3>1. hpc'[g] = hpc[g] /\ task'[g] = task[g] /\ wakeAt'[g] = wakeAt[g]
        BY <2>0, <2>1 DEF TimerTypeOK
      <3>2. (IsEmpty(g)' <=> IsEmpty(g)) /\ (IsEarliest(g)' <=> IsEarliest(g))
        BY <1>3, <3>1
      <3> QED
        BY <1>1, <3>1, <3>2 DEF SleepInv, ThreadInv
    <2>5. SleepInv'
      BY <2>3, <2>4 DEF SleepInv
    <2> QED
      BY <1>2, <2>2, <2>5
  <1>7. CASE TimedWait(h)
    <2>1. TimerTypeOK'
      BY <1>7 DEF TimedWait, ThreadGoes, TimerTypeOK
    <2>2. SleepInv'
      BY <1>3, <1>7 DEF TimedWait, ThreadGoes, TimerTypeOK, SleepInv, ThreadInv, Never
    <2> QED
      BY <1>2, <2>1, <2>2
  <1>8. CASE TimedOut(h) \/ SpuriousWakeup(h) \/ RunReturns(h) \/ RunThrows(h)
    BY <1>2, <1>3, <1>8 DEF TimedOut, SpuriousWakeup, RunReturns, RunThrows, ThreadGoes,
                            TimerTypeOK, SleepInv, ThreadInv
  <1>9. CASE RunCheck(h) \/ RunCancelled(h)
    BY <1>2, <1>3, <1>9 DEF RunCheck, RunCancelled, ThreadGoes, TimerTypeOK, SleepInv, ThreadInv
  <1> QED
    BY <1>4, <1>5, <1>6, <1>7, <1>8, <1>9

(* The clock, cancellations, and the steps of a shutdown that push nothing. *)
LEMMA CallerKeepsInv ==
    ASSUME IInv,
           \/ Tick
           \/ \E k \in Tasks : Cancel(k)
           \/ \E s \in Shutters, h \in Handlers : CallShutDown(s, h)
           \/ \E s \in Shutters : Request(s) \/ CloseThread(s) \/ Closed(s)
    PROVE  IInv'
  <1> USE DEF IInv, Tick, Cancel, CallShutDown, Request, CloseThread, Waits, Closed, ShutGoes,
              taskVars, threadVars, addVars, shutVars
  <1>1. UNCHANGED <<m_queue, m_deadline, m_interval, threadVars, addVars>>
    OBVIOUS
  <1>2. TimerTypeOK'
    <2>1. CASE Tick
      BY <2>1 DEF TimerTypeOK
    <2>2. ASSUME NEW k \in Tasks, Cancel(k) PROVE TimerTypeOK'
      BY <2>2 DEF TimerTypeOK
    <2>3. ASSUME NEW s \in Shutters, NEW h \in Handlers, CallShutDown(s, h) PROVE TimerTypeOK'
      BY <2>3 DEF TimerTypeOK
    <2>4. ASSUME NEW s \in Shutters, Request(s) \/ CloseThread(s) \/ Closed(s)
          PROVE  TimerTypeOK'
      <3>1. CASE Request(s)
        BY <3>1 DEF TimerTypeOK
      <3>2. CASE CloseThread(s)
        BY <3>2 DEF TimerTypeOK
      <3>3. CASE Closed(s)
        BY <3>3 DEF TimerTypeOK
      <3> QED
        BY <2>4, <3>1, <3>2, <3>3
    <2> QED
      BY <2>1, <2>2, <2>3, <2>4
  <1>3. AddInv' /\ PutInv' /\ QueuedOnce' /\ QueuedHasDeadline'
    BY <1>1 DEF AddInv, PutInv, Puts, QueuedOnce, QueuedHasDeadline
  <1>4. SleepInv'
    BY <1>1, HeapUnchanged DEF SleepInv, ThreadInv
  <1> QED
    BY <1>2, <1>3, <1>4

(* A task leaves a heap. *)
LEMMA PopKeepsInv ==
    ASSUME IInv, NEW h \in Handlers,
           DropCancelled(h) \/ FireRequested(h) \/ FireOnce(h) \/ FireEnd(h)
    PROVE  IInv'
  <1> USE DEF IInv
  <1>1. PICK k \in Queued(h) : PopMin(h, k)
    BY DEF DropCancelled, FireRequested, FireOnce, FireEnd, Due, Least
  <1>2. /\ m_queue' \in [Handlers -> [Entries -> Nat]]
        /\ \A g \in Handlers, j \in Entries :
              m_queue'[g][j] = IF g = h /\ j = k THEN m_queue[h][k] - 1 ELSE m_queue[g][j]
    BY <1>1, QueueUpdate DEF TimerTypeOK, PopMin, Queued
  <1>3. /\ UNCHANGED <<now, taskVars, delay, wakeAt, addVars, shutVars>>
        /\ hpc[h] = "locked"
        /\ \E to \in {"loop", "run", "exited"} : hpc' = [hpc EXCEPT ![h] = to]
    BY DEF DropCancelled, FireRequested, FireOnce, FireEnd, ThreadGoes
  <1>4. \/ UNCHANGED task /\ hpc'[h] # "run"
        \/ \E j \in Tasks : task' = [task EXCEPT ![h] = j]
    BY DEF DropCancelled, FireRequested, FireOnce, FireEnd, ThreadGoes, TimerTypeOK
  <1>5. TimerTypeOK'
    <2>1. hpc' \in [Handlers -> {"loop", "locked", "timed_wait", "asleep", "run", "do_run",
                                 "exited", "thrown"}]
      BY <1>3 DEF TimerTypeOK
    <2>2. task' \in [Handlers -> Tasks \cup {NoTask}]
      BY <1>4 DEF TimerTypeOK
    <2> QED
      BY <1>2, <1>3, <2>1, <2>2 DEF TimerTypeOK, taskVars, addVars, shutVars
  <1>6. \A g \in Handlers, j \in Entries : m_queue'[g][j] <= m_queue[g][j]
    BY <1>2 DEF TimerTypeOK, Queued
  <1>7. AddInv'
    BY <1>3 DEF AddInv, taskVars, addVars
  <1>8. PutInv' /\ QueuedOnce' /\ QueuedHasDeadline'
    <2>1. \A g \in Handlers, j \in Tasks :
             m_queue'[g][j] \in Nat /\ m_queue[g][j] \in Nat /\ m_queue'[g][j] <= m_queue[g][j]
      BY <1>2, <1>6 DEF TimerTypeOK, Entries
    <2>2. QueuedOnce'
      BY <1>3, <2>1 DEF QueuedOnce, addVars
    <2>3. QueuedHasDeadline'
      BY <1>3, <2>1 DEF QueuedHasDeadline, taskVars
    <2>4. PutInv'
      BY <1>3, <2>1 DEF PutInv, Puts, taskVars, addVars
    <2> QED
      BY <2>2, <2>3, <2>4
  <1>9. SleepInv'
    BY <1>2, <1>3, <1>4
    DEF TimerTypeOK, SleepInv, ThreadInv, IsEarliest, IsEmpty, Queued, GetDeadline,
        taskVars, addVars, Entries
  <1> QED
    BY <1>5, <1>7, <1>8, <1>9

(* A cycle task is put back with a later deadline: only this handler has it. *)
LEMMA FireCycleKeepsInv ==
    ASSUME IInv, NEW h \in Handlers, FireCycle(h)
    PROVE  IInv'
  <1> USE DEF IInv
  <1>1. PICK k \in Tasks : /\ m_queue[h][k] > 0
                           /\ m_deadline' = [m_deadline EXCEPT ![k] = now + m_interval[k]]
                           /\ task' = [task EXCEPT ![h] = k]
    BY DEF FireCycle, PopMinAndPush, Due, Least, Queued
  <1>2. /\ UNCHANGED <<now, m_interval, m_isRequestCancel, cancelled, m_queue, delay,
                       wakeAt, addVars, shutVars>>
        /\ hpc[h] = "locked"
        /\ hpc' = [hpc EXCEPT ![h] = "run"]
    BY DEF FireCycle, PopMinAndPush, ThreadGoes
  <1>3. TimerTypeOK'
    BY <1>1, <1>2 DEF TimerTypeOK, addVars, shutVars
  <1>4. \A j \in Tasks : m_deadline'[j] = IF j = k THEN now + m_interval[k] ELSE m_deadline[j]
    BY <1>1 DEF TimerTypeOK
  <1>5. AddInv' /\ PutInv'
    <2>1. now + m_interval[k] > 0
      BY <1>1 DEF TimerTypeOK
    <2>2. AddInv'
      BY <1>2, <1>4, <2>1 DEF AddInv, addVars, Calls
    <2>3. \A a \in Adders : k \notin raced => ~Puts(a, k)
      BY <1>1 DEF PutInv
    <2>4. PutInv'
      BY <1>2, <1>4, <2>3 DEF PutInv, Puts, addVars
    <2> QED
      BY <2>2, <2>4
  <1>6. QueuedOnce' /\ QueuedHasDeadline'
    <2>1. QueuedOnce'
      BY <1>2 DEF QueuedOnce, addVars
    <2>2. now + m_interval[k] > 0
      BY <1>1 DEF TimerTypeOK
    <2>3. QueuedHasDeadline'
      BY <1>2, <1>4, <2>2 DEF QueuedHasDeadline
    <2> QED
      BY <2>1, <2>3
  <1>7. \A g \in Handlers \ {h} :
           /\ hpc'[g] = hpc[g] /\ task'[g] = task[g]
           /\ Queued(g)' = Queued(g) /\ (raced = {} => k \notin Queued(g))
    BY <1>1, <1>2 DEF TimerTypeOK, QueuedOnce, Queued
  <1>8. \A g \in Handlers \ {h} :
           /\ hpc'[g] = hpc[g] /\ task'[g] = task[g]
           /\ IsEmpty(g)' <=> IsEmpty(g)
           /\ raced = {} /\ IsEarliest(g) => IsEarliest(g)'
    BY <1>2, <1>4, <1>7 DEF IsEmpty, IsEarliest, Queued, GetDeadline, Entries
  <1>9. SleepInv'
    <2>1. hpc'[h] = "run" /\ task'[h] \in Tasks
      BY <1>1, <1>2 DEF TimerTypeOK
    <2>2. wakeAt' = wakeAt /\ raced' = raced
      BY <1>2 DEF addVars
    <2>3. ThreadInv(h)'
      BY <2>1 DEF ThreadInv
    <2> QED
      BY <1>8, <2>2, <2>3, OtherThreads
  <1> QED
    BY <1>3, <1>5, <1>6, <1>9

(* A call begins, and tests whether it may put its task: either nobody else is
   putting it, or the task is raced from now on. *)
LEMMA CallKeepsInv ==
    ASSUME IInv, NEW a \in Adders, NEW h \in Handlers,
           CallAdd(a, h) \/ AddPasses(a) \/ AddRefused(a)
    PROVE  IInv'
  <1> USE DEF IInv
  <1>1. UNCHANGED <<now, taskVars, m_queue, threadVars, shutVars>> /\ raced \subseteq raced'
    BY DEF CallAdd, AddPasses, AddRefused
  <1>2. QueuedOnce' /\ QueuedHasDeadline' /\ SleepInv'
    <2>1. raced' = {} => raced = {}
      BY <1>1
    <2>2. QueuedOnce' /\ QueuedHasDeadline'
      BY <1>1 DEF QueuedOnce, QueuedHasDeadline, taskVars
    <2>3. \A g \in Handlers : /\ IsEmpty(g)' <=> IsEmpty(g)
                              /\ IsEarliest(g)' <=> IsEarliest(g)
      BY <1>1, HeapUnchanged DEF taskVars, threadVars
    <2>4. SleepInv'
      BY <1>1, <2>1, <2>3 DEF SleepInv, ThreadInv, threadVars
    <2> QED
      BY <2>2, <2>4
  <1>3. CASE CallAdd(a, h)
    <2>1. PICK c \in Calls : c.deadline > 0 /\ call' = [call EXCEPT ![a] = c]
      <3>1. PICK k \in Tasks, t \in Times :
               call' = [call EXCEPT ![a] = [op |-> t.op, task |-> k, handler |-> h,
                                            deadline |-> t.deadline, interval |-> t.interval]]
        BY <1>3 DEF CallAdd
      <3>2. t.op \in {"cron", "cycle"} /\ t.deadline \in Nat \ {0} /\ t.interval \in Nat
        <4>1. PICK d \in Nat : \/ t = [op |-> "cron", deadline |-> now + d, interval |-> 0]
                               \/ t = [op |-> "cycle", deadline |-> now, interval |-> d]
                               \/ t = [op |-> "cycle", deadline |-> now + d, interval |-> d]
          BY TimerAssumption DEF Times
        <4> QED
          BY <4>1 DEF TimerTypeOK
      <3> DEFINE c == [op |-> t.op, task |-> k, handler |-> h, deadline |-> t.deadline,
                       interval |-> t.interval]
      <3>3. c \in Calls /\ c.deadline > 0
        BY <3>2 DEF Calls
      <3>4. call' = [call EXCEPT ![a] = c]
        BY <3>1
      <3> HIDE DEF c
      <3> QED
        BY <3>3, <3>4
    <2>2. apc' = [apc EXCEPT ![a] = "test"] /\ raced' = raced
      BY <1>3 DEF CallAdd, AddGoes
    <2>3. TimerTypeOK'
      BY <1>1, <2>1, <2>2 DEF TimerTypeOK, taskVars, threadVars, shutVars
    <2>4. AddInv'
      BY <1>1, <2>1, <2>2 DEF TimerTypeOK, AddInv, taskVars
    <2>5. PutInv'
      BY <1>1, <2>1, <2>2 DEF TimerTypeOK, PutInv, Puts, taskVars
    <2> QED
      BY <1>2, <2>3, <2>4, <2>5
  <1>4. CASE AddRefused(a)
    <2>1. /\ apc' = [apc EXCEPT ![a] = "returned"] /\ raced' = raced
          /\ call' = [call EXCEPT ![a] = NoTask]
      BY <1>4 DEF AddRefused, AddGoes
    <2>2. TimerTypeOK'
      BY <1>1, <2>1 DEF TimerTypeOK, taskVars, threadVars, shutVars
    <2>3. AddInv' /\ PutInv'
      BY <1>1, <2>1 DEF TimerTypeOK, AddInv, PutInv, Puts, taskVars
    <2> QED
      BY <1>2, <2>2, <2>3
  <1>5. CASE AddPasses(a)
    <2>1. PICK k \in Tasks : call[a] \in Calls /\ call[a].task = k /\ apc[a] = "test"
      BY <1>5 DEF AddPasses, AddGoes, AddInv, Calls
    <2>2. /\ apc' = [apc EXCEPT ![a] = "set_deadline"] /\ call' = call
          /\ m_deadline[k] = 0
          /\ raced' = raced \cup {j \in {k} : AnotherPuts(a, j)}
      BY <1>5, <2>1 DEF AddPasses, AddGoes, MayPut
    <2>3. TimerTypeOK'
      BY <1>1, <2>2 DEF TimerTypeOK, taskVars, threadVars, shutVars
    <2>4. AddInv'
      BY <1>1, <2>1, <2>2 DEF TimerTypeOK, AddInv, taskVars
    <2>5. \A g \in Handlers : m_queue[g][k] = 0
      BY <2>2 DEF QueuedHasDeadline, TimerTypeOK, Entries
    <2>6. ASSUME NEW b \in Adders, b # a, Puts(b, k) PROVE k \in raced'
      <3>1. apc[b] = "set_deadline"
        BY <2>2, <2>6 DEF AddInv, Puts
      <3> QED
        BY <2>2, <2>6, <3>1 DEF AnotherPuts, Puts
    <2>7. ASSUME NEW j \in Tasks, NEW b \in Adders, Puts(b, j)' PROVE Puts(b, j) \/ (b = a /\ j = k)
      BY <2>1, <2>2, <2>7 DEF TimerTypeOK, Puts
    <2>8. apc'[a] = "set_deadline" /\ \A b \in Adders : b # a => apc'[b] = apc[b]
      BY <2>2 DEF TimerTypeOK
    <2>9. PutInv'
      <3> SUFFICES ASSUME NEW j \in Tasks, j \notin raced', NEW b \in Adders, Puts(b, j)'
                   PROVE  /\ apc'[b] = "set_deadline" => m_deadline'[j] = 0
                          /\ \A g \in Handlers : m_queue'[g][j] = 0
                          /\ \A e \in Adders : Puts(e, j)' => b = e
        BY DEF PutInv
      <3>1. CASE j = k
        BY <1>1, <2>2, <2>5, <2>6, <2>7, <3>1 DEF taskVars
      <3>2. CASE j # k
        <4>1. Puts(b, j) /\ j \notin raced /\ b # a
          BY <1>1, <2>1, <2>7, <3>2 DEF Puts
        <4> QED
          BY <1>1, <2>7, <2>8, <3>2, <4>1 DEF PutInv, taskVars
      <3> QED
        BY <3>1, <3>2
    <2> QED
      BY <1>2, <2>3, <2>4, <2>9
  <1> QED
    BY <1>3, <1>4, <1>5

(* A caller sets the deadline of its task, or the interval: the task is in no
   heap, unless it is raced. *)
LEMMA SetKeepsInv ==
    ASSUME IInv, NEW a \in Adders, AddSetDeadline(a) \/ AddSetInterval(a)
    PROVE  IInv'
  <1> USE DEF IInv
  <1>1. PICK k \in Tasks : /\ call[a] \in Calls /\ call[a].task = k /\ call[a].deadline > 0
                           /\ call[a].deadline \in Nat /\ call[a].interval \in Nat
                           /\ Puts(a, k)
    BY DEF AddSetDeadline, AddSetInterval, AddGoes, AddInv, Calls, Puts
  <1>2. /\ UNCHANGED <<now, m_isRequestCancel, cancelled, m_queue, threadVars, call, raced, shutVars>>
        /\ \E to \in {"set_interval", "push"} : apc' = [apc EXCEPT ![a] = to]
    BY DEF AddSetDeadline, AddSetInterval, AddGoes
  <1>3. \/ apc[a] = "set_deadline" /\ m_deadline' = [m_deadline EXCEPT ![k] = call[a].deadline]
                                   /\ m_interval' = m_interval
        \/ apc[a] = "set_interval" /\ m_interval' = [m_interval EXCEPT ![k] = call[a].interval]
                                   /\ m_deadline' = m_deadline
    BY <1>1 DEF AddSetDeadline, AddSetInterval, AddGoes
  <1>4. m_deadline' \in [Tasks -> Nat] /\ m_interval' \in [Tasks -> Nat]
    BY <1>1, <1>3 DEF TimerTypeOK
  <1>5. TimerTypeOK'
    BY <1>2, <1>4 DEF TimerTypeOK, threadVars, shutVars
  <1>6. /\ m_deadline'[k] > 0
        /\ \A j \in Tasks : j # k => m_deadline'[j] = m_deadline[j]
        /\ \A j \in Tasks : m_deadline[j] > 0 => m_deadline'[j] > 0
    BY <1>1, <1>3 DEF TimerTypeOK, AddInv
  <1>7. \A b \in Adders : /\ b # a => apc'[b] = apc[b]
                          /\ b = a => apc'[b] \in {"set_interval", "push"}
    BY <1>2 DEF TimerTypeOK
  <1>8. AddInv'
    BY <1>1, <1>2, <1>6, <1>7 DEF AddInv, Calls
  <1>9. \A b \in Adders, j \in Tasks : Puts(b, j)' <=> Puts(b, j)
    BY <1>1, <1>2, <1>7 DEF Puts
  <1>10. PutInv'
    BY <1>1, <1>2, <1>6, <1>7, <1>9 DEF PutInv
  <1>11. QueuedOnce' /\ QueuedHasDeadline'
    BY <1>2, <1>6 DEF QueuedOnce, QueuedHasDeadline
  <1>12. SleepInv'
    <2>1. \A g \in Handlers : Queued(g)' = Queued(g) /\ (raced = {} => k \notin Queued(g))
      BY <1>1, <1>2 DEF PutInv, Queued
    <2>2. \A g \in Handlers : /\ IsEmpty(g)' <=> IsEmpty(g)
                              /\ raced = {} /\ IsEarliest(g) => IsEarliest(g)'
      BY <1>2, <1>6, <2>1, TimerAssumption
      DEF IsEmpty, IsEarliest, GetDeadline, Queued, Entries, threadVars
    <2> QED
      BY <1>2, <2>2 DEF SleepInv, ThreadInv, threadVars
  <1> QED
    BY <1>5, <1>8, <1>10, <1>11, <1>12

(* A task is put into a heap: it was in none, unless it is raced, and the thread
   wakes up. *)
LEMMA AddPushKeepsInv ==
    ASSUME IInv, NEW a \in Adders, AddPush(a)
    PROVE  IInv'
  <1> USE DEF IInv
  <1>1. PICK h \in Handlers, k \in Tasks :
           /\ call[a] \in Calls /\ call[a].handler = h /\ call[a].task = k
           /\ m_deadline[k] > 0 /\ Puts(a, k)
    BY DEF AddPush, AddGoes, AddInv, Calls, Puts
  <1>2. k \notin raced => \A g \in Handlers : m_queue[g][k] = 0
    BY <1>1 DEF PutInv
  <1>3. /\ m_queue' \in [Handlers -> [Entries -> Nat]]
        /\ \A g \in Handlers, j \in Entries :
              m_queue'[g][j] = IF g = h /\ j = k THEN m_queue[h][k] + 1 ELSE m_queue[g][j]
    <2>1. m_queue' = [m_queue EXCEPT ![h][k] = m_queue[h][k] + 1]
      BY <1>1 DEF AddPush, PushTask, Notifies
    <2>2. m_queue \in [Handlers -> [Entries -> Nat]] /\ k \in Entries
      BY DEF TimerTypeOK, Entries
    <2>3. m_queue[h][k] \in Nat
      BY <2>2
    <2>4. m_queue[h][k] + 1 \in Nat
      BY <2>3
    <2> QED
      BY <2>1, <2>2, <2>4, QueueUpdate
  <1>4. /\ UNCHANGED <<now, taskVars, shutVars, task, delay, wakeAt, raced>>
        /\ hpc' = [hpc EXCEPT ![h] = IF hpc[h] = "asleep" THEN "loop" ELSE hpc[h]]
        /\ hpc[h] \notin {"locked", "timed_wait"}
    BY <1>1 DEF AddPush, PushTask, Notifies, Unlocked
  <1>5. /\ apc' = [apc EXCEPT ![a] = "returned"]
        /\ call' = [call EXCEPT ![a] = NoTask]
    BY <1>1 DEF AddPush, AddGoes
  <1>6. TimerTypeOK'
    BY <1>1, <1>3, <1>4, <1>5 DEF TimerTypeOK, taskVars, shutVars
  <1>7. AddInv'
    BY <1>4, <1>5 DEF TimerTypeOK, AddInv, taskVars
  <1>8. PutInv'
    <2>1. ASSUME NEW b \in Adders, NEW j \in Tasks, Puts(b, j)'
          PROVE  b # a /\ Puts(b, j) /\ apc'[b] = apc[b]
      BY <1>5, <2>1 DEF TimerTypeOK, Puts
    <2>2. ASSUME NEW b \in Adders, NEW j \in Tasks \ raced, Puts(b, j), b # a PROVE j # k
      BY <1>1, <2>2 DEF PutInv
    <2>3. \A g \in Handlers, j \in Tasks : j # k => m_queue'[g][j] = m_queue[g][j]
      BY <1>3 DEF Entries
    <2> QED
      BY <1>4, <2>1, <2>2, <2>3 DEF PutInv, taskVars
  <1>9. QueuedOnce'
    <2>1. \A g \in Handlers, j \in Tasks : j # k => m_queue'[g][j] = m_queue[g][j]
      BY <1>3 DEF Entries
    <2>2. k \notin raced => \A g \in Handlers : m_queue'[g][k] = IF g = h THEN 1 ELSE 0
      BY <1>2, <1>3 DEF Entries
    <2> QED
      BY <1>4, <2>1, <2>2 DEF QueuedOnce
  <1>10. QueuedHasDeadline'
    <2>1. \A g \in Handlers, j \in Tasks : m_queue'[g][j] > 0 => j = k \/ m_queue[g][j] > 0
      BY <1>3 DEF Entries
    <2> QED
      BY <1>1, <1>4, <2>1 DEF QueuedHasDeadline, taskVars
  <1>11. \A g \in Handlers \ {h} : hpc'[g] = hpc[g] /\ Queued(g)' = Queued(g)
    BY <1>1, <1>3, <1>4 DEF TimerTypeOK, Queued
  <1>12. \A g \in Handlers \ {h} :
           /\ hpc'[g] = hpc[g] /\ task'[g] = task[g]
           /\ IsEmpty(g)' <=> IsEmpty(g)
           /\ IsEarliest(g) => IsEarliest(g)'
    BY <1>3, <1>4, <1>11 DEF IsEmpty, IsEarliest, GetDeadline, taskVars, Entries
  <1>13. SleepInv'
    <2>1. hpc'[h] \notin {"locked", "timed_wait", "asleep"}
          /\ (hpc'[h] \in {"run", "do_run"} => hpc[h] = hpc'[h])
      BY <1>1, <1>4 DEF TimerTypeOK
    <2>2. ThreadInv(h)'
      BY <1>1, <1>4, <2>1 DEF SleepInv, ThreadInv
    <2> QED
      BY <1>4, <1>12, <2>2, OtherThreads
  <1> QED
    BY <1>6, <1>7, <1>8, <1>9, <1>10, <1>13

(* The EndTimerTask is put into a heap. *)
LEMMA PushEndKeepsInv ==
    ASSUME IInv, NEW s \in Shutters, PushEnd(s)
    PROVE  IInv'
  <1> USE DEF IInv
  <1>1. PICK h \in Handlers :
           target[s] = h /\ EndTimerTask \in Entries /\ m_queue[h][EndTimerTask] \in Nat
    BY DEF TimerTypeOK, Entries
  <1>2. /\ m_queue' \in [Handlers -> [Entries -> Nat]]
        /\ \A g \in Handlers, j \in Entries :
              m_queue'[g][j] = IF g = h /\ j = EndTimerTask THEN m_queue[h][EndTimerTask] + 1
                                                            ELSE m_queue[g][j]
    BY <1>1, QueueUpdate DEF PushEnd, PushTask, Notifies, TimerTypeOK
  <1>3. /\ UNCHANGED <<now, taskVars, addVars, m_isRequestShutDown, m_isRequestClose, target,
                       task, delay, wakeAt>>
        /\ spc' = [spc EXCEPT ![s] = "close"]
        /\ hpc' = [hpc EXCEPT ![h] = IF hpc[h] = "asleep" THEN "loop" ELSE hpc[h]]
        /\ hpc[h] \notin {"locked", "timed_wait"}
    BY <1>1 DEF PushEnd, PushTask, Notifies, Unlocked, ShutGoes
  <1>4. TimerTypeOK'
    BY <1>1, <1>2, <1>3 DEF TimerTypeOK, taskVars, addVars
  <1>5. AddInv'
    BY <1>3 DEF AddInv, taskVars, addVars
  <1>6. \A g \in Handlers, j \in Tasks : m_queue'[g][j] = m_queue[g][j]
    BY <1>2, TimerAssumption DEF Entries
  <1>7. PutInv' /\ QueuedOnce' /\ QueuedHasDeadline'
    BY <1>3, <1>6 DEF PutInv, Puts, QueuedOnce, QueuedHasDeadline, taskVars, addVars
  <1>8. \A g \in Handlers \ {h} : hpc'[g] = hpc[g] /\ Queued(g)' = Queued(g)
    BY <1>1, <1>2, <1>3 DEF TimerTypeOK, Queued
  <1>9. \A g \in Handlers \ {h} :
           /\ hpc'[g] = hpc[g] /\ task'[g] = task[g]
           /\ IsEmpty(g)' <=> IsEmpty(g)
           /\ IsEarliest(g) => IsEarliest(g)'
    BY <1>3, <1>6, <1>8 DEF IsEmpty, IsEarliest, GetDeadline, taskVars
  <1>10. SleepInv'
    <2>1. hpc'[h] \notin {"locked", "timed_wait", "asleep"}
          /\ (hpc'[h] \in {"run", "do_run"} => hpc[h] = hpc'[h])
      BY <1>1, <1>3 DEF TimerTypeOK
    <2>2. wakeAt' = wakeAt /\ raced' = raced /\ task' = task
      BY <1>3 DEF addVars
    <2>3. ThreadInv(h)'
      BY <1>1, <2>1, <2>2 DEF SleepInv, ThreadInv
    <2> QED
      BY <1>9, <2>2, <2>3, OtherThreads
  <1> QED
    BY <1>4, <1>5, <1>7, <1>10

(* Every step keeps IInv. *)
LEMMA StepKeepsInv ==
    ASSUME IInv, [TimerNext]_timerVars
    PROVE  IInv'
  <1>1. CASE UNCHANGED timerVars
    <2>1. UNCHANGED <<m_queue, m_deadline, task>>
      BY <1>1 DEF timerVars, taskVars, threadVars
    <2>2. \A g \in Handlers : (IsEmpty(g)' <=> IsEmpty(g)) /\ (IsEarliest(g)' <=> IsEarliest(g))
      BY <2>1, HeapUnchanged
    <2>3. SleepInv'
      BY <1>1, <2>2 DEF IInv, SleepInv, ThreadInv, timerVars, threadVars, addVars
    <2> QED
      BY <1>1, <2>3 DEF IInv, TimerTypeOK, AddInv, PutInv, Puts, QueuedOnce,
                        QueuedHasDeadline, timerVars, taskVars, threadVars, addVars, shutVars
  <1>2. CASE TimerEnvironment
    <2>1. CASE Tick \/ \E k \in Cancellable : Cancel(k)
      BY <2>1, TimerAssumption, CallerKeepsInv
    <2>2. CASE \E h \in Handlers : SpuriousWakeup(h) \/ RunCancelled(h) \/ RunThrows(h)
      BY <2>2, ThreadKeepsInv
    <2> QED
      BY <1>2, <2>1, <2>2 DEF TimerEnvironment
  <1>3. ASSUME NEW h \in Handlers, ThreadStep(h) PROVE IInv'
    BY <1>3, ThreadKeepsInv, PopKeepsInv, FireCycleKeepsInv DEF ThreadStep
  <1>4. ASSUME NEW a \in Adders, AddStep(a) \/ \E h \in Handlers : CallAdd(a, h) PROVE IInv'
    <2>1. \E h \in Handlers : TRUE
      BY TimerAssumption DEF Handlers
    <2> QED
      BY <1>4, <2>1, CallKeepsInv, SetKeepsInv, AddPushKeepsInv DEF AddStep
  <1>5. ASSUME NEW s \in Shutters, ShutStep(s) \/ \E h \in Handlers : CallShutDown(s, h)
        PROVE  IInv'
    BY <1>5, CallerKeepsInv, PushEndKeepsInv DEF ShutStep
  <1> QED
    BY <1>1, <1>2, <1>3, <1>4, <1>5 DEF TimerNext, TimerStep

(* The initial states satisfy IInv. *)
LEMMA InitHasInv == TimerInit => IInv
  <1>1. TimerInit => TimerTypeOK
    BY TimerAssumption DEF TimerInit, TimerTypeOK, Handlers, Never
  <1> QED
    BY <1>1 DEF TimerInit, IInv, AddInv, PutInv, Puts, QueuedOnce, QueuedHasDeadline, SleepInv,
                ThreadInv, Entries

(* IInv holds in every reachable state. *)
THEOREM Invariance == TimerSpec => []IInv
  <1>1. IInv /\ [TimerNext]_timerVars => IInv'
    BY StepKeepsInv
  <1> QED
    BY <1>1, InitHasInv, PTL DEF TimerSpec

(* The variables of the timers have their types. *)
THEOREM TypeCorrect == TimerSpec => []TimerTypeOK
  BY Invariance, PTL DEF IInv

(* ThreadFunction sleeps for its earliest task, however many threads put tasks
   into the handler meanwhile, and as long as no two of them put one task at
   once. *)
THEOREM NeverSleepsTooLong == TimerSpec => []SleepsForEarliest
  <1>1. IInv => SleepsForEarliest
    BY DEF IInv, SleepInv, ThreadInv, IsEarliest, SleepsForEarliest
  <1> QED
    BY <1>1, Invariance, PTL

(* DoAddCronTimerTask and DoAddCycleTimerTask put a task twice in one case only:
   two callers have found it without a deadline before either had set one.  Any
   other callers, at any step of the first one's call or after it, put it once. *)
THEOREM PutOnce == TimerSpec => []QueuedOnce
  BY Invariance, PTL DEF IInv

(* Once a deadline is set, only FireCycle changes it, when it has come. *)
THEOREM CyclesAreSpaced == TimerSpec => TurnsAreSpaced
  <1> DEFINE Spaced ==
        \A k \in Tasks \ raced : m_deadline[k] > 0 =>
            \/ m_deadline'[k] = m_deadline[k]
            \/ m_interval[k] > 0 /\ m_deadline'[k] >= m_deadline[k] + m_interval[k]
  <1>1. IInv /\ [TimerNext]_timerVars => [Spaced]_timerVars
    <2> SUFFICES ASSUME IInv, TimerNext PROVE Spaced
      OBVIOUS
    <2>0. TimerTypeOK /\ AddInv /\ PutInv
      BY DEF IInv
    <2>1. ASSUME NEW h \in Handlers, FireCycle(h) PROVE Spaced
      BY <2>0, <2>1, TimerAssumption DEF FireCycle, Due, GetDeadline, GetInterval, TimerTypeOK
    <2>2. ASSUME NEW a \in Adders, AddSetDeadline(a) PROVE Spaced
      BY <2>0, <2>2 DEF AddSetDeadline, AddGoes, AddInv, PutInv, Puts, Calls, TimerTypeOK
    <2>3. CASE UNCHANGED m_deadline
      BY <2>3
    <2>4. \/ \E h \in Handlers : FireCycle(h)
          \/ \E a \in Adders : AddSetDeadline(a)
          \/ UNCHANGED m_deadline
      BY DEF TimerNext, TimerEnvironment, TimerStep, Tick, Cancel, ThreadStep, CheckClose,
             SleepEmpty, DropCancelled, FireRequested, FireOnce, FireEnd, ComputeDelay,
             TimedWait, TimedOut, SpuriousWakeup, RunCheck, RunReturns, RunCancelled, RunThrows,
             CallAdd, AddStep, AddPasses, AddRefused, AddSetInterval, AddPush, CallShutDown,
             ShutStep, Request, PushEnd, CloseThread, Closed, taskVars
    <2> QED
      BY <2>1, <2>2, <2>3, <2>4
  <1> QED
    BY <1>1, Invariance, PTL DEF TimerSpec, TurnsAreSpaced

-----------------------------------------------------------------------------
(* Which thread runs a task, and when *)

Runs(h) == hpc[h] \in {"run", "do_run"}

\* If it is not raced, the task k that h runs was put, so nobody puts it again; it
\* is CANCELLED by no other thread, in no other heap, and due unless somebody
\* wants to cancel it.
RunTaskInv(h, k) ==
    /\ m_deadline[k] > 0
    /\ k \notin cancelled
    /\ \A a \in Adders : ~Puts(a, k)
    /\ \A g \in Handlers \ {h} : m_queue[g][k] = 0
    /\ \/ m_interval[k] > 0
       \/ m_deadline[k] <= now
       \/ hpc[h] = "run" /\ k \in m_isRequestCancel

RunInv ==
    /\ OneThreadPerTask
    /\ \A h \in Handlers, k \in Tasks \ raced : RunsOn(h, k) => RunTaskInv(h, k)

\* A step that starts no run and sets and puts no task.
StartsNoRun ==
    /\ UNCHANGED <<m_deadline, m_interval>>
    /\ raced \subseteq raced'
    /\ \A a \in Adders, k \in Tasks : Puts(a, k)' => Puts(a, k) \/ m_deadline[k] = 0
    /\ now <= now'
    /\ m_isRequestCancel \subseteq m_isRequestCancel'
    /\ \A h \in Handlers : Runs(h)' => Runs(h) /\ task'[h] = task[h]
    /\ \A h \in Handlers : hpc'[h] = "do_run" => hpc[h] = "do_run" \/ task[h] \notin m_isRequestCancel
    /\ \A h \in Handlers, k \in Tasks : m_queue'[h][k] <= m_queue[h][k]
    /\ \A k \in cancelled' \ cancelled : \E h \in Handlers : RunsOn(h, k) /\ ~Runs(h)'

(* PopMin adds to no heap. *)
LEMMA PopShrinks ==
    ASSUME TimerTypeOK, NEW h \in Handlers, NEW e \in Queued(h), PopMin(h, e)
    PROVE  \A g \in Handlers, j \in Tasks :
               m_queue'[g][j] \in Nat /\ m_queue'[g][j] <= m_queue[g][j]
  <1>1. e \in Entries /\ m_queue[h][e] \in Nat /\ m_queue[h][e] - 1 \in Nat
    BY DEF Queued, TimerTypeOK
  <1>2. /\ m_queue' \in [Handlers -> [Entries -> Nat]]
        /\ \A g \in Handlers, j \in Entries :
              m_queue'[g][j] = IF g = h /\ j = e THEN m_queue[h][e] - 1 ELSE m_queue[g][j]
    <2>1. m_queue \in [Handlers -> [Entries -> Nat]]
      BY DEF TimerTypeOK
    <2> QED
      BY <1>1, <2>1, QueueUpdate DEF PopMin
  <1> QED
    BY <1>1, <1>2 DEF TimerTypeOK, Entries

(* A thread that runs on finds its task as it was: a task that is CANCELLED
   meanwhile is that of another thread. *)
LEMMA RunsOnUndisturbed ==
    ASSUME IInv, RunInv, StartsNoRun, TimerTypeOK'
    PROVE  RunInv'
  <1> USE DEF IInv, StartsNoRun
  <1>1. OneThreadPerTask'
    BY DEF RunInv, OneThreadPerTask, RunsOn, Runs
  <1>2. ASSUME NEW h \in Handlers, NEW k \in Tasks, k \notin raced', RunsOn(h, k)'
        PROVE  RunTaskInv(h, k)'
    <2>1. Runs(h) /\ RunsOn(h, k) /\ task[h] = k /\ Runs(h)' /\ k \in Tasks \ raced
      BY <1>2 DEF RunsOn, Runs
    <2>2. RunTaskInv(h, k)
      BY <2>1 DEF RunInv
    <2>3. k \notin cancelled'
      BY <2>1, <2>2 DEF RunInv, RunTaskInv, OneThreadPerTask
    <2>4. ASSUME NEW g \in Handlers \ {h} PROVE m_queue'[g][k] = 0
      <3>1. m_queue[g][k] = 0
        BY <2>2 DEF RunTaskInv
      <3>2. m_queue'[g][k] \in Nat /\ m_queue'[g][k] <= m_queue[g][k]
        BY DEF TimerTypeOK, Entries
      <3> QED
        BY <3>1, <3>2
    <2>5. m_deadline'[k] > 0 /\ \A a \in Adders : ~Puts(a, k)'
      BY <2>2 DEF RunTaskInv
    <2>6. \/ m_interval'[k] > 0 \/ m_deadline'[k] <= now'
          \/ hpc'[h] = "run" /\ k \in m_isRequestCancel'
      BY <1>2, <2>1, <2>2 DEF TimerTypeOK, RunTaskInv, Runs
    <2> QED
      BY <2>3, <2>4, <2>5, <2>6 DEF RunTaskInv
  <1> QED
    BY <1>1, <1>2 DEF RunInv

(* A thread takes a task from its heap to run it: no other heap has it, so no
   other thread runs it. *)
LEMMA FireKeepsRunInv ==
    ASSUME IInv, RunInv, NEW h \in Handlers, FireRequested(h) \/ FireCycle(h) \/ FireOnce(h),
           TimerTypeOK'
    PROVE  RunInv'
  <1> USE DEF IInv
  <1>1. PICK k \in Tasks :
           /\ m_queue[h][k] > 0
           /\ k \notin cancelled
           /\ task' = [task EXCEPT ![h] = k]
           /\ \/ m_interval[k] > 0 \/ m_deadline[k] <= now
              \/ k \in m_isRequestCancel
           /\ \A j \in Tasks \ {k} : m_deadline'[j] = m_deadline[j]
           /\ m_deadline'[k] = m_deadline[k] \/ (m_interval[k] > 0 /\ m_deadline'[k] > 0)
    <2>1. CASE FireRequested(h)
      BY <2>1 DEF FireRequested, Least, Queued, taskVars, TimerTypeOK
    <2>2. CASE FireOnce(h)
      BY <2>2, TimerAssumption DEF FireOnce, Due, Least, Queued, GetDeadline, taskVars
    <2>3. CASE FireCycle(h)
      <3>1. PICK k \in Tasks : /\ Due(h, k) /\ GetInterval(k) > 0
                               /\ m_deadline' = [m_deadline EXCEPT ![k] = now + m_interval[k]]
                               /\ task' = [task EXCEPT ![h] = k]
        BY <2>3 DEF FireCycle
      <3>2. m_queue[h][k] > 0 /\ k \notin cancelled /\ m_interval[k] > 0
        BY <3>1, TimerAssumption DEF Due, Least, Queued, GetInterval
      <3>3. m_deadline'[k] > 0 /\ \A j \in Tasks \ {k} : m_deadline'[j] = m_deadline[j]
        BY <3>1 DEF TimerTypeOK
      <3> QED
        BY <3>1, <3>2, <3>3
    <2> QED
      BY <2>1, <2>2, <2>3
  <1>2. /\ UNCHANGED <<now, m_interval, m_isRequestCancel, cancelled, apc, call, raced>>
        /\ hpc' = [hpc EXCEPT ![h] = "run"] /\ hpc[h] = "locked"
    BY DEF FireRequested, FireCycle, FireOnce, ThreadGoes, taskVars, addVars
  <1>3. \A g \in Handlers, j \in Tasks : m_queue'[g][j] \in Nat /\ m_queue'[g][j] <= m_queue[g][j]
    <2>1. m_queue' = m_queue \/ \E e \in Queued(h) : PopMin(h, e)
      BY DEF FireRequested, FireCycle, FireOnce, PopMinAndPush, Due, Least
    <2>2. CASE m_queue' = m_queue
      BY <2>2 DEF TimerTypeOK, Entries
    <2> QED
      BY <2>1, <2>2, PopShrinks
  <1>4. hpc'[h] = "run" /\ task'[h] = k
    BY <1>1, <1>2 DEF TimerTypeOK
  <1>5. \A g \in Handlers \ {h} : hpc'[g] = hpc[g] /\ task'[g] = task[g]
    BY <1>1, <1>2 DEF TimerTypeOK
  <1>6. ASSUME k \notin raced
        PROVE  /\ \A g \in Handlers \ {h} : ~RunsOn(g, k) /\ m_queue[g][k] = 0
               /\ \A a \in Adders : ~Puts(a, k)
    <2>1. \A g \in Handlers \ {h} : m_queue[g][k] = 0
      BY <1>1, <1>6 DEF QueuedOnce, TimerTypeOK, Entries
    <2>2. \A g \in Handlers \ {h} : ~RunsOn(g, k)
      BY <1>1, <1>6 DEF RunInv, RunTaskInv
    <2>3. \A a \in Adders : ~Puts(a, k)
      BY <1>1, <1>6 DEF PutInv
    <2> QED
      BY <2>1, <2>2, <2>3
  <1>7. OneThreadPerTask'
    BY <1>2, <1>4, <1>5, <1>6 DEF RunInv, OneThreadPerTask, RunsOn
  <1>8. ASSUME NEW g \in Handlers, NEW j \in Tasks \ raced, RunsOn(g, j)'
        PROVE  RunTaskInv(g, j)'
    <2>1. CASE g = h
      <3>1. j = k
        BY <1>4, <1>8, <2>1 DEF RunsOn
      <3>2. m_deadline'[k] > 0
        BY <1>1 DEF QueuedHasDeadline
      <3>3. \A f \in Handlers \ {h} : m_queue'[f][k] = 0
        BY <1>3, <1>6, <3>1
      <3> QED
        BY <1>1, <1>2, <1>4, <1>6, <2>1, <3>1, <3>2, <3>3 DEF RunTaskInv, Puts
    <2>2. CASE g # h
      <3>1. RunsOn(g, j) /\ RunTaskInv(g, j) /\ hpc'[g] = hpc[g]
        BY <1>5, <1>8, <2>2 DEF RunsOn, RunInv
      <3>2. j # k
        BY <1>6, <2>2, <3>1
      <3>3. \A f \in Handlers \ {g} : m_queue'[f][j] = 0
        BY <1>3, <3>1 DEF RunTaskInv
      <3> QED
        BY <1>1, <1>2, <3>1, <3>2, <3>3 DEF RunTaskInv, Puts
    <2> QED
      BY <2>1, <2>2
  <1> QED
    BY <1>2, <1>7, <1>8 DEF RunInv

(* A caller sets and puts a task that no thread runs, unless it is raced. *)
LEMMA PuttingKeepsRunInv ==
    ASSUME IInv, RunInv, NEW a \in Adders,
           AddSetDeadline(a) \/ AddSetInterval(a) \/ AddPush(a)
    PROVE  RunInv'
  <1> USE DEF IInv
  <1>1. PICK k \in Tasks : call[a] \in Calls /\ call[a].task = k /\ Puts(a, k)
    BY DEF AddSetDeadline, AddSetInterval, AddPush, AddGoes, AddInv, Calls, Puts
  <1>2. /\ \A j \in Tasks \ {k} : m_deadline'[j] = m_deadline[j] /\ m_interval'[j] = m_interval[j]
        /\ UNCHANGED <<now, m_isRequestCancel, cancelled, task, raced>>
        /\ \A g \in Handlers : hpc'[g] # hpc[g] => hpc'[g] = "loop"
        /\ \A g \in Handlers, j \in Tasks \ {k} : m_queue'[g][j] = m_queue[g][j]
    <2>1. CASE AddSetDeadline(a) \/ AddSetInterval(a)
      BY <1>1, <2>1 DEF AddSetDeadline, AddSetInterval, TimerTypeOK, threadVars
    <2>2. CASE AddPush(a)
      BY <1>1, <2>2 DEF AddPush, PushTask, TimerTypeOK, taskVars, Entries
    <2> QED
      BY <2>1, <2>2
  <1>3. \A b \in Adders, j \in Tasks : Puts(b, j)' => Puts(b, j)
    BY DEF AddSetDeadline, AddSetInterval, AddPush, AddGoes, Puts, TimerTypeOK
  <1>4. ASSUME NEW g \in Handlers, NEW j \in Tasks, RunsOn(g, j)'
        PROVE  RunsOn(g, j) /\ hpc'[g] = hpc[g]
    BY <1>2, <1>4 DEF RunsOn
  <1>5. OneThreadPerTask'
    BY <1>2, <1>4 DEF RunInv, OneThreadPerTask
  <1>6. ASSUME NEW g \in Handlers, NEW j \in Tasks \ raced, RunsOn(g, j)'
        PROVE  RunTaskInv(g, j)'
    <2>1. RunTaskInv(g, j) /\ hpc'[g] = hpc[g]
      BY <1>4, <1>6 DEF RunInv
    <2>2. j # k
      BY <1>1, <2>1 DEF RunTaskInv
    <2> QED
      BY <1>2, <1>3, <2>1, <2>2 DEF RunTaskInv
  <1> QED
    BY <1>2, <1>5, <1>6 DEF RunInv

(* The other steps start no run. *)
LEMMA OthersStartNoRun ==
    ASSUME IInv, TimerTypeOK', [TimerNext]_timerVars,
           \A h \in Handlers : ~FireRequested(h) /\ ~FireCycle(h) /\ ~FireOnce(h),
           \A a \in Adders : ~AddSetDeadline(a) /\ ~AddSetInterval(a) /\ ~AddPush(a)
    PROVE  StartsNoRun
  <1> USE DEF IInv
  <1>0. now \in Nat
    BY DEF TimerTypeOK
  <1>1. ASSUME NEW h \in Handlers,
               \/ CheckClose(h) \/ SleepEmpty(h) \/ ComputeDelay(h) \/ TimedWait(h)
               \/ TimedOut(h) \/ SpuriousWakeup(h) \/ RunReturns(h) \/ RunThrows(h)
        PROVE  StartsNoRun
    <2>1. UNCHANGED <<now, taskVars, m_queue, addVars>>
      BY <1>1 DEF CheckClose, SleepEmpty, ComputeDelay, TimedWait, TimedOut, SpuriousWakeup,
                  RunReturns, RunThrows
    <2>2. \A g \in Handlers : Runs(g)' => Runs(g) /\ task'[g] = task[g] /\ hpc'[g] = hpc[g]
      BY <1>1 DEF CheckClose, SleepEmpty, ComputeDelay, TimedWait, TimedOut, SpuriousWakeup,
                  RunReturns, RunThrows, ThreadGoes, Runs, TimerTypeOK
    <2> QED
      BY <1>0, <2>1, <2>2 DEF StartsNoRun, Puts, taskVars, addVars, TimerTypeOK, Runs, Entries
  <1>2. ASSUME NEW h \in Handlers, DropCancelled(h) \/ FireEnd(h) PROVE StartsNoRun
    <2>1. /\ UNCHANGED <<now, taskVars, task, addVars>>
          /\ \A g \in Handlers : Runs(g)' => Runs(g) /\ hpc'[g] = hpc[g]
      BY <1>2 DEF DropCancelled, FireEnd, ThreadGoes, Runs, TimerTypeOK
    <2>2. PICK e \in Queued(h) : PopMin(h, e)
      BY <1>2 DEF DropCancelled, FireEnd, Due, Least
    <2>3. \A g \in Handlers, j \in Tasks : m_queue'[g][j] <= m_queue[g][j]
      BY <2>2, PopShrinks
    <2> QED
      BY <1>0, <2>1, <2>3 DEF StartsNoRun, Puts, taskVars, addVars, Runs
  <1>3. ASSUME NEW h \in Handlers, RunCheck(h) \/ RunCancelled(h) PROVE StartsNoRun
    <2>1. /\ UNCHANGED <<now, m_deadline, m_interval, m_isRequestCancel, m_queue, task, addVars>>
          /\ hpc[h] \in {"run", "do_run"}
          /\ hpc'[h] = "do_run" => task[h] \notin m_isRequestCancel
          /\ \A g \in Handlers \ {h} : hpc'[g] = hpc[g]
          /\ cancelled' = cancelled \/ (cancelled' = cancelled \cup {task[h]} /\ hpc'[h] = "loop")
      BY <1>3 DEF RunCheck, RunCancelled, ThreadGoes, TimerTypeOK
    <2>2. task[h] \in Tasks
      BY <2>1 DEF SleepInv, ThreadInv
    <2> QED
      BY <1>0, <2>1, <2>2 DEF StartsNoRun, Puts, addVars, Runs, RunsOn, TimerTypeOK, Entries
  <1>4. CASE /\ UNCHANGED <<m_deadline, m_interval, cancelled, hpc, task, m_queue>>
             /\ now <= now' /\ m_isRequestCancel \subseteq m_isRequestCancel'
             /\ raced \subseteq raced'
             /\ \A a \in Adders, k \in Tasks : Puts(a, k)' => Puts(a, k) \/ m_deadline[k] = 0
    BY <1>4 DEF StartsNoRun, Runs, TimerTypeOK, Entries
  <1>5. ASSUME NEW s \in Shutters, PushEnd(s) PROVE StartsNoRun
    <2>1. /\ UNCHANGED <<now, taskVars, task, addVars>>
          /\ \A g \in Handlers : Runs(g)' => Runs(g) /\ hpc'[g] = hpc[g]
          /\ m_queue' = [m_queue EXCEPT ![target[s]][EndTimerTask] = @ + 1]
      BY <1>5 DEF PushEnd, PushTask, Runs, TimerTypeOK
    <2>2. \A g \in Handlers, j \in Tasks : m_queue'[g][j] <= m_queue[g][j]
      BY <2>1, TimerAssumption DEF TimerTypeOK, Entries
    <2> QED
      BY <1>0, <2>1, <2>2 DEF StartsNoRun, Puts, taskVars, addVars, Runs
  <1>6. ASSUME \/ Tick
               \/ \E k \in Cancellable : Cancel(k)
               \/ \E s \in Shutters, h \in Handlers : CallShutDown(s, h)
               \/ \E s \in Shutters : Request(s) \/ CloseThread(s) \/ Closed(s)
               \/ UNCHANGED timerVars
        PROVE  StartsNoRun
    <2>1. /\ UNCHANGED <<m_deadline, m_interval, cancelled, hpc, task, m_queue, addVars>>
          /\ now <= now' /\ m_isRequestCancel \subseteq m_isRequestCancel'
      BY <1>0, <1>6 DEF Tick, Cancel, CallShutDown, Request, CloseThread, Closed, timerVars,
                        taskVars, threadVars
    <2> QED
      BY <1>4, <2>1 DEF Puts, addVars
  <1>7. ASSUME NEW a \in Adders,
               AddPasses(a) \/ AddRefused(a) \/ \E h \in Handlers : CallAdd(a, h)
        PROVE  StartsNoRun
    <2>1. /\ UNCHANGED <<now, taskVars, m_queue, threadVars>> /\ raced \subseteq raced'
          /\ \A b \in Adders \ {a} : apc'[b] = apc[b] /\ call'[b] = call[b]
          /\ \/ apc'[a] \in {"test", "returned"}
             \/ call' = call /\ m_deadline[call[a].task] = 0
      BY <1>7 DEF AddPasses, AddRefused, CallAdd, AddGoes, MayPut, TimerTypeOK
    <2> QED
      BY <1>0, <1>4, <2>1 DEF Puts, taskVars, threadVars
  <1> QED
    BY <1>1, <1>2, <1>3, <1>5, <1>6, <1>7
    DEF TimerNext, TimerEnvironment, TimerStep, ThreadStep, AddStep, ShutStep

(* A task that runs is run by one thread, was put once, and is not CANCELLED. *)
THEOREM RunInvariance == TimerSpec => []RunInv
  <1>1. TimerInit => RunInv
    BY DEF TimerInit, RunInv, OneThreadPerTask, RunsOn
  <1>2. IInv /\ IInv' /\ RunInv /\ [TimerNext]_timerVars => RunInv'
    <2> SUFFICES ASSUME IInv, IInv', RunInv, [TimerNext]_timerVars PROVE RunInv'
      OBVIOUS
    <2>1. TimerTypeOK'
      BY DEF IInv
    <2> QED
      BY <2>1, FireKeepsRunInv, PuttingKeepsRunInv, OthersStartNoRun, RunsOnUndisturbed
  <1> QED
    BY <1>1, <1>2, Invariance, PTL DEF TimerSpec

(* However often a task is offered, to however many handlers, two timer threads
   run it at once only if it is raced: with any other callers the tests of
   DoAddCronTimerTask and DoAddCycleTimerTask are enough. *)
THEOREM RunsOnOneThread == TimerSpec => []OneThreadPerTask
  BY RunInvariance, PTL DEF RunInv

(* ThreadFunction runs a one-shot task when its deadline has come, never before:
   the tasks that it takes early are the ones that TaskBase::Run cancels.  Raced
   tasks are left out: a second caller may move their deadline. *)
THEOREM NotBeforeDeadline == TimerSpec => []NeverEarly
  <1>1. IInv /\ RunInv => NeverEarly
    BY DEF IInv, TimerTypeOK, SleepInv, ThreadInv, RunInv, RunTaskInv, RunsOn, NeverEarly
  <1> QED
    BY <1>1, Invariance, RunInvariance, PTL

(* A CANCELLED task that is not raced is run by no timer thread: it is dropped from the heap, and
   the thread that makes it CANCELLED is the one that had it. *)
THEOREM CancelledStayAway == TimerSpec => []CancelledNeverRuns
  <1>1. IInv /\ RunInv => CancelledNeverRuns
    BY DEF IInv, SleepInv, ThreadInv, RunInv, RunTaskInv, RunsOn, CancelledNeverRuns
  <1> QED
    BY <1>1, Invariance, RunInvariance, PTL

-----------------------------------------------------------------------------
(* The EndTimerTask *)

\* It is in the heap, or has done its work; while it is there, it is the top.
EndIsThere(h) == m_queue[h][EndTimerTask] > 0 \/ hpc[h] = "exited"

EndInv ==
    /\ \A s \in Shutters : spc[s] \in {"close", "closing"} => EndIsThere(target[s])
    /\ \A h \in m_isRequestClose : EndIsThere(h)

EndAwake ==
    \A h \in Handlers : m_queue[h][EndTimerTask] > 0 => hpc[h] \notin {"timed_wait", "asleep"}

(* Nothing takes the EndTimerTask from the heap but FireEnd. *)
LEMMA EndStays ==
    ASSUME IInv, [TimerNext]_timerVars, NEW h \in Handlers, EndIsThere(h)
    PROVE  EndIsThere(h)'
  <1> USE DEF IInv, TimerTypeOK, EndIsThere
  <1>0. EndTimerTask \in Entries /\ EndTimerTask \notin Tasks /\ m_queue[h][EndTimerTask] \in Nat
    BY TimerAssumption DEF Entries
  <1>1. hpc[h] = "exited" => hpc'[h] = "exited"
    <2>1. ASSUME NEW g \in Handlers,
                 ThreadStep(g) \/ SpuriousWakeup(g) \/ RunCancelled(g) \/ RunThrows(g)
          PROVE  hpc[g] # "exited" /\ \A i \in Handlers \ {g} : hpc'[i] = hpc[i]
      BY <2>1
      DEF ThreadStep, CheckClose, SleepEmpty, DropCancelled, FireRequested, FireCycle, FireOnce,
          FireEnd, ComputeDelay, TimedWait, TimedOut, SpuriousWakeup, RunCheck, RunReturns,
          RunCancelled, RunThrows, ThreadGoes
    <2>2. ASSUME NEW g, NEW k, PushTask(g, k)
          PROVE  hpc[h] = "exited" => hpc'[h] = "exited"
      BY <2>2 DEF PushTask, Notifies
    <2>3. ASSUME NEW a \in Adders, AddStep(a) PROVE (\E g, k : PushTask(g, k)) \/ UNCHANGED hpc
      BY <2>3 DEF AddStep, AddPasses, AddRefused, AddSetDeadline, AddSetInterval, AddPush,
                  threadVars
    <2>4. ASSUME NEW u \in Shutters, ShutStep(u) PROVE (\E g, k : PushTask(g, k)) \/ UNCHANGED hpc
      BY <2>4 DEF ShutStep, Request, PushEnd, CloseThread, Closed, threadVars
    <2>5. \/ \E g \in Handlers :
                ThreadStep(g) \/ SpuriousWakeup(g) \/ RunCancelled(g) \/ RunThrows(g)
          \/ \E a \in Adders : AddStep(a)
          \/ \E u \in Shutters : ShutStep(u)
          \/ UNCHANGED hpc
      BY DEF TimerNext, TimerEnvironment, TimerStep, Tick, Cancel, CallAdd, CallShutDown,
             threadVars, timerVars
    <2> QED
      BY <2>1, <2>2, <2>3, <2>4, <2>5
  <1>2. ASSUME NEW g \in Handlers, FireEnd(g) PROVE EndIsThere(h)'
    <2>1. CASE g = h
      BY <1>2, <2>1 DEF FireEnd, ThreadGoes
    <2>2. CASE g # h
      BY <1>0, <1>1, <1>2, <2>2 DEF FireEnd, PopMin
    <2> QED
      BY <2>1, <2>2
  <1>3. ASSUME NEW g \in Handlers, NEW k \in Tasks, PopMin(g, k) PROVE EndIsThere(h)'
    BY <1>0, <1>1, <1>3 DEF PopMin, Entries
  <1>4. ASSUME NEW g \in Handlers, NEW k \in Entries, PushTask(g, k) PROVE EndIsThere(h)'
    <2>1. m_queue'[h][EndTimerTask] >= m_queue[h][EndTimerTask]
      BY <1>0, <1>4 DEF PushTask
    <2>2. m_queue'[h][EndTimerTask] \in Nat
      BY <1>0, <1>4 DEF PushTask
    <2> QED
      BY <1>0, <1>1, <2>1, <2>2
  <1>5. CASE UNCHANGED m_queue
    BY <1>1, <1>5
  <1>6. ASSUME NEW g \in Handlers, DropCancelled(g) \/ FireRequested(g) \/ FireOnce(g)
        PROVE  \E k \in Tasks : PopMin(g, k)
    BY <1>6 DEF DropCancelled, FireRequested, FireOnce
  <1>7. ASSUME NEW a \in Adders, AddPush(a)
        PROVE  \E g \in Handlers, k \in Entries : PushTask(g, k)
    BY <1>7 DEF AddPush, AddGoes, AddInv, Calls, Entries
  <1>8. ASSUME NEW s \in Shutters, PushEnd(s)
        PROVE  \E g \in Handlers, k \in Entries : PushTask(g, k)
    BY <1>0, <1>8 DEF PushEnd
  <1>9. \/ \E g \in Handlers : \/ FireEnd(g) \/ DropCancelled(g) \/ FireRequested(g)
                               \/ FireOnce(g)
        \/ \E a \in Adders : AddPush(a)
        \/ \E s \in Shutters : PushEnd(s)
        \/ UNCHANGED m_queue
    BY DEF TimerNext, TimerEnvironment, TimerStep, Tick, Cancel, ThreadStep, CheckClose,
           SleepEmpty, FireCycle, PopMinAndPush, ComputeDelay, TimedWait, TimedOut,
           SpuriousWakeup, RunCheck, RunReturns, RunCancelled, RunThrows, CallAdd, AddStep,
           AddPasses, AddRefused, AddSetDeadline, AddSetInterval, CallShutDown, ShutStep,
           Request, CloseThread, Closed, timerVars
  <1> QED
    BY <1>2, <1>3, <1>4, <1>5, <1>6, <1>7, <1>8, <1>9

(* A shutdown tells the thread to close after it pushed the EndTimerTask. *)
LEMMA StepKeepsEndInv ==
    ASSUME IInv, EndInv, [TimerNext]_timerVars
    PROVE  EndInv'
  <1> USE DEF IInv, TimerTypeOK
  <1>1. ASSUME NEW s \in Shutters, PushEnd(s) PROVE EndInv'
    <2>1. /\ UNCHANGED <<target, m_isRequestClose>>
          /\ \A u \in Shutters \ {s} : spc'[u] = spc[u]
      BY <1>1 DEF PushEnd, ShutGoes
    <2>2. EndIsThere(target[s])'
      <3>1. EndTimerTask \in Entries /\ target[s] \in Handlers
        BY DEF Entries
      <3>2. m_queue'[target[s]][EndTimerTask] = m_queue[target[s]][EndTimerTask] + 1
        BY <1>1, <3>1 DEF PushEnd, PushTask
      <3>3. m_queue[target[s]][EndTimerTask] \in Nat
        BY <3>1
      <3> QED
        BY <2>1, <3>2, <3>3 DEF EndIsThere
    <2> QED
      BY <2>1, <2>2, EndStays DEF EndInv
  <1>2. ASSUME \A s \in Shutters : spc'[s] \in {"close", "closing"} =>
                   spc[s] \in {"close", "closing"} /\ target'[s] = target[s],
               \A h \in m_isRequestClose' : \/ h \in m_isRequestClose
                                            \/ \E s \in Shutters : spc[s] = "close" /\ h = target[s],
               m_isRequestClose' \subseteq Handlers
        PROVE  EndInv'
    <2>1. ASSUME NEW s \in Shutters, spc'[s] \in {"close", "closing"}
          PROVE  EndIsThere(target[s])' /\ target'[s] = target[s]
      BY <1>2, <2>1, EndStays DEF EndInv
    <2>2. ASSUME NEW h \in m_isRequestClose' PROVE EndIsThere(h)'
      BY <1>2, <2>2, EndStays DEF EndInv
    <2> QED
      BY <2>1, <2>2 DEF EndInv, EndIsThere
  <1>3. ASSUME NEW s \in Shutters,
               \/ Request(s) \/ CloseThread(s) \/ Closed(s)
               \/ \E h \in Handlers : CallShutDown(s, h)
        PROVE  EndInv'
    <2>1. \A u \in Shutters : spc'[u] \in {"close", "closing"} =>
                   spc[u] \in {"close", "closing"} /\ target'[u] = target[u]
      BY <1>3 DEF Request, CloseThread, Closed, CallShutDown, ShutGoes
    <2>2. m_isRequestClose' = m_isRequestClose
          \/ (m_isRequestClose' = m_isRequestClose \cup {target[s]} /\ spc[s] = "close")
      BY <1>3 DEF Request, CloseThread, Closed, CallShutDown, ShutGoes
    <2>3. target[s] \in Handlers
      OBVIOUS
    <2> QED
      BY <1>2, <2>1, <2>2, <2>3
  <1>4. CASE UNCHANGED shutVars
    BY <1>2, <1>4 DEF shutVars
  <1>5. \/ UNCHANGED shutVars
        \/ \E s \in Shutters : \/ ShutStep(s) \/ \E h \in Handlers : CallShutDown(s, h)
    BY DEF TimerNext, TimerEnvironment, TimerStep, Tick, Cancel, ThreadStep, CheckClose,
           SleepEmpty, DropCancelled, FireRequested, FireCycle, FireOnce, FireEnd, ComputeDelay,
           TimedWait, TimedOut, SpuriousWakeup, RunCheck, RunReturns, RunCancelled, RunThrows,
           CallAdd, AddStep, AddPasses, AddRefused, AddSetDeadline, AddSetInterval, AddPush,
           timerVars
  <1> QED
    BY <1>1, <1>3, <1>4, <1>5 DEF ShutStep

(* A thread does not fall asleep over an EndTimerTask: no task is above it in
   the heap, whatever deadlines they have, and it is always due. *)
LEMMA StepKeepsEndAwake ==
    ASSUME IInv, EndAwake, [TimerNext]_timerVars
    PROVE  EndAwake'
  <1> USE DEF IInv, TimerTypeOK
  <1>0. EndTimerTask \in Entries /\ EndTimerTask \notin Tasks
    BY TimerAssumption DEF Entries
  <1>1. ASSUME NEW h \in Handlers, SleepEmpty(h) \/ ComputeDelay(h) \/ TimedWait(h) PROVE EndAwake'
    <2>1. UNCHANGED m_queue /\ \A g \in Handlers \ {h} : hpc'[g] = hpc[g]
      BY <1>1 DEF SleepEmpty, ComputeDelay, TimedWait, ThreadGoes
    <2>2. CASE SleepEmpty(h)
      BY <1>0, <2>1, <2>2 DEF SleepEmpty, IsEmpty, Queued, EndAwake
    <2>3. CASE TimedWait(h)
      BY <2>1, <2>3 DEF TimedWait, ThreadGoes, EndAwake
    <2>4. CASE ComputeDelay(h)
      <3>1. PICK k \in Least(h) : GetDeadline(k) > now
        BY <2>4 DEF ComputeDelay
      <3>2. k \in Tasks /\ m_deadline[k] > 0 /\ GetDeadline(k) = m_deadline[k]
        BY <3>1 DEF Least, Queued, Entries, GetDeadline
      <3>3. EndTimerTask \notin Queued(h)
        BY <3>1, <3>2 DEF Least, MayPrecede, GetDeadline
      <3> QED
        BY <1>0, <2>1, <3>3 DEF Queued, EndAwake
    <2> QED
      BY <1>1, <2>2, <2>3, <2>4
  <1>2. ASSUME NEW h \in Handlers, NEW k \in Entries, PushTask(h, k) PROVE EndAwake'
    <2>1. hpc'[h] \notin {"timed_wait", "asleep"} /\ \A g \in Handlers \ {h} : hpc'[g] = hpc[g]
      BY <1>2 DEF PushTask, Notifies, Unlocked
    <2>2. \A g \in Handlers \ {h} : m_queue'[g] = m_queue[g]
      BY <1>2 DEF PushTask
    <2> QED
      BY <2>1, <2>2 DEF EndAwake
  <1>3. ASSUME NEW h \in Handlers, PopMin(h, EndTimerTask) \/ (\E k \in Tasks : PopMin(h, k)),
               hpc'[h] \notin {"timed_wait", "asleep"},
               \A g \in Handlers \ {h} : hpc'[g] = hpc[g]
        PROVE  EndAwake'
    BY <1>0, <1>3 DEF PopMin, EndAwake
  <1>4. ASSUME UNCHANGED m_queue,
               \A h \in Handlers : hpc'[h] = hpc[h] \/ hpc'[h] \notin {"timed_wait", "asleep"}
        PROVE  EndAwake'
    BY <1>4 DEF EndAwake
  <1>5. ASSUME NEW h \in Handlers,
               DropCancelled(h) \/ FireRequested(h) \/ FireOnce(h) \/ FireEnd(h)
        PROVE  EndAwake'
    <2>1. PopMin(h, EndTimerTask) \/ \E k \in Tasks : PopMin(h, k)
      BY <1>5 DEF DropCancelled, FireRequested, FireOnce, FireEnd
    <2>2. /\ hpc'[h] \notin {"timed_wait", "asleep"}
          /\ \A g \in Handlers \ {h} : hpc'[g] = hpc[g]
      BY <1>5 DEF DropCancelled, FireRequested, FireOnce, FireEnd, ThreadGoes
    <2> QED
      BY <1>3, <2>1, <2>2
  <1>6. ASSUME NEW h \in Handlers,
               \/ CheckClose(h) \/ FireCycle(h) \/ TimedOut(h) \/ SpuriousWakeup(h)
               \/ RunCheck(h) \/ RunReturns(h) \/ RunCancelled(h) \/ RunThrows(h)
        PROVE  EndAwake'
    <2>1. /\ UNCHANGED m_queue
          /\ \A g \in Handlers : hpc'[g] = hpc[g] \/ hpc'[g] \notin {"timed_wait", "asleep"}
      BY <1>6 DEF CheckClose, FireCycle, PopMinAndPush, TimedOut, SpuriousWakeup, RunCheck,
                  RunReturns, RunCancelled, RunThrows, ThreadGoes
    <2> QED
      BY <1>4, <2>1
  <1>7. ASSUME NEW a \in Adders, AddPush(a) PROVE EndAwake'
    <2>1. \E g \in Handlers, k \in Entries : PushTask(g, k)
      BY <1>7 DEF AddPush, AddGoes, AddInv, Calls, Entries
    <2> QED
      BY <1>2, <2>1
  <1>8. ASSUME NEW s \in Shutters, PushEnd(s) PROVE EndAwake'
    BY <1>0, <1>2, <1>8 DEF PushEnd
  <1>9. CASE UNCHANGED <<m_queue, hpc>>
    BY <1>4, <1>9
  <1>10. \/ \E h \in Handlers : \/ ThreadStep(h) \/ SpuriousWakeup(h) \/ RunCancelled(h)
                                \/ RunThrows(h)
         \/ \E a \in Adders : AddPush(a)
         \/ \E s \in Shutters : PushEnd(s)
         \/ UNCHANGED <<m_queue, hpc>>
    BY DEF TimerNext, TimerEnvironment, TimerStep, Tick, Cancel, CallAdd, AddStep, AddPasses,
           AddRefused, AddSetDeadline, AddSetInterval, CallShutDown, ShutStep, Request,
           CloseThread, Closed, timerVars, threadVars
  <1> QED
    BY <1>1, <1>5, <1>6, <1>7, <1>8, <1>9, <1>10 DEF ThreadStep

(* ShutDownHelper never leaves a sleeping thread to be joined, whoever puts
   tasks at once: from the moment the thread is told to close, the EndTimerTask,
   which is earlier than every task, is in its heap or has ended its loop. *)
THEOREM NoSleepAfterClose == TimerSpec => []AwakeToClose
  <1>1. TimerInit => EndInv /\ EndAwake
    BY DEF TimerInit, EndInv, EndAwake, Entries
  <1>2. IInv /\ EndInv /\ EndAwake /\ [TimerNext]_timerVars => EndInv' /\ EndAwake'
    BY StepKeepsEndInv, StepKeepsEndAwake
  <1>3. IInv /\ EndInv /\ EndAwake => AwakeToClose
    BY DEF IInv, TimerTypeOK, EndInv, EndIsThere, EndAwake, AwakeToClose
  <1> QED
    BY <1>1, <1>2, <1>3, Invariance, PTL DEF TimerSpec
=============================================================================
