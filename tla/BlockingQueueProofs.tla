------------------------ MODULE BlockingQueueProofs ------------------------
(***************************************************************************)
(* For any set of threads, any set of elements and any bounds: the safety  *)
(* invariants of BlockingQueue, and that it implements AtomicQueue.        *)
(*                                                                         *)
(* NoLostWakeup is not inductive by itself.  Between Push's notification   *)
(* and its m_queue.push nobody may fall asleep: that needs to know who     *)
(* holds the mutex (LockInv) and that a Push that found the queue empty    *)
(* has emptied the waiters (PusherWokeAll).                                *)
(***************************************************************************)
EXTENDS BlockingQueue, SequenceTheorems, TLAPS

Holding == {"push_body", "wait_body"}

\* The mutex is held by the one thread that is inside a locker's scope.
LockInv == \A t \in Threads : cond.holder = t <=> pc[t] \in Holding

\* A thread's position belongs to the call it executes.
CallInv == \A t \in Threads :
    /\ pc[t] = "idle" <=> call[t] = NoCall
    /\ pc[t] \in {"push_lock", "push_body"} => call[t] \in PushCalls
    /\ pc[t] \in {"wait_lock", "waiting", "wait_body"} => call[t] \in WaitCalls
    /\ pc[t] = "timed_out" => call[t] \in WaitCalls /\ call[t].op = "PopTimeWait"
    /\ pc[t] = "size" => call[t] \in SizeCalls

\* A Push that is about to make the queue non-empty has woken everybody.
PusherWokeAll == \A t \in Threads :
    pc[t] = "push_body" /\ m_queue = <<>> => cond.waiters = {}

IInv ==
    /\ TypeOK
    /\ LockInv
    /\ CallInv
    /\ PusherWokeAll
    /\ NoLostWakeup
    /\ NeverFrontOfEmpty
    /\ ExactlyOnceInOrder

-----------------------------------------------------------------------------
(* Sequence facts *)

(* Pushing at the back of the queue pushes at the back of everything that
   went through it. *)
LEMMA AppendConcat ==
    ASSUME NEW S, NEW h, NEW a \in Seq(S), NEW b \in Seq(S), NEW e \in S,
           h = a \o b
    PROVE  Append(h, e) = a \o Append(b, e)
  <1>1. a \o Append(b, e) = a \o (b \o <<e>>)
    BY AppendIsConcat
  <1>2. Append(h, e) = (a \o b) \o <<e>>
    BY ConcatProperties, AppendIsConcat
  <1>3. <<e>> \in Seq(S)
    OBVIOUS
  <1> QED
    BY <1>1, <1>2, <1>3, ConcatAssociative

(* Moving the front element to the back of the popped ones changes nothing. *)
LEMMA HeadMoves ==
    ASSUME NEW S, NEW a \in Seq(S), NEW b \in Seq(S), b # <<>>
    PROVE  Append(a, Head(b)) \o Tail(b) = a \o b
  <1>1. Head(b) \in S /\ Tail(b) \in Seq(S) /\ <<Head(b)>> \in Seq(S)
    BY HeadTailProperties
  <1>2. Append(a, Head(b)) = a \o <<Head(b)>>
    BY <1>1, AppendIsConcat
  <1>3. b = <<Head(b)>> \o Tail(b)
    BY <1>1, HeadTailProperties, ConcatProperties
  <1> QED
    BY <1>1, <1>2, <1>3, ConcatAssociative

-----------------------------------------------------------------------------
(* The inductive invariant *)

(* The state of a new queue satisfies it. *)
LEMMA InitIInv == Init => IInv
  BY NoThreadAssumption, BlockingQueueAssumption, EmptySeq, ConcatEmptySeq
  DEF Init, IInv, TypeOK, LockInv, CallInv, PusherWokeAll, NoLostWakeup,
      NeverFrontOfEmpty, ExactlyOnceInOrder, NewMonitor, Monitors, PCs, Holding,
      PushCalls, WaitCalls, SizeCalls

(* The three calls: only the caller's pc and call change, and it holds no
   lock. *)
LEMMA CallIInv ==
    ASSUME IInv, NEW t \in Threads, CallPush(t) \/ CallWait(t) \/ CallSize(t)
    PROVE  IInv'
  <1> USE DEF IInv, PushCalls, WaitCalls, SizeCalls
  <1>1. PICK c \in PushCalls \cup WaitCalls \cup SizeCalls, p \in PCs :
          /\ Begin(t, c, p)
          /\ \/ p = "push_lock" /\ c \in PushCalls
             \/ p = "wait_lock" /\ c \in WaitCalls
             \/ p = "size" /\ c \in SizeCalls
    BY DEF CallPush, CallWait, CallSize, PCs
  <1>2. TypeOK'
    BY <1>1, BlockingQueueAssumption DEF TypeOK, Begin
  <1>3. LockInv'
    BY <1>1 DEF TypeOK, LockInv, Begin, Holding
  <1>4. CallInv'
    BY <1>1, BlockingQueueAssumption DEF TypeOK, CallInv, Begin
  <1>5. PusherWokeAll' /\ NoLostWakeup' /\ NeverFrontOfEmpty' /\ ExactlyOnceInOrder'
    BY <1>1 DEF TypeOK, PusherWokeAll, NoLostWakeup, NeverFrontOfEmpty,
                ExactlyOnceInOrder, Begin
  <1> QED
    BY <1>2, <1>3, <1>4, <1>5

(* Push's locker empties the waiters if the queue is empty. *)
LEMMA PushLockIInv ==
    ASSUME IInv, NEW t \in Threads, PushLock(t)
    PROVE  IInv'
  <1> USE DEF IInv, PushLock, NotifyAllLocker, Free, Lock, NotifyAll
  <1>1. TypeOK'
    BY DEF TypeOK, Monitors, PCs
  <1>2. LockInv'
    BY NoThreadAssumption DEF TypeOK, Monitors, LockInv, Holding
  <1>3. CallInv'
    BY DEF TypeOK, CallInv
  <1>4. PusherWokeAll' /\ NoLostWakeup'
    BY DEF TypeOK, Monitors, PusherWokeAll, NoLostWakeup
  <1>5. NeverFrontOfEmpty' /\ ExactlyOnceInOrder'
    BY DEF TypeOK, NeverFrontOfEmpty, ExactlyOnceInOrder
  <1> QED
    BY <1>1, <1>2, <1>3, <1>4, <1>5

(* The element arrives when nobody sleeps: PusherWokeAll or, if the queue had
   elements already, NoLostWakeup. *)
LEMMA PushBodyIInv ==
    ASSUME IInv, NEW t \in Threads, PushBody(t)
    PROVE  IInv'
  <1> USE DEF IInv, PushBody, Return, Unlock
  <1>1. /\ call[t].arg \in Elems
        /\ m_queue \in Seq(Elems) /\ popped \in Seq(Elems)
        /\ pushed \in Seq(Elems)
    BY DEF TypeOK, CallInv, PushCalls
  <1>2. /\ m_queue' \in Seq(Elems) /\ m_queue' # <<>>
        /\ pushed' \in Seq(Elems)
    BY <1>1, AppendProperties
  <1>3. TypeOK'
    BY <1>2 DEF TypeOK, Monitors, PCs
  <1>4. LockInv'
    BY NoThreadAssumption DEF TypeOK, Monitors, LockInv, Holding
  <1>5. CallInv'
    BY DEF TypeOK, CallInv
  <1>6. cond.waiters = {}
    BY DEF PusherWokeAll, NoLostWakeup
  <1>7. PusherWokeAll' /\ NoLostWakeup'
    BY <1>6 DEF TypeOK, Monitors, PusherWokeAll, NoLostWakeup
  <1>8. NeverFrontOfEmpty'
    BY <1>2 DEF TypeOK, NeverFrontOfEmpty
  <1>9. ExactlyOnceInOrder'
    <2>1. pushed = popped \o m_queue
      BY DEF ExactlyOnceInOrder
    <2>2. \A e \in Elems : Append(pushed, e) = popped \o Append(m_queue, e)
      BY <1>1, <2>1, AppendConcat
    <2> QED
      BY <1>1, <2>2 DEF ExactlyOnceInOrder
  <1> QED
    BY <1>3, <1>4, <1>5, <1>7, <1>8, <1>9

(* A thread goes to sleep only with the mutex free, so no Push is half done,
   and only when the queue is empty. *)
LEMMA WaitLockIInv ==
    ASSUME IInv, NEW t \in Threads, WaitLock(t)
    PROVE  IInv'
  <1> USE DEF IInv, WaitLock, Free
  <1>1. \A u \in Threads : pc[u] \notin Holding
    BY NoThreadAssumption DEF LockInv, TypeOK, Monitors
  <1>2. CASE m_queue = <<>>
    <2>1. TypeOK'
      BY <1>2 DEF TypeOK, Monitors, PCs, Wait
    <2>2. LockInv'
      BY <1>1, <1>2, NoThreadAssumption DEF TypeOK, Monitors, LockInv, Holding, Wait
    <2>3. CallInv'
      BY <1>2 DEF TypeOK, CallInv
    <2>4. PusherWokeAll' /\ NoLostWakeup' /\ NeverFrontOfEmpty' /\ ExactlyOnceInOrder'
      BY <1>1, <1>2 DEF TypeOK, PusherWokeAll, NoLostWakeup, NeverFrontOfEmpty,
                        ExactlyOnceInOrder, Holding
    <2> QED
      BY <2>1, <2>2, <2>3, <2>4
  <1>3. CASE m_queue # <<>>
    <2>1. TypeOK'
      BY <1>3 DEF TypeOK, Monitors, PCs, Lock
    <2>2. LockInv'
      BY <1>1, <1>3, NoThreadAssumption DEF TypeOK, Monitors, LockInv, Holding, Lock
    <2>3. CallInv'
      BY <1>3 DEF TypeOK, CallInv
    <2>4. PusherWokeAll' /\ NoLostWakeup' /\ NeverFrontOfEmpty' /\ ExactlyOnceInOrder'
      BY <1>3 DEF TypeOK, Monitors, PusherWokeAll, NoLostWakeup, NeverFrontOfEmpty,
                  ExactlyOnceInOrder, Lock
    <2> QED
      BY <2>1, <2>2, <2>3, <2>4
  <1> QED
    BY <1>2, <1>3

(* Waking up, for whatever reason, only makes the set of sleepers smaller. *)
LEMMA WakeIInv ==
    ASSUME IInv, NEW t \in Threads, Notified(t) \/ SpuriousWakeup(t) \/ TimeOut(t)
    PROVE  IInv'
  <1> USE DEF IInv, Notified, AfterWait, SpuriousWakeup, TimeOut, Wake
  <1>1. TypeOK'
    <2>1. cond' \in Monitors /\ pc' \in [Threads -> PCs]
      BY DEF TypeOK, Monitors, PCs
    <2>2. spurious' \in 0 .. MaxSpurious
      BY BlockingQueueAssumption DEF TypeOK
    <2> QED
      BY <2>1, <2>2 DEF TypeOK
  <1>2. LockInv'
    BY DEF TypeOK, Monitors, LockInv, Holding
  <1>3. CallInv'
    BY DEF TypeOK, CallInv
  <1>4. PusherWokeAll' /\ NoLostWakeup'
    BY DEF TypeOK, Monitors, PusherWokeAll, NoLostWakeup
  <1>5. NeverFrontOfEmpty' /\ ExactlyOnceInOrder'
    BY DEF TypeOK, NeverFrontOfEmpty, ExactlyOnceInOrder
  <1> QED
    BY <1>1, <1>2, <1>3, <1>4, <1>5

(* Calls that return without touching the queue or the mutex. *)
LEMMA ReadIInv ==
    ASSUME IInv, NEW t \in Threads, TimedOutReturn(t) \/ Size(t)
    PROVE  IInv'
  <1> USE DEF IInv, TimedOutReturn, Size, Return, Free
  <1>1. Len(m_queue) \in Nat
    BY LenProperties DEF TypeOK
  <1>2. TypeOK'
    BY <1>1 DEF TypeOK, PCs
  <1>3. LockInv'
    BY NoThreadAssumption DEF TypeOK, LockInv, Holding
  <1>4. CallInv'
    BY DEF TypeOK, CallInv
  <1>5. PusherWokeAll' /\ NoLostWakeup' /\ NeverFrontOfEmpty' /\ ExactlyOnceInOrder'
    BY DEF TypeOK, PusherWokeAll, NoLostWakeup, NeverFrontOfEmpty, ExactlyOnceInOrder
  <1> QED
    BY <1>2, <1>3, <1>4, <1>5

(* Pop takes the front element; no other thread is past the predicate. *)
LEMMA PopBodyIInv ==
    ASSUME IInv, NEW t \in Threads, PopBody(t)
    PROVE  IInv'
  <1> USE DEF IInv, PopBody, Popped, Return, Unlock
  <1>1. /\ m_queue \in Seq(Elems) /\ m_queue # <<>> /\ popped \in Seq(Elems)
    BY DEF TypeOK, NeverFrontOfEmpty
  <1>2. /\ Head(m_queue) \in Elems /\ m_queue' \in Seq(Elems)
        /\ popped' \in Seq(Elems)
    BY <1>1, HeadTailProperties, AppendProperties
  <1>3. TypeOK'
    BY <1>2 DEF TypeOK, Monitors, PCs
  <1>4. LockInv' /\ \A u \in Threads : pc[u]' \notin Holding
    BY NoThreadAssumption DEF TypeOK, Monitors, LockInv, Holding
  <1>5. CallInv'
    BY DEF TypeOK, CallInv
  <1>6. PusherWokeAll' /\ NoLostWakeup' /\ NeverFrontOfEmpty'
    BY <1>1, <1>4 DEF TypeOK, Monitors, PusherWokeAll, NoLostWakeup, NeverFrontOfEmpty,
                      Holding
  <1>7. ExactlyOnceInOrder'
    BY <1>1, HeadMoves DEF ExactlyOnceInOrder
  <1> QED
    BY <1>3, <1>4, <1>5, <1>6, <1>7

(* Front reads the front element and leaves the queue alone. *)
LEMMA FrontBodyIInv ==
    ASSUME IInv, NEW t \in Threads, FrontBody(t)
    PROVE  IInv'
  <1> USE DEF IInv, FrontBody, Return, Unlock
  <1>1. Head(m_queue) \in Elems
    BY HeadTailProperties DEF TypeOK, NeverFrontOfEmpty
  <1>2. TypeOK'
    BY <1>1 DEF TypeOK, Monitors, PCs
  <1>3. LockInv'
    BY NoThreadAssumption DEF TypeOK, Monitors, LockInv, Holding
  <1>4. CallInv'
    BY DEF TypeOK, CallInv
  <1>5. PusherWokeAll' /\ NoLostWakeup' /\ NeverFrontOfEmpty' /\ ExactlyOnceInOrder'
    BY DEF TypeOK, Monitors, PusherWokeAll, NoLostWakeup, NeverFrontOfEmpty,
           ExactlyOnceInOrder
  <1> QED
    BY <1>2, <1>3, <1>4, <1>5

(* The inductive invariant holds in every reachable state. *)
THEOREM Invariance == Spec => []IInv
  <1>1. IInv /\ [Next]_vars => IInv'
    <2>1. SUFFICES ASSUME IInv, [Next]_vars PROVE IInv'
      OBVIOUS
    <2>2. CASE UNCHANGED vars
      BY <2>1, <2>2
      DEF vars, IInv, TypeOK, LockInv, CallInv, PusherWokeAll, NoLostWakeup,
          NeverFrontOfEmpty, ExactlyOnceInOrder
    <2>3. CASE Next
      BY <2>1, <2>3, CallIInv, PushLockIInv, PushBodyIInv, WaitLockIInv, WakeIInv,
         ReadIInv, PopBodyIInv, FrontBodyIInv
      DEF Next, Step
    <2> QED
      BY <2>1, <2>2, <2>3
  <1> QED
    BY <1>1, InitIInv, PTL DEF Spec

-----------------------------------------------------------------------------
(* The properties *)

(* Every variable keeps its type. *)
THEOREM TypeCorrect == Spec => []TypeOK
  BY Invariance, PTL DEF IInv

(* For any number of threads, no thread sleeps unnotified beside a queue that
   has an element. *)
THEOREM NoWakeupIsLost == Spec => []NoLostWakeup
  BY Invariance, PTL DEF IInv

(* For any number of threads, front() and pop() are never called on an empty
   std::queue. *)
THEOREM FrontIsDefined == Spec => []NeverFrontOfEmpty
  BY Invariance, PTL DEF IInv

(* For any number of threads and elements, what was pushed is what was popped
   followed by what is queued. *)
THEOREM FirstInFirstOut == Spec => []ExactlyOnceInOrder
  BY Invariance, PTL DEF IInv

-----------------------------------------------------------------------------
(* Refinement *)

(* Every step of the queue is one of the atomic queue's, or changes nothing
   that its callers see. *)
LEMMA StepSimulation ==
    ASSUME IInv, NEW t \in Threads,
           CallPush(t) \/ CallWait(t) \/ CallSize(t) \/ SpuriousWakeup(t) \/ Step(t)
    PROVE  Abstract!ANext \/ UNCHANGED Abstract!avars
  <1> USE DEF IInv, Abstract!ANext, Abstract!avars
  <1>1. CASE CallPush(t) \/ CallWait(t) \/ CallSize(t)
    <2>1. PICK c \in PushCalls \cup WaitCalls \cup SizeCalls, p \in PCs : Begin(t, c, p)
      BY <1>1 DEF CallPush, CallWait, CallSize, PCs
    <2>2. c \in Abstract!Calls
      BY DEF Abstract!Calls, PushCalls, WaitCalls, SizeCalls
    <2>3. Abstract!Call(t)
      BY <2>1, <2>2 DEF Begin, CallInv, Abstract!Call
    <2> QED
      BY <2>3
  <1>2. CASE SpuriousWakeup(t) \/ PushLock(t) \/ WaitLock(t) \/ Notified(t) \/ TimeOut(t)
    BY <1>2 DEF SpuriousWakeup, PushLock, WaitLock, Notified, AfterWait, TimeOut
  <1>3. CASE PushBody(t)
    <2>1. call[t] # NoCall /\ call[t].op = "Push"
      BY <1>3 DEF PushBody, CallInv, PushCalls
    <2>2. Abstract!ReturnPush(t)
      BY <1>3, <2>1 DEF PushBody, Return, Abstract!ReturnPush, Abstract!Return
    <2> QED
      BY <2>2
  <1>4. CASE PopBody(t)
    <2>1. call[t] # NoCall /\ m_queue # <<>>
      BY <1>4 DEF PopBody, Popped, CallInv, NeverFrontOfEmpty
    <2>2. Abstract!ReturnPop(t)
      BY <1>4, <2>1 DEF PopBody, Popped, Return, Abstract!ReturnPop, Abstract!Return
    <2> QED
      BY <2>2
  <1>5. CASE TimedOutReturn(t)
    <2>1. call[t] # NoCall /\ call[t].op = "PopTimeWait"
      BY <1>5 DEF TimedOutReturn, CallInv
    <2>2. Abstract!ReturnTimeout(t)
      BY <1>5, <2>1 DEF TimedOutReturn, Return, Abstract!ReturnTimeout, Abstract!Return
    <2> QED
      BY <2>2
  <1>6. CASE FrontBody(t)
    <2>1. call[t] # NoCall /\ m_queue # <<>>
      BY <1>6 DEF FrontBody, CallInv, NeverFrontOfEmpty
    <2>2. Abstract!ReturnRead(t)
      BY <1>6, <2>1 DEF FrontBody, Return, Abstract!ReturnRead, Abstract!Return
    <2> QED
      BY <2>2
  <1>7. CASE Size(t)
    <2>1. call[t] # NoCall /\ call[t].op = "Size"
      BY <1>7 DEF Size, CallInv, SizeCalls
    <2>2. Abstract!ReturnRead(t)
      BY <1>7, <2>1 DEF Size, Return, Abstract!ReturnRead, Abstract!Return
    <2> QED
      BY <2>2
  <1> QED
    BY <1>1, <1>2, <1>3, <1>4, <1>5, <1>6, <1>7 DEF Step

(* BlockingQueue implements the atomic queue: for any number of threads its
   calls are linearizable, at the step that returns. *)
THEOREM Refinement == Spec => ImplementsAtomicQueue
  <1>1. Init => Abstract!AInit
    BY DEF Init, Abstract!AInit
  <1>2. IInv /\ [Next]_vars => [Abstract!ANext]_(Abstract!avars)
    <2>1. SUFFICES ASSUME IInv, [Next]_vars
                   PROVE  Abstract!ANext \/ UNCHANGED Abstract!avars
      OBVIOUS
    <2>2. CASE UNCHANGED vars
      BY <2>2 DEF vars, Abstract!avars
    <2>3. CASE Next
      BY <2>1, <2>3, StepSimulation DEF Next
    <2> QED
      BY <2>1, <2>2, <2>3
  <1> QED
    BY <1>1, <1>2, Invariance, PTL DEF Spec, ImplementsAtomicQueue, Abstract!ASpec

-----------------------------------------------------------------------------
(* The absolute time of PopTimeWait's wait *)

(* ConditionVariable::TimeWait hands pthread_cond_timedwait a valid timespec
   (tv_nsec below one second: the single carry is enough) that lies exactly
   delay_in_ms after "now". *)
THEOREM TimeWaitDeadline ==
    ASSUME NEW tv_sec \in Nat, NEW tv_usec \in Nat, tv_usec < 1000000,
           NEW delay_in_ms \in Nat
    PROVE  IsDeadline(AbsTimeout(tv_sec, tv_usec, delay_in_ms), tv_sec, tv_usec, delay_in_ms)
  <1> DEFINE q == delay_in_ms \div 1000
             r == delay_in_ms % 1000
             usec == tv_usec + r * 1000
             ts == AbsTimeout(tv_sec, tv_usec, delay_in_ms)
  <1>1. /\ q \in Nat /\ r \in 0 .. 999 /\ delay_in_ms = q * 1000 + r
    OBVIOUS
  <1>2. /\ ts.tv_sec = IF usec >= 1000000 THEN tv_sec + q + 1 ELSE tv_sec + q
        /\ ts.tv_nsec = (IF usec >= 1000000 THEN usec % 1000000 ELSE usec) * 1000
    BY DEF AbsTimeout, Carries
  <1>3. usec \in Nat /\ usec < 2000000
    BY <1>1
  <1>4. ASSUME usec >= 1000000 PROVE usec % 1000000 = usec - 1000000
    BY <1>3, <1>4
  <1>5. ts.tv_nsec \in Nat /\ ts.tv_nsec < NanosPerSec
    BY <1>2, <1>3, <1>4, SMT DEF NanosPerSec, NanosPerMilli
  <1> HIDE DEF q, r
  <1>6. usec * 1000 + q * NanosPerSec = tv_usec * 1000 + delay_in_ms * NanosPerMilli
    BY <1>1, SMT DEF NanosPerSec, NanosPerMilli
  <1>7. (ts.tv_sec - tv_sec) * NanosPerSec + ts.tv_nsec = usec * 1000 + q * NanosPerSec
    BY <1>1, <1>2, <1>3, <1>4, SMT DEF NanosPerSec, NanosPerMilli
  <1> HIDE DEF usec, ts
  <1>8. IsDeadline(ts, tv_sec, tv_usec, delay_in_ms)
    BY <1>5, <1>6, <1>7 DEF IsDeadline
  <1> QED
    BY <1>8 DEF ts

(* In particular for whoever sleeps in PopTimeWait, at the times and with the
   delays on both sides of a carry that the run looks at. *)
THEOREM TimeWaitSamples == Spec => []TimeWaitIsExact
  <1>1. /\ \A usec \in SomeUsecs : usec \in Nat /\ usec < 1000000
        /\ \A ms \in SomeDelays : ms \in Nat
    BY DEF SomeUsecs, SomeDelays
  <1>2. TimeWaitIsExact
    BY <1>1, TimeWaitDeadline DEF TimeWaitIsExact
  <1> QED
    BY <1>2, PTL
=============================================================================
