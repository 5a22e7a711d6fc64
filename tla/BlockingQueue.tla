--------------------------- MODULE BlockingQueue ---------------------------
(***************************************************************************)
(* BlockingQueue<T> (src/include/empool/BlockingQueue.h), the queue between*)
(* the threads that add tasks and the worker threads.  Any thread may call *)
(* any operation at any time.  A call is                                   *)
(*   Call*        the call is made;                                        *)
(*   PushLock, WaitLock ...  the constructor of the scoped locker: lock,   *)
(*                notify or wait;                                          *)
(*   PushBody, PopBody ...   the body and the locker's destructor.         *)
(* Note that Push notifies in the locker's constructor, before the element *)
(* is in the queue, and only when the queue was empty.                     *)
(***************************************************************************)
EXTENDS ConditionVariable, Sequences

CONSTANTS
    Elems,        \* the values that are pushed
    NoElem,       \* "nothing", what a timed-out PopTimeWait leaves
    NoCall,
    MaxCalls,     \* bound: calls made in a behaviour
    MaxSpurious   \* bound: spurious wake-ups in a behaviour

ASSUME BlockingQueueAssumption ==
    /\ NoElem \notin Elems /\ NoElem \notin Nat
    /\ NoCall \notin [op : {"Push"}, arg : Elems]
    /\ NoCall \notin [op : {"Pop", "PopTimeWait", "Front", "Size"}]
    /\ MaxCalls \in Nat /\ MaxSpurious \in Nat

VARIABLES
    m_queue,
    cond,      \* m_mutex and m_mutexCond
    pc,        \* pc[t]: where thread t is
    call,      \* call[t]: the call it executes
    ret,       \* ret[t]: what its last call returned
    pushed,    \* history: every element ever pushed, in order
    popped,    \* history: every element ever popped, in order
    calls, spurious

vars == <<m_queue, cond, pc, call, ret, pushed, popped, calls, spurious>>

PushCalls == [op : {"Push"}, arg : Elems]
WaitCalls == [op : {"Pop", "PopTimeWait", "Front"}]
SizeCalls == [op : {"Size"}]

PCs == {"idle", "push_lock", "push_body", "wait_lock", "waiting",
        "wait_body", "timed_out", "size"}

Init ==
    /\ m_queue = <<>>
    /\ cond = NewMonitor
    /\ pc = [t \in Threads |-> "idle"]
    /\ call = [t \in Threads |-> NoCall]
    /\ ret = [t \in Threads |-> NoElem]
    /\ pushed = <<>>
    /\ popped = <<>>
    /\ calls = 0
    /\ spurious = 0

-----------------------------------------------------------------------------

Begin(t, c, first) ==
    /\ pc[t] = "idle"
    /\ calls < MaxCalls
    /\ calls' = calls + 1
    /\ call' = [call EXCEPT ![t] = c]
    /\ pc' = [pc EXCEPT ![t] = first]
    /\ UNCHANGED <<m_queue, cond, ret, pushed, popped, spurious>>

CallPush(t) == \E c \in PushCalls : Begin(t, c, "push_lock")
CallWait(t) == \E c \in WaitCalls : Begin(t, c, "wait_lock")
CallSize(t) == \E c \in SizeCalls : Begin(t, c, "size")

\* The call returns r; the locker's destructor has released the mutex.
Return(t, r) ==
    /\ pc' = [pc EXCEPT ![t] = "idle"]
    /\ call' = [call EXCEPT ![t] = NoCall]
    /\ ret' = [ret EXCEPT ![t] = r]
    /\ UNCHANGED <<calls, spurious>>

\* Mutant: Push wakes one sleeper only.
NotifyOneLocker(c) ==
    IF m_queue = <<>> /\ c.waiters # {}
    THEN Wake(c, CHOOSE t \in c.waiters : TRUE) ELSE c

\* ConditionNotifyAllLocker(m_mutexCond, m_queue.empty), once it has the mutex
NotifyAllLocker(c) == IF m_queue = <<>> THEN NotifyAll(c) ELSE c

PushLock(t) ==
    /\ pc[t] = "push_lock"
    /\ Free(cond)
    /\ cond' = NotifyAllLocker(Lock(cond, t))
    /\ pc' = [pc EXCEPT ![t] = "push_body"]
    /\ UNCHANGED <<m_queue, call, ret, pushed, popped, calls, spurious>>

\* m_queue.push(elem)
PushBody(t) ==
    /\ pc[t] = "push_body"
    /\ m_queue' = Append(m_queue, call[t].arg)
    /\ pushed' = Append(pushed, call[t].arg)
    /\ cond' = Unlock(cond)
    /\ Return(t, NoElem)
    /\ UNCHANGED popped

\* ConditionWaitLocker: lock, or re-lock after a wake-up, and test the
\* predicate again.
WaitLock(t) ==
    /\ pc[t] = "wait_lock"
    /\ Free(cond)
    /\ IF m_queue = <<>>
       THEN /\ cond' = Wait(cond, t)
            /\ pc' = [pc EXCEPT ![t] = "waiting"]
       ELSE /\ cond' = Lock(cond, t)
            /\ pc' = [pc EXCEPT ![t] = "wait_body"]
    /\ UNCHANGED <<m_queue, call, ret, pushed, popped, calls, spurious>>

\* Mutant: the predicate is tested by an "if" and not by a "while".
AfterWaitNoRetest == "wait_body"
AfterWait == "wait_lock"

\* The wait is over: a Push removed t from the waiters.
Notified(t) ==
    /\ pc[t] = "waiting"
    /\ t \notin cond.waiters
    /\ pc' = [pc EXCEPT ![t] = AfterWait]
    /\ UNCHANGED <<m_queue, cond, call, ret, pushed, popped, calls, spurious>>

SpuriousWakeup(t) ==
    /\ pc[t] = "waiting"
    /\ t \in cond.waiters
    /\ spurious < MaxSpurious
    /\ spurious' = spurious + 1
    /\ cond' = Wake(cond, t)
    /\ pc' = [pc EXCEPT ![t] = "wait_lock"]
    /\ UNCHANGED <<m_queue, call, ret, pushed, popped, calls>>

\* pthread_cond_timedwait returns ETIMEDOUT, which also needs the mutex.
TimeOut(t) ==
    /\ pc[t] = "waiting"
    /\ t \in cond.waiters
    /\ call[t].op = "PopTimeWait"
    /\ cond' = Wake(cond, t)
    /\ pc' = [pc EXCEPT ![t] = "timed_out"]
    /\ UNCHANGED <<m_queue, call, ret, pushed, popped, calls, spurious>>

\* PopTimeWait returns false without looking at the queue again.
TimedOutReturn(t) ==
    /\ pc[t] = "timed_out"
    /\ Free(cond)
    /\ Return(t, NoElem)
    /\ UNCHANGED <<m_queue, cond, pushed, popped>>

\* Mutant: pop() is forgotten.
NotPopped == m_queue
Popped == Tail(m_queue)

\* front(), pop()
PopBody(t) ==
    /\ pc[t] = "wait_body"
    /\ call[t].op \in {"Pop", "PopTimeWait"}
    /\ m_queue' = Popped
    /\ popped' = Append(popped, Head(m_queue))
    /\ cond' = Unlock(cond)
    /\ Return(t, Head(m_queue))
    /\ UNCHANGED pushed

FrontBody(t) ==
    /\ pc[t] = "wait_body"
    /\ call[t].op = "Front"
    /\ cond' = Unlock(cond)
    /\ Return(t, Head(m_queue))
    /\ UNCHANGED <<m_queue, pushed, popped>>

\* Size and IsEmpty: lock, read, unlock.
Size(t) ==
    /\ pc[t] = "size"
    /\ Free(cond)
    /\ Return(t, Len(m_queue))
    /\ UNCHANGED <<m_queue, cond, pushed, popped>>

-----------------------------------------------------------------------------

\* The steps a thread takes once it has called; they need no further call.
Step(t) ==
    \/ PushLock(t) \/ PushBody(t)
    \/ WaitLock(t) \/ Notified(t) \/ TimeOut(t) \/ TimedOutReturn(t)
    \/ PopBody(t) \/ FrontBody(t) \/ Size(t)

Next ==
    \E t \in Threads :
        CallPush(t) \/ CallWait(t) \/ CallSize(t) \/ SpuriousWakeup(t) \/ Step(t)

Spec == Init /\ [][Next]_vars

\* A thread that can run does run; nobody is obliged to make a call, and
\* nothing is assumed of who gets a free mutex first.
FairSpec == Spec /\ \A t \in Threads : WF_vars(Step(t))

-----------------------------------------------------------------------------

TypeOK ==
    /\ m_queue \in Seq(Elems)
    /\ cond \in Monitors
    /\ pc \in [Threads -> PCs]
    /\ call \in [Threads -> PushCalls \cup WaitCalls \cup SizeCalls \cup {NoCall}]
    /\ ret \in [Threads -> Elems \cup {NoElem} \cup Nat]
    /\ pushed \in Seq(Elems)
    /\ popped \in Seq(Elems)
    /\ calls \in 0 .. MaxCalls
    /\ spurious \in 0 .. MaxSpurious

(* Although Push notifies only when the queue was empty, and does it before
   the element is there, no thread sleeps unnotified beside a queue that has
   an element. *)
NoLostWakeup == m_queue # <<>> => cond.waiters = {}

(* Pop, PopTimeWait and Front never call front() or pop() on an empty
   std::queue, however many threads one Push woke up. *)
NeverFrontOfEmpty ==
    \A t \in Threads : pc[t] = "wait_body" => m_queue # <<>>

(* Every pushed element is popped at most once, in the order of the pushes,
   and none is lost: what was pushed is what was popped followed by what is
   still queued. *)
ExactlyOnceInOrder == pushed = popped \o m_queue

(* Whoever sleeps in PopTimeWait does so with a valid timespec (one carry is
   enough) that lies exactly the delay after the time that TimeWait read,
   whatever that time and the delay are. *)
TimeWaitIsExact ==
    \A t \in cond.waiters : call[t].op = "PopTimeWait" =>
        \A usec \in SomeUsecs, ms \in SomeDelays :
            IsDeadline(AbsTimeout(0, usec, ms), 0, usec, ms)

(* Every call returns, except Pops and Fronts that sleep because the queue is
   (and stays) empty: no wake-up is lost and no thread is stuck on the mutex. *)
CallsReturn ==
    <>[](\A t \in Threads :
            \/ pc[t] = "idle"
            \/ /\ pc[t] = "waiting"
               /\ call[t].op \in {"Pop", "Front"}
               /\ m_queue = <<>>)

\* The linearizable queue this module implements: a call takes effect in
\* the step that returns.
Abstract == INSTANCE AtomicQueue WITH
    q <- m_queue, pending <- call, ret <- ret

(* Seen by its callers the queue is atomic: whatever the interleaving of
   locks, waits and wake-ups, each call acts in a single step between its
   call and its return. *)
ImplementsAtomicQueue == Abstract!ASpec
=============================================================================
