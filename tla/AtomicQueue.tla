---------------------------- MODULE AtomicQueue ----------------------------
(***************************************************************************)
(* What BlockingQueue promises to the threads that share it: a FIFO queue  *)
(* whose operations take effect in one indivisible step between the call   *)
(* and the return.  Pop and Front return only when there is an element;    *)
(* PopTimeWait may also give up, and may do so even when the queue is not  *)
(* empty (a time-out that races a Push).                                   *)
(***************************************************************************)
EXTENDS Integers, Sequences

CONSTANTS Threads, Elems, NoCall, NoElem

VARIABLES
    q,        \* the elements
    pending,  \* pending[t]: the call thread t is executing, or NoCall
    ret       \* ret[t]: what the last call of thread t returned

avars == <<q, pending, ret>>

Calls == [op : {"Push"}, arg : Elems]
           \cup [op : {"Pop", "PopTimeWait", "Front", "Size"}]

AInit ==
    /\ q = <<>>
    /\ pending = [t \in Threads |-> NoCall]
    /\ ret = [t \in Threads |-> NoElem]

Call(t) ==
    /\ pending[t] = NoCall
    /\ \E c \in Calls : pending' = [pending EXCEPT ![t] = c]
    /\ UNCHANGED <<q, ret>>

Return(t, r) ==
    /\ pending' = [pending EXCEPT ![t] = NoCall]
    /\ ret' = [ret EXCEPT ![t] = r]

ReturnPush(t) ==
    /\ pending[t] # NoCall /\ pending[t].op = "Push"
    /\ q' = Append(q, pending[t].arg)
    /\ Return(t, NoElem)

ReturnPop(t) ==
    /\ pending[t] # NoCall /\ pending[t].op \in {"Pop", "PopTimeWait"}
    /\ q # <<>>
    /\ q' = Tail(q)
    /\ Return(t, Head(q))

ReturnTimeout(t) ==
    /\ pending[t] # NoCall /\ pending[t].op = "PopTimeWait"
    /\ UNCHANGED q
    /\ Return(t, NoElem)

ReturnRead(t) ==
    /\ pending[t] # NoCall
    /\ \/ pending[t].op = "Size" /\ Return(t, Len(q))
       \/ pending[t].op = "Front" /\ q # <<>> /\ Return(t, Head(q))
    /\ UNCHANGED q

ANext ==
    \E t \in Threads :
        Call(t) \/ ReturnPush(t) \/ ReturnPop(t) \/ ReturnTimeout(t) \/ ReturnRead(t)

ASpec == AInit /\ [][ANext]_avars
=============================================================================
