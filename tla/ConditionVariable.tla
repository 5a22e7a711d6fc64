------------------------- MODULE ConditionVariable -------------------------
(***************************************************************************)
(* Mutex and ConditionVariable (src/src/Mutex.cpp,                         *)
(* src/src/ConditionVariable.cpp), the only two synchronisation objects of *)
(* empool.  Every monitor of the library is one mutex with one condition   *)
(* variable bound to it, so both are one record here:                      *)
(*   holder   the thread that holds the mutex, NoThread if it is free;     *)
(*   waiters  the threads asleep in pthread_cond_wait or _timedwait.       *)
(* A thread that was notified, timed out or woke spuriously has left       *)
(* waiters but returns from the wait only when it has the mutex again.     *)
(***************************************************************************)
EXTENDS Integers

CONSTANTS
    Threads,   \* the threads that use the monitor
    NoThread   \* the holder of a free mutex

ASSUME NoThreadAssumption == NoThread \notin Threads

Monitors == [holder : Threads \cup {NoThread}, waiters : SUBSET Threads]

NewMonitor == [holder |-> NoThread, waiters |-> {}]

Free(c) == c.holder = NoThread

Lock(c, t) == [holder |-> t, waiters |-> c.waiters]

Unlock(c) == [holder |-> NoThread, waiters |-> c.waiters]

\* pthread_cond_wait: atomically go to sleep and release the mutex.
Wait(c, t) == [holder |-> NoThread, waiters |-> c.waiters \cup {t}]

\* A waiter stops sleeping: on a time-out or spuriously.
Wake(c, t) == [holder |-> c.holder, waiters |-> c.waiters \ {t}]

\* pthread_cond_signal: the monitors it may leave, one sleeper less.
Notify(c) == IF c.waiters = {} THEN {c} ELSE {Wake(c, t) : t \in c.waiters}

\* pthread_cond_broadcast
NotifyAll(c) == [holder |-> c.holder, waiters |-> {}]

-----------------------------------------------------------------------------
(***************************************************************************)
(* ConditionVariable::TimeWait turns "now" (seconds and microseconds, as   *)
(* gettimeofday returns them) and a delay in milliseconds into the         *)
(* absolute timespec that pthread_cond_timedwait takes.  Until the last    *)
(* assignment tv_nsec holds microseconds.                                  *)
(***************************************************************************)
\* Mutant: a whole second is not carried over.
CarriesLate(usec) == usec > 1000000
Carries(usec) == usec >= 1000000

AbsTimeout(tv_sec, tv_usec, delay_in_ms) ==
    LET sec == tv_sec + delay_in_ms \div 1000
        usec == tv_usec + (delay_in_ms % 1000) * 1000
    IN  [tv_sec  |-> IF Carries(usec) THEN sec + 1 ELSE sec,
         tv_nsec |-> (IF Carries(usec) THEN usec % 1000000 ELSE usec) * 1000]

NanosPerMilli == 1000000
NanosPerSec == 1000 * NanosPerMilli

\* A timespec that pthread_cond_timedwait accepts, delay_in_ms after "now"
IsDeadline(ts, tv_sec, tv_usec, delay_in_ms) ==
    /\ ts.tv_nsec \in Nat /\ ts.tv_nsec < NanosPerSec
    /\ (ts.tv_sec - tv_sec) * NanosPerSec + ts.tv_nsec
         = tv_usec * 1000 + delay_in_ms * NanosPerMilli

\* Microseconds and delays on both sides of a carry and of a second.
SomeUsecs == {0, 1, 999, 1000, 500000, 999000, 999999}
SomeDelays == {0, 1, 499, 500, 501, 999, 1000, 1001}
=============================================================================
