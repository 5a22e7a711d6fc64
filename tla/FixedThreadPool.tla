-------------------------- MODULE FixedThreadPool --------------------------
(***************************************************************************)
(* FixedThreadPool (src/src/FixedThreadPool.cpp): a ScalingThreadPool with *)
(* minThreadSize = maxThreadSize, to which every call is forwarded.  The   *)
(* monitor still runs, but never has a thread to add or to take away, and  *)
(* the pool keeps the promise that a scaling one breaks.                   *)
(***************************************************************************)
EXTENDS ScalingThreadPool

\* scalingThreadPool(threadNum, threadNum)
SameSizes == Core = Max

FixedSpec == SameSizes /\ Spec
FixedFairSpec == SameSizes /\ FairSpec

(* The workers stay the ones that the constructor made: no idle one closes
   itself, however the monitor, the idle workers and a shutdown interleave. *)
SizeIsFixed == m_threads = CoreWorkers

(* The pool keeps the promise of ThreadPool: a task begins once at most and only
   if it was accepted, no SetState(STOP) comes after the last worker's
   SetState(SHUTDOWN), and no task runs or begins after that. *)
ImplementsThreadPool == Promise!Spec
=============================================================================
