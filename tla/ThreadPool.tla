----------------------------- MODULE ThreadPool -----------------------------
(***************************************************************************)
(* What a pool promises to whoever gives it tasks and shuts it down: a task*)
(* begins at most once, and only if it was accepted; the pool goes from    *)
(* RUNNING to STOP to SHUTDOWN and never back; SHUTDOWN is announced when  *)
(* no task is running, and none begins after it.  A task that was accepted *)
(* need not run: a shutdown may come first, or it may be accepted too late.*)
(***************************************************************************)

CONSTANT Tasks

VARIABLES
    state,  \* what IsShutDown looks at
    stage   \* stage[k]: how far task k has come

vars == <<state, stage>>

TasksInit == stage = [k \in Tasks |-> "outside"]

Init == state = "RUNNING" /\ TasksInit

Moves(k, from, to) == stage[k] = from /\ stage' = [stage EXCEPT ![k] = to]

\* AddTask(k)
Accept(k) == Moves(k, "outside", "accepted")

Begin(k) == Moves(k, "accepted", "running")

\* The task returns, or throws.
End(k) == Moves(k, "running", "ended")

\* ShutDown or ShutDownNow
Stop ==
    /\ state = "RUNNING"
    /\ state' = "STOP"
    /\ UNCHANGED stage

\* The last worker has stopped.
Finish ==
    /\ state = "STOP"
    /\ \A k \in Tasks : stage[k] # "running"
    /\ state' = "SHUTDOWN"
    /\ UNCHANGED stage

Next ==
    \/ /\ \E k \in Tasks : Accept(k) \/ (Begin(k) /\ state # "SHUTDOWN") \/ End(k)
       /\ UNCHANGED state
    \/ Stop
    \/ Finish

Spec == Init /\ [][Next]_vars

\* What is left of it without the states: how each task goes its way.
TasksNext == \E k \in Tasks : Accept(k) \/ Begin(k) \/ End(k)

TasksSpec == TasksInit /\ [][TasksNext]_stage
=============================================================================
