--------------------------- MODULE ThreadContract ---------------------------
(***************************************************************************)
(* What a closeable thread promises to its owner: the finish action comes  *)
(* after the work and before the end, unless the work throws; a Close that *)
(* waits returns after the finish action; the destructor returns after the *)
(* end.  The pools and the timers are written against this contract.       *)
(***************************************************************************)

CONSTANT Closers

VARIABLES
    closeRequested,  \* what checkFunc looks at
    phase,           \* how far the thread has come
    closed,          \* those whose Close has waited and returned
    destroyed        \* has the destructor returned?

vars == <<closeRequested, phase, closed, destroyed>>

Init ==
    /\ closeRequested = FALSE
    /\ phase = "none"
    /\ closed = {}
    /\ destroyed = FALSE

\* Close or AsyncClose
Request ==
    /\ phase # "none" /\ ~destroyed
    /\ closeRequested' = TRUE
    /\ UNCHANGED <<phase, closed, destroyed>>

ThreadGoes(from, to) ==
    /\ phase = from /\ phase' = to
    /\ UNCHANGED <<closeRequested, closed, destroyed>>

Start == ThreadGoes("none", "working")
Finish == ThreadGoes("working", "finished")  \* the finish action
Exit == ThreadGoes("finished", "exited")
Throw == ThreadGoes("working", "thrown")
Crash == ThreadGoes("working", "crashed")    \* a null m_thread is dereferenced

Close(c) ==
    /\ closeRequested
    /\ phase \in {"finished", "exited"}
    /\ ~destroyed
    /\ closed' = closed \cup {c}
    /\ UNCHANGED <<closeRequested, phase, destroyed>>

Destroy ==
    /\ phase \in {"exited", "thrown"}
    /\ destroyed' = TRUE
    /\ UNCHANGED <<closeRequested, phase, closed>>

Next ==
    \/ Request \/ Start \/ Finish \/ Exit \/ Throw \/ Crash \/ Destroy
    \/ \E c \in Closers : Close(c)

Spec == Init /\ [][Next]_vars
=============================================================================
