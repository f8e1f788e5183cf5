----------------------------- MODULE PeriodLease -----------------------------
(***************************************************************************)
(* What the scheduler promises the job of one period: its runners take     *)
(* turns, a turn that ends well can close the period, and nobody gets a    *)
(* turn in a closed one. A runner that outlives the staleness threshold    *)
(* takes the promise back, but even then a period is closed only if the    *)
(* job has ended well for somebody.                                        *)
(***************************************************************************)
CONSTANT Runner

VARIABLES
    inside,    \* runners whose turn it is
    finished,  \* runners whose job has ended without errors
    closed,    \* the period has succeeded
    excused    \* a runner has outlived the threshold

vars == <<inside, finished, closed, excused>>

Init ==
    /\ inside = {} /\ finished = {}
    /\ closed = FALSE /\ excused = FALSE

Enter(r) ==
    /\ inside = {} /\ ~closed
    /\ inside' = {r}
    /\ UNCHANGED <<finished, closed, excused>>

EndWell(r) ==
    /\ inside = {r}
    /\ finished' = finished \union {r}
    /\ UNCHANGED <<inside, closed, excused>>

Close(r) ==
    /\ inside = {r} /\ r \in finished
    /\ inside' = {} /\ closed' = TRUE
    /\ UNCHANGED <<finished, excused>>

(* A turn ends without closing the period: the job had errors, its outcome  *)
(* could not be written, or its process died.                               *)
Leave ==
    /\ inside' = {}
    /\ UNCHANGED <<finished, closed, excused>>

Excuse ==
    /\ excused' = TRUE
    /\ UNCHANGED <<inside, finished, closed>>

Excused ==
    /\ excused /\ excused'
    /\ finished \subseteq finished'
    /\ closed' => closed \/ finished # {}

Next ==
    \/ \E r \in Runner : Enter(r) \/ EndWell(r) \/ Close(r)
    \/ Leave \/ Excuse \/ Excused

Spec == Init /\ [][Next]_vars
=============================================================================
