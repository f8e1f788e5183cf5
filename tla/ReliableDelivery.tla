--------------------------- MODULE ReliableDelivery ---------------------------
(***************************************************************************)
(* What the event spine promises to whoever commits an event: a consumer   *)
(* handles it, at least once, and never before it was committed; or its    *)
(* automatic delivery is given up where an operator can see it.            *)
(***************************************************************************)
EXTENDS Naturals

CONSTANT Event

VARIABLES
    committed,  \* events that somebody has committed
    effects,    \* effects[e]: how often a handler has completed for e
    parked      \* events given up: dead letters, skipped rows

vars == <<committed, effects, parked>>

Init ==
    /\ committed = {}
    /\ effects = [e \in Event |-> 0]
    /\ parked = {}

Commit(e) ==
    /\ committed' = committed \union {e}
    /\ UNCHANGED <<effects, parked>>

(* At least once means: possibly again. *)
Take(e) ==
    /\ e \in committed
    /\ effects' = [effects EXCEPT ![e] = @ + 1]
    /\ UNCHANGED <<committed, parked>>

(* One transaction may give up several events. *)
Park(S) ==
    /\ S \subseteq committed
    /\ parked' = parked \union S
    /\ UNCHANGED <<committed, effects>>

(* A redelivery, or an operator, takes up an event that had been given up. *)
Resume(e) ==
    /\ parked' = parked \ {e}
    /\ UNCHANGED <<committed, effects>>

Next ==
    \/ \E e \in Event : Commit(e) \/ Take(e) \/ Resume(e)
    \/ \E S \in SUBSET Event : Park(S)

Delivered ==
    \A e \in Event : e \in committed ~> (effects[e] > 0 \/ e \in parked)

Spec == Init /\ [][Next]_vars /\ Delivered
=============================================================================
