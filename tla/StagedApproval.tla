---------------------------- MODULE StagedApproval ----------------------------
(***************************************************************************)
(* What the approval workflow promises about a command that is held back:  *)
(* its steps are approved in their turn, the last missing approval decides *)
(* in its favour, a decision is final, and only then the command is run,   *)
(* once. Two things take part of the promise back: commands on the chain   *)
(* that overlapped, and one that came before all of the chain was there.   *)
(***************************************************************************)
EXTENDS Naturals

CONSTANTS Step, Order, Parallel

VARIABLES
    granted,  \* steps that have been approved
    verdict,  \* what has become of the chain
    outcome,  \* how the command ended
    effects,  \* times it took effect
    raced,    \* commands on the chain have overlapped
    partial   \* one has acted on a part of the chain

vars == <<granted, verdict, outcome, effects, raced, partial>>

Verdict == {"open", "approved", "rejected"}

Init ==
    /\ granted = {} /\ verdict = "open"
    /\ outcome = "none" /\ effects = 0
    /\ raced = FALSE /\ partial = FALSE

InTurn(s) ==
    s \in Parallel \/ \A t \in Step \ Parallel : Order[t] < Order[s] => t \in granted

Grant(s) ==
    /\ InTurn(s)
    /\ raced \/ verdict # "rejected"
    /\ granted' = granted \union {s}
    /\ UNCHANGED <<verdict, outcome, effects, raced, partial>>

LastMissing == \E s \in Step : Step \ {s} \subseteq granted

Decide(v) ==
    /\ raced \/ verdict = "open"
    /\ v = "approved" => partial \/ LastMissing
    /\ verdict' = v
    /\ UNCHANGED <<granted, outcome, effects, raced, partial>>

Run ==
    /\ partial \/ granted = Step
    /\ raced \/ (verdict = "approved" /\ outcome = "none")
    /\ \/ outcome' = "ok" /\ effects' = effects + 1
       \/ outcome' = "error" /\ effects' = effects
    /\ UNCHANGED <<granted, verdict, raced, partial>>

Race ==
    /\ raced' = TRUE
    /\ UNCHANGED <<granted, verdict, outcome, effects, partial>>

ComeEarly ==
    /\ partial' = TRUE
    /\ UNCHANGED <<granted, verdict, outcome, effects, raced>>

Next ==
    \/ \E s \in Step : Grant(s)
    \/ \E v \in Verdict : Decide(v)
    \/ Run \/ Race \/ ComeEarly

Spec == Init /\ [][Next]_vars
=============================================================================
