--------------------------- MODULE MCScheduledWork ---------------------------
(* A tenant has two changes or a reminder, which share nothing but the      *)
(* clock, and two overlapping runs of the job for them; the clock runs a    *)
(* window past the last trouble.                                            *)
EXTENDS ScheduledWork, TLC

CONSTANTS c1, c2, k1, a1, a2

MCTenants == {{c1, c2}, {k1}}
MCDueAt == (c1 :> 0) @@ (c2 :> 1) @@ (k1 :> 0)
=============================================================================
