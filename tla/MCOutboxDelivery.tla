-------------------------- MODULE MCOutboxDelivery --------------------------
(* Small instances of OutboxDelivery for TLC: two processes, the first with *)
(* two overlapping polls and the operator's requests, the second with one.  *)
EXTENDS OutboxDelivery

CONSTANTS p1, p2, t1, t2, t3

MCPodOf == [th \in Thread |-> IF th \in {t3} THEN p2 ELSE p1]
=============================================================================
