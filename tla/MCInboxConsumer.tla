--------------------------- MODULE MCInboxConsumer ---------------------------
(* Small instances of InboxConsumer for TLC: up to two processes, each with *)
(* its delivery loop and its worker; requests and sweeps run in the second. *)
EXTENDS InboxConsumer

CONSTANTS p1, p2, d1, w1

MCPodOf == [th \in Thread |-> IF th \in {d1, w1} \/ Pod = {p1} THEN p1 ELSE p2]
=============================================================================
