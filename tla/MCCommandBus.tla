---------------------------- MODULE MCCommandBus ----------------------------
(* Small instances of CommandBus for TLC: the requests of First share a key *)
(* and, but for the requests of Altered, its payload.                       *)
EXTENDS CommandBus

CONSTANTS k1, k2, h1, h2, First, Altered

MCKeyOf  == [r \in Request |-> IF r \in First THEN k1 ELSE k2]
MCHashOf == [r \in Request |-> IF r \in Altered THEN h2 ELSE h1]
=============================================================================
