--------------------------- MODULE MCSchedulerRuns ---------------------------
(* Small instances of SchedulerRuns for TLC: two processes, the first with  *)
(* the runners of First.                                                    *)
EXTENDS SchedulerRuns

CONSTANTS p1, p2, First

MCPodOf == [r \in Runner |-> IF r \in First THEN p1 ELSE p2]
=============================================================================
