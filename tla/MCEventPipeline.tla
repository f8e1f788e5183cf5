---------------------------- MODULE MCEventPipeline ----------------------------
(* Two processes: the first publishes and takes deliveries, the second runs  *)
(* the recovery and replay worker.                                          *)
EXTENDS EventPipeline

CONSTANTS p1, p2

MCPublisherPod == [th \in Tick |-> p1]
MCConsumerPod  == [th \in Delivery \union Worker |-> IF th \in Delivery THEN p1 ELSE p2]
=============================================================================
