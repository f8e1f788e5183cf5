----------------------------- MODULE EventPipeline -----------------------------
(***************************************************************************)
(* The event spine from end to end: the outbox and publisher               *)
(* (OutboxDelivery) and the inbox, delivery loop and workers               *)
(* (InboxConsumer) of the same processes, joined by the broker. A process  *)
(* that dies takes both halves with it. What the two halves together       *)
(* promise is ReliableDelivery.                                            *)
(***************************************************************************)
EXTENDS Naturals, FiniteSets

CONSTANTS
    Event,         \* events of the consumer's topics, committed through the outbox
    Pod,           \* API processes
    NoEvent,       \* the event of a thread that has none
    Poison,        \* those whose envelope cannot be rebuilt from the row
    Tick,          \* the publishers' polls
    Delivery,      \* the delivery loops
    Worker,        \* the recovery workers
    PublisherPod,  \* the process of a poll
    ConsumerPod,   \* the process of the inbox's threads
    MaxAttempts,   \* publish_attempt_count at which a row leaves the queue
    MaxRepublish, MaxFailures, MaxCrash, MaxAborts  \* bounds: duplicates, handler
                   \* errors, crashes, rolled back polls

ASSUME EventAssumption  == IsFiniteSet(Event) /\ Poison \subseteq Event /\ NoEvent \notin Event
ASSUME ThreadAssumption ==
    /\ Delivery \intersect Worker = {}
    /\ {"unsent", "ready", "acked"} \intersect (Delivery \union Worker) = {}
ASSUME PodAssumption    ==
    /\ PublisherPod \in [Tick -> Pod]
    /\ ConsumerPod \in [Delivery \union Worker -> Pod]
ASSUME NumberAssumption ==
    /\ MaxAttempts \in Nat \ {0}
    /\ {MaxRepublish, MaxFailures, MaxCrash, MaxAborts} \subseteq Nat

VARIABLES
    created, row, outcome, tickPc, cur, snap, memo, sends, sent, broken, faults,  \* outbox half
    status, old, message, pc, ev, found, todo, handled,                           \* inbox half
    republished, rebalances, failures, dbFaults, crashes

outboxVars == <<created, row, outcome, tickPc, cur, snap, memo, sends, sent, broken, faults>>
inboxVars  == <<status, old, message, pc, ev, found, todo, handled,
                republished, rebalances, failures, dbFaults, crashes>>
vars == <<outboxVars, inboxVars>>

(* The broker takes every message: what a failing send loses is a question  *)
(* of OutboxDelivery alone.                                                 *)
O == INSTANCE OutboxDelivery WITH
        RetryReq <- {}, SkipReq <- {},
        PodOf <- PublisherPod, BatchSize <- 1, SendsMayFail <- FALSE,
        MaxFaults <- MaxAborts + MaxCrash, pc <- tickPc

(* No statement of the inbox fails and no partition moves: what these lose  *)
(* or repeat is a question of InboxConsumer alone.                          *)
I == INSTANCE InboxConsumer WITH
        HasOutbox <- Event, Sweeper <- {}, RetryReq <- {}, SkipReq <- {}, PodOf <- ConsumerPod,
        LongOutage <- TRUE, MaxAged <- Cardinality(Event), MaxPublished <- Cardinality(Event),
        MaxRebalance <- 0, MaxDbFaults <- 0,
        MaxTogether <- MaxRepublish + MaxFailures + MaxCrash

TypeOK == O!TypeOK /\ I!TypeOK

Init == O!Init /\ I!Init

-----------------------------------------------------------------------------
Insert(e)     == O!Insert(e) /\ UNCHANGED inboxVars
PollStep(t)   == O!TickStep(t) /\ UNCHANGED inboxVars
PollAbort(t)  == faults - crashes < MaxAborts /\ O!TickAbort(t) /\ UNCHANGED inboxVars

(* Mutant: the consumer's topic is fed when the row is inserted. *)
MutOnBroker(e) == O!Stored(e)

OnBroker(e) == e \in sent

(* The broker hands an event on; nothing but the bus puts one there.        *)
Arrive(e)   == OnBroker(e) /\ I!Publish(e) /\ UNCHANGED outboxVars
Again(e)    == OnBroker(e) /\ I!Republish(e) /\ UNCHANGED outboxVars
Age(e)      == I!Age(e) /\ UNCHANGED outboxVars

DeliveryStep(d) == I!DeliveryStep(d) /\ UNCHANGED outboxVars
WorkerStep(w)   == I!WorkerStep(w) /\ UNCHANGED outboxVars

Crash(p) == O!Crash(p) /\ I!Crash(p)

Next ==
    \/ \E t \in Tick : PollStep(t) \/ PollAbort(t)
    \/ \E e \in Event : Insert(e) \/ Arrive(e) \/ Again(e) \/ Age(e)
    \/ \E d \in Delivery : DeliveryStep(d)
    \/ \E w \in Worker : WorkerStep(w)
    \/ \E p \in Pod : Crash(p)

Spec == Init /\ [][Next]_vars

(* Polls and fetches keep coming, sends, handlers and statements return;   *)
(* nobody has to insert anything.                                           *)
Fairness ==
    /\ \A t \in Tick : WF_vars(PollStep(t))
    /\ \A e \in Event : WF_vars(Arrive(e))
    /\ \A d \in Delivery : WF_vars(DeliveryStep(d))
    /\ \A w \in Worker : WF_vars(WorkerStep(w))

FairSpec == Spec /\ Fairness

-----------------------------------------------------------------------------
Committed == {e \in Event : O!Stored(e)}

(* An outbox row out of attempts, an inbox row skipped or not to be retried. *)
Parked ==
    {e \in Event :
        \/ O!Stored(e) /\ ~row[e].published /\ row[e].attempts >= MaxAttempts
        \/ status[e] \in {"SKIPPED", "FAILED_NON_RETRYABLE"}}

Abstract == INSTANCE ReliableDelivery WITH
                committed <- Committed, effects <- handled, parked <- Parked

(* The spine keeps its promise: nothing is handled that was not committed,  *)
(* and, whatever process dies, whatever poll rolls back and whatever is     *)
(* published twice, every committed event is handled or given up in sight   *)
(* of an operator.                                                          *)
KeepsItsPromise == Abstract!Spec

(* The two halves never contradict each other: an event that has a row in  *)
(* the inbox has one in the outbox, and is on its way to be marked          *)
(* published there unless a crash or a roll back intervened.                *)
InboxFollowsOutbox ==
    \A e \in Event :
        I!Stored(e) => O!Stored(e) /\ (row[e].published \/ O!Locked(e) \/ faults > 0)

(* Every event the consumer was sent is settled in the end: its row is, and *)
(* stays, successful, skipped or out of automatic retries, provided every   *)
(* process that dies stays away longer than the recovery cutoff.            *)
EveryMessageSettles ==
    \A e \in Event \ Poison :
        message[e] # "unsent" ~> [](status[e] \in I!Terminal \union {"FAILED_NON_RETRYABLE"})
=============================================================================
