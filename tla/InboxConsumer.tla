---------------------------- MODULE InboxConsumer ----------------------------
(***************************************************************************)
(* The consuming half of the event spine, for one consumer (one pair of    *)
(* consumer name and version): the inbox_events rows, the bus's delivery   *)
(* loop, the recovery and replay worker of every process, the start-up     *)
(* sweep of orphaned rows and the operator's retry and skip requests. All  *)
(* of them but the sweep and the skip run the same consume procedure, and  *)
(* every UPDATE names its row by id only, whatever the row says by then.   *)
(***************************************************************************)
EXTENDS Naturals, FiniteSets

CONSTANTS
    Event,         \* events of the consumer's topics; an inbox row per event at most
    HasOutbox,     \* those with an outbox row to rebuild them from
    Pod,           \* API processes, members of one consumer group
    Delivery,      \* the eachMessage loop of a process: one message at a time
    Worker,        \* the InboxRecoveryWorker of a process
    Sweeper,       \* the start-up sweep of a process (skipOrphanedEventsWithoutOutbox)
    RetryReq,      \* operator requests retryInboxEvent
    SkipReq,       \* operator requests skipInboxEvent
    PodOf,         \* the process a thread runs in
    NoEvent,       \* the event of a thread that has none
    LongOutage,    \* TRUE: a process that dies stays away longer than the recovery cutoff
    MaxAged,       \* bound: rows that outlive the recovery cutoff
    MaxPublished,  \* bound: events that are published
    MaxRepublish,  \* bound: duplicate publications
    MaxRebalance,  \* bound: partitions that move away from a busy process
    MaxFailures,   \* bound: handler errors
    MaxDbFaults,   \* bound: failing statements
    MaxCrash,      \* bound: process crashes
    MaxTogether    \* bound: all of these disturbances together

Thread == Delivery \union Worker \union Sweeper \union RetryReq \union SkipReq

ASSUME EventAssumption  == HasOutbox \subseteq Event /\ NoEvent \notin Event
ASSUME ThreadAssumption ==
    /\ Delivery \intersect (Worker \union Sweeper \union RetryReq \union SkipReq) = {}
    /\ Worker \intersect (Sweeper \union RetryReq \union SkipReq) = {}
    /\ Sweeper \intersect (RetryReq \union SkipReq) = {}
    /\ RetryReq \intersect SkipReq = {}
    /\ {"unsent", "ready", "acked"} \intersect Thread = {}
ASSUME PodAssumption    == PodOf \in [Thread -> Pod]
ASSUME OutageAssumption == LongOutage \in BOOLEAN
ASSUME BoundAssumption  == {MaxAged, MaxPublished, MaxRepublish, MaxRebalance, MaxFailures,
                             MaxDbFaults, MaxCrash, MaxTogether} \subseteq Nat

VARIABLES
    status,   \* processing_status of each row; "absent" before the insert
    old,      \* rows whose created_at is beyond the recovery cutoff
    message,  \* message[e]: where the bus stands with e
    pc,       \* where each thread stands
    ev,       \* the event each thread is about
    found,    \* found[th]: consume saw a row
    todo,     \* todo[th]: rows a worker or sweeper has read and not yet dealt with
    handled,  \* handled[e]: how often the handler has completed for e
    republished, rebalances, failures, dbFaults, crashes  \* bounded counts

counters == <<republished, rebalances, failures, dbFaults, crashes>>
vars == <<status, old, message, pc, ev, found, todo, handled, counters>>

Terminal == {"SUCCESS", "SKIPPED"}
Failed   == {"FAILED_RETRYABLE", "FAILED_NON_RETRYABLE"}
Status   == {"absent", "IN_PROGRESS"} \union Terminal \union Failed
Message  == {"unsent", "ready", "acked"} \union Delivery  \* a delivery that holds it
Label    == {"boot", "idle", "rows", "look", "write", "handle", "succeed", "fail", "reject",
             "queue", "replay", "skip", "done"}

TypeOK ==
    /\ status \in [Event -> Status]
    /\ old \in SUBSET Event
    /\ message \in [Event -> Message]
    /\ pc \in [Thread -> Label]
    /\ ev \in [Thread -> Event \union {NoEvent}]
    /\ found \in [Thread -> BOOLEAN]
    /\ todo \in [Worker \union Sweeper -> SUBSET Event]
    /\ handled \in [Event -> Nat]
    /\ republished \in Nat /\ rebalances \in Nat /\ failures \in Nat /\ dbFaults \in Nat /\ crashes \in Nat

(* Workers and sweepers start with the process; deliveries and requests wait. *)
Start(th) == IF th \in Worker \union Sweeper THEN "boot" ELSE "idle"

Init ==
    /\ status = [e \in Event |-> "absent"]
    /\ old = {}
    /\ message = [e \in Event |-> "unsent"]
    /\ pc = [th \in Thread |-> Start(th)]
    /\ ev = [th \in Thread |-> NoEvent]
    /\ found = [th \in Thread |-> FALSE]
    /\ todo = [th \in Worker \union Sweeper |-> {}]
    /\ handled = [e \in Event |-> 0]
    /\ republished = 0 /\ rebalances = 0 /\ failures = 0 /\ dbFaults = 0 /\ crashes = 0

-----------------------------------------------------------------------------
(* Helpers *)

Goto(th, l) == pc' = [pc EXCEPT ![th] = l]

SetStatus(e, s) == status' = [status EXCEPT ![e] = s]

Stored(e) == status[e] # "absent"

Disturbances == republished + rebalances + failures + dbFaults + crashes

Room == Disturbances < MaxTogether

(* consume returns to its caller, or throws to it: the bus logs the error   *)
(* and moves its offset on, a worker logs it and takes its next row, an     *)
(* operator's request answers.                                              *)
Return(th) ==
    /\ pc' = [pc EXCEPT ![th] = IF th \in Delivery THEN "idle"
                                ELSE IF th \in Worker THEN "rows" ELSE "done"]
    /\ ev' = [ev EXCEPT ![th] = NoEvent]
    /\ found' = [found EXCEPT ![th] = FALSE]
    /\ message' = IF message[ev[th]] = th THEN [message EXCEPT ![ev[th]] = "acked"] ELSE message

-----------------------------------------------------------------------------
(* The bus *)

(* The producer's outbox publishes the event. *)
Publish(e) ==
    /\ message[e] = "unsent"
    /\ Cardinality({f \in Event : message[f] # "unsent"}) < MaxPublished
    /\ message' = [message EXCEPT ![e] = "ready"]
    /\ UNCHANGED <<status, old, pc, ev, found, todo, handled, counters>>

(* Another process, or a process after its restart, publishes the event a  *)
(* second time; the copy follows the original in its partition.             *)
Republish(e) ==
    /\ republished < MaxRepublish /\ Room
    /\ republished' = republished + 1
    /\ message[e] = "acked"
    /\ message' = [message EXCEPT ![e] = "ready"]
    /\ UNCHANGED <<status, old, pc, ev, found, todo, handled, rebalances, failures, dbFaults, crashes>>

(* A partition moves while its process handles a message: another process   *)
(* is given the message, the first goes on with it.                         *)
Rebalance(e) ==
    /\ rebalances < MaxRebalance /\ Room
    /\ rebalances' = rebalances + 1
    /\ message[e] \in Delivery
    /\ message' = [message EXCEPT ![e] = "ready"]
    /\ UNCHANGED <<status, old, pc, ev, found, todo, handled, republished, failures, dbFaults, crashes>>

(* Mutant: the offset moves on before the handler is called. *)
MutDeliver(d) ==
    /\ pc[d] = "idle"
    /\ \E e \in Event :
          /\ message[e] = "ready"
          /\ message' = [message EXCEPT ![e] = "acked"]
          /\ ev' = [ev EXCEPT ![d] = e]
    /\ Goto(d, "look")
    /\ UNCHANGED <<status, old, found, todo, handled, counters>>

(* eachMessage calls the consumer's handler, that is consume. *)
Deliver(d) ==
    /\ pc[d] = "idle"
    /\ \E e \in Event :
          /\ message[e] = "ready"
          /\ message' = [message EXCEPT ![e] = d]
          /\ ev' = [ev EXCEPT ![d] = e]
    /\ Goto(d, "look")
    /\ UNCHANGED <<status, old, found, todo, handled, counters>>

-----------------------------------------------------------------------------
(* InboxConsumer.consume *)

(* Mutants: only skipped rows count as processed; every row does. *)
MutDuplicate(e) == status[e] = "SKIPPED"
MutSeen(e) == Stored(e)

Duplicate(e) == status[e] \in Terminal

(* isProcessed, then the SELECT of the existing row. *)
Look(th) ==
    /\ pc[th] = "look"
    /\ \/ /\ Duplicate(ev[th])
          /\ Return(th)
       \/ /\ ~Duplicate(ev[th])
          /\ found' = [found EXCEPT ![th] = Stored(ev[th])]
          /\ Goto(th, "write")
          /\ UNCHANGED <<ev, message>>
    /\ UNCHANGED <<status, old, todo, handled, counters>>

(* UPDATE of the row that was seen, or INSERT, which the UNIQUE constraint  *)
(* refuses when another thread inserted since; that error is not caught.    *)
Write(th) ==
    /\ pc[th] = "write"
    /\ \/ /\ found[th] \/ ~Stored(ev[th])
          /\ SetStatus(ev[th], "IN_PROGRESS")
          /\ Goto(th, "handle")
          /\ UNCHANGED <<ev, found, message>>
       \/ /\ ~found[th] /\ Stored(ev[th])
          /\ Return(th)
          /\ UNCHANGED status
    /\ UNCHANGED <<old, todo, handled, counters>>

(* The handler completes, or throws an error that may be worth a retry. *)
Handle(th) ==
    /\ pc[th] = "handle"
    /\ \/ /\ handled' = [handled EXCEPT ![ev[th]] = @ + 1]
          /\ Goto(th, "succeed")
          /\ UNCHANGED failures
       \/ /\ failures < MaxFailures /\ Room
          /\ failures' = failures + 1
          /\ \E l \in {"fail", "reject"} : Goto(th, l)
          /\ UNCHANGED handled
    /\ UNCHANGED <<status, old, message, ev, found, todo, republished, rebalances, dbFaults, crashes>>

(* Mutant: a caught error leaves the row as it is. *)
MutUnsettled(l) == IF l = "succeed" THEN "SUCCESS" ELSE "IN_PROGRESS"

Outcome(l) ==
    CASE l = "succeed" -> "SUCCESS"
      [] l = "fail"    -> "FAILED_RETRYABLE"
      [] l = "reject"  -> "FAILED_NON_RETRYABLE"

Settle(th) ==
    /\ pc[th] \in {"succeed", "fail", "reject"}
    /\ SetStatus(ev[th], Outcome(pc[th]))
    /\ Return(th)
    /\ UNCHANGED <<old, todo, handled, counters>>

(* A failing statement: before the handler it ends consume (in an           *)
(* operator's retry also the audit record between reset and replay); the    *)
(* UPDATE to SUCCESS is caught and becomes a retryable failure; the UPDATE  *)
(* to a failure is not caught.                                              *)
ConsumeDbFault(th) ==
    /\ dbFaults < MaxDbFaults /\ Room
    /\ dbFaults' = dbFaults + 1
    /\ \/ /\ pc[th] \in {"look", "write", "fail", "reject", "replay"}
          /\ Return(th)
       \/ /\ pc[th] = "succeed"
          /\ Goto(th, "fail")
          /\ UNCHANGED <<ev, found, message>>
    /\ UNCHANGED <<status, old, todo, handled, republished, rebalances, failures, crashes>>

Consume(th) == Look(th) \/ Write(th) \/ Handle(th) \/ Settle(th)

-----------------------------------------------------------------------------
(* InboxRecoveryWorker: once, rows that have been in progress too long are  *)
(* made retryable; then, again and again, retryable rows are replayed.      *)

Stale(e) == status[e] = "IN_PROGRESS" /\ e \in old

(* recoverStaleInProgressEvents reads its rows ... *)
RecoverRead(w) ==
    /\ w \in Worker
    /\ pc[w] = "boot"
    /\ todo' = [todo EXCEPT ![w] = {e \in Event : Stale(e)}]
    /\ Goto(w, "queue")
    /\ UNCHANGED <<status, old, message, ev, found, handled, counters>>

Recovered(e) == IF e \in HasOutbox THEN "FAILED_RETRYABLE" ELSE "SKIPPED"

(* ... and updates them one by one. *)
RecoverRow(w) ==
    /\ w \in Worker
    /\ pc[w] = "queue"
    /\ \E e \in todo[w] :
          /\ SetStatus(e, Recovered(e))
          /\ todo' = [todo EXCEPT ![w] = @ \ {e}]
    /\ UNCHANGED <<old, message, pc, ev, found, handled, counters>>

Due(e) == status[e] = "FAILED_RETRYABLE"

(* replayDueRetryableEvents reads its rows: at start-up after the recovery, *)
(* then on every tick that finds the last replay finished. Time may always  *)
(* have passed next_retry_at.                                               *)
ReplayRead(w) ==
    /\ w \in Worker
    /\ pc[w] = "queue" \/ (pc[w] = "rows" /\ \E e \in Event : Due(e))
    /\ todo[w] = {}
    /\ todo' = [todo EXCEPT ![w] = {e \in Event : Due(e)}]
    /\ Goto(w, "rows")
    /\ UNCHANGED <<status, old, message, ev, found, handled, counters>>

ReplayRow(w) ==
    /\ w \in Worker
    /\ pc[w] = "rows"
    /\ \E e \in todo[w] :
          /\ todo' = [todo EXCEPT ![w] = @ \ {e}]
          /\ \/ /\ e \in HasOutbox
                /\ ev' = [ev EXCEPT ![w] = e]
                /\ Goto(w, "look")
                /\ UNCHANGED status
             \/ /\ e \notin HasOutbox
                /\ SetStatus(e, "SKIPPED")
                /\ UNCHANGED <<pc, ev>>
    /\ UNCHANGED <<old, message, found, handled, counters>>

(* skipOrphanedEventsWithoutOutbox, at start-up, whatever the age. *)
SweepRead(s) ==
    /\ s \in Sweeper
    /\ pc[s] = "boot"
    /\ todo' = [todo EXCEPT ![s] = {e \in Event : status[e] = "IN_PROGRESS" /\ e \notin HasOutbox}]
    /\ Goto(s, "rows")
    /\ UNCHANGED <<status, old, message, ev, found, handled, counters>>

SweepRow(s) ==
    /\ s \in Sweeper
    /\ pc[s] = "rows"
    /\ \E e \in todo[s] :
          /\ SetStatus(e, "SKIPPED")
          /\ todo' = [todo EXCEPT ![s] = @ \ {e}]
    /\ UNCHANGED <<old, message, pc, ev, found, handled, counters>>

-----------------------------------------------------------------------------
(* DeadLetterOperationsService *)

(* Mutant: the request only asks for the row to be there. *)
MutRequestable(e) == Stored(e)

(* requireInboxRow: a successful row can be neither retried nor skipped. *)
Requestable(e) == status[e] \notin {"absent", "SUCCESS"}

RequestRead(r) ==
    /\ pc[r] = "idle"
    /\ \E e \in Event :
          /\ Requestable(e)
          /\ ev' = [ev EXCEPT ![r] = e]
    /\ Goto(r, IF r \in RetryReq THEN "queue" ELSE "skip")
    /\ UNCHANGED <<status, old, message, found, todo, handled, counters>>

RetryQueue(r) ==
    /\ r \in RetryReq
    /\ pc[r] = "queue"
    /\ SetStatus(ev[r], "FAILED_RETRYABLE")
    /\ Goto(r, "replay")
    /\ UNCHANGED <<old, message, ev, found, todo, handled, counters>>

(* replayInboxEvent, whose consumer has a registered handler. *)
RetryReplay(r) ==
    /\ pc[r] = "replay"
    /\ \/ /\ Duplicate(ev[r])
          /\ Return(r)
          /\ UNCHANGED status
       \/ /\ ~Duplicate(ev[r]) /\ ev[r] \notin HasOutbox
          /\ SetStatus(ev[r], "SKIPPED")
          /\ Return(r)
       \/ /\ ~Duplicate(ev[r]) /\ ev[r] \in HasOutbox
          /\ Goto(r, "look")
          /\ UNCHANGED <<status, ev, found, message>>
    /\ UNCHANGED <<old, todo, handled, counters>>

SkipRow(r) ==
    /\ pc[r] = "skip"
    /\ SetStatus(ev[r], "SKIPPED")
    /\ Return(r)
    /\ UNCHANGED <<old, todo, handled, counters>>

-----------------------------------------------------------------------------
(* Time and crashes *)

Age(e) ==
    /\ Cardinality(old) < MaxAged
    /\ Stored(e) /\ e \notin old
    /\ old' = old \union {e}
    /\ UNCHANGED <<status, message, pc, ev, found, todo, handled, counters>>

(* A process dies and starts again. Messages it had not finished come back. *)
Crash(p) ==
    LET mine == {th \in Thread : PodOf[th] = p}
        held == {e \in Event : message[e] \in Delivery \intersect mine}
    IN  /\ crashes < MaxCrash /\ Room
        /\ crashes' = crashes + 1
        /\ message' = [e \in Event |-> IF e \in held THEN "ready" ELSE message[e]]
        /\ old' = IF LongOutage THEN {e \in Event : Stored(e)} ELSE old
        /\ pc' = [th \in Thread |->
                    IF th \notin mine THEN pc[th]
                    ELSE IF th \in RetryReq \union SkipReq /\ pc[th] # "idle" THEN "done" ELSE Start(th)]
        /\ ev' = [th \in Thread |-> IF th \in mine THEN NoEvent ELSE ev[th]]
        /\ found' = [th \in Thread |-> th \notin mine /\ found[th]]
        /\ todo' = [th \in DOMAIN todo |-> IF th \in mine THEN {} ELSE todo[th]]
        /\ UNCHANGED <<status, handled, republished, rebalances, failures, dbFaults>>

DeliveryStep(d) == Deliver(d) \/ Consume(d)
WorkerStep(w)   == RecoverRead(w) \/ RecoverRow(w) \/ ReplayRead(w) \/ ReplayRow(w) \/ Consume(w)
SweeperStep(s)  == SweepRead(s) \/ SweepRow(s)
RequestStep(r)  == RequestRead(r) \/ RetryQueue(r) \/ RetryReplay(r) \/ SkipRow(r) \/ Consume(r)

Next ==
    \/ \E e \in Event : Publish(e) \/ Republish(e) \/ Rebalance(e) \/ Age(e)
    \/ \E d \in Delivery : DeliveryStep(d)
    \/ \E w \in Worker : WorkerStep(w)
    \/ \E s \in Sweeper : SweeperStep(s)
    \/ \E r \in RetryReq \union SkipReq : RequestStep(r)
    \/ \E th \in Thread : ConsumeDbFault(th)
    \/ \E p \in Pod : Crash(p)

Spec == Init /\ [][Next]_vars

-----------------------------------------------------------------------------
(* SUCCESS is written only for an event the handler has completed for,      *)
(* whatever crashes, redeliveries, replays and operators do to its row.     *)
SuccessWasHandled ==
    \A e \in Event : status[e] = "SUCCESS" => handled[e] > 0

(* At-least-once: a message whose offset has moved on is in the inbox, where *)
(* recovery, replay or an operator can find it, unless a statement failed:  *)
(* the bus moves on from an INSERT that failed, too.                        *)
AcknowledgedIsRecorded ==
    dbFaults = 0 => \A e \in Event : message[e] = "acked" => Stored(e)

(* No statement or handler has failed, no partition has moved, no row has   *)
(* outlived the cutoff and nobody has asked for a retry. Processes may have *)
(* died, events been published twice, rows been swept or skipped.           *)
Undisturbed ==
    /\ dbFaults = 0 /\ failures = 0 /\ rebalances = 0 /\ old = {}
    /\ \A r \in RetryReq : pc[r] = "idle"

(* Deduplication: unless disturbed, or called again after a crash, the      *)
(* handler completes once per event, whatever is published twice, swept or  *)
(* skipped by an operator meanwhile.                                        *)
HandledOnce ==
    Undisturbed /\ crashes = 0 => \A e \in Event : handled[e] <= 1

Handling(th, e) == pc[th] \in {"handle", "succeed", "fail", "reject"} /\ ev[th] = e

(* Two threads are inside the handler for one event only after one of these *)
(* disturbances: duplicate publications, sweeps, skips and crashes with     *)
(* their redeliveries never bring that about.                               *)
OneHandlerAtATime ==
    Undisturbed => \A e \in Event : Cardinality({th \in Thread : Handling(th, e)}) <= 1

(* What strands a row in progress, with nobody working on it and its message *)
(* behind the offset, so that only the recovery of a later start finds it,  *)
(* and only once it is old: a failing statement, or a crash of something    *)
(* else than the first delivery of the message (a replay, a retry, the      *)
(* loser of a rebalance). No race between deliveries, replays, recovery,    *)
(* sweep and operators strands one, and the crash of a delivery alone is    *)
(* made good by the redelivery.                                             *)
OnlyFaultsStrand ==
    \A e \in Event :
        status[e] = "IN_PROGRESS"
            => \/ \E th \in Thread : Handling(th, e)
               \/ dbFaults > 0
               \/ /\ crashes > 0
                  /\ \/ message[e] # "acked"
                     \/ failures > 0 \/ rebalances > 0 \/ old # {}
                     \/ \E r \in RetryReq : pc[r] # "idle"

(* Thread th goes on to write the row of e on an earlier reading of it: it  *)
(* is inside consume past its look, a recovery, sweep or replay that has e  *)
(* on its list, or a request that has passed requireInboxRow.               *)
Deals(th, e) ==
    \/ ev[th] = e /\ pc[th] \in {"write", "handle", "succeed", "fail", "reject", "skip"}
    \/ ev[th] = e /\ th \in RetryReq /\ pc[th] = "queue"
    \/ th \in Sweeper /\ e \in todo[th]
    \/ th \in Worker /\ e \in todo[th] /\ (pc[th] = "queue" \/ e \notin HasOutbox)

Acts(th) == pc'[th] # pc[th] \/ (th \in Worker \union Sweeper /\ todo'[th] # todo[th])

(* Nobody takes up anew a row that reached SUCCESS: no redelivery, replay,  *)
(* recovery, sweep or request begins on it. Only one that read the row      *)
(* before may still take SUCCESS back, and once those are gone it is final. *)
SuccessIsFinal ==
    [][\A e \in Event :
          status[e] = "SUCCESS" =>
              /\ \A th \in Thread : Deals(th, e)' => Deals(th, e)
              /\ status'[e] # "SUCCESS" => \E th \in Thread : Deals(th, e) /\ Acts(th)]_vars
=============================================================================
