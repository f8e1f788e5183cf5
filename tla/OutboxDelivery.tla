--------------------------- MODULE OutboxDelivery ---------------------------
(***************************************************************************)
(* The publishing half of the event spine: the outbox_events table, the    *)
(* polling OutboxPublisher of every API process, the operator's retry and  *)
(* skip requests (DeadLetterOperationsService) and the event bus with its  *)
(* in-process memory of the event ids it has already taken.                *)
(*                                                                         *)
(* A poll is ONE database transaction that locks a batch of rows (FOR      *)
(* UPDATE SKIP LOCKED), publishes them one after the other and commits its *)
(* row updates at the end; the operator's requests are separate autocommit *)
(* statements, whose UPDATEs wait for a row lock and whose SELECTs do not. *)
(***************************************************************************)
EXTENDS Naturals, FiniteSets

CONSTANTS
    Event,        \* the rows of outbox_events; a row's id is its event's id
    Poison,       \* rows whose envelope cannot be rebuilt (an id that is no UUID v4)
    Pod,          \* API processes, each with a publisher and an event bus
    Tick,         \* polls that can be under way: setInterval does not wait for the last
    RetryReq,     \* operator requests retryOutboxEvent
    SkipReq,      \* operator requests skipOutboxEvent
    PodOf,        \* the process that runs a poll or a request
    NoEvent,      \* the event of a poll or request that has none
    MaxAttempts,  \* publish_attempt_count at which a row leaves the queue (5)
    BatchSize,    \* rows one poll takes (100)
    SendsMayFail, \* whether the broker is in trouble: FALSE while it takes every message
    MaxFaults     \* bound: process crashes and aborted transactions

Thread == Tick \union RetryReq \union SkipReq

ASSUME EventAssumption   == /\ IsFiniteSet(Event)
                            /\ Poison \subseteq Event
                            /\ NoEvent \notin Event
ASSUME ThreadAssumption  == /\ Tick \intersect (RetryReq \union SkipReq) = {}
                            /\ RetryReq \intersect SkipReq = {}
ASSUME PodAssumption     == PodOf \in [Thread -> Pod]
ASSUME NumberAssumption  == /\ MaxAttempts \in Nat \ {0}
                            /\ BatchSize \in Nat \ {0}
                            /\ MaxFaults \in Nat
ASSUME BusAssumption     == SendsMayFail \in BOOLEAN

VARIABLES
    created,  \* created[e]: position of the row in created_at order, 0 before the insert
    row,      \* the committed columns of each row
    outcome,  \* outcome[t][e]: what the transaction of poll t holds for row e
    pc,       \* where each poll and request stands
    cur,      \* the event a poll is sending, or a request is about
    snap,     \* publish_attempt_count as a request read it
    memo,     \* memo[p]: EventBus.publishedEventIds of process p
    sends,    \* sends[p][e]: how often process p, since it started, handed e to its producer
    sent,     \* events the broker has received
    broken,   \* events with a send that was rejected or died with its process
    faults    \* crashes and aborts so far

vars == <<created, row, outcome, pc, cur, snap, memo, sends, sent, broken, faults>>
busVars == <<memo, sends, sent, broken>>

Row     == [published : BOOLEAN, attempts : Nat, op : {"none", "RETRY", "SKIP"}]
Outcome == {"none", "locked", "published", "failed"}
Label   == {"idle", "publish", "send", "reset", "select", "mark", "fail", "skip", "done"}

NewRow  == [published |-> FALSE, attempts |-> 0, op |-> "none"]
NoBatch == [e \in Event |-> "none"]

TypeOK ==
    /\ created \in [Event -> Nat]
    /\ row \in [Event -> Row]
    /\ outcome \in [Tick -> [Event -> Outcome]]
    /\ pc \in [Thread -> Label]
    /\ cur \in [Thread -> Event \union {NoEvent}]
    /\ snap \in [RetryReq \union SkipReq -> Nat]
    /\ memo \in [Pod -> SUBSET Event]
    /\ sends \in [Pod -> [Event -> Nat]]
    /\ sent \in SUBSET Event
    /\ broken \in SUBSET Event
    /\ faults \in Nat

Init ==
    /\ created = [e \in Event |-> 0]
    /\ row = [e \in Event |-> NewRow]
    /\ outcome = [t \in Tick |-> NoBatch]
    /\ pc = [th \in Thread |-> "idle"]
    /\ cur = [th \in Thread |-> NoEvent]
    /\ snap = [r \in RetryReq \union SkipReq |-> 0]
    /\ memo = [p \in Pod |-> {}]
    /\ sends = [p \in Pod |-> [e \in Event |-> 0]]
    /\ sent = {}
    /\ broken = {}
    /\ faults = 0

-----------------------------------------------------------------------------
(* The table *)

Stored(e)   == created[e] > 0
Locked(e)   == \E t \in Tick : outcome[t][e] # "none"
InReach(r)  == ~r.published /\ r.attempts < MaxAttempts
Eligible(e) == Stored(e) /\ InReach(row[e])

(* What SELECT ... ORDER BY created_at LIMIT BatchSize FOR UPDATE SKIP      *)
(* LOCKED may return: the oldest eligible rows nobody holds.                *)
Batches ==
    LET free == {e \in Event : Eligible(e) /\ ~Locked(e)}
    IN  {S \in SUBSET free :
            /\ S # {}
            /\ Cardinality(S) <= BatchSize
            /\ Cardinality(S) < BatchSize => S = free
            /\ \A e \in S, f \in free \ S : created[e] < created[f]}

(* The row the transaction of t turns to next. *)
IsNext(t, e) ==
    /\ outcome[t][e] = "locked"
    /\ \A f \in Event : outcome[t][f] = "locked" => created[e] <= created[f]

(* schedule and the command bus insert a row of their own. *)
Insert(e) ==
    /\ ~Stored(e)
    /\ created' = [created EXCEPT ![e] = 1 + Cardinality({f \in Event : Stored(f)})]
    /\ UNCHANGED <<row, outcome, pc, cur, snap, busVars, faults>>

-----------------------------------------------------------------------------
(* The event bus *)

(* recordPublicationAttempt: the id is remembered before the message is     *)
(* sent; a remembered id makes publish return at once as if it had sent.    *)
Duplicate(p, e) == e \in memo[p]

Hand(p, e) ==
    /\ memo' = [memo EXCEPT ![p] = @ \union {e}]
    /\ sends' = [sends EXCEPT ![p][e] = @ + 1]
    /\ UNCHANGED <<sent, broken>>

(* producer.send resolved: the broker has the message. *)
BrokerAccepts(e) ==
    /\ sent' = sent \union {e}
    /\ UNCHANGED <<memo, sends, broken>>

(* producer.send rejected: lost, or received with the acknowledgement lost. *)
BrokerRejects(e) ==
    /\ SendsMayFail
    /\ sent' \in {sent, sent \union {e}}
    /\ broken' = broken \union {e}
    /\ UNCHANGED <<memo, sends>>

-----------------------------------------------------------------------------
(* OutboxPublisher.pollAndPublish *)

TickBegin(t) ==
    /\ pc[t] = "idle"
    /\ \E S \in Batches :
          outcome' = [outcome EXCEPT ![t] = [e \in Event |-> IF e \in S THEN "locked" ELSE "none"]]
    /\ pc' = [pc EXCEPT ![t] = "publish"]
    /\ UNCHANGED <<created, row, cur, snap, busVars, faults>>

(* rowToEnvelope throws: the catch branch counts an attempt. *)
TickPoison(t, e) ==
    /\ e \in Poison
    /\ outcome' = [outcome EXCEPT ![t][e] = "failed"]
    /\ UNCHANGED <<pc, cur, busVars>>

TickDuplicate(t, e) ==
    /\ e \notin Poison
    /\ Duplicate(PodOf[t], e)
    /\ outcome' = [outcome EXCEPT ![t][e] = "published"]
    /\ UNCHANGED <<pc, cur, busVars>>

TickSend(t, e) ==
    /\ e \notin Poison
    /\ ~Duplicate(PodOf[t], e)
    /\ Hand(PodOf[t], e)
    /\ pc' = [pc EXCEPT ![t] = "send"]
    /\ cur' = [cur EXCEPT ![t] = e]
    /\ UNCHANGED outcome

TickPublish(t) ==
    /\ pc[t] = "publish"
    /\ \E e \in Event :
          /\ IsNext(t, e)
          /\ TickPoison(t, e) \/ TickDuplicate(t, e) \/ TickSend(t, e)
    /\ UNCHANGED <<created, row, snap, faults>>

TickSent(t) ==
    /\ pc[t] = "send"
    /\ \/ /\ BrokerAccepts(cur[t])
          /\ outcome' = [outcome EXCEPT ![t][cur[t]] = "published"]
       \/ /\ BrokerRejects(cur[t])
          /\ outcome' = [outcome EXCEPT ![t][cur[t]] = "failed"]
    /\ pc' = [pc EXCEPT ![t] = "publish"]
    /\ cur' = [cur EXCEPT ![t] = NoEvent]
    /\ UNCHANGED <<created, row, snap, faults>>

MutPolledDown(r, o) ==
    CASE o = "published" -> [r EXCEPT !.published = TRUE]
      [] o = "failed"    -> [r EXCEPT !.attempts = @ - 1]
      [] OTHER           -> r

MutPolledSame(r, o) ==
    IF o = "published" THEN [r EXCEPT !.published = TRUE] ELSE r

(* The columns a committing poll leaves in a row. *)
Polled(r, o) ==
    CASE o = "published" -> [r EXCEPT !.published = TRUE]
      [] o = "failed"    -> [r EXCEPT !.attempts = @ + 1]
      [] OTHER           -> r

MutTickCommit(t) ==
    /\ pc[t] = "publish"
    /\ row' = [e \in Event |->
                 IF outcome[t][e] = "locked" THEN [row[e] EXCEPT !.published = TRUE]
                 ELSE Polled(row[e], outcome[t][e])]
    /\ outcome' = [outcome EXCEPT ![t] = NoBatch]
    /\ pc' = [pc EXCEPT ![t] = "idle"]
    /\ UNCHANGED <<created, cur, snap, busVars, faults>>

TickCommit(t) ==
    /\ pc[t] = "publish"
    /\ \A e \in Event : outcome[t][e] # "locked"
    /\ row' = [e \in Event |-> Polled(row[e], outcome[t][e])]
    /\ outcome' = [outcome EXCEPT ![t] = NoBatch]
    /\ pc' = [pc EXCEPT ![t] = "idle"]
    /\ UNCHANGED <<created, cur, snap, busVars, faults>>

(* A failing statement rolls the transaction back; what was sent stays sent *)
(* and what the bus remembers stays remembered.                             *)
TickAbort(t) ==
    /\ faults < MaxFaults
    /\ pc[t] = "publish"
    /\ outcome' = [outcome EXCEPT ![t] = NoBatch]
    /\ pc' = [pc EXCEPT ![t] = "idle"]
    /\ faults' = faults + 1
    /\ UNCHANGED <<created, row, cur, snap, busVars>>

-----------------------------------------------------------------------------
(* DeadLetterOperationsService.retryOutboxEvent, then publishOutboxEvent    *)

Finish(r) ==
    /\ pc' = [pc EXCEPT ![r] = "done"]
    /\ cur' = [cur EXCEPT ![r] = NoEvent]
    /\ snap' = [snap EXCEPT ![r] = 0]

RetryRead(r) ==
    /\ pc[r] = "idle"
    /\ \E e \in Event :
          /\ Stored(e) /\ ~row[e].published
          /\ cur' = [cur EXCEPT ![r] = e]
    /\ pc' = [pc EXCEPT ![r] = "reset"]
    /\ UNCHANGED <<created, row, outcome, snap, busVars, faults>>

RetryReset(r) ==
    /\ pc[r] = "reset"
    /\ ~Locked(cur[r])
    /\ row' = [row EXCEPT ![cur[r]] = [published |-> FALSE, attempts |-> 0, op |-> "RETRY"]]
    /\ pc' = [pc EXCEPT ![r] = "select"]
    /\ UNCHANGED <<created, outcome, cur, snap, busVars, faults>>

RetrySelect(r) ==
    /\ pc[r] = "select"
    /\ \/ /\ row[cur[r]].published
          /\ Finish(r)
       \/ /\ ~row[cur[r]].published
          /\ pc' = [pc EXCEPT ![r] = "publish"]
          /\ snap' = [snap EXCEPT ![r] = row[cur[r]].attempts]
          /\ UNCHANGED cur
    /\ UNCHANGED <<created, row, outcome, busVars, faults>>

RetryPublish(r) ==
    LET e == cur[r]
        p == PodOf[r]
    IN  /\ pc[r] = "publish"
        /\ \/ /\ e \in Poison
              /\ pc' = [pc EXCEPT ![r] = "fail"]
              /\ UNCHANGED busVars
           \/ /\ e \notin Poison /\ Duplicate(p, e)
              /\ pc' = [pc EXCEPT ![r] = "mark"]
              /\ UNCHANGED busVars
           \/ /\ e \notin Poison /\ ~Duplicate(p, e)
              /\ Hand(p, e)
              /\ pc' = [pc EXCEPT ![r] = "send"]
        /\ UNCHANGED <<created, row, outcome, cur, snap, faults>>

RetrySent(r) ==
    /\ pc[r] = "send"
    /\ \/ /\ BrokerAccepts(cur[r])
          /\ pc' = [pc EXCEPT ![r] = "mark"]
       \/ /\ BrokerRejects(cur[r])
          /\ pc' = [pc EXCEPT ![r] = "fail"]
    /\ UNCHANGED <<created, row, outcome, cur, snap, faults>>

(* Both updates name the row by id only, whatever happened to it since. *)
RetryWrite(r) ==
    /\ pc[r] \in {"mark", "fail"}
    /\ ~Locked(cur[r])
    /\ \/ /\ pc[r] = "mark"
          /\ row' = [row EXCEPT ![cur[r]].published = TRUE]
       \/ /\ pc[r] = "fail"
          /\ row' = [row EXCEPT ![cur[r]].attempts = snap[r] + 1]
    /\ Finish(r)
    /\ UNCHANGED <<created, outcome, busVars, faults>>

-----------------------------------------------------------------------------
(* DeadLetterOperationsService.skipOutboxEvent *)

SkipRead(k) ==
    /\ pc[k] = "idle"
    /\ \E e \in Event :
          /\ Stored(e) /\ ~row[e].published
          /\ cur' = [cur EXCEPT ![k] = e]
          /\ snap' = [snap EXCEPT ![k] = row[e].attempts]
    /\ pc' = [pc EXCEPT ![k] = "skip"]
    /\ UNCHANGED <<created, row, outcome, busVars, faults>>

MutSkippedCounts(r, n)  == [r EXCEPT !.attempts = n + 1, !.op = "SKIP"]
MutSkippedResets(r, n)  == [published |-> FALSE, attempts |-> MaxAttempts, op |-> "SKIP"]

Skipped(r, n) ==
    [r EXCEPT !.attempts = IF n > MaxAttempts THEN n ELSE MaxAttempts,
              !.op = "SKIP"]

SkipWrite(k) ==
    /\ pc[k] = "skip"
    /\ ~Locked(cur[k])
    /\ row' = [row EXCEPT ![cur[k]] = Skipped(@, snap[k])]
    /\ Finish(k)
    /\ UNCHANGED <<created, outcome, busVars, faults>>

(* A statement of a request fails (the audit insert among them): the        *)
(* request ends there, except that a failed published_at update is caught   *)
(* and counted as a failed attempt.                                         *)
RequestFault(r) ==
    /\ faults < MaxFaults
    /\ faults' = faults + 1
    /\ \/ /\ pc[r] \in {"reset", "select", "skip", "fail"}
          /\ Finish(r)
       \/ /\ pc[r] = "mark"
          /\ pc' = [pc EXCEPT ![r] = "fail"]
          /\ UNCHANGED <<cur, snap>>
    /\ UNCHANGED <<created, row, outcome, busVars>>

-----------------------------------------------------------------------------
(* publishedEventIds is a field of the bus object: it dies with the process. *)
Forgotten(p) == [memo EXCEPT ![p] = {}]

(* A process dies and is restarted: its transactions roll back, its         *)
(* requests are gone and so is the bus's memory; a message on the wire may  *)
(* still have reached the broker.                                           *)
Crash(p) ==
    LET mine     == {th \in Thread : PodOf[th] = p}
        inFlight == {cur[th] : th \in {x \in mine : pc[x] = "send"}}
    IN  /\ faults < MaxFaults
        /\ faults' = faults + 1
        /\ sent' \in {sent \union S : S \in SUBSET inFlight}
        /\ broken' = broken \union inFlight
        /\ memo' = Forgotten(p)
        /\ sends' = [sends EXCEPT ![p] = [e \in Event |-> 0]]
        /\ outcome' = [t \in Tick |-> IF PodOf[t] = p THEN NoBatch ELSE outcome[t]]
        /\ pc' = [th \in Thread |->
                    IF th \notin mine THEN pc[th]
                    ELSE IF th \in Tick \/ pc[th] = "idle" THEN "idle" ELSE "done"]
        /\ cur' = [th \in Thread |-> IF th \in mine THEN NoEvent ELSE cur[th]]
        /\ snap' = [r \in DOMAIN snap |-> IF r \in mine THEN 0 ELSE snap[r]]
        /\ UNCHANGED <<created, row>>

TickStep(t)  == TickBegin(t) \/ TickPublish(t) \/ TickSent(t) \/ TickCommit(t)
RetryStep(r) == \/ RetryRead(r) \/ RetryReset(r) \/ RetrySelect(r)
                \/ RetryPublish(r) \/ RetrySent(r) \/ RetryWrite(r)
SkipStep(k)  == SkipRead(k) \/ SkipWrite(k)

Next ==
    \/ \E e \in Event : Insert(e)
    \/ \E t \in Tick : TickStep(t) \/ TickAbort(t)
    \/ \E r \in RetryReq : RetryStep(r)
    \/ \E k \in SkipReq : SkipStep(k)
    \/ \E r \in RetryReq \union SkipReq : RequestFault(r)
    \/ \E p \in Pod : Crash(p)

Spec == Init /\ [][Next]_vars

(* The interval timer keeps firing and a send or a statement returns. *)
Fairness == \A t \in Tick : WF_vars(TickStep(t))

FairSpec == Spec /\ Fairness

-----------------------------------------------------------------------------
(* A process sends an event to the broker at most once in its lifetime,     *)
(* however its overlapping polls and its operator requests interleave: the  *)
(* bus tests and sets its memory without an await in between.               *)
OneSendPerProcess ==
    \A p \in Pod, e \in Event : sends[p][e] <= 1

(* Guaranteed delivery: a row marked published is on the broker. *)
PublishedWasSent ==
    \A e \in Event : row[e].published => e \in sent

(* A row is marked published before the broker has its event only because  *)
(* of a send of that event that was rejected, died with its process, or is  *)
(* still under way: rolled back polls, overlapping polls and operator       *)
(* requests alone lose nothing.                                             *)
InFlight(e) == \E th \in Thread : pc[th] = "send" /\ cur[th] = e

LossNeedsBrokenSend ==
    \A e \in Event : row[e].published => e \in sent \/ e \in broken \/ InFlight(e)

(* A row an operator skipped comes back within the publisher's reach only   *)
(* by a retry of that very event: by its reset, or, past the skip, by its   *)
(* failing write of a count it read before the skip. No poll, whenever it   *)
(* locked the row, no crash and no failed request brings it back.           *)
Loose(r) == r.op = "SKIP" /\ InReach(r)

BringsBack(r, e) ==
    /\ cur[r] = e
    /\ pc[r] = "reset" \/ (pc[r] = "fail" /\ snap[r] + 1 < MaxAttempts)

SkipHolds ==
    [][\A e \in Event :
          "SKIP" \in {row[e].op, row'[e].op} /\ InReach(row'[e])
             => Loose(row[e]) \/ \E r \in RetryReq : BringsBack(r, e)]_vars

(* A row that is published never becomes unpublished again, so that no      *)
(* later poll or retry takes it for work still to be done; only a retry     *)
(* that saw it unpublished may still reset it.                              *)
PublishedIsFinal ==
    [][\A e \in Event :
          row[e].published /\ ~row'[e].published
             => \E r \in RetryReq : cur[r] = e /\ pc[r] = "reset"]_vars

(* Every row leaves the queue: published, or out of attempts. Rows that     *)
(* always fail do not hold up the rows behind them for ever.                *)
EveryRowLeavesTheQueue ==
    \A e \in Event :
        Stored(e) ~> (row[e].published \/ row[e].attempts >= MaxAttempts)
=============================================================================
