------------------------- MODULE EventPipeline_proofs -------------------------
(***************************************************************************)
(* EventPipeline implements ReliableDelivery, as far as safety goes: each  *)
(* of its steps is a step of the promise or none, for any number of        *)
(* events, processes, polls, deliveries and workers. The argument follows  *)
(* an event downstream: what a delivery or a worker has in hand was taken  *)
(* by the broker, and what the broker took was committed.                  *)
(***************************************************************************)
EXTENDS EventPipeline, TLAPS

Shape ==
    /\ DOMAIN created = Event
    /\ row \in [Event -> O!Row]
    /\ outcome \in [Tick -> [Event -> O!Outcome]]
    /\ tickPc \in [Tick -> O!Label] /\ cur \in [Tick -> Event \union {NoEvent}]
    /\ sent \in SUBSET Event /\ faults \in Nat
    /\ status \in [Event -> I!Status]
    /\ message \in [Event -> I!Message]
    /\ pc \in [Delivery \union Worker -> I!Label]
    /\ ev \in [Delivery \union Worker -> Event \union {NoEvent}]
    /\ todo \in [Worker -> SUBSET Event]
    /\ handled \in [Event -> Nat]

(* A poll holds rows that are committed and still in the queue, each of     *)
(* them alone, and none when it is idle; a row not inserted has no attempts. *)
Locks ==
    /\ \A t \in Tick, e \in Event : outcome[t][e] # "none" =>
          /\ tickPc[t] # "idle" /\ O!Stored(e)
          /\ ~row[e].published /\ ~(row[e].attempts >= MaxAttempts)
          /\ \A u \in Tick \ {t} : outcome[u][e] = "none"
    /\ \A t \in Tick : tickPc[t] = "send" => cur[t] \in Event /\ outcome[t][cur[t]] = "locked"
    /\ \A e \in Event : ~O!Stored(e) => row[e].attempts = 0

(* An event that the broker has is committed, and marked published, or the  *)
(* poll that sent it is about to mark it, unless that poll was cut short.   *)
Reached(e) ==
    \/ row[e].published \/ faults > 0
    \/ \E t \in Tick : outcome[t][e] = "published"

Sent == \A e \in sent : O!Stored(e) /\ Reached(e)

AtWork == {"look", "write", "handle", "succeed", "fail", "reject"}

(* Everything downstream of the broker is about events the broker has. *)
Downstream ==
    /\ \A e \in Event : message[e] # "unsent" \/ status[e] # "absent" => e \in sent
    /\ \A th \in Delivery \union Worker : pc[th] \in AtWork => ev[th] \in sent
    /\ \A w \in Worker : todo[w] \subseteq sent
    /\ \A th \in Delivery \union Worker : pc[th] \notin {"replay", "skip"}

PInv == Shape /\ Locks /\ Sent /\ Downstream

LEMMA Threads == O!Thread = Tick /\ I!Thread = Delivery \union Worker
  BY DEF O!Thread, I!Thread

LEMMA PInvInit == Init => PInv
<1> SUFFICES ASSUME Init PROVE PInv
  OBVIOUS
<1> USE Threads, NumberAssumption DEF Init, O!Init, I!Init
<1>1. Shape
  <2>1. tickPc \in [Tick -> O!Label] /\ cur \in [Tick -> Event \union {NoEvent}] /\ outcome \in [Tick -> [Event -> O!Outcome]]
    BY DEF O!Label, O!NoBatch, O!Outcome
  <2>2. row \in [Event -> O!Row]
    BY DEF O!Row, O!NewRow
  <2>3. pc \in [Delivery \union Worker -> I!Label]
    BY DEF I!Start, I!Label
  <2> QED BY <2>1, <2>2, <2>3 DEF Shape, I!Status, I!Message
<1>2. Locks
  BY DEF Locks, O!NoBatch, O!NewRow, O!Stored
<1>3. Sent
  BY DEF Sent
<1>4. Downstream
  BY DEF Downstream, AtWork, I!Start
<1> QED BY <1>1, <1>2, <1>3, <1>4 DEF PInv

-----------------------------------------------------------------------------
(* The outbox half *)

(* What a step of the outbox half keeps if it only adds to sent: everything *)
(* downstream.                                                              *)
LEMMA DownstreamKept ==
  ASSUME Downstream, UNCHANGED inboxVars, sent \subseteq sent'
  PROVE  Downstream'
BY DEF Downstream, inboxVars

LEMMA InsertKeeps ==
  ASSUME PInv, NEW e \in Event, Insert(e)
  PROVE  PInv'
<1> USE DEF PInv
<1>1. UNCHANGED <<row, outcome, tickPc, cur, sent, faults>> /\ UNCHANGED inboxVars
  BY DEF Insert, O!Insert, O!busVars
<1>2. DOMAIN created' = Event /\ \A f \in Event : f # e => created'[f] = created[f]
  BY DEF Insert, O!Insert, Shape
<1>3. ~O!Stored(e)
  BY DEF Insert, O!Insert
<1>4. \A f \in Event : O!Stored(f) => O!Stored(f)'
  BY <1>2, <1>3 DEF O!Stored
<1>5. Shape'
  BY <1>1, <1>2 DEF Shape, inboxVars
<1>6. Locks'
  <2>1. \A f \in Event : ~O!Stored(f)' => ~O!Stored(f)
    BY <1>4
  <2> QED BY <1>1, <1>4, <2>1 DEF Locks
<1>7. Sent'
  BY <1>1, <1>4 DEF Sent, Reached, Shape
<1> QED BY <1>1, <1>5, <1>6, <1>7, DownstreamKept

(* A poll goes on to another label, with another event and another outcome  *)
(* for at most that event.                                                  *)
LEMMA BeginKeeps ==
  ASSUME PInv, NEW t \in Tick, O!TickBegin(t), UNCHANGED inboxVars
  PROVE  PInv'
<1> USE NumberAssumption DEF PInv
<1>1. PICK S \in SUBSET {e \in Event : O!Eligible(e) /\ ~O!Locked(e)} :
         outcome' = [outcome EXCEPT ![t] = [e \in Event |-> IF e \in S THEN "locked" ELSE "none"]]
  BY DEF O!TickBegin, O!Batches
<1>2. tickPc[t] = "idle" /\ tickPc' = [tickPc EXCEPT ![t] = "publish"]
      /\ UNCHANGED <<created, row, cur, sent, faults>>
  BY DEF O!TickBegin, O!busVars
<1>3. \A e \in Event : outcome[t][e] = "none"
  BY <1>2 DEF Locks, Shape
<1>4. /\ \A e \in Event : outcome'[t][e] = IF e \in S THEN "locked" ELSE "none"
      /\ \A u \in Tick \ {t} : outcome'[u] = outcome[u]
  BY <1>1 DEF Shape
<1>5. tickPc'[t] = "publish" /\ \A u \in Tick \ {t} : tickPc'[u] = tickPc[u]
  BY <1>2 DEF Shape
<1>6. Shape'
  <2>1. outcome' \in [Tick -> [Event -> O!Outcome]]
    BY <1>1 DEF Shape, O!Outcome
  <2>2. tickPc' \in [Tick -> O!Label]
    BY <1>2 DEF Shape, O!Label
  <2> QED BY <1>2, <2>1, <2>2 DEF Shape, inboxVars
<1>7. Locks'
  <2>1. \A e \in S : /\ O!Stored(e) /\ ~row[e].published /\ ~(row[e].attempts >= MaxAttempts)
                     /\ \A u \in Tick : outcome[u][e] = "none"
    <3> SUFFICES ASSUME NEW e \in S
                 PROVE  /\ O!Stored(e) /\ ~row[e].published /\ ~(row[e].attempts >= MaxAttempts)
                        /\ \A u \in Tick : outcome[u][e] = "none"
      OBVIOUS
    <3>1. O!Eligible(e) /\ ~O!Locked(e)
      OBVIOUS
    <3>2. row[e].attempts \in Nat
      BY DEF Shape, O!Row
    <3> QED BY <3>1, <3>2 DEF O!Eligible, O!InReach, O!Locked
  <2>2. ASSUME NEW u \in Tick, NEW e \in Event, outcome'[u][e] # "none"
        PROVE  /\ tickPc'[u] # "idle" /\ O!Stored(e)
               /\ ~row[e].published /\ ~(row[e].attempts >= MaxAttempts)
               /\ \A v \in Tick \ {u} : outcome'[v][e] = "none"
    <3>1. CASE u = t
      BY <1>4, <1>5, <2>1, <2>2, <3>1
    <3>2. CASE u # t
      <4>1. outcome[u][e] # "none"
        BY <1>4, <2>2, <3>2
      <4>2. e \notin S
        BY <2>1, <4>1
      <4> QED BY <1>3, <1>4, <1>5, <3>2, <4>1, <4>2 DEF Locks
    <3> QED BY <3>1, <3>2
  <2>3. \A u \in Tick : tickPc'[u] = "send" => cur[u] \in Event /\ outcome'[u][cur[u]] = "locked"
    BY <1>4, <1>5 DEF Locks
  <2> QED BY <1>2, <2>2, <2>3 DEF Locks, O!Stored
<1>8. Sent'
  <2>1. ASSUME NEW e \in Event, NEW u \in Tick, outcome[u][e] = "published" PROVE outcome'[u][e] = "published"
    BY <1>3, <1>4, <2>1
  <2> QED BY <1>2, <2>1 DEF Sent, Reached, O!Stored, Shape
<1> QED BY <1>2, <1>6, <1>7, <1>8, DownstreamKept

(* The poll deals with one row that it holds: outcome o, next label l. *)
LEMMA OutcomeKeeps ==
  ASSUME PInv, NEW t \in Tick, NEW e \in Event, NEW o \in {"locked", "published", "failed"},
         NEW l \in {"publish", "send"}, outcome[t][e] = "locked", tickPc[t] # "idle",
         outcome' = [outcome EXCEPT ![t][e] = o], tickPc' = [tickPc EXCEPT ![t] = l],
         cur' \in [Tick -> Event \union {NoEvent}], \A u \in Tick \ {t} : cur'[u] = cur[u],
         l = "send" => o = "locked" /\ cur'[t] = e,
         sent' = sent \/ (sent' = sent \union {e} /\ o = "published"),
         UNCHANGED <<created, row, faults>>, UNCHANGED inboxVars
  PROVE  PInv'
<1> USE NumberAssumption DEF PInv
<1>1. \A u \in Tick, f \in Event :
         outcome'[u][f] = IF u = t /\ f = e THEN o ELSE outcome[u][f]
  BY DEF Shape
<1>2. tickPc'[t] = l /\ \A u \in Tick \ {t} : tickPc'[u] = tickPc[u]
  BY DEF Shape
<1>3. Shape'
  <2>1. [outcome[t] EXCEPT ![e] = o] \in [Event -> O!Outcome]
    BY DEF Shape, O!Outcome
  <2>2. outcome' \in [Tick -> [Event -> O!Outcome]]
    BY <2>1 DEF Shape
  <2>3. tickPc' \in [Tick -> O!Label]
    BY DEF Shape, O!Label
  <2> QED BY <2>2, <2>3 DEF Shape, inboxVars
<1>4. Locks'
  <2>1. \A u \in Tick, f \in Event : outcome'[u][f] # "none" => outcome[u][f] # "none"
    BY <1>1
  <2>2. \A u \in Tick, f \in Event : outcome[u][f] = "none" => outcome'[u][f] = "none"
    BY <1>1
  <2>3. \A u \in Tick : tickPc[u] # "idle" => tickPc'[u] # "idle"
    BY <1>2
  <2>4. ASSUME NEW u \in Tick, tickPc'[u] = "send" PROVE cur'[u] \in Event /\ outcome'[u][cur'[u]] = "locked"
    BY <1>1, <1>2, <2>4 DEF Locks
  <2> QED BY <2>1, <2>2, <2>3, <2>4 DEF Locks, O!Stored
<1>5. Sent'
  <2>1. ASSUME NEW f \in Event, NEW u \in Tick, outcome[u][f] = "published" PROVE outcome'[u][f] = "published"
    BY <1>1, <2>1
  <2>2. \A f \in sent : O!Stored(f)' /\ Reached(f)'
    BY <2>1 DEF Sent, Reached, O!Stored, Shape
  <2>3. o = "published" => O!Stored(e)' /\ Reached(e)'
    BY <1>1 DEF Locks, Reached, O!Stored
  <2> QED BY <2>2, <2>3 DEF Sent
<1>6. Downstream'
  <2>1. sent \subseteq sent'
    OBVIOUS
  <2> QED BY <2>1, DownstreamKept
<1> QED BY <1>3, <1>4, <1>5, <1>6

LEMMA PublishKeeps ==
  ASSUME PInv, NEW t \in Tick, O!TickPublish(t) \/ O!TickSent(t), UNCHANGED inboxVars
  PROVE  PInv'
<1> USE DEF PInv
<1>1. CASE O!TickPublish(t)
  <2> PICK e \in Event : O!IsNext(t, e) /\ (O!TickPoison(t, e) \/ O!TickDuplicate(t, e) \/ O!TickSend(t, e))
    BY <1>1 DEF O!TickPublish
  <2>1. outcome[t][e] = "locked" /\ tickPc[t] = "publish" /\ UNCHANGED <<created, row, faults>>
    BY <1>1 DEF O!IsNext, O!TickPublish
  <2>2. CASE O!TickPoison(t, e) \/ O!TickDuplicate(t, e)
    <3>1. PICK o \in {"published", "failed"} : outcome' = [outcome EXCEPT ![t][e] = o]
      BY <2>2 DEF O!TickPoison, O!TickDuplicate
    <3>2. UNCHANGED <<tickPc, cur, sent>>
      BY <2>2 DEF O!TickPoison, O!TickDuplicate, O!busVars
    <3>3. tickPc' = [tickPc EXCEPT ![t] = "publish"] /\ cur' \in [Tick -> Event \union {NoEvent}]
      BY <2>1, <3>2 DEF Shape
    <3> QED BY <2>1, <3>1, <3>2, <3>3, OutcomeKeeps
  <2>3. CASE O!TickSend(t, e)
    <3>1. outcome' = [outcome EXCEPT ![t][e] = "locked"]
      BY <2>1, <2>3 DEF O!TickSend, Shape
    <3>2. tickPc' = [tickPc EXCEPT ![t] = "send"] /\ cur' = [cur EXCEPT ![t] = e] /\ sent' = sent
      BY <2>3 DEF O!TickSend, O!Hand
    <3>3. cur' \in [Tick -> Event \union {NoEvent}] /\ cur'[t] = e /\ \A u \in Tick \ {t} : cur'[u] = cur[u]
      BY <3>2 DEF Shape
    <3> QED BY <2>1, <3>1, <3>2, <3>3, OutcomeKeeps
  <2> QED BY <2>2, <2>3
<1>2. CASE O!TickSent(t)
  <2> DEFINE e == cur[t]
  <2>1. e \in Event /\ outcome[t][e] = "locked" /\ tickPc[t] = "send" /\ UNCHANGED <<created, row, faults>>
    BY <1>2 DEF O!TickSent, Locks
  <2>2. sent' = sent \union {e} /\ outcome' = [outcome EXCEPT ![t][e] = "published"]
    BY <1>2 DEF O!TickSent, O!BrokerAccepts, O!BrokerRejects
  <2>3. tickPc' = [tickPc EXCEPT ![t] = "publish"] /\ cur' = [cur EXCEPT ![t] = NoEvent]
    BY <1>2 DEF O!TickSent
  <2>4. cur' \in [Tick -> Event \union {NoEvent}] /\ \A u \in Tick \ {t} : cur'[u] = cur[u]
    BY <2>3 DEF Shape
  <2> HIDE DEF e
  <2> QED BY <2>1, <2>2, <2>3, <2>4, OutcomeKeeps
<1> QED BY <1>1, <1>2

(* What a committing poll writes. *)
LEMMA Written ==
  ASSUME NEW r \in O!Row, NEW o \in O!Outcome
  PROVE  /\ O!Polled(r, o) \in O!Row
         /\ r.published => O!Polled(r, o).published
         /\ o = "published" => O!Polled(r, o).published
         /\ o = "none" => O!Polled(r, o) = r
<1>1. CASE o = "published"
  BY <1>1 DEF O!Polled, O!Row
<1>2. CASE o = "failed"
  BY <1>2 DEF O!Polled, O!Row
<1>3. CASE o \in {"none", "locked"}
  BY <1>3 DEF O!Polled, O!Row
<1> QED BY <1>1, <1>2, <1>3 DEF O!Outcome

LEMMA CommitKeeps ==
  ASSUME PInv, NEW t \in Tick, O!TickCommit(t), UNCHANGED inboxVars
  PROVE  PInv'
<1> USE NumberAssumption DEF PInv
<1>1. /\ row' = [e \in Event |-> O!Polled(row[e], outcome[t][e])]
      /\ outcome' = [outcome EXCEPT ![t] = O!NoBatch] /\ tickPc' = [tickPc EXCEPT ![t] = "idle"]
      /\ UNCHANGED <<created, cur, sent, faults>>
  BY DEF O!TickCommit, O!busVars
<1>2. (\A e \in Event : outcome'[t][e] = "none") /\ \A u \in Tick \ {t} : outcome'[u] = outcome[u]
  BY <1>1 DEF Shape, O!NoBatch
<1>3. tickPc'[t] = "idle" /\ \A u \in Tick \ {t} : tickPc'[u] = tickPc[u]
  BY <1>1 DEF Shape
<1>4. \A e \in Event : /\ row'[e] \in O!Row
                       /\ row[e].published => row'[e].published
                       /\ outcome[t][e] = "published" => row'[e].published
                       /\ outcome[t][e] = "none" => row'[e] = row[e]
  <2> SUFFICES ASSUME NEW e \in Event
               PROVE  /\ row'[e] \in O!Row
                      /\ row[e].published => row'[e].published
                      /\ outcome[t][e] = "published" => row'[e].published
                      /\ outcome[t][e] = "none" => row'[e] = row[e]
    OBVIOUS
  <2>1. row'[e] = O!Polled(row[e], outcome[t][e]) /\ row[e] \in O!Row /\ outcome[t][e] \in O!Outcome
    BY <1>1 DEF Shape
  <2> QED BY <2>1, Written
<1>5. Shape'
  <2>1. row' \in [Event -> O!Row]
    BY <1>1, <1>4
  <2>2. outcome' \in [Tick -> [Event -> O!Outcome]] /\ tickPc' \in [Tick -> O!Label]
    BY <1>1 DEF Shape, O!NoBatch, O!Outcome, O!Label
  <2> QED BY <1>1, <2>1, <2>2 DEF Shape, inboxVars
<1>6. Locks'
  <2>1. ASSUME NEW u \in Tick, NEW e \in Event, outcome'[u][e] # "none"
        PROVE  u # t /\ outcome'[u][e] = outcome[u][e] /\ outcome[t][e] = "none" /\ row'[e] = row[e]
    BY <1>2, <1>4, <2>1 DEF Locks
  <2>2. \A u \in Tick \ {t}, e \in Event : outcome[u][e] = "none" => outcome'[u][e] = "none"
    BY <1>2
  <2>3. ASSUME NEW u \in Tick, NEW e \in Event, outcome'[u][e] # "none"
        PROVE  /\ tickPc'[u] # "idle" /\ O!Stored(e)
               /\ ~row'[e].published /\ ~(row'[e].attempts >= MaxAttempts)
               /\ \A v \in Tick \ {u} : outcome'[v][e] = "none"
    BY <1>2, <1>3, <2>1, <2>2, <2>3 DEF Locks
  <2>4. \A u \in Tick : tickPc'[u] = "send" => cur[u] \in Event /\ outcome'[u][cur[u]] = "locked"
    BY <1>2, <1>3 DEF Locks
  <2>5. \A e \in Event : ~O!Stored(e) => row'[e].attempts = 0
    BY <1>4 DEF Locks
  <2> QED BY <1>1, <2>3, <2>4, <2>5 DEF Locks, O!Stored
<1>7. Sent'
  <2>1. ASSUME NEW e \in Event, NEW u \in Tick, outcome[u][e] = "published"
        PROVE  row'[e].published \/ outcome'[u][e] = "published"
    BY <1>2, <1>4, <2>1
  <2> QED BY <1>1, <1>4, <2>1 DEF Sent, Reached, O!Stored, Shape
<1> QED BY <1>1, <1>5, <1>6, <1>7, DownstreamKept

(* A poll or a process is cut short: locks are gone, nothing is written.    *)
LEMMA CutKeeps ==
  ASSUME PInv, NEW T \in SUBSET Tick,
         outcome' = [t \in Tick |-> IF t \in T THEN O!NoBatch ELSE outcome[t]],
         tickPc' = [t \in Tick |-> IF t \in T THEN "idle" ELSE tickPc[t]],
         cur' \in [Tick -> Event \union {NoEvent}], \A t \in Tick \ T : cur'[t] = cur[t],
         faults' = faults + 1, UNCHANGED <<created, row>>,
         sent \subseteq sent', \A e \in sent' \ sent : e \in Event /\ O!Stored(e)
  PROVE  sent' \in SUBSET Event /\ outcome' \in [Tick -> [Event -> O!Outcome]]
         /\ tickPc' \in [Tick -> O!Label] /\ faults' \in Nat /\ Locks' /\ Sent'
<1> USE DEF PInv
<1>1. sent' \in SUBSET Event /\ faults' \in Nat /\ faults' > 0
  BY DEF Shape
<1>2. outcome' \in [Tick -> [Event -> O!Outcome]] /\ tickPc' \in [Tick -> O!Label]
  BY DEF Shape, O!NoBatch, O!Outcome, O!Label
<1>3. \A t \in Tick, e \in Event : outcome'[t][e] # "none" => t \notin T /\ outcome'[t][e] = outcome[t][e]
  BY DEF O!NoBatch
<1>4. \A t \in Tick, e \in Event : outcome[t][e] = "none" => outcome'[t][e] = "none"
  BY DEF O!NoBatch
<1>5. \A t \in Tick : t \notin T => tickPc'[t] = tickPc[t] /\ outcome'[t] = outcome[t]
  OBVIOUS
<1>6. \A t \in Tick : tickPc'[t] = "send" => t \notin T
  OBVIOUS
<1>7. Locks'
  BY <1>3, <1>4, <1>5, <1>6 DEF Locks, O!Stored
<1>8. Sent'
  BY <1>1 DEF Sent, Reached, O!Stored
<1> QED BY <1>1, <1>2, <1>7, <1>8

LEMMA AbortKeeps ==
  ASSUME PInv, NEW t \in Tick, PollAbort(t)
  PROVE  PInv'
<1> USE DEF PInv
<1>1. /\ tickPc' = [tickPc EXCEPT ![t] = "idle"] /\ outcome' = [outcome EXCEPT ![t] = O!NoBatch]
      /\ faults' = faults + 1 /\ UNCHANGED <<created, row, cur, sent>> /\ UNCHANGED inboxVars
  BY DEF PollAbort, O!TickAbort, O!busVars
<1>2. /\ outcome' = [u \in Tick |-> IF u \in {t} THEN O!NoBatch ELSE outcome[u]]
      /\ tickPc' = [u \in Tick |-> IF u \in {t} THEN "idle" ELSE tickPc[u]]
  BY <1>1 DEF Shape
<1>3. sent' \in SUBSET Event /\ outcome' \in [Tick -> [Event -> O!Outcome]]
      /\ tickPc' \in [Tick -> O!Label] /\ faults' \in Nat /\ Locks' /\ Sent'
  <2>1. {t} \in SUBSET Tick /\ cur' \in [Tick -> Event \union {NoEvent}]
    BY <1>1 DEF Shape
  <2> QED BY <1>1, <1>2, <2>1, CutKeeps
<1>4. Shape'
  BY <1>1, <1>3 DEF Shape, inboxVars
<1> QED BY <1>1, <1>3, <1>4, DownstreamKept

-----------------------------------------------------------------------------
(* The inbox half *)

(* A step of the inbox half that keeps its shapes and takes up only events  *)
(* the broker has.                                                          *)
LEMMA InboxKeeps ==
  ASSUME PInv, UNCHANGED outboxVars,
         status' \in [Event -> I!Status], message' \in [Event -> I!Message],
         pc' \in [Delivery \union Worker -> I!Label],
         ev' \in [Delivery \union Worker -> Event \union {NoEvent}],
         todo' \in [Worker -> SUBSET Event], handled' \in [Event -> Nat],
         Downstream'
  PROVE  PInv'
BY DEF PInv, Shape, Locks, Sent, Reached, O!Stored, outboxVars

LEMMA ArrivalKeeps ==
  ASSUME PInv, NEW e \in Event, Arrive(e) \/ Again(e) \/ Age(e)
  PROVE  PInv'
<1>1. UNCHANGED outboxVars /\ UNCHANGED <<status, pc, ev, todo, handled>>
  BY DEF Arrive, Again, Age, I!Publish, I!Republish, I!Age
<1>2. message' = message \/ (message' = [message EXCEPT ![e] = "ready"] /\ e \in sent)
  BY DEF Arrive, Again, Age, I!Publish, I!Republish, I!Age, OnBroker
<1>3. message' \in [Event -> I!Message]
  BY <1>2 DEF PInv, Shape, I!Message
<1>4. Downstream'
  BY <1>1, <1>2 DEF PInv, Shape, Downstream, outboxVars
<1> QED BY <1>1, <1>3, <1>4, InboxKeeps DEF PInv, Shape

LEMMA DeliverKeeps ==
  ASSUME PInv, NEW d \in Delivery, I!Deliver(d), UNCHANGED outboxVars
  PROVE  PInv'
<1> USE DEF PInv
<1>1. PICK e \in Event : message[e] = "ready" /\ message' = [message EXCEPT ![e] = d] /\ ev' = [ev EXCEPT ![d] = e]
  BY DEF I!Deliver
<1>2. UNCHANGED <<status, todo, handled>> /\ pc' = [pc EXCEPT ![d] = "look"]
  BY DEF I!Deliver, I!Goto
<1>3. message' \in [Event -> I!Message] /\ ev' \in [Delivery \union Worker -> Event \union {NoEvent}]
  BY <1>1 DEF Shape, I!Message
<1>4. pc' \in [Delivery \union Worker -> I!Label]
  BY <1>2 DEF Shape, I!Label
<1>5. e \in sent /\ sent' = sent
  BY <1>1 DEF Downstream, outboxVars
<1>6. ev'[d] = e /\ pc'[d] = "look" /\ \A th \in (Delivery \union Worker) \ {d} : ev'[th] = ev[th] /\ pc'[th] = pc[th]
  BY <1>1, <1>2 DEF Shape
<1>7. Downstream'
  <2>1. \A f \in Event : message'[f] # "unsent" => message[f] # "unsent" \/ f = e
    BY <1>1 DEF Shape
  <2> QED BY <1>2, <1>5, <1>6, <2>1 DEF Downstream
<1> QED BY <1>2, <1>3, <1>4, <1>7, InboxKeeps DEF Shape

(* What consume does to the row and the handler's effects of its event.     *)
LEMMA ConsumeShape ==
  ASSUME PInv, NEW th \in Delivery \union Worker, I!Consume(th)
  PROVE  /\ ev[th] \in sent /\ ev[th] \in Event /\ UNCHANGED todo
         /\ \/ status' = status
            \/ \E s \in I!Status \ {"absent"} : status' = [status EXCEPT ![ev[th]] = s]
         /\ \/ handled' = handled
            \/ handled' = [handled EXCEPT ![ev[th]] = handled[ev[th]] + 1] /\ status' = status
         /\ \/ I!Return(th)
            \/ \E l \in I!Label \ {"replay", "skip"} : I!Goto(th, l) /\ UNCHANGED <<ev, message>>
<1>1. ev[th] \in sent /\ ev[th] \in Event
  <2>1. pc[th] \in AtWork
    BY DEF I!Consume, I!Look, I!Write, I!Handle, I!Settle, AtWork
  <2> QED BY <2>1 DEF PInv, Downstream, Shape
<1>2. CASE I!Look(th)
  <2>1. "write" \in I!Label \ {"replay", "skip"}
    BY DEF I!Label
  <2> QED BY <1>1, <1>2, <2>1 DEF I!Look, I!counters
<1>3. CASE I!Write(th)
  <2>1. "handle" \in I!Label \ {"replay", "skip"} /\ "IN_PROGRESS" \in I!Status \ {"absent"}
    BY DEF I!Label, I!Status
  <2> QED BY <1>1, <1>3, <2>1 DEF I!Write, I!SetStatus, I!counters
<1>4. CASE I!Handle(th)
  <2>1. {"succeed", "fail", "reject"} \subseteq I!Label \ {"replay", "skip"}
    BY DEF I!Label
  <2> QED BY <1>1, <1>4, <2>1 DEF I!Handle
<1>5. CASE I!Settle(th)
  <2>1. I!Outcome(pc[th]) \in I!Status \ {"absent"}
    BY <1>5 DEF I!Settle, I!Outcome, I!Status, I!Terminal, I!Failed
  <2> QED BY <1>1, <1>5, <2>1 DEF I!Settle, I!SetStatus, I!counters
<1> QED BY <1>2, <1>3, <1>4, <1>5 DEF I!Consume

LEMMA ConsumeKeeps ==
  ASSUME PInv, NEW th \in Delivery \union Worker, I!Consume(th), UNCHANGED outboxVars
  PROVE  PInv'
<1> USE DEF PInv
<1>1. /\ ev[th] \in sent /\ ev[th] \in Event /\ UNCHANGED todo
      /\ \/ status' = status
         \/ \E s \in I!Status \ {"absent"} : status' = [status EXCEPT ![ev[th]] = s]
      /\ \/ handled' = handled
         \/ handled' = [handled EXCEPT ![ev[th]] = handled[ev[th]] + 1] /\ status' = status
      /\ \/ I!Return(th)
         \/ \E l \in I!Label \ {"replay", "skip"} : I!Goto(th, l) /\ UNCHANGED <<ev, message>>
  BY ConsumeShape
<1>2. status' \in [Event -> I!Status] /\ handled' \in [Event -> Nat] /\ todo' \in [Worker -> SUBSET Event]
  BY <1>1 DEF Shape
<1>3. \A e \in Event : status'[e] # "absent" => status[e] # "absent" \/ e = ev[th]
  BY <1>1 DEF Shape
<1>4. sent' = sent
  BY DEF outboxVars
<1>5. CASE I!Return(th)
  <2>1. pc' \in [Delivery \union Worker -> I!Label] /\ pc'[th] \in {"idle", "rows", "done"}
        /\ \A x \in (Delivery \union Worker) \ {th} : pc'[x] = pc[x] /\ ev'[x] = ev[x]
    BY <1>5 DEF I!Return, Shape, I!Label
  <2>2. ev' \in [Delivery \union Worker -> Event \union {NoEvent}]
    BY <1>5 DEF I!Return, Shape
  <2>3. message' \in [Event -> I!Message]
    BY <1>1, <1>5 DEF I!Return, Shape, I!Message
  <2>4. \A e \in Event : message'[e] # "unsent" => message[e] # "unsent" \/ e = ev[th]
    BY <1>1, <1>5 DEF I!Return, Shape
  <2>5. Downstream'
    BY <1>1, <1>3, <1>4, <2>1, <2>4 DEF Downstream, AtWork
  <2> QED BY <1>2, <2>1, <2>2, <2>3, <2>5, InboxKeeps
<1>6. CASE \E l \in I!Label \ {"replay", "skip"} : I!Goto(th, l) /\ UNCHANGED <<ev, message>>
  <2>1. PICK l \in I!Label \ {"replay", "skip"} : pc' = [pc EXCEPT ![th] = l]
    BY <1>6 DEF I!Goto
  <2>2. pc' \in [Delivery \union Worker -> I!Label] /\ pc'[th] = l
        /\ \A x \in (Delivery \union Worker) \ {th} : pc'[x] = pc[x]
    BY <2>1 DEF Shape
  <2>3. Downstream'
    BY <1>1, <1>3, <1>4, <1>6, <2>2 DEF Downstream
  <2> QED BY <1>2, <1>6, <2>2, <2>3, InboxKeeps DEF Shape
<1> QED BY <1>1, <1>5, <1>6

(* What a worker's reads and its recovery do to the rows. *)
LEMMA WorkerShape ==
  ASSUME PInv, NEW w \in Worker,
         I!RecoverRead(w) \/ I!RecoverRow(w) \/ I!ReplayRead(w) \/ I!ReplayRow(w)
  PROVE  /\ UNCHANGED <<message, handled>>
         /\ \/ status' = status
            \/ \E e \in todo[w] : status' = [status EXCEPT ![e] = "FAILED_RETRYABLE"]
         /\ \E S \in SUBSET sent : S \subseteq Event /\ todo' = [todo EXCEPT ![w] = S]
         /\ \/ UNCHANGED <<pc, ev>>
            \/ \E l \in {"queue", "rows"} : I!Goto(w, l) /\ ev' = ev
            \/ I!Goto(w, "look") /\ \E e \in todo[w] : ev' = [ev EXCEPT ![w] = e]
<1> USE DEF PInv
<1>0. todo[w] \subseteq Event /\ todo[w] \subseteq sent
  BY DEF Shape, Downstream
<1>1. CASE I!RecoverRead(w)
  <2>1. {e \in Event : I!Stale(e)} \subseteq sent
    BY DEF I!Stale, Downstream
  <2> QED BY <1>1, <2>1 DEF I!RecoverRead
<1>2. CASE I!ReplayRead(w)
  <2>1. {e \in Event : I!Due(e)} \subseteq sent
    BY DEF I!Due, Downstream
  <2> QED BY <1>2, <2>1 DEF I!ReplayRead
<1>3. CASE I!RecoverRow(w)
  <2> PICK e \in todo[w] : I!SetStatus(e, I!Recovered(e)) /\ todo' = [todo EXCEPT ![w] = todo[w] \ {e}]
    BY <1>3 DEF I!RecoverRow
  <2>1. I!Recovered(e) = "FAILED_RETRYABLE"
    BY <1>0 DEF I!Recovered
  <2> QED BY <1>0, <1>3, <2>1 DEF I!RecoverRow, I!SetStatus
<1>4. CASE I!ReplayRow(w)
  <2> PICK e \in todo[w] : /\ todo' = [todo EXCEPT ![w] = todo[w] \ {e}]
                           /\ ev' = [ev EXCEPT ![w] = e] /\ I!Goto(w, "look") /\ UNCHANGED status
    BY <1>0, <1>4 DEF I!ReplayRow
  <2> QED BY <1>0, <1>4 DEF I!ReplayRow
<1> QED BY <1>1, <1>2, <1>3, <1>4

LEMMA WorkerKeeps ==
  ASSUME PInv, NEW w \in Worker, UNCHANGED outboxVars,
         I!RecoverRead(w) \/ I!RecoverRow(w) \/ I!ReplayRead(w) \/ I!ReplayRow(w)
  PROVE  PInv'
<1> USE DEF PInv
<1>1. /\ UNCHANGED <<message, handled>>
      /\ \/ status' = status
         \/ \E e \in todo[w] : status' = [status EXCEPT ![e] = "FAILED_RETRYABLE"]
      /\ \E S \in SUBSET sent : S \subseteq Event /\ todo' = [todo EXCEPT ![w] = S]
      /\ \/ UNCHANGED <<pc, ev>>
         \/ \E l \in {"queue", "rows"} : I!Goto(w, l) /\ ev' = ev
         \/ I!Goto(w, "look") /\ \E e \in todo[w] : ev' = [ev EXCEPT ![w] = e]
  BY WorkerShape
<1>2. todo[w] \subseteq Event /\ todo[w] \subseteq sent /\ sent' = sent
  BY DEF Shape, Downstream, outboxVars
<1>3. status' \in [Event -> I!Status]
  BY <1>1 DEF Shape, I!Status, I!Failed
<1>4. todo' \in [Worker -> SUBSET Event] /\ \A x \in Worker : todo'[x] \subseteq sent
  <2> PICK S \in SUBSET sent : S \subseteq Event /\ todo' = [todo EXCEPT ![w] = S]
    BY <1>1
  <2> QED BY DEF Shape, Downstream
<1>5. pc' \in [Delivery \union Worker -> I!Label] /\ ev' \in [Delivery \union Worker -> Event \union {NoEvent}]
  <2>1. pc' = pc \/ \E l \in {"queue", "rows", "look"} : pc' = [pc EXCEPT ![w] = l]
    BY <1>1 DEF I!Goto
  <2>2. pc' \in [Delivery \union Worker -> I!Label]
    BY <2>1 DEF Shape, I!Label
  <2>3. ev' = ev \/ \E e \in todo[w] : ev' = [ev EXCEPT ![w] = e]
    BY <1>1
  <2>4. ev' \in [Delivery \union Worker -> Event \union {NoEvent}]
    BY <1>2, <2>3 DEF Shape
  <2> QED BY <2>2, <2>4
<1>6. \A e \in Event : status'[e] # "absent" => e \in sent
  BY <1>1, <1>2 DEF Downstream, Shape
<1>7. /\ (pc'[w] = pc[w] /\ ev'[w] = ev[w]) \/ pc'[w] \in {"queue", "rows"} \/ (pc'[w] = "look" /\ ev'[w] \in sent)
      /\ \A x \in (Delivery \union Worker) \ {w} : pc'[x] = pc[x] /\ ev'[x] = ev[x]
  <2>1. CASE I!Goto(w, "look") /\ \E e \in todo[w] : ev' = [ev EXCEPT ![w] = e]
    BY <1>2, <2>1 DEF Shape, I!Goto
  <2>2. CASE \E l \in {"queue", "rows"} : I!Goto(w, l) /\ ev' = ev
    BY <2>2 DEF Shape, I!Goto
  <2> QED BY <1>1, <2>1, <2>2
<1>8. Downstream'
  BY <1>1, <1>2, <1>4, <1>6, <1>7 DEF Downstream, AtWork
<1> QED BY <1>1, <1>3, <1>4, <1>5, <1>8, InboxKeeps DEF Shape

LEMMA CrashKeeps ==
  ASSUME PInv, NEW p \in Pod, Crash(p)
  PROVE  PInv'
<1> USE Threads DEF PInv
<1> DEFINE T == {t \in Tick : PublisherPod[t] = p}
<1>1. /\ faults' = faults + 1 /\ UNCHANGED <<created, row, status, handled>>
      /\ sent \subseteq sent'
  BY DEF Crash, O!Crash, I!Crash
<1>2. /\ outcome' = [t \in Tick |-> IF t \in T THEN O!NoBatch ELSE outcome[t]]
      /\ tickPc' = [t \in Tick |-> IF t \in T THEN "idle" ELSE tickPc[t]]
      /\ cur' = [t \in Tick |-> IF t \in T THEN NoEvent ELSE cur[t]]
  BY DEF Crash, O!Crash
<1>3. \A e \in sent' \ sent : e \in Event /\ O!Stored(e)
  <2>1. \A e \in sent' \ sent : \E t \in Tick : tickPc[t] = "send" /\ cur[t] = e
    BY DEF Crash, O!Crash
  <2>2. \A t \in Tick : tickPc[t] = "send" => cur[t] \in Event /\ O!Stored(cur[t])
    BY DEF Locks
  <2> QED BY <2>1, <2>2
<1>4. sent' \in SUBSET Event /\ outcome' \in [Tick -> [Event -> O!Outcome]]
      /\ tickPc' \in [Tick -> O!Label] /\ faults' \in Nat /\ Locks' /\ Sent'
  <2>1. T \in SUBSET Tick /\ cur' \in [Tick -> Event \union {NoEvent}] /\ \A t \in Tick \ T : cur'[t] = cur[t]
    BY <1>2 DEF Shape
  <2> HIDE DEF T
  <2> QED BY <1>1, <1>2, <1>3, <2>1, CutKeeps
<1>5. message' \in [Event -> I!Message] /\ \A e \in Event : message'[e] # "unsent" => message[e] # "unsent"
  BY ThreadAssumption DEF Crash, I!Crash, Shape, I!Message
<1>6. /\ pc' \in [Delivery \union Worker -> I!Label]
      /\ \A th \in Delivery \union Worker :
            pc'[th] \in {"boot", "idle"} \/ (pc'[th] = pc[th] /\ ev'[th] = ev[th])
  BY DEF Crash, I!Crash, I!Start, Shape, I!Label
<1>7. ev' \in [Delivery \union Worker -> Event \union {NoEvent}]
  BY DEF Crash, I!Crash, Shape
<1>8. todo' \in [Worker -> SUBSET Event] /\ \A w \in Worker : todo'[w] \subseteq todo[w]
  BY DEF Crash, I!Crash, Shape
<1>9. Shape'
  BY <1>1, <1>2, <1>4, <1>5, <1>6, <1>7, <1>8 DEF Shape
<1>10. Downstream'
  BY <1>1, <1>5, <1>6, <1>8 DEF Downstream, AtWork
<1> QED BY <1>4, <1>9, <1>10

LEMMA PInvNext == PInv /\ [Next]_vars => PInv'
<1> SUFFICES ASSUME PInv, [Next]_vars PROVE PInv'
  OBVIOUS
<1>1. CASE UNCHANGED vars
  BY <1>1 DEF PInv, Shape, Locks, Sent, Reached, Downstream, O!Stored, vars, outboxVars, inboxVars
<1>2. ASSUME NEW t \in Tick, PollStep(t) PROVE PInv'
  BY <1>2, BeginKeeps, PublishKeeps, CommitKeeps DEF PollStep, O!TickStep
<1>3. ASSUME NEW d \in Delivery, DeliveryStep(d) PROVE PInv'
  BY <1>3, DeliverKeeps, ConsumeKeeps DEF DeliveryStep, I!DeliveryStep
<1>4. ASSUME NEW w \in Worker, WorkerStep(w) PROVE PInv'
  BY <1>4, WorkerKeeps, ConsumeKeeps DEF WorkerStep, I!WorkerStep
<1> QED
  BY <1>1, <1>2, <1>3, <1>4, AbortKeeps, InsertKeeps, ArrivalKeeps, CrashKeeps DEF Next

LEMMA PInvHolds == Spec => []PInv
  BY PInvInit, PInvNext, PTL DEF Spec

(* Whatever is in the inbox is committed, and marked published unless the   *)
(* poll that sent it is still under way or something was cut short.         *)
THEOREM HalvesAgree == Spec => []InboxFollowsOutbox
<1>1. PInv => InboxFollowsOutbox
  <2> SUFFICES ASSUME PInv, NEW e \in Event, I!Stored(e)
               PROVE  O!Stored(e) /\ (row[e].published \/ O!Locked(e) \/ faults > 0)
    BY DEF InboxFollowsOutbox
  <2>1. e \in sent
    BY DEF PInv, Downstream, I!Stored
  <2>2. O!Stored(e) /\ Reached(e)
    BY <2>1 DEF PInv, Sent
  <2>3. (\E t \in Tick : outcome[t][e] = "published") => O!Locked(e)
    BY DEF O!Locked
  <2> QED BY <2>2, <2>3 DEF Reached
<1> QED BY <1>1, PInvHolds, PTL

-----------------------------------------------------------------------------
(* The promise *)

(* The row of one event, in one of the two tables, is all that changes.     *)
LEMMA OneRow ==
  ASSUME NEW e \in Event, O!Stored(e), UNCHANGED <<created, handled>>,
         \A f \in Event : f # e => row'[f] = row[f] /\ status'[f] = status[f]
  PROVE  [Abstract!Next]_Abstract!vars
<1>1. Committed' = Committed /\ e \in Committed
  BY DEF Committed, O!Stored
<1>2. \A f \in Event : f # e => (f \in Parked' <=> f \in Parked)
  BY DEF Parked, O!Stored
<1>3. Parked \subseteq Event /\ Parked' \subseteq Event
  BY DEF Parked
<1>4. CASE e \in Parked'
  <2>1. Parked' = Parked \union {e}
    BY <1>2, <1>3, <1>4
  <2>2. Abstract!Park({e})
    BY <1>1, <2>1 DEF Abstract!Park
  <2> QED BY <2>2 DEF Abstract!Next
<1>5. CASE e \notin Parked'
  <2>1. Parked' = Parked \ {e}
    BY <1>2, <1>3, <1>5
  <2>2. Abstract!Resume(e)
    BY <1>1, <2>1 DEF Abstract!Resume
  <2> QED BY <2>2 DEF Abstract!Next
<1> QED BY <1>4, <1>5

LEMMA Stutter ==
  ASSUME UNCHANGED <<created, row, status, handled>>
  PROVE  UNCHANGED Abstract!vars
<1>1. Committed' = Committed /\ Parked' = Parked
  BY DEF Committed, Parked, O!Stored
<1> QED BY <1>1 DEF Abstract!vars

LEMMA InsertCommits ==
  ASSUME PInv, NEW e \in Event, Insert(e)
  PROVE  [Abstract!Next]_Abstract!vars
<1> USE NumberAssumption DEF PInv
<1>1. UNCHANGED <<row, status, handled>> /\ ~O!Stored(e)
  BY DEF Insert, O!Insert, inboxVars
<1>2. \A f \in Event : f # e => created'[f] = created[f]
  BY DEF Insert, O!Insert, Shape
<1>3. \A f \in Event : f # e => (O!Stored(f)' <=> O!Stored(f))
  BY <1>2 DEF O!Stored
<1>4. ~(row[e].attempts >= MaxAttempts)
  BY <1>1 DEF Locks
<1>5. Parked' = Parked
  BY <1>1, <1>3, <1>4 DEF Parked
<1>6. CASE O!Stored(e)'
  <2>1. Committed' = Committed \union {e}
    BY <1>1, <1>3, <1>6 DEF Committed
  <2>2. Abstract!Commit(e)
    BY <1>1, <1>5, <2>1 DEF Abstract!Commit
  <2> QED BY <2>2 DEF Abstract!Next
<1>7. CASE ~O!Stored(e)'
  <2>1. Committed' = Committed
    BY <1>1, <1>3, <1>7 DEF Committed
  <2> QED BY <1>1, <1>5, <2>1 DEF Abstract!vars
<1> QED BY <1>6, <1>7

(* A committing poll gives up the rows that have had their last attempt.    *)
LEMMA CommitParks ==
  ASSUME PInv, NEW t \in Tick, O!TickCommit(t), UNCHANGED inboxVars
  PROVE  [Abstract!Next]_Abstract!vars
<1> USE NumberAssumption DEF PInv
<1>1. /\ row' = [e \in Event |-> O!Polled(row[e], outcome[t][e])]
      /\ UNCHANGED <<created, status, handled>>
  BY DEF O!TickCommit, inboxVars
<1>2. Committed' = Committed /\ \A e \in Event : O!Stored(e)' <=> O!Stored(e)
  BY <1>1 DEF Committed, O!Stored
<1>3. \A e \in Event : outcome[t][e] = "none" => row'[e] = row[e]
  BY <1>1 DEF O!Polled
<1>4. \A e \in Event : outcome[t][e] # "none" =>
         O!Stored(e) /\ ~(~row[e].published /\ row[e].attempts >= MaxAttempts)
  BY DEF Locks
<1>5. \A e \in Parked : e \in Parked'
  BY <1>1, <1>2, <1>3, <1>4 DEF Parked
<1>6. \A e \in Parked' : e \in Parked \/ e \in Committed
  BY <1>1, <1>2 DEF Parked, Committed
<1> DEFINE S == Parked' \ Parked
<1>7. S \subseteq Committed /\ Parked' = Parked \union S
  BY <1>5, <1>6
<1>8. S \in SUBSET Event
  BY DEF Parked
<1> HIDE DEF S
<1>9. Abstract!Park(S)
  BY <1>1, <1>2, <1>7 DEF Abstract!Park
<1> QED BY <1>8, <1>9 DEF Abstract!Next

LEMMA ConsumeTakes ==
  ASSUME PInv, NEW th \in Delivery \union Worker, I!Consume(th), UNCHANGED outboxVars
  PROVE  [Abstract!Next]_Abstract!vars
<1> USE DEF PInv
<1>1. /\ ev[th] \in sent /\ ev[th] \in Event
      /\ \/ status' = status
         \/ \E s \in I!Status \ {"absent"} : status' = [status EXCEPT ![ev[th]] = s]
      /\ \/ handled' = handled
         \/ handled' = [handled EXCEPT ![ev[th]] = handled[ev[th]] + 1] /\ status' = status
  BY ConsumeShape
<1>2. O!Stored(ev[th]) /\ UNCHANGED <<created, row>>
  BY <1>1 DEF Sent, outboxVars
<1>3. CASE handled' = handled
  <2>1. \A f \in Event : f # ev[th] => row'[f] = row[f] /\ status'[f] = status[f]
    BY <1>1, <1>2 DEF Shape
  <2> QED BY <1>1, <1>2, <1>3, <2>1, OneRow
<1>4. CASE handled' = [handled EXCEPT ![ev[th]] = handled[ev[th]] + 1] /\ status' = status
  <2>1. Committed' = Committed /\ Parked' = Parked /\ ev[th] \in Committed
    BY <1>1, <1>2, <1>4 DEF Committed, Parked, O!Stored
  <2>2. Abstract!Take(ev[th])
    BY <1>4, <2>1 DEF Abstract!Take
  <2> QED BY <1>1, <2>2 DEF Abstract!Next
<1> QED BY <1>1, <1>3, <1>4

LEMMA WorkerResumes ==
  ASSUME PInv, NEW w \in Worker, UNCHANGED outboxVars,
         I!RecoverRead(w) \/ I!RecoverRow(w) \/ I!ReplayRead(w) \/ I!ReplayRow(w)
  PROVE  [Abstract!Next]_Abstract!vars
<1> USE DEF PInv
<1>1. UNCHANGED <<created, row, handled>>
  BY WorkerShape DEF outboxVars
<1>2. CASE status' = status
  BY <1>1, <1>2, Stutter
<1>3. CASE \E e \in todo[w] : status' = [status EXCEPT ![e] = "FAILED_RETRYABLE"]
  <2> PICK e \in todo[w] : status' = [status EXCEPT ![e] = "FAILED_RETRYABLE"]
    BY <1>3
  <2>1. e \in Event /\ O!Stored(e)
    BY DEF Shape, Downstream, Sent
  <2>2. \A f \in Event : f # e => row'[f] = row[f] /\ status'[f] = status[f]
    BY <1>1 DEF Shape
  <2> QED BY <1>1, <2>1, <2>2, OneRow
<1> QED BY <1>2, <1>3, WorkerShape

LEMMA PromiseNext == PInv /\ [Next]_vars => [Abstract!Next]_Abstract!vars
<1> SUFFICES ASSUME PInv, [Next]_vars PROVE [Abstract!Next]_Abstract!vars
  OBVIOUS
<1>1. CASE UNCHANGED vars
  BY <1>1, Stutter DEF vars, outboxVars, inboxVars
<1>2. ASSUME NEW t \in Tick, PollStep(t) PROVE [Abstract!Next]_Abstract!vars
  <2>1. CASE O!TickCommit(t)
    BY <1>2, <2>1, CommitParks DEF PollStep
  <2>2. CASE O!TickBegin(t) \/ O!TickPublish(t) \/ O!TickSent(t)
    <3>1. UNCHANGED <<created, row, status, handled>>
      BY <1>2, <2>2 DEF PollStep, O!TickBegin, O!TickPublish, O!TickSent, inboxVars
    <3> QED BY <3>1, Stutter
  <2> QED BY <1>2, <2>1, <2>2 DEF PollStep, O!TickStep
<1>3. ASSUME NEW t \in Tick, PollAbort(t) PROVE UNCHANGED Abstract!vars
  <2>1. UNCHANGED <<created, row, status, handled>>
    BY <1>3 DEF PollAbort, O!TickAbort, inboxVars
  <2> QED BY <2>1, Stutter
<1>4. ASSUME NEW e \in Event, Arrive(e) \/ Again(e) \/ Age(e) PROVE UNCHANGED Abstract!vars
  <2>1. UNCHANGED <<created, row, status, handled>>
    BY <1>4 DEF Arrive, Again, Age, I!Publish, I!Republish, I!Age, outboxVars
  <2> QED BY <2>1, Stutter
<1>5. ASSUME NEW d \in Delivery, DeliveryStep(d) PROVE [Abstract!Next]_Abstract!vars
  <2>1. CASE I!Deliver(d)
    <3>1. UNCHANGED <<created, row, status, handled>>
      BY <1>5, <2>1 DEF DeliveryStep, I!Deliver, outboxVars
    <3> QED BY <3>1, Stutter
  <2> QED BY <1>5, <2>1, ConsumeTakes DEF DeliveryStep, I!DeliveryStep
<1>6. ASSUME NEW w \in Worker, WorkerStep(w) PROVE [Abstract!Next]_Abstract!vars
  BY <1>6, WorkerResumes, ConsumeTakes DEF WorkerStep, I!WorkerStep
<1>7. ASSUME NEW p \in Pod, Crash(p) PROVE UNCHANGED Abstract!vars
  <2>1. UNCHANGED <<created, row, status, handled>>
    BY <1>7 DEF Crash, O!Crash, I!Crash
  <2> QED BY <2>1, Stutter
<1> QED
  BY <1>1, <1>2, <1>3, <1>4, <1>5, <1>6, <1>7, InsertCommits DEF Next

LEMMA PromiseInit == Init => Abstract!Init
<1> SUFFICES ASSUME Init PROVE Abstract!Init
  OBVIOUS
<1>1. \A e \in Event : ~O!Stored(e) /\ status[e] = "absent"
  BY DEF Init, O!Init, I!Init, O!Stored
<1>2. Committed = {} /\ Parked = {}
  BY <1>1 DEF Committed, Parked
<1>3. handled = [e \in Event |-> 0]
  BY DEF Init, I!Init
<1> QED BY <1>2, <1>3 DEF Abstract!Init

(* The event spine implements the safety part of its promise: nothing is    *)
(* handled that was not committed, and what is given up is given up where   *)
(* an operator sees it.                                                     *)
THEOREM ImplementsPromise == Spec => Abstract!Init /\ [][Abstract!Next]_(Abstract!vars)
<1>1. Spec => []PInv
  BY PInvHolds
<1>2. Spec => Abstract!Init
  BY PromiseInit DEF Spec
<1>3. [][Next]_vars /\ []PInv => [][Abstract!Next]_(Abstract!vars)
  BY PromiseNext, PTL
<1> QED BY <1>1, <1>2, <1>3, PTL DEF Spec
=============================================================================
