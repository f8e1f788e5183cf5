------------------------ MODULE OutboxDelivery_proofs ------------------------
(***************************************************************************)
(* Theorems about OutboxDelivery for every number of processes, polls,     *)
(* requests and rows: type correctness, at most one hand-over of an event  *)
(* per process lifetime, that only a broken or unfinished send can make a  *)
(* row published without its event, that only a retry of the very row      *)
(* brings a skipped row back within the publisher's reach, and that a      *)
(* publication is final.                                                   *)
(***************************************************************************)
EXTENDS OutboxDelivery, FiniteSetTheorems, TLAPS

(* Event e is on the broker, or a send of it broke or is under way. *)
Handled(e) == e \in sent \/ e \in broken \/ InFlight(e)

(* A thread that deals with one event has one. *)
CurOK ==
    \A th \in Thread :
        pc[th] = "send" \/ (th \notin Tick /\ pc[th] \notin {"idle", "done"}) => cur[th] \in Event

TypeInv == TypeOK /\ CurOK

(* What a process handed over is in its memory. *)
SendsOK ==
    \A p \in Pod, e \in Event : sends[p][e] <= 1 /\ (e \notin memo[p] => sends[p][e] = 0)

(* Every place that says "published" says it of a handled event: the memory *)
(* of a process, the open transaction of a poll, a retry about to mark its  *)
(* row, and the row.                                                        *)
MemoOK    == \A p \in Pod : \A e \in memo[p] : Handled(e)
OutcomeOK == \A t \in Tick, e \in Event : outcome[t][e] = "published" => Handled(e)
MarkOK    == \A r \in RetryReq : pc[r] = "mark" => Handled(cur[r])
RowOK     == \A e \in Event : row[e].published => Handled(e)

HandledInv == MemoOK /\ OutcomeOK /\ MarkOK /\ RowOK

-----------------------------------------------------------------------------
LEMMA TypeInit == Init => TypeInv
  BY ThreadAssumption DEF Init, TypeInv, TypeOK, CurOK, Row, Outcome, Label, NewRow, NoBatch, Thread

LEMMA InsertType == ASSUME TypeInv, NEW e \in Event, Insert(e) PROVE TypeInv'
<1>1. Cardinality({f \in Event : Stored(f)}) \in Nat
  BY EventAssumption, FS_Subset, FS_CardinalityType
<1> QED
  BY <1>1 DEF Insert, TypeInv, TypeOK, CurOK, busVars

LEMMA PolledType == ASSUME NEW r \in Row, NEW o \in Outcome PROVE Polled(r, o) \in Row
<1>1. CASE o = "published"
  BY <1>1 DEF Polled, Row
<1>2. CASE o = "failed"
  BY <1>2 DEF Polled, Row
<1>3. CASE o # "published" /\ o # "failed"
  BY <1>3 DEF Polled
<1> QED BY <1>1, <1>2, <1>3

LEMMA SkippedType == ASSUME NEW r \in Row, NEW n \in Nat PROVE Skipped(r, n) \in Row
<1> DEFINE m == IF n > MaxAttempts THEN n ELSE MaxAttempts
<1>1. m \in Nat
  BY NumberAssumption
<1> QED BY <1>1 DEF Skipped, Row

LEMMA HandType ==
  ASSUME TypeInv, NEW p \in Pod, NEW e \in Event, Hand(p, e)
  PROVE  memo' \in [Pod -> SUBSET Event] /\ sends' \in [Pod -> [Event -> Nat]]
<1>1. sends[p][e] + 1 \in Nat
  BY DEF TypeInv, TypeOK
<1>2. [sends[p] EXCEPT ![e] = @ + 1] \in [Event -> Nat]
  BY <1>1 DEF TypeInv, TypeOK
<1> QED
  BY <1>2 DEF Hand, TypeInv, TypeOK

LEMMA TickType == ASSUME TypeInv, NEW t \in Tick, TickStep(t) \/ TickAbort(t) PROVE TypeInv'
<1> t \in Thread
  BY DEF Thread
<1>1. CASE TickBegin(t)
  BY <1>1 DEF TickBegin, TypeInv, TypeOK, CurOK, busVars, Outcome, Label
<1>2. CASE TickPublish(t)
  <2> PICK e \in Event : TickPoison(t, e) \/ TickDuplicate(t, e) \/ TickSend(t, e)
    BY <1>2 DEF TickPublish
  <2>1. CASE TickPoison(t, e)
    BY <1>2, <2>1 DEF TickPublish, TickPoison, TypeInv, TypeOK, CurOK, busVars, Outcome
  <2>2. CASE TickDuplicate(t, e)
    BY <1>2, <2>2 DEF TickPublish, TickDuplicate, TypeInv, TypeOK, CurOK, busVars, Outcome
  <2>3. CASE TickSend(t, e)
    <3>1. memo' \in [Pod -> SUBSET Event] /\ sends' \in [Pod -> [Event -> Nat]]
      BY <2>3, HandType, PodAssumption DEF TickSend, TypeInv
    <3>2. TypeOK'
      BY <1>2, <2>3, <3>1 DEF TickPublish, TickSend, Hand, TypeInv, TypeOK, Label
    <3>3. CurOK'
      BY <1>2, <2>3 DEF TickPublish, TickSend, TypeInv, TypeOK, CurOK
    <3> QED BY <3>2, <3>3 DEF TypeInv
  <2> QED BY <2>1, <2>2, <2>3
<1>3. CASE TickSent(t)
  <2> cur[t] \in Event
    BY <1>3 DEF TickSent, TypeInv, CurOK
  <2> QED
    <3>1. /\ sent' \in SUBSET Event /\ broken' \in SUBSET Event
          /\ UNCHANGED <<memo, sends>>
      BY <1>3 DEF TickSent, BrokerAccepts, BrokerRejects, TypeInv, TypeOK
    <3>o. PICK o \in Outcome : outcome' = [outcome EXCEPT ![t][cur[t]] = o]
      BY <1>3 DEF TickSent, Outcome
    <3>b. [outcome[t] EXCEPT ![cur[t]] = o] \in [Event -> Outcome]
      BY DEF TypeInv, TypeOK
    <3>c. outcome' \in [Tick -> [Event -> Outcome]]
      BY <3>o, <3>b DEF TypeInv, TypeOK
    <3>2. TypeOK'
      BY <1>3, <3>1, <3>c DEF TickSent, TypeInv, TypeOK, Label
    <3>3. CurOK'
      BY <1>3 DEF TickSent, TypeInv, TypeOK, CurOK
    <3> QED BY <3>2, <3>3 DEF TypeInv
<1>4. CASE TickCommit(t)
  <2> ASSUME NEW r \in Row, NEW o \in Outcome PROVE Polled(r, o) \in Row
    BY PolledType
  <2> row' \in [Event -> Row]
    BY <1>4 DEF TickCommit, TypeInv, TypeOK
  <2> QED
    BY <1>4 DEF TickCommit, TypeInv, TypeOK, CurOK, busVars, NoBatch, Outcome, Label
<1>5. CASE TickAbort(t)
  BY <1>5 DEF TickAbort, TypeInv, TypeOK, CurOK, busVars, NoBatch, Outcome, Label
<1> QED
  BY <1>1, <1>2, <1>3, <1>4, <1>5 DEF TickStep

LEMMA FinishType ==
  ASSUME TypeInv, NEW r \in RetryReq \union SkipReq, Finish(r)
  PROVE  /\ pc' \in [Thread -> Label]
         /\ cur' \in [Thread -> Event \union {NoEvent}]
         /\ snap' \in [RetryReq \union SkipReq -> Nat]
<1>1. pc' \in [Thread -> Label]
  BY DEF Finish, TypeInv, TypeOK, Label
<1>2. cur' \in [Thread -> Event \union {NoEvent}]
  BY DEF Finish, TypeInv, TypeOK
<1>3. snap' \in [RetryReq \union SkipReq -> Nat]
  BY DEF Finish, TypeInv, TypeOK
<1> QED BY <1>1, <1>2, <1>3

LEMMA RequestType ==
  ASSUME TypeInv, NEW r \in RetryReq \union SkipReq,
         (r \in RetryReq /\ RetryStep(r)) \/ (r \in SkipReq /\ SkipStep(r)) \/ RequestFault(r)
  PROVE  TypeInv'
<1> r \in Thread /\ r \notin Tick
  BY ThreadAssumption DEF Thread
<1>1. CASE RetryRead(r)
  BY <1>1 DEF RetryRead, TypeInv, TypeOK, CurOK, busVars, Label
<1>2. CASE RetryReset(r)
  BY <1>2 DEF RetryReset, TypeInv, TypeOK, CurOK, busVars, Label, Row
<1>3. CASE RetrySelect(r)
  <2> cur[r] \in Event
    BY <1>3 DEF RetrySelect, TypeInv, CurOK
  <2> row[cur[r]].attempts \in Nat
    BY DEF TypeInv, TypeOK, Row
  <2> QED
    <3>1. TypeOK'
      <4>1. CASE row[cur[r]].published
        BY <1>3, <4>1, FinishType DEF RetrySelect, TypeInv, TypeOK, busVars
      <4>2. CASE ~row[cur[r]].published
        BY <1>3, <4>2 DEF RetrySelect, TypeInv, TypeOK, busVars, Label
      <4> QED BY <4>1, <4>2
    <3>2. CurOK'
      BY <1>3 DEF RetrySelect, Finish, TypeInv, TypeOK, CurOK
    <3> QED BY <3>1, <3>2 DEF TypeInv
<1>4. CASE RetryPublish(r)
  <2> cur[r] \in Event
    BY <1>4 DEF RetryPublish, TypeInv, CurOK
  <2> QED
    <3>1. memo' \in [Pod -> SUBSET Event] /\ sends' \in [Pod -> [Event -> Nat]]
      BY <1>4, HandType, PodAssumption DEF RetryPublish, busVars, TypeInv, TypeOK
    <3>2. sent' = sent /\ broken' = broken
      BY <1>4 DEF RetryPublish, Hand, busVars
    <3>3. TypeOK'
      BY <1>4, <3>1, <3>2 DEF RetryPublish, TypeInv, TypeOK, Label
    <3>4. CurOK'
      BY <1>4 DEF RetryPublish, TypeInv, TypeOK, CurOK
    <3> QED BY <3>3, <3>4 DEF TypeInv
<1>5. CASE RetrySent(r)
  <2> cur[r] \in Event
    BY <1>5 DEF RetrySent, TypeInv, CurOK
  <2> QED
    BY <1>5 DEF RetrySent, BrokerAccepts, BrokerRejects, TypeInv, TypeOK, CurOK, Label
<1>6. CASE RetryWrite(r)
  <2>1. cur[r] \in Event
    BY <1>6 DEF RetryWrite, TypeInv, CurOK
  <2>2. snap[r] + 1 \in Nat
    BY DEF TypeInv, TypeOK
  <2>3. row' \in [Event -> Row]
    <3>1. \/ row' = [row EXCEPT ![cur[r]].published = TRUE]
          \/ row' = [row EXCEPT ![cur[r]].attempts = snap[r] + 1]
      BY <1>6 DEF RetryWrite
    <3>2. row[cur[r]] \in Row
      BY <2>1 DEF TypeInv, TypeOK
    <3>3. [row[cur[r]] EXCEPT !.published = TRUE] \in Row
      BY <3>2 DEF Row
    <3>4. [row[cur[r]] EXCEPT !.attempts = snap[r] + 1] \in Row
      BY <2>2, <3>2 DEF Row
    <3> QED BY <2>1, <3>1, <3>3, <3>4 DEF TypeInv, TypeOK
  <2>4. TypeOK'
    BY <1>6, <2>3 DEF RetryWrite, Finish, TypeInv, TypeOK, busVars, Label
  <2>5. CurOK'
    BY <1>6 DEF RetryWrite, Finish, TypeInv, TypeOK, CurOK
  <2> QED BY <2>4, <2>5 DEF TypeInv
<1>7. CASE SkipRead(r)
  BY <1>7 DEF SkipRead, TypeInv, TypeOK, CurOK, busVars, Label, Row
<1>8. CASE SkipWrite(r)
  <2> Skipped(row[cur[r]], snap[r]) \in Row
    <3> cur[r] \in Event
      BY <1>8 DEF SkipWrite, TypeInv, CurOK
    <3> QED
      BY SkippedType DEF TypeInv, TypeOK
  <2> QED
    BY <1>8 DEF SkipWrite, Finish, TypeInv, TypeOK, CurOK, busVars, Label
<1>9. CASE RequestFault(r)
  <2>1. TypeOK'
    <3>1. /\ pc' \in [Thread -> Label] /\ cur' \in [Thread -> Event \union {NoEvent}]
          /\ snap' \in [RetryReq \union SkipReq -> Nat] /\ faults' \in Nat
      <4>1. CASE pc[r] = "mark"
        BY <1>9, <4>1 DEF RequestFault, TypeInv, TypeOK, Label
      <4>2. CASE pc[r] # "mark"
        BY <1>9, <4>2, FinishType DEF RequestFault, TypeInv, TypeOK
      <4> QED BY <4>1, <4>2
    <3> QED BY <1>9, <3>1 DEF RequestFault, TypeInv, TypeOK, busVars
  <2>2. CurOK'
    BY <1>9 DEF RequestFault, Finish, TypeInv, TypeOK, CurOK
  <2> QED BY <2>1, <2>2 DEF TypeInv
<1> QED
  BY <1>1, <1>2, <1>3, <1>4, <1>5, <1>6, <1>7, <1>8, <1>9 DEF RetryStep, SkipStep

LEMMA CrashType == ASSUME TypeInv, NEW p \in Pod, Crash(p) PROVE TypeInv'
<1> DEFINE mine     == {th \in Thread : PodOf[th] = p}
           inFlight == {cur[th] : th \in {x \in mine : pc[x] = "send"}}
<1>1. inFlight \subseteq Event
  BY DEF TypeInv, CurOK
<1>2. sent' \in SUBSET Event /\ broken' \in SUBSET Event
  BY <1>1 DEF Crash, TypeInv, TypeOK
<1>3. outcome' \in [Tick -> [Event -> Outcome]]
  BY DEF Crash, TypeInv, TypeOK, NoBatch, Outcome
<1>4. /\ pc' \in [Thread -> Label]
      /\ cur' \in [Thread -> Event \union {NoEvent}]
      /\ snap' \in [RetryReq \union SkipReq -> Nat]
  BY DEF Crash, TypeInv, TypeOK, Label
<1>5. memo' \in [Pod -> SUBSET Event] /\ sends' \in [Pod -> [Event -> Nat]]
  BY DEF Crash, Forgotten, TypeInv, TypeOK
<1>6. CurOK'
  BY <1>4 DEF Crash, TypeInv, CurOK, TypeOK
<1> QED
  BY <1>2, <1>3, <1>4, <1>5, <1>6 DEF Crash, TypeInv, TypeOK

LEMMA TypeStep == TypeInv /\ [Next]_vars => TypeInv'
<1> SUFFICES ASSUME TypeInv, [Next]_vars PROVE TypeInv'
  OBVIOUS
<1>1. CASE UNCHANGED vars
  BY <1>1 DEF vars, TypeInv, TypeOK, CurOK
<1>2. CASE Next
  BY <1>2, InsertType, TickType, RequestType, CrashType DEF Next
<1> QED
  BY <1>1, <1>2

(* Type correctness of the outbox, its pollers, the operator's requests and *)
(* the bus.                                                                 *)
THEOREM TypeCorrect == Spec => []TypeOK
<1>1. TypeInv => TypeOK
  BY DEF TypeInv
<1> QED
  BY <1>1, TypeInit, TypeStep, PTL DEF Spec

-----------------------------------------------------------------------------
(* At most one hand-over *)

LEMMA HandSends ==
  ASSUME TypeInv, SendsOK, NEW p \in Pod, NEW e \in Event, e \notin memo[p], Hand(p, e)
  PROVE  SendsOK'
<1> SUFFICES ASSUME NEW q \in Pod, NEW f \in Event
             PROVE  sends'[q][f] <= 1 /\ (f \notin memo'[q] => sends'[q][f] = 0)
  BY DEF SendsOK
<1>1. sends[q][f] \in Nat /\ sends[p][e] = 0
  BY DEF TypeInv, TypeOK, SendsOK
<1>2. CASE q = p /\ f = e
  <2>1. sends'[q][f] = 1 /\ f \in memo'[q]
    BY <1>1, <1>2 DEF Hand, TypeInv, TypeOK
  <2> QED BY <2>1
<1>3. CASE ~(q = p /\ f = e)
  <2>1. sends'[q][f] = sends[q][f] /\ (f \notin memo'[q] => f \notin memo[q])
    BY <1>3 DEF Hand, TypeInv, TypeOK
  <2> QED BY <2>1 DEF SendsOK
<1> QED BY <1>2, <1>3

LEMMA SendsStep == TypeInv /\ SendsOK /\ [Next]_vars => SendsOK'
<1> SUFFICES ASSUME TypeInv, SendsOK, [Next]_vars PROVE SendsOK'
  OBVIOUS
<1>1. CASE UNCHANGED <<memo, sends>>
  BY <1>1 DEF SendsOK
<1>2. CASE \E t \in Tick : TickPublish(t)
  <2> PICK t \in Tick : TickPublish(t)
    BY <1>2
  <2> PICK e \in Event : TickPoison(t, e) \/ TickDuplicate(t, e) \/ TickSend(t, e)
    BY DEF TickPublish
  <2>1. CASE TickSend(t, e)
    BY <2>1, HandSends, PodAssumption DEF TickSend, Duplicate, Thread
  <2> QED
    BY <2>1, <1>1 DEF TickPoison, TickDuplicate, busVars
<1>3. CASE \E r \in RetryReq : RetryPublish(r)
  <2> PICK r \in RetryReq : RetryPublish(r)
    BY <1>3
  <2>1. PodOf[r] \in Pod /\ cur[r] \in Event
    BY PodAssumption, ThreadAssumption DEF Thread, RetryPublish, TypeInv, CurOK
  <2>2. CASE Hand(PodOf[r], cur[r]) /\ ~Duplicate(PodOf[r], cur[r])
    BY <2>1, <2>2, HandSends DEF Duplicate
  <2> QED
    BY <2>2, <1>1 DEF RetryPublish, busVars
<1>4. CASE \E p \in Pod : Crash(p)
  <2> PICK p \in Pod : Crash(p)
    BY <1>4
  <2>1. memo' = [memo EXCEPT ![p] = {}]
    BY DEF Crash, Forgotten
  <2>2. PICK fresh : /\ sends' = [sends EXCEPT ![p] = fresh]
                     /\ \A e \in Event : fresh[e] = 0
    <3>1. sends' = [sends EXCEPT ![p] = [e \in Event |-> 0]]
      BY DEF Crash
    <3>2. \A f \in Event : [e \in Event |-> 0][f] = 0
      OBVIOUS
    <3> QED BY <3>1, <3>2, Zenon
  <2>3. memo \in [Pod -> SUBSET Event] /\ sends \in [Pod -> [Event -> Nat]]
    BY DEF TypeInv, TypeOK
  <2>4. ASSUME NEW q \in Pod, NEW e \in Event
        PROVE  sends'[q][e] <= 1 /\ (e \notin memo'[q] => sends'[q][e] = 0)
    <3>1. CASE q = p
      BY <2>2, <2>3, <3>1
    <3>2. CASE q # p
      <4>1. sends[q][e] <= 1 /\ (e \notin memo[q] => sends[q][e] = 0)
        BY DEF SendsOK
      <4>2. sends'[q] = sends[q]
        BY <2>2, <2>3, <3>2, Zenon
      <4>3. memo'[q] = memo[q]
        BY <2>1, <2>3, <3>2, Zenon
      <4> QED BY <4>1, <4>2, <4>3, Zenon
    <3> QED BY <3>1, <3>2
  <2> QED
    BY <2>4 DEF SendsOK
<1>5. Next => \/ UNCHANGED <<memo, sends>>
              \/ \E t \in Tick : TickPublish(t)
              \/ \E r \in RetryReq : RetryPublish(r)
              \/ \E p \in Pod : Crash(p)
  BY Zenon DEF Next, busVars, Insert, TickStep, TickBegin, TickSent, TickCommit, TickAbort, BrokerAccepts,
         BrokerRejects, RetryStep, RetryRead, RetryReset, RetrySelect, RetrySent, RetryWrite,
         SkipStep, SkipRead, SkipWrite, RequestFault
<1> QED
  BY <1>1, <1>2, <1>3, <1>4, <1>5 DEF vars

(* A process hands an event to its producer at most once in its lifetime.   *)
THEOREM SendsAtMostOnce == Spec => []OneSendPerProcess
<1>1. Init => SendsOK
  BY DEF Init, SendsOK
<1>2. SendsOK => OneSendPerProcess
  BY DEF SendsOK, OneSendPerProcess
<1> QED
  BY <1>1, <1>2, TypeInit, TypeStep, SendsStep, PTL DEF Spec

-----------------------------------------------------------------------------
(* Nothing is lost but by a broken send *)

(* A handled event stays handled: a send that is under way ends in sent or  *)
(* in broken.                                                               *)
LEMMA HandledStays ==
  ASSUME TypeInv, [Next]_vars, NEW e \in Event, Handled(e)
  PROVE  Handled(e)'
<1>1. CASE e \in sent' \/ e \in broken'
  BY <1>1 DEF Handled
<1> SUFFICES ASSUME e \notin sent', e \notin broken' PROVE InFlight(e)'
  BY <1>1 DEF Handled
<1>2. sent \subseteq sent' /\ broken \subseteq broken'
  <2>1. CASE \E t \in Tick : TickStep(t)
    BY <2>1 DEF TickStep, TickBegin, TickPublish, TickPoison, TickDuplicate, TickSend, Hand, TickSent,
                TickCommit, BrokerAccepts, BrokerRejects, busVars
  <2>2. CASE \E r \in RetryReq : RetryStep(r)
    BY <2>2 DEF RetryStep, RetryRead, RetryReset, RetrySelect, RetryPublish, RetrySent, RetryWrite,
                Hand, BrokerAccepts, BrokerRejects, busVars
  <2>3. Next => \/ UNCHANGED <<sent, broken>>
                \/ \E t \in Tick : TickStep(t)
                \/ \E r \in RetryReq : RetryStep(r)
                \/ \E p \in Pod : Crash(p)
    BY DEF Next, busVars, Insert, TickAbort, SkipStep, SkipRead, SkipWrite, RequestFault
  <2>4. (\E p \in Pod : Crash(p)) => broken \subseteq broken' /\ sent \subseteq sent'
    BY DEF Crash
  <2> QED
    BY <2>1, <2>2, <2>3, <2>4 DEF vars
<1> PICK th \in Thread : pc[th] = "send" /\ cur[th] = e
  BY <1>2 DEF Handled, InFlight
<1> SUFFICES pc'[th] = "send" /\ cur'[th] = e
  BY DEF InFlight
<1>3. CASE UNCHANGED <<pc, cur>>
  BY <1>3
<1>4. CASE \E t \in Tick : TickStep(t) \/ TickAbort(t)
  <2> PICK t \in Tick : TickStep(t) \/ TickAbort(t)
    BY <1>4
  <2>1. t # th
    BY DEF TickStep, TickBegin, TickPublish, TickSent, TickCommit, TickAbort, BrokerAccepts, BrokerRejects
  <2> QED
    BY <2>1 DEF TickStep, TickBegin, TickPublish, TickPoison, TickDuplicate, TickSend, TickSent,
                TickCommit, TickAbort, TypeInv, TypeOK
<1>5. CASE \E r \in RetryReq : RetryStep(r)
  <2> PICK r \in RetryReq : RetryStep(r)
    BY <1>5
  <2>1. r # th
    BY DEF RetryStep, RetryRead, RetryReset, RetrySelect, RetryPublish, RetrySent, RetryWrite,
           BrokerAccepts, BrokerRejects
  <2> QED
    BY <2>1 DEF RetryStep, RetryRead, RetryReset, RetrySelect, RetryPublish, RetrySent, RetryWrite,
                Finish, TypeInv, TypeOK
<1>6. CASE \E k \in SkipReq : SkipStep(k)
  BY <1>6 DEF SkipStep, SkipRead, SkipWrite, Finish, TypeInv, TypeOK
<1>7. CASE \E r \in RetryReq \union SkipReq : RequestFault(r)
  BY <1>7 DEF RequestFault, Finish, TypeInv, TypeOK
<1>8. CASE \E p \in Pod : Crash(p)
  <2> PICK p \in Pod : Crash(p)
    BY <1>8
  <2>1. PodOf[th] # p
    BY DEF Crash
  <2> QED
    BY <2>1 DEF Crash
<1> QED
  BY <1>3, <1>4, <1>5, <1>6, <1>7, <1>8 DEF Next, vars, Insert

(* Handing an event over puts a send of it under way. *)
LEMMA HandedIsHandled ==
  ASSUME TypeInv, NEW th \in Thread, NEW e \in Event, pc'[th] = "send", cur'[th] = e
  PROVE  Handled(e)'
BY DEF Handled, InFlight

LEMMA HandMemo ==
  ASSUME TypeInv, NEW p \in Pod, NEW q \in Pod, NEW f \in Event, Hand(q, f),
         NEW e \in memo'[p], e \notin memo[p]
  PROVE  e = f
BY DEF Hand, TypeInv, TypeOK

LEMMA MemoStep == TypeInv /\ MemoOK /\ [Next]_vars => MemoOK'
<1> SUFFICES ASSUME TypeInv, MemoOK, [Next]_vars, NEW p \in Pod, NEW e \in memo'[p]
             PROVE  Handled(e)'
  BY DEF MemoOK
<1>1. CASE e \in memo[p]
  <2>1. e \in Event /\ Handled(e)
    BY <1>1 DEF MemoOK, TypeInv, TypeOK
  <2> QED BY <2>1, HandledStays
<1>2. CASE e \notin memo[p]
  <2>1. CASE \E t \in Tick : TickPublish(t)
    <3> PICK t \in Tick : TickPublish(t)
      BY <2>1
    <3> PICK f \in Event : TickPoison(t, f) \/ TickDuplicate(t, f) \/ TickSend(t, f)
      BY DEF TickPublish
    <3>0. TickSend(t, f) /\ PodOf[t] \in Pod
      BY <1>2, PodAssumption DEF TickPoison, TickDuplicate, busVars, Thread
    <3>1. TickSend(t, f) /\ e = f
      BY <1>2, <3>0, HandMemo DEF TickSend
    <3>2. t \in Thread /\ pc'[t] = "send" /\ cur'[t] = e
      BY <3>1 DEF TickSend, TypeInv, TypeOK, Thread
    <3> QED BY <3>1, <3>2, HandedIsHandled
  <2>2. CASE \E r \in RetryReq : RetryPublish(r)
    <3> PICK r \in RetryReq : RetryPublish(r)
      BY <2>2
    <3>1. r \in Thread /\ cur[r] \in Event
      BY ThreadAssumption DEF Thread, RetryPublish, TypeInv, CurOK
    <3>0. Hand(PodOf[r], cur[r]) /\ pc'[r] = "send" /\ cur'[r] = cur[r]
      BY <1>2, <3>1 DEF RetryPublish, busVars, TypeInv, TypeOK
    <3>2. e = cur[r]
      BY <1>2, <3>0, <3>1, HandMemo, PodAssumption
    <3> QED BY <3>0, <3>1, <3>2, HandedIsHandled
  <2>3. memo' = memo \/ (\E t \in Tick : TickPublish(t)) \/ (\E r \in RetryReq : RetryPublish(r))
    BY <1>2 DEF Next, vars, busVars, Insert, TickStep, TickBegin, TickSent, TickCommit, TickAbort,
                BrokerAccepts, BrokerRejects, RetryStep, RetryRead, RetryReset, RetrySelect, RetrySent,
                RetryWrite, SkipStep, SkipRead, SkipWrite, RequestFault, Crash, Forgotten, TypeInv, TypeOK
  <2> QED BY <1>2, <2>1, <2>2, <2>3
<1> QED BY <1>1, <1>2

LEMMA OutcomeStep == TypeInv /\ MemoOK /\ OutcomeOK /\ [Next]_vars => OutcomeOK'
<1> SUFFICES ASSUME TypeInv, MemoOK, OutcomeOK, [Next]_vars,
                    NEW t \in Tick, NEW e \in Event, outcome'[t][e] = "published"
             PROVE  Handled(e)'
  BY DEF OutcomeOK
<1>1. CASE outcome[t][e] = "published"
  BY <1>1, HandledStays DEF OutcomeOK
<1>2. CASE outcome[t][e] # "published"
  <2>1. CASE \E u \in Tick : TickPublish(u)
    <3> PICK u \in Tick : TickPublish(u)
      BY <2>1
    <3> PICK f \in Event : TickPoison(u, f) \/ TickDuplicate(u, f) \/ TickSend(u, f)
      BY DEF TickPublish
    <3>1. TickDuplicate(u, f) /\ e = f
      BY <1>2 DEF TickPoison, TickDuplicate, TickSend, TypeInv, TypeOK
    <3>2. Handled(e)
      BY <3>1, PodAssumption DEF TickDuplicate, Duplicate, MemoOK, Thread
    <3> QED BY <3>2, HandledStays
  <2>2. CASE \E u \in Tick : TickSent(u)
    <3> PICK u \in Tick : TickSent(u)
      BY <2>2
    <3>1. BrokerAccepts(cur[u]) /\ e = cur[u]
      BY <1>2 DEF TickSent, TypeInv, TypeOK
    <3> QED BY <3>1 DEF BrokerAccepts, Handled
  <2>3. \/ \E u \in Tick : TickPublish(u)
        \/ \E u \in Tick : TickSent(u)
    <3>1. CASE \E u \in Tick : TickBegin(u) \/ TickCommit(u) \/ TickAbort(u)
      <4> PICK u \in Tick : TickBegin(u) \/ TickCommit(u) \/ TickAbort(u)
        BY <3>1
      <4>1. CASE TickBegin(u)
        <5> PICK S \in Batches :
              outcome' = [outcome EXCEPT ![u] = [f \in Event |-> IF f \in S THEN "locked" ELSE "none"]]
          BY <4>1 DEF TickBegin
        <5> QED BY <1>2 DEF TypeInv, TypeOK
      <4>2. CASE TickCommit(u) \/ TickAbort(u)
        BY <1>2, <4>2 DEF TickCommit, TickAbort, NoBatch, TypeInv, TypeOK
      <4> QED BY <4>1, <4>2
    <3>2. CASE \E p \in Pod : Crash(p)
      BY <1>2, <3>2 DEF Crash, NoBatch, TypeInv, TypeOK
    <3>3. CASE outcome' = outcome
      BY <1>2, <3>3
    <3> QED
      BY <3>1, <3>2, <3>3 DEF Next, vars, Insert, TickStep, RetryStep, RetryRead, RetryReset, RetrySelect,
                RetryPublish, RetrySent, RetryWrite, SkipStep, SkipRead, SkipWrite, RequestFault
  <2> QED BY <2>1, <2>2, <2>3
<1> QED BY <1>1, <1>2

LEMMA MarkStep == TypeInv /\ MemoOK /\ MarkOK /\ [Next]_vars => MarkOK'
<1> SUFFICES ASSUME TypeInv, MemoOK, MarkOK, [Next]_vars, NEW r \in RetryReq, pc'[r] = "mark"
             PROVE  Handled(cur[r])' 
  BY DEF MarkOK
<1>0. r \in Thread /\ r \notin Tick /\ r \notin SkipReq
  BY ThreadAssumption DEF Thread
<1>1. CASE pc[r] = "mark" /\ cur'[r] = cur[r]
  <2>1. cur[r] \in Event /\ Handled(cur[r])
    BY <1>0, <1>1 DEF MarkOK, TypeInv, CurOK
  <2> QED BY <1>1, <2>1, HandledStays DEF Handled, InFlight
<1>2. CASE RetryPublish(r)
  <2>1. cur[r] \in Event /\ cur'[r] = cur[r] /\ Duplicate(PodOf[r], cur[r])
    BY <1>0, <1>2 DEF RetryPublish, TypeInv, TypeOK, CurOK
  <2>2. Handled(cur[r])
    BY <1>0, <2>1, PodAssumption DEF Duplicate, MemoOK
  <2> QED BY <2>1, <2>2, HandledStays DEF Handled, InFlight
<1>3. CASE RetrySent(r)
  <2>1. BrokerAccepts(cur[r]) /\ cur'[r] = cur[r]
    BY <1>0, <1>3 DEF RetrySent, TypeInv, TypeOK
  <2> QED BY <2>1 DEF BrokerAccepts, Handled
<1>4. \/ pc[r] = "mark" /\ cur'[r] = cur[r]
      \/ RetryPublish(r)
      \/ RetrySent(r)
  <2>1. CASE UNCHANGED <<pc, cur>>
    BY <2>1
  <2>2. CASE \E t \in Tick : TickStep(t) \/ TickAbort(t)
    BY <1>0, <2>2 DEF TickStep, TickBegin, TickPublish, TickPoison, TickDuplicate, TickSend, TickSent,
                      TickCommit, TickAbort, TypeInv, TypeOK
  <2>3. CASE \E q \in RetryReq : RetryStep(q)
    BY <1>0, <2>3 DEF RetryStep, RetryRead, RetryReset, RetrySelect, RetryPublish, RetrySent,
                      RetryWrite, Finish, TypeInv, TypeOK
  <2>4. CASE \E k \in SkipReq : SkipStep(k)
    BY <1>0, <2>4 DEF SkipStep, SkipRead, SkipWrite, Finish, TypeInv, TypeOK
  <2>5. CASE \E q \in RetryReq \union SkipReq : RequestFault(q)
    BY <1>0, <2>5 DEF RequestFault, Finish, TypeInv, TypeOK
  <2>6. CASE \E p \in Pod : Crash(p)
    BY <1>0, <2>6 DEF Crash, TypeInv, TypeOK
  <2> QED
    BY <2>1, <2>2, <2>3, <2>4, <2>5, <2>6 DEF Next, vars, Insert
<1> QED BY <1>1, <1>2, <1>3, <1>4

LEMMA RowStep == TypeInv /\ OutcomeOK /\ MarkOK /\ RowOK /\ [Next]_vars => RowOK'
<1> SUFFICES ASSUME TypeInv, OutcomeOK, MarkOK, RowOK, [Next]_vars,
                    NEW e \in Event, row'[e].published
             PROVE  Handled(e)'
  BY DEF RowOK
<1>1. SUFFICES Handled(e)
  BY HandledStays
<1>2. CASE row[e].published
  BY <1>2 DEF RowOK
<1>3. CASE ~row[e].published
  <2>0. row[e] \in Row
    BY DEF TypeInv, TypeOK
  <2>1. CASE \E t \in Tick : TickCommit(t)
    <3> PICK t \in Tick : TickCommit(t)
      BY <2>1
    <3>1. row'[e] = Polled(row[e], outcome[t][e])
      BY DEF TickCommit
    <3>2. outcome[t][e] = "published"
      BY <1>3, <2>0, <3>1 DEF Polled, Row
    <3> QED BY <3>2 DEF OutcomeOK
  <2>2. CASE \E r \in RetryReq : RetryStep(r)
    <3> PICK r \in RetryReq : RetryStep(r)
      BY <2>2
    <3>1. pc[r] = "mark" /\ e = cur[r]
      BY <1>3, <2>0 DEF RetryStep, RetryRead, RetryReset, RetrySelect, RetryPublish, RetrySent,
                        RetryWrite, TypeInv, TypeOK, Row
    <3> QED BY <3>1 DEF MarkOK
  <2>3. CASE \E k \in SkipReq : SkipStep(k)
    <3> PICK k \in SkipReq : SkipStep(k)
      BY <2>3
    <3>1. Skipped(row[e], snap[k]).published = row[e].published
      BY <2>0 DEF Skipped, Row
    <3>2. row'[e] = row[e] \/ row'[e] = Skipped(row[e], snap[k])
      BY DEF SkipStep, SkipRead, SkipWrite, TypeInv, TypeOK
    <3> QED BY <1>3, <3>1, <3>2
  <2>4. \/ row' = row
        \/ \E t \in Tick : TickCommit(t)
        \/ \E r \in RetryReq : RetryStep(r)
        \/ \E k \in SkipReq : SkipStep(k)
    BY DEF Next, vars, Insert, TickStep, TickBegin, TickPublish, TickSent, TickAbort, RequestFault, Crash
  <2> QED BY <1>3, <2>1, <2>2, <2>3, <2>4
<1> QED BY <1>2, <1>3

(* Whatever the number of processes, polls, operator requests and crashes,  *)
(* only a broken or unfinished send makes a published row lose its event.   *)
THEOREM NothingElseLosesEvents == Spec => []LossNeedsBrokenSend
<1>1. Init => HandledInv
  BY DEF Init, HandledInv, MemoOK, OutcomeOK, MarkOK, RowOK, NoBatch, NewRow, Thread
<1>2. TypeInv /\ HandledInv /\ [Next]_vars => HandledInv'
  BY MemoStep, OutcomeStep, MarkStep, RowStep DEF HandledInv
<1>3. HandledInv => LossNeedsBrokenSend
  BY DEF HandledInv, RowOK, Handled, LossNeedsBrokenSend
<1> QED
  BY <1>1, <1>2, <1>3, TypeInit, TypeStep, PTL DEF Spec

-----------------------------------------------------------------------------
(* What any step does to a row. *)
LEMMA PolledKeeps ==
  ASSUME NEW r \in Row, NEW o \in Outcome
  PROVE  /\ r.published => Polled(r, o).published
         /\ Polled(r, o).op = r.op
         /\ Polled(r, o).attempts >= r.attempts
<1>1. CASE o = "published"
  BY <1>1 DEF Polled, Row
<1>2. CASE o = "failed"
  BY <1>2 DEF Polled, Row
<1>3. CASE o # "published" /\ o # "failed"
  BY <1>3 DEF Polled, Row
<1> QED BY <1>1, <1>2, <1>3

LEMMA SkippedKeeps ==
  ASSUME NEW r \in Row, NEW n \in Nat
  PROVE  Skipped(r, n).published = r.published /\ Skipped(r, n).attempts >= MaxAttempts
BY NumberAssumption DEF Skipped, Row

Untouched(e) == row'[e] = row[e]
PolledRow(e) == \E o \in Outcome : row'[e] = Polled(row[e], o)
SkippedRow(e) == \E n \in Nat : row'[e] = Skipped(row[e], n)
ResetRow(e) == \E r \in RetryReq : cur[r] = e /\ pc[r] = "reset"
RetriedRow(e) ==
    \E r \in RetryReq :
        /\ cur[r] = e
        /\ \/ row'[e].published
           \/ /\ pc[r] = "fail"
              /\ row'[e].attempts = snap[r] + 1
              /\ row'[e].published = row[e].published

LEMMA RowMoves ==
  ASSUME TypeInv, [Next]_vars, NEW e \in Event
  PROVE  Untouched(e) \/ PolledRow(e) \/ SkippedRow(e) \/ ResetRow(e) \/ RetriedRow(e)
<1> USE DEF TypeInv, TypeOK
<1>1. CASE UNCHANGED row
  BY <1>1 DEF Untouched
<1>2. ASSUME NEW t \in Tick, TickCommit(t) PROVE PolledRow(e)
  BY <1>2 DEF TickCommit, PolledRow
<1>3. ASSUME NEW r \in RetryReq, RetryReset(r) PROVE Untouched(e) \/ ResetRow(e)
  <2>1. pc[r] = "reset"
    BY <1>3 DEF RetryReset
  <2>2. e # cur[r] => row'[e] = row[e]
    BY <1>3 DEF RetryReset
  <2> QED BY <2>1, <2>2 DEF Untouched, ResetRow
<1>4. ASSUME NEW r \in RetryReq, RetryWrite(r) PROVE Untouched(e) \/ RetriedRow(e)
  <2>1. row \in [Event -> Row] /\ row[e] \in Row
    OBVIOUS
  <2> HIDE DEF TypeInv, TypeOK
  <2>2. CASE e # cur[r]
    BY <1>4, <2>1, <2>2 DEF RetryWrite, Untouched
  <2>3. CASE e = cur[r] /\ pc[r] = "mark"
    BY <1>4, <2>1, <2>3 DEF RetryWrite, RetriedRow, Row
  <2>4. CASE e = cur[r] /\ pc[r] = "fail"
    BY <1>4, <2>1, <2>4 DEF RetryWrite, RetriedRow, Row
  <2> QED BY <1>4, <2>2, <2>3, <2>4 DEF RetryWrite
<1>5. ASSUME NEW k \in SkipReq, SkipWrite(k) PROVE Untouched(e) \/ SkippedRow(e)
  <2>1. snap[k] \in Nat /\ row' = [row EXCEPT ![cur[k]] = Skipped(row[cur[k]], snap[k])]
    BY <1>5 DEF SkipWrite
  <2> QED BY <2>1 DEF Untouched, SkippedRow
<1>6. CASE UNCHANGED vars
  BY <1>1, <1>6 DEF vars
<1>7. ASSUME NEW t \in Tick, TickStep(t) \/ TickAbort(t) PROVE UNCHANGED row \/ TickCommit(t)
  BY <1>7 DEF TickStep, TickBegin, TickPublish, TickSent, TickAbort
<1>8. ASSUME NEW r \in RetryReq, RetryStep(r) PROVE UNCHANGED row \/ RetryReset(r) \/ RetryWrite(r)
  BY <1>8 DEF RetryStep, RetryRead, RetrySelect, RetryPublish, RetrySent
<1>9. ASSUME NEW k \in SkipReq, SkipStep(k) PROVE UNCHANGED row \/ SkipWrite(k)
  BY <1>9 DEF SkipStep, SkipRead
<1>10. ASSUME Next PROVE \/ UNCHANGED row \/ \E t \in Tick : TickStep(t) \/ TickAbort(t)
                         \/ \E r \in RetryReq : RetryStep(r)
                         \/ \E k \in SkipReq : SkipStep(k)
  <2>1. (\E e2 \in Event : Insert(e2)) \/ (\E r \in RetryReq \union SkipReq : RequestFault(r)) => UNCHANGED row
    BY DEF Insert, RequestFault
  <2>2. (\E p \in Pod : Crash(p)) => UNCHANGED row
    BY DEF Crash
  <2> QED BY <1>10, <2>1, <2>2 DEF Next
<1> QED BY <1>1, <1>2, <1>3, <1>4, <1>5, <1>6, <1>7, <1>8, <1>9, <1>10

(* Whatever the polls under way go on to write, and whatever fails, only a  *)
(* retry of the very row brings a skipped row back within reach: its reset, *)
(* or its failing write of a count read before the skip.                    *)
THEOREM SkipsHold == Spec => SkipHolds
<1> DEFINE Holds ==
      \A e \in Event :
        "SKIP" \in {row[e].op, row'[e].op} /\ InReach(row'[e])
           => Loose(row[e]) \/ \E r \in RetryReq : BringsBack(r, e)
<1>1. ASSUME TypeInv, [Next]_vars PROVE Holds
  <2> SUFFICES ASSUME NEW e \in Event, "SKIP" \in {row[e].op, row'[e].op}, InReach(row'[e])
               PROVE  Loose(row[e]) \/ \E r \in RetryReq : BringsBack(r, e)
    OBVIOUS
  <2>1. row[e] \in Row /\ row[e].attempts \in Nat /\ MaxAttempts \in Nat
    BY <1>1, NumberAssumption DEF TypeInv, TypeOK, Row
  <2>2. CASE Untouched(e)
    BY <2>2 DEF Untouched, Loose
  <2>3. CASE PolledRow(e)
    <3> PICK o \in Outcome : row'[e] = Polled(row[e], o)
      BY <2>3 DEF PolledRow
    <3>1. row'[e] \in Row /\ row'[e].attempts \in Nat
      BY <2>1, PolledType DEF Row
    <3>2. row'[e].op = row[e].op /\ row'[e].attempts >= row[e].attempts /\ (row[e].published => row'[e].published)
      BY <2>1, PolledKeeps
    <3> QED BY <2>1, <3>1, <3>2 DEF Loose, InReach
  <2>4. CASE SkippedRow(e)
    <3> PICK n \in Nat : row'[e] = Skipped(row[e], n)
      BY <2>4 DEF SkippedRow
    <3>1. row'[e] \in Row /\ row'[e].attempts \in Nat
      BY <2>1, SkippedType DEF Row
    <3> QED BY <2>1, <3>1, SkippedKeeps DEF InReach
  <2>5. CASE ResetRow(e)
    BY <2>5 DEF ResetRow, BringsBack
  <2>6. CASE RetriedRow(e)
    BY <2>6 DEF RetriedRow, BringsBack, InReach
  <2> QED BY <1>1, <2>2, <2>3, <2>4, <2>5, <2>6, RowMoves
<1>2. TypeInv /\ [Next]_vars => [Holds]_vars
  BY <1>1
<1>3. Spec => [][Holds]_vars
  BY <1>2, TypeInit, TypeStep, PTL DEF Spec
<1> QED BY <1>3 DEF SkipHolds

(* Only a retry that read a row before it was published sets it back.       *)
THEOREM PublishedStays == Spec => PublishedIsFinal
<1> DEFINE Final ==
      \A e \in Event :
        row[e].published /\ ~row'[e].published => \E r \in RetryReq : cur[r] = e /\ pc[r] = "reset"
<1>1. ASSUME TypeInv, [Next]_vars PROVE Final
  <2> SUFFICES ASSUME NEW e \in Event, row[e].published, ~row'[e].published, ~ResetRow(e) PROVE FALSE
    BY DEF ResetRow
  <2>1. row[e] \in Row
    BY <1>1 DEF TypeInv, TypeOK
  <2> QED BY <1>1, <2>1, RowMoves, PolledKeeps, SkippedKeeps DEF Untouched, PolledRow, SkippedRow, RetriedRow
<1>2. TypeInv /\ [Next]_vars => [Final]_vars
  BY <1>1
<1>3. Spec => [][Final]_vars
  BY <1>2, TypeInit, TypeStep, PTL DEF Spec
<1> QED BY <1>3 DEF PublishedIsFinal
=============================================================================
