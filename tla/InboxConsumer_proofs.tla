------------------------- MODULE InboxConsumer_proofs -------------------------
(***************************************************************************)
(* What InboxConsumer keeps for any number of events, processes, threads   *)
(* and disturbances. The first part needs little more than that a row is   *)
(* never deleted; deduplication rests on how the bus hands a message to    *)
(* one delivery at a time.                                                 *)
(***************************************************************************)
EXTENDS InboxConsumer, FiniteSetTheorems, TLAPS

Busy == {"look", "write", "handle", "succeed", "fail", "reject", "replay", "skip"}

(* A thread that is working on an event has one. *)
OnEvent(th) == pc[th] \in Busy \/ (th \in RetryReq /\ pc[th] = "queue") => ev[th] \in Event

Typed == TypeOK /\ \A th \in Thread : OnEvent(th)

LEMMA TypedInit == Init => Typed
<1> USE ThreadAssumption, EventAssumption DEF Thread
<1> SUFFICES ASSUME Init PROVE Typed
  OBVIOUS
<1>1. \A th \in Thread : pc[th] \in {"boot", "idle"} /\ ev[th] = NoEvent
  BY DEF Init, Start
<1>2. pc \in [Thread -> Label]
  BY DEF Init, Start, Label
<1>3. TypeOK
  BY <1>2 DEF Init, TypeOK, Status, Message
<1> QED BY <1>1, <1>3 DEF Typed, OnEvent, Busy

(* What returning from consume does. *)
LEMMA ReturnTyped ==
  ASSUME Typed, NEW th \in Thread, ev[th] \in Event, Return(th)
  PROVE  /\ pc' \in [Thread -> Label] /\ ev' \in [Thread -> Event \union {NoEvent}]
         /\ found' \in [Thread -> BOOLEAN] /\ message' \in [Event -> Message]
         /\ \A t \in Thread : OnEvent(t)'
<1>1. pc'[th] \in {"idle", "rows", "done"} /\ \A t \in Thread \ {th} : pc'[t] = pc[t] /\ ev'[t] = ev[t]
  BY DEF Return, Typed, TypeOK
<1>2. \A t \in Thread : OnEvent(t)'
  BY <1>1 DEF Typed, OnEvent, Busy
<1>3. pc' \in [Thread -> Label]
  BY DEF Return, Typed, TypeOK, Label
<1>4. ev' \in [Thread -> Event \union {NoEvent}] /\ found' \in [Thread -> BOOLEAN]
  BY DEF Return, Typed, TypeOK
<1>5. message' \in [Event -> Message]
  BY DEF Return, Typed, TypeOK, Message
<1> QED BY <1>2, <1>3, <1>4, <1>5

(* A thread goes on to a label that needs no other event than it has. *)
LEMMA GotoTyped ==
  ASSUME Typed, NEW th \in Thread, NEW l \in Label, Goto(th, l), ev' \in [Thread -> Event \union {NoEvent}],
         \A t \in Thread \ {th} : ev'[t] = ev[t],
         l \in Busy \/ (th \in RetryReq /\ l = "queue") => ev'[th] \in Event
  PROVE  pc' \in [Thread -> Label] /\ \A t \in Thread : OnEvent(t)'
<1>1. pc'[th] = l /\ \A t \in Thread \ {th} : pc'[t] = pc[t]
  BY DEF Goto, Typed, TypeOK
<1>2. pc' \in [Thread -> Label]
  BY DEF Goto, Typed, TypeOK
<1> QED BY <1>1, <1>2 DEF Typed, OnEvent

LEMMA ConsumeTyped ==
  ASSUME Typed, NEW th \in Thread, Consume(th) \/ ConsumeDbFault(th)
  PROVE  Typed'
<1> USE DEF Typed
<1>0. ev[th] \in Event /\ todo' = todo /\ old' = old
  BY DEF Consume, Look, Write, Handle, Settle, ConsumeDbFault, OnEvent, Busy
<1>1. status' \in [Event -> Status]
  <2>1. CASE Write(th)
    BY <2>1 DEF Write, SetStatus, TypeOK, Status, Failed, Terminal
  <2>2. CASE Settle(th)
    BY <2>2 DEF Settle, SetStatus, Outcome, TypeOK, Status, Failed, Terminal
  <2> QED
    BY <2>1, <2>2 DEF Consume, Look, Handle, ConsumeDbFault, TypeOK
<1>2. handled' \in [Event -> Nat]
  BY <1>0 DEF Consume, Look, Write, Handle, Settle, ConsumeDbFault, TypeOK
<1>3. republished' \in Nat /\ rebalances' \in Nat /\ failures' \in Nat /\ dbFaults' \in Nat /\ crashes' \in Nat
  BY DEF Consume, Look, Write, Handle, Settle, ConsumeDbFault, TypeOK, counters
<1>4. \/ Return(th)
      \/ \E l \in {"write", "handle", "succeed", "fail", "reject"} :
            Goto(th, l) /\ ev' = ev /\ message' = message /\ found' \in [Thread -> BOOLEAN]
  BY DEF Consume, Look, Write, Handle, Settle, ConsumeDbFault, TypeOK, Stored
<1>5. CASE Return(th)
  BY <1>0, <1>1, <1>2, <1>3, <1>5, ReturnTyped DEF TypeOK
<1>6. CASE \E l \in {"write", "handle", "succeed", "fail", "reject"} :
             Goto(th, l) /\ ev' = ev /\ message' = message /\ found' \in [Thread -> BOOLEAN]
  <2> PICK l \in {"write", "handle", "succeed", "fail", "reject"} :
             Goto(th, l) /\ ev' = ev /\ message' = message /\ found' \in [Thread -> BOOLEAN]
    BY <1>6
  <2>1. l \in Label
    BY DEF Label
  <2>2. ev' \in [Thread -> Event \union {NoEvent}] /\ message' \in [Event -> Message]
    BY DEF TypeOK
  <2>3. pc' \in [Thread -> Label] /\ \A t \in Thread : OnEvent(t)'
    BY <1>0, <2>1, <2>2, GotoTyped
  <2> QED BY <1>0, <1>1, <1>2, <1>3, <2>2, <2>3 DEF TypeOK
<1> QED BY <1>4, <1>5, <1>6

LEMMA WorkerTyped ==
  ASSUME Typed, NEW w \in Worker, RecoverRead(w) \/ RecoverRow(w) \/ ReplayRead(w) \/ ReplayRow(w)
  PROVE  Typed'
<1> USE ThreadAssumption DEF Typed, Thread
<1>0. w \notin RetryReq /\ UNCHANGED <<old, message, found, handled, counters>>
  BY DEF RecoverRead, RecoverRow, ReplayRead, ReplayRow
<1>1. republished' \in Nat /\ rebalances' \in Nat /\ failures' \in Nat /\ dbFaults' \in Nat /\ crashes' \in Nat
  BY <1>0 DEF TypeOK, counters
<1>2. todo' \in [Worker \union Sweeper -> SUBSET Event]
  BY DEF RecoverRead, RecoverRow, ReplayRead, ReplayRow, TypeOK
<1>3. status' \in [Event -> Status]
  <2>1. CASE RecoverRow(w)
    BY <2>1 DEF RecoverRow, SetStatus, Recovered, TypeOK, Status, Failed, Terminal
  <2>2. CASE ReplayRow(w)
    BY <2>2 DEF ReplayRow, SetStatus, TypeOK, Status, Failed, Terminal
  <2>3. CASE RecoverRead(w) \/ ReplayRead(w)
    BY <2>3 DEF RecoverRead, ReplayRead, TypeOK
  <2> QED BY <2>1, <2>2, <2>3
<1>4. pc' \in [Thread -> Label] /\ \A t \in Thread : OnEvent(t)'
  <2>1. CASE UNCHANGED <<pc, ev>>
    BY <2>1 DEF OnEvent, TypeOK
  <2>2. CASE (Goto(w, "queue") \/ Goto(w, "rows")) /\ ev' = ev
    BY <1>0, <2>2, GotoTyped DEF TypeOK, Busy, Label
  <2>3. CASE Goto(w, "look") /\ \E e \in Event : ev' = [ev EXCEPT ![w] = e]
    BY <1>0, <2>3, GotoTyped DEF TypeOK, Busy, Label
  <2>4. CASE ReplayRow(w)
    <3>1. todo[w] \subseteq Event
      BY DEF TypeOK
    <3> QED BY <2>1, <2>3, <2>4, <3>1 DEF ReplayRow
  <2>5. CASE RecoverRow(w)
    BY <2>1, <2>5 DEF RecoverRow
  <2> QED BY <2>2, <2>4, <2>5 DEF RecoverRead, ReplayRead
<1>5. ev' \in [Thread -> Event \union {NoEvent}]
  BY DEF RecoverRead, RecoverRow, ReplayRead, ReplayRow, TypeOK
<1> QED BY <1>0, <1>1, <1>2, <1>3, <1>4, <1>5 DEF TypeOK

LEMMA SweeperTyped ==
  ASSUME Typed, NEW s \in Sweeper, SweeperStep(s)
  PROVE  Typed'
<1> USE ThreadAssumption DEF Typed, Thread
<1>0. s \notin RetryReq /\ UNCHANGED <<old, message, ev, found, handled, counters>>
  BY DEF SweeperStep, SweepRead, SweepRow
<1>1. republished' \in Nat /\ rebalances' \in Nat /\ failures' \in Nat /\ dbFaults' \in Nat /\ crashes' \in Nat
  BY <1>0 DEF TypeOK, counters
<1>2. todo' \in [Worker \union Sweeper -> SUBSET Event]
  BY DEF SweeperStep, SweepRead, SweepRow, TypeOK
<1>3. status' \in [Event -> Status]
  BY DEF SweeperStep, SweepRead, SweepRow, SetStatus, TypeOK, Status, Terminal
<1>4. pc' \in [Thread -> Label] /\ \A t \in Thread : OnEvent(t)'
  <2>1. CASE pc' = pc
    BY <1>0, <2>1 DEF OnEvent, TypeOK
  <2>2. CASE Goto(s, "rows")
    BY <1>0, <2>2, GotoTyped DEF TypeOK, Busy, Label
  <2> QED BY <2>1, <2>2 DEF SweeperStep, SweepRead, SweepRow
<1> QED BY <1>0, <1>1, <1>2, <1>3, <1>4 DEF TypeOK

LEMMA RequestTyped ==
  ASSUME Typed, NEW r \in RetryReq \union SkipReq,
         RequestRead(r) \/ RetryQueue(r) \/ RetryReplay(r) \/ SkipRow(r)
  PROVE  Typed'
<1> USE ThreadAssumption DEF Typed, Thread
<1>0. UNCHANGED <<old, todo, handled, counters>>
  BY DEF RequestRead, RetryQueue, RetryReplay, SkipRow
<1>1. republished' \in Nat /\ rebalances' \in Nat /\ failures' \in Nat /\ dbFaults' \in Nat /\ crashes' \in Nat
  BY <1>0 DEF TypeOK, counters
<1>2. status' \in [Event -> Status]
  BY DEF RequestRead, RetryQueue, RetryReplay, SkipRow, SetStatus, TypeOK, Status, Terminal, Failed
<1>3. CASE RequestRead(r)
  <2>1. PICK l \in {"queue", "skip"} : Goto(r, l)
    BY <1>3 DEF RequestRead
  <2>2. PICK e \in Event : ev' = [ev EXCEPT ![r] = e]
    BY <1>3 DEF RequestRead
  <2>3. pc' \in [Thread -> Label] /\ \A t \in Thread : OnEvent(t)'
    <3>1. l \in Label
      BY DEF Label
    <3> QED BY <2>1, <2>2, <3>1, GotoTyped DEF TypeOK
  <2> QED BY <1>0, <1>1, <1>3, <2>2, <2>3 DEF RequestRead, TypeOK
<1>4. CASE RetryQueue(r) \/ RetryReplay(r) \/ SkipRow(r)
  <2>0. ev[r] \in Event
    BY <1>4 DEF RetryQueue, RetryReplay, SkipRow, OnEvent, Busy
  <2>1. Return(r) \/ (\E l \in {"replay", "look"} : Goto(r, l) /\ UNCHANGED <<ev, found, message>>)
    BY <1>4 DEF RetryQueue, RetryReplay, SkipRow
  <2>2. CASE Return(r)
    BY <1>0, <1>1, <1>2, <2>0, <2>2, ReturnTyped DEF TypeOK
  <2>3. CASE \E l \in {"replay", "look"} : Goto(r, l) /\ UNCHANGED <<ev, found, message>>
    <3>1. PICK l \in {"replay", "look"} : Goto(r, l)
      BY <2>3
    <3>2. l \in Label
      BY DEF Label
    <3>3. pc' \in [Thread -> Label] /\ \A t \in Thread : OnEvent(t)'
      BY <2>0, <2>3, <3>1, <3>2, GotoTyped DEF TypeOK
    <3> QED BY <1>0, <1>1, <1>2, <2>3, <3>3 DEF TypeOK
  <2> QED BY <2>1, <2>2, <2>3
<1> QED BY <1>3, <1>4

LEMMA BusTyped ==
  ASSUME Typed,
         \/ \E e \in Event : Publish(e) \/ Republish(e) \/ Rebalance(e) \/ Age(e)
         \/ \E d \in Delivery : Deliver(d)
  PROVE  Typed'
<1> USE DEF Typed
<1>1. CASE \E e \in Event : Publish(e) \/ Republish(e) \/ Rebalance(e) \/ Age(e)
  <2>1. UNCHANGED <<status, pc, ev, found, todo, handled>>
    BY <1>1 DEF Publish, Republish, Rebalance, Age
  <2>2. message' \in [Event -> Message] /\ old' \in SUBSET Event
    BY <1>1 DEF Publish, Republish, Rebalance, Age, TypeOK, Message
  <2>3. republished' \in Nat /\ rebalances' \in Nat /\ failures' \in Nat /\ dbFaults' \in Nat /\ crashes' \in Nat
    BY <1>1 DEF Publish, Republish, Rebalance, Age, TypeOK, counters
  <2> QED BY <2>1, <2>2, <2>3 DEF TypeOK, OnEvent
<1>2. CASE \E d \in Delivery : Deliver(d)
  <2> PICK d \in Delivery : Deliver(d)
    BY <1>2
  <2>1. PICK e \in Event : message' = [message EXCEPT ![e] = d] /\ ev' = [ev EXCEPT ![d] = e]
    BY DEF Deliver
  <2>2. UNCHANGED <<status, old, found, todo, handled, counters>> /\ Goto(d, "look")
    BY DEF Deliver
  <2>3. d \in Thread /\ "look" \in Label
    BY DEF Thread, Label
  <2>4. message' \in [Event -> Message] /\ ev' \in [Thread -> Event \union {NoEvent}]
    BY <2>1 DEF TypeOK, Message
  <2>5. pc' \in [Thread -> Label] /\ \A t \in Thread : OnEvent(t)'
    BY <2>1, <2>2, <2>3, <2>4, GotoTyped DEF TypeOK
  <2> QED BY <2>2, <2>4, <2>5 DEF TypeOK, counters
<1> QED BY <1>1, <1>2

LEMMA CrashTyped ==
  ASSUME Typed, NEW p \in Pod, Crash(p)
  PROVE  Typed'
<1> USE DEF Typed
<1>1. message' \in [Event -> Message]
  BY DEF Crash, TypeOK, Message
<1>2. pc' \in [Thread -> Label]
  BY DEF Crash, TypeOK, Label, Start
<1>3. ev' \in [Thread -> Event \union {NoEvent}] /\ found' \in [Thread -> BOOLEAN]
  BY DEF Crash, TypeOK
<1>4. todo' \in [Worker \union Sweeper -> SUBSET Event]
  BY DEF Crash, TypeOK
<1>5. old' \in SUBSET Event /\ crashes' \in Nat /\ UNCHANGED <<status, handled, republished, rebalances, failures, dbFaults>>
  BY DEF Crash, TypeOK
<1>6. \A t \in Thread : OnEvent(t)'
  BY DEF Crash, TypeOK, OnEvent, Busy, Start
<1> QED BY <1>1, <1>2, <1>3, <1>4, <1>5, <1>6 DEF TypeOK

LEMMA TypedNext == Typed /\ [Next]_vars => Typed'
<1> SUFFICES ASSUME Typed, [Next]_vars PROVE Typed'
  OBVIOUS
<1>1. CASE UNCHANGED vars
  BY <1>1 DEF Typed, TypeOK, OnEvent, vars, counters
<1> QED
  BY <1>1, ConsumeTyped, WorkerTyped, SweeperTyped, RequestTyped, BusTyped, CrashTyped
  DEF Next, DeliveryStep, WorkerStep, RequestStep, Thread

(* Rows, messages and threads keep the shapes the code gives them, and a    *)
(* thread inside consume or an operator's request has an event.             *)
THEOREM TypeCorrect == Spec => []TypeOK
<1>1. Spec => []Typed
  BY TypedInit, TypedNext, PTL DEF Spec
<1> QED BY <1>1, PTL DEF Typed

-----------------------------------------------------------------------------
(* Success and acknowledgement *)

Earned == \A th \in Thread : pc[th] = "succeed" => handled[ev[th]] > 0

EInv == Typed /\ Earned /\ SuccessWasHandled /\ AcknowledgedIsRecorded

(* A step never deletes a row or forgets that an event was handled, makes a *)
(* row SUCCESS only for a thread whose handler is through, and lets a       *)
(* message go only when its row exists, unless a statement fails.           *)
Grows ==
    /\ \A e \in Event : handled[e] > 0 => handled'[e] > 0
    /\ \A e \in Event : Stored(e) => Stored(e)'
    /\ \A e \in Event : status'[e] = "SUCCESS" =>
          status[e] = "SUCCESS" \/ \E th \in Thread : pc[th] = "succeed" /\ ev[th] = e
    /\ \A th \in Thread : pc'[th] = "succeed" =>
          handled'[ev'[th]] > 0 \/ (pc[th] = "succeed" /\ ev'[th] = ev[th])
    /\ dbFaults' = 0 => dbFaults = 0
    /\ \A e \in Event : message'[e] = "acked" =>
          message[e] = "acked" \/ Stored(e)' \/ dbFaults' # 0

(* Returning lets at most the message of the thread's own event go. *)
LEMMA ReturnGrows ==
  ASSUME Typed, NEW th \in Thread, ev[th] \in Event, Return(th)
  PROVE  /\ pc'[th] # "succeed" /\ \A t \in Thread \ {th} : pc'[t] = pc[t] /\ ev'[t] = ev[t]
         /\ \A e \in Event : e # ev[th] => message'[e] = message[e]
BY DEF Return, Typed, TypeOK

LEMMA ConsumeGrows ==
  ASSUME Typed, NEW th \in Thread, Consume(th)
  PROVE  Grows
<1> USE DEF Typed
<1>0. ev[th] \in Event
  BY DEF Consume, Look, Write, Handle, Settle, OnEvent, Busy
<1>1. CASE Look(th)
  <2>1. UNCHANGED <<status, handled, dbFaults>>
    BY <1>1 DEF Look, counters
  <2>2. CASE Return(th) /\ Duplicate(ev[th])
    <3>1. Stored(ev[th])
      BY <2>2 DEF Duplicate, Terminal, Stored
    <3> QED BY <1>0, <2>1, <2>2, <3>1, ReturnGrows DEF Grows, Stored
  <2>3. CASE Goto(th, "write") /\ UNCHANGED <<ev, message>>
    BY <2>1, <2>3 DEF Grows, Goto, Stored, TypeOK
  <2> QED BY <1>1, <2>2, <2>3 DEF Look
<1>2. CASE Write(th)
  <2>1. UNCHANGED <<handled, dbFaults>>
    BY <1>2 DEF Write, counters
  <2>2. CASE Goto(th, "handle") /\ SetStatus(ev[th], "IN_PROGRESS") /\ UNCHANGED <<ev, message>>
    BY <1>0, <2>1, <2>2 DEF Grows, Goto, Stored, SetStatus, TypeOK
  <2>3. CASE Return(th) /\ Stored(ev[th]) /\ UNCHANGED status
    BY <1>0, <2>1, <2>3, ReturnGrows DEF Grows, Stored
  <2> QED BY <1>2, <2>2, <2>3 DEF Write
<1>3. CASE Handle(th)
  <2>1. UNCHANGED <<status, message, ev, dbFaults>>
    BY <1>3 DEF Handle, counters
  <2>2. \A e \in Event : handled[e] > 0 => handled'[e] > 0
    BY <1>0, <1>3 DEF Handle, TypeOK
  <2>3. \A t \in Thread \ {th} : pc'[t] = pc[t]
    BY <1>3 DEF Handle, Goto, TypeOK
  <2>4. pc'[th] = "succeed" => handled'[ev[th]] > 0
    BY <1>0, <1>3 DEF Handle, Goto, TypeOK
  <2> QED BY <2>1, <2>2, <2>3, <2>4 DEF Grows, Stored
<1>4. CASE Settle(th)
  <2>1. Return(th) /\ UNCHANGED <<handled, dbFaults>>
    BY <1>4 DEF Settle, counters
  <2>2. status'[ev[th]] # "absent" /\ \A e \in Event : e # ev[th] => status'[e] = status[e]
    BY <1>0, <1>4 DEF Settle, SetStatus, Outcome, TypeOK
  <2>3. status'[ev[th]] = "SUCCESS" => pc[th] = "succeed"
    BY <1>0, <1>4 DEF Settle, SetStatus, Outcome, TypeOK
  <2> QED BY <1>0, <2>1, <2>2, <2>3, ReturnGrows DEF Grows, Stored
<1> QED BY <1>1, <1>2, <1>3, <1>4 DEF Consume

LEMMA DbFaultGrows ==
  ASSUME Typed, NEW th \in Thread, ConsumeDbFault(th)
  PROVE  Grows
<1>1. UNCHANGED <<status, handled>> /\ dbFaults' > 0
  BY DEF ConsumeDbFault, Typed, TypeOK
<1>2. \A t \in Thread : pc'[t] = "succeed" => pc[t] = "succeed" /\ ev'[t] = ev[t]
  BY DEF ConsumeDbFault, Return, Goto, Typed, TypeOK
<1> QED BY <1>1, <1>2 DEF Grows, Stored

LEMMA RowsGrow ==
  ASSUME Typed,
         \/ \E w \in Worker : RecoverRead(w) \/ RecoverRow(w) \/ ReplayRead(w) \/ ReplayRow(w)
         \/ \E s \in Sweeper : SweeperStep(s)
  PROVE  Grows
<1> USE DEF Typed
<1>1. UNCHANGED <<message, handled, dbFaults>>
  BY DEF RecoverRead, RecoverRow, ReplayRead, ReplayRow, SweeperStep, SweepRead, SweepRow, counters
<1>2. \A e \in Event : status'[e] = status[e] \/ status'[e] \in {"SKIPPED", "FAILED_RETRYABLE"}
  <2>1. \A e \in Event : Recovered(e) \in {"SKIPPED", "FAILED_RETRYABLE"}
    BY DEF Recovered
  <2> QED BY <2>1 DEF RecoverRead, RecoverRow, ReplayRead, ReplayRow, SweeperStep, SweepRead, SweepRow,
                      SetStatus, TypeOK
<1>3. \A t \in Thread : pc'[t] = "succeed" => pc[t] = "succeed" /\ ev'[t] = ev[t]
  <2>1. CASE \E w \in Worker : ReplayRow(w)
    BY <2>1 DEF ReplayRow, Goto, TypeOK
  <2> QED
    BY <2>1 DEF RecoverRead, RecoverRow, ReplayRead, SweeperStep, SweepRead, SweepRow, Goto, TypeOK
<1> QED BY <1>1, <1>2, <1>3 DEF Grows, Stored

LEMMA RequestGrows ==
  ASSUME Typed, NEW r \in RetryReq \union SkipReq,
         RequestRead(r) \/ RetryQueue(r) \/ RetryReplay(r) \/ SkipRow(r)
  PROVE  Grows
<1> USE DEF Typed
<1>0. UNCHANGED <<handled, dbFaults>> /\ r \in Thread
  BY DEF RequestRead, RetryQueue, RetryReplay, SkipRow, counters, Thread
<1>1. CASE RequestRead(r)
  BY <1>0, <1>1 DEF RequestRead, Goto, Grows, Stored, TypeOK
<1>2. CASE RetryQueue(r) \/ RetryReplay(r) \/ SkipRow(r)
  <2>0. ev[r] \in Event
    BY <1>0, <1>2 DEF RetryQueue, RetryReplay, SkipRow, OnEvent, Busy
  <2>1. \A e \in Event : status'[e] = status[e] \/ status'[e] \in {"SKIPPED", "FAILED_RETRYABLE"}
    BY <1>2, <2>0 DEF RetryQueue, RetryReplay, SkipRow, SetStatus, TypeOK
  <2>2. CASE Return(r)
    <3>1. CASE RetryQueue(r) \/ SkipRow(r)
      <4>1. status'[ev[r]] # "absent"
        BY <2>0, <3>1 DEF RetryQueue, SkipRow, SetStatus, Stored, TypeOK
      <4> QED BY <1>0, <2>0, <2>1, <2>2, <4>1, ReturnGrows DEF Grows, Stored
    <3>2. CASE RetryReplay(r) /\ (Duplicate(ev[r]) \/ status' = [status EXCEPT ![ev[r]] = "SKIPPED"])
      <4>1. status'[ev[r]] # "absent"
        BY <2>0, <2>1, <3>2 DEF Stored, Duplicate, Terminal, TypeOK
      <4> QED BY <1>0, <2>0, <2>1, <2>2, <4>1, ReturnGrows DEF Grows, Stored
    <3>3. CASE RetryReplay(r) /\ UNCHANGED <<status, ev, message>> /\ Goto(r, "look")
      BY <1>0, <3>3 DEF Grows, Goto, Stored, TypeOK
    <3> QED BY <1>2, <3>1, <3>2, <3>3 DEF RetryReplay, SetStatus
  <2>3. CASE RetryQueue(r)
    <3>1. Goto(r, "replay") /\ UNCHANGED <<ev, message>>
      BY <2>3 DEF RetryQueue
    <3>2. pc'[r] # "succeed" /\ \A t \in Thread \ {r} : pc'[t] = pc[t]
      BY <1>0, <3>1 DEF Goto, TypeOK
    <3> QED BY <1>0, <2>1, <3>1, <3>2 DEF Grows, Stored
  <2>4. CASE RetryReplay(r) /\ Goto(r, "look") /\ UNCHANGED <<ev, message>>
    <3>1. pc'[r] # "succeed" /\ \A t \in Thread \ {r} : pc'[t] = pc[t]
      BY <1>0, <2>4 DEF Goto, TypeOK
    <3> QED BY <1>0, <2>1, <2>4, <3>1 DEF Grows, Stored
  <2> QED BY <1>2, <2>2, <2>3, <2>4 DEF RetryReplay, SkipRow
<1> QED BY <1>1, <1>2

LEMMA BusGrows ==
  ASSUME Typed,
         \/ \E e \in Event : Publish(e) \/ Republish(e) \/ Rebalance(e) \/ Age(e)
         \/ \E d \in Delivery : Deliver(d)
         \/ \E p \in Pod : Crash(p)
  PROVE  Grows
<1> USE ThreadAssumption DEF Typed
<1>1. UNCHANGED <<status, handled, dbFaults>>
  BY DEF Publish, Republish, Rebalance, Age, Deliver, Crash, counters
<1>2. \A e \in Event : message'[e] = "acked" => message[e] = "acked"
  <2>1. CASE \E d \in Delivery : Deliver(d)
    BY <2>1 DEF Deliver, TypeOK, Thread
  <2>2. CASE \E p \in Pod : Crash(p)
    BY <2>2 DEF Crash, TypeOK
  <2> QED BY <2>1, <2>2 DEF Publish, Republish, Rebalance, Age, TypeOK
<1>3. \A t \in Thread : pc'[t] = "succeed" => pc[t] = "succeed" /\ ev'[t] = ev[t]
  <2>1. CASE \E d \in Delivery : Deliver(d)
    <3> PICK d \in Delivery : Deliver(d)
      BY <2>1
    <3>1. pc'[d] = "look" /\ \A t \in Thread \ {d} : pc'[t] = pc[t] /\ ev'[t] = ev[t]
      BY DEF Deliver, Goto, TypeOK, Thread
    <3> QED BY <3>1
  <2>2. CASE \E p \in Pod : Crash(p)
    BY <2>2 DEF Crash, Start, TypeOK
  <2> QED BY <2>1, <2>2 DEF Publish, Republish, Rebalance, Age
<1> QED BY <1>1, <1>2, <1>3 DEF Grows, Stored

LEMMA StepGrows == Typed /\ [Next]_vars => Grows
<1> SUFFICES ASSUME Typed, [Next]_vars PROVE Grows
  OBVIOUS
<1>1. CASE UNCHANGED vars
  BY <1>1 DEF Grows, Stored, vars, counters
<1> QED
  BY <1>1, ConsumeGrows, DbFaultGrows, RowsGrow, RequestGrows, BusGrows
  DEF Next, DeliveryStep, WorkerStep, RequestStep, Thread

LEMMA EInvInit == Init => EInv
<1> SUFFICES ASSUME Init PROVE EInv
  OBVIOUS
<1>1. \A th \in Thread : pc[th] # "succeed"
  BY DEF Init, Start
<1> QED
  BY <1>1, TypedInit DEF Init, EInv, Earned, SuccessWasHandled, AcknowledgedIsRecorded

LEMMA EInvNext == EInv /\ [Next]_vars => EInv'
<1> SUFFICES ASSUME EInv, [Next]_vars PROVE EInv'
  OBVIOUS
<1>0. Typed /\ Typed'
  BY TypedNext DEF EInv
<1>1. Grows
  BY <1>0, StepGrows
<1>2. \A th \in Thread : pc'[th] = "succeed" => ev'[th] \in Event
  BY <1>0 DEF Typed, OnEvent, Busy
<1>3. \A th \in Thread : pc[th] = "succeed" => ev[th] \in Event
  BY <1>0 DEF Typed, OnEvent, Busy
<1>4. Earned'
  BY <1>1, <1>3 DEF EInv, Earned, Grows
<1>5. SuccessWasHandled'
  BY <1>1 DEF EInv, Earned, SuccessWasHandled, Grows
<1>6. AcknowledgedIsRecorded'
  BY <1>1 DEF EInv, AcknowledgedIsRecorded, Grows
<1> QED BY <1>0, <1>4, <1>5, <1>6 DEF EInv

(* SUCCESS is written only for an event whose handler has completed.        *)
THEOREM SuccessIsEarned == Spec => []SuccessWasHandled
<1>1. Spec => []EInv
  BY EInvInit, EInvNext, PTL DEF Spec
<1> QED BY <1>1, PTL DEF EInv

(* Unless a statement failed, no message is let go whose event is not in    *)
(* the inbox.                                                               *)
THEOREM AcknowledgedAreRecorded == Spec => []AcknowledgedIsRecorded
<1>1. Spec => []EInv
  BY EInvInit, EInvNext, PTL DEF Spec
<1> QED BY <1>1, PTL DEF EInv

-----------------------------------------------------------------------------
(* Deduplication *)

(* Undisturbed, and no process has died. *)
Quiet == Undisturbed /\ crashes = 0

(* Workers have nothing to replay or to handle; sweepers and skips deal     *)
(* with rows that are there.                                                *)
IdleWorkers ==
    /\ \A w \in Worker : pc[w] \in {"boot", "queue", "rows"} /\ todo[w] = {}
    /\ \A s \in Sweeper : pc[s] \in {"boot", "rows"} /\ \A e \in todo[s] : Stored(e)
    /\ \A k \in SkipReq : pc[k] \in {"idle", "skip", "done"} /\ (pc[k] = "skip" => Stored(ev[k]))

(* A delivery that is at work holds the message of its event, which is in   *)
(* the inbox from the moment it handles it, and not before.                 *)
Holders ==
    \A d \in Delivery :
        /\ pc[d] \in {"idle", "look", "write", "handle", "succeed"}
        /\ pc[d] # "idle" => message[ev[d]] = d
        /\ pc[d] = "write" => status[ev[d]] = "absent"
        /\ pc[d] \in {"handle", "succeed"} => Stored(ev[d])
        /\ pc[d] = "handle" => handled[ev[d]] = 0

(* A row in progress is being handled; one not there has not been. *)
Rows ==
    \A e \in Event :
        /\ status[e] \in {"absent", "IN_PROGRESS"} \union Terminal
        /\ status[e] = "IN_PROGRESS" =>
              \E d \in Delivery : pc[d] \in {"handle", "succeed"} /\ ev[d] = e
        /\ status[e] = "absent" => handled[e] = 0
        /\ handled[e] <= 1

Orderly == IdleWorkers /\ Holders /\ Rows

DInv == Typed /\ (Quiet => Orderly)

LEMMA DInvInit == Init => DInv
<1> USE ThreadAssumption DEF Thread
<1> SUFFICES ASSUME Init PROVE DInv
  OBVIOUS
<1>1. /\ \A th \in Worker \union Sweeper : pc[th] = "boot"
      /\ \A th \in Delivery \union SkipReq : pc[th] = "idle"
  BY DEF Init, Start
<1>2. IdleWorkers
  BY <1>1 DEF Init, IdleWorkers
<1>3. Holders
  BY <1>1 DEF Holders
<1>4. Rows
  BY DEF Init, Rows
<1> QED
  BY <1>2, <1>3, <1>4, TypedInit DEF DInv, Orderly

(* Quiet cannot be regained: the counts never go back, a row that is old    *)
(* stays old, and a request is made once.                                   *)
LEMMA QuietBefore ==
  ASSUME Typed, Next, Quiet'
  PROVE  /\ Quiet
         /\ \/ \E e \in Event : Publish(e) \/ Republish(e)
            \/ \E d \in Delivery : DeliveryStep(d)
            \/ \E w \in Worker : WorkerStep(w)
            \/ \E s \in Sweeper : SweeperStep(s)
            \/ \E k \in SkipReq : RequestStep(k)
<1> USE ThreadAssumption DEF Typed, TypeOK
<1>1. ASSUME NEW e \in Event, Publish(e) \/ Republish(e) PROVE Quiet
  BY <1>1 DEF Publish, Republish, Quiet, Undisturbed, counters
<1>2. ASSUME NEW e \in Event PROVE ~Rebalance(e) /\ ~Age(e)
  BY DEF Rebalance, Age, Quiet, Undisturbed
<1>3. ASSUME NEW th \in Thread PROVE ~ConsumeDbFault(th)
  BY DEF ConsumeDbFault, Quiet, Undisturbed
<1>4. ASSUME NEW p \in Pod PROVE ~Crash(p)
  BY DEF Crash, Quiet, Undisturbed
<1>5. ASSUME NEW th \in Delivery \union Worker \union Sweeper \union SkipReq,
             Deliver(th) \/ Consume(th) \/ RecoverRead(th) \/ RecoverRow(th) \/ ReplayRead(th)
               \/ ReplayRow(th) \/ SweepRead(th) \/ SweepRow(th)
               \/ RequestRead(th) \/ RetryQueue(th) \/ RetryReplay(th) \/ SkipRow(th)
      PROVE  Quiet
  <2>1. th \notin RetryReq
    OBVIOUS
  <2>2. \A t \in Thread \ {th} : pc'[t] = pc[t]
    BY <1>5 DEF Deliver, Consume, Look, Write, Handle, Settle, Return, Goto, RecoverRead, RecoverRow,
                ReplayRead, ReplayRow, SweepRead, SweepRow, RequestRead, RetryQueue, RetryReplay, SkipRow
  <2>3. UNCHANGED <<rebalances, dbFaults, crashes, old>> /\ (failures' = failures \/ failures' > 0)
    BY <1>5 DEF Deliver, Consume, Look, Write, Handle, Settle, RecoverRead, RecoverRow,
                ReplayRead, ReplayRow, SweepRead, SweepRow, RequestRead, RetryQueue, RetryReplay, SkipRow, counters
  <2> QED BY <2>1, <2>2, <2>3 DEF Quiet, Undisturbed, Thread
<1>6. ASSUME NEW r \in RetryReq PROVE ~RequestStep(r)
  <2>1. r \in Thread /\ pc'[r] = "idle" /\ r \notin Delivery \union Worker
    BY DEF Quiet, Undisturbed, Thread
  <2>2. Return(r) => FALSE
    BY <2>1 DEF Return
  <2>3. \A l \in Label \ {"idle"} : Goto(r, l) => FALSE
    BY <2>1 DEF Goto
  <2>4. {"write", "handle", "succeed", "fail", "reject", "queue", "skip", "replay", "look"} \subseteq Label \ {"idle"}
    BY DEF Label
  <2>5. ~RequestRead(r) /\ ~RetryQueue(r) /\ ~RetryReplay(r) /\ ~SkipRow(r)
    BY <2>2, <2>3, <2>4 DEF RequestRead, RetryQueue, RetryReplay, SkipRow
  <2>6. ~Consume(r)
    BY <2>2, <2>3, <2>4 DEF Consume, Look, Write, Handle, Settle
  <2> QED BY <2>5, <2>6 DEF RequestStep
<1> QED
  BY <1>1, <1>2, <1>3, <1>4, <1>5, <1>6 DEF Next, DeliveryStep, WorkerStep, SweeperStep, RequestStep

(* Two deliveries at work are at work on different events. *)
LEMMA Distinct ==
  ASSUME Typed, Orderly, NEW d \in Delivery, pc[d] # "idle"
  PROVE  /\ ev[d] \in Event /\ d \in Thread /\ message[ev[d]] = d
         /\ \A b \in Delivery \ {d} : pc[b] # "idle" => ev[b] # ev[d] /\ ev[b] \in Event
  BY DEF Orderly, Holders, Typed, OnEvent, Busy, Thread

LEMMA ArrivalKeeps ==
  ASSUME Typed, Quiet, Orderly, NEW e \in Event, Publish(e) \/ Republish(e)
  PROVE  Orderly'
<1>1. UNCHANGED <<status, pc, ev, todo, handled>> /\ message[e] \in {"unsent", "acked"}
  BY DEF Publish, Republish
<1>2. \A f \in Event : f # e => message'[f] = message[f]
  BY DEF Publish, Republish, Typed, TypeOK
<1>3. \A d \in Delivery : pc[d] # "idle" => ev[d] # e /\ ev[d] \in Event
  BY <1>1, ThreadAssumption, Distinct DEF Orderly, Holders
<1> QED BY <1>1, <1>2, <1>3 DEF Orderly, IdleWorkers, Holders, Rows, Stored

LEMMA WorkerKeeps ==
  ASSUME Typed, Quiet, Orderly, NEW w \in Worker, WorkerStep(w)
  PROVE  Orderly'
<1> USE ThreadAssumption DEF Typed, TypeOK, Thread
<1>0. \A e \in Event : ~Due(e) /\ ~Stale(e)
  BY DEF Quiet, Undisturbed, Orderly, Rows, Due, Stale, Terminal
<1>1. pc[w] \in {"boot", "queue", "rows"} /\ todo[w] = {}
  BY DEF Orderly, IdleWorkers
<1>2. ~Consume(w) /\ ~RecoverRow(w) /\ ~ReplayRow(w)
  BY <1>1 DEF Consume, Look, Write, Handle, Settle, RecoverRow, ReplayRow
<1>3. UNCHANGED <<status, message, ev, handled>> /\ todo' = todo
  <2>1. todo' = [todo EXCEPT ![w] = {}]
    BY <1>0, <1>2 DEF WorkerStep, RecoverRead, ReplayRead
  <2> QED BY <1>1, <1>2, <2>1 DEF WorkerStep, RecoverRead, ReplayRead
<1>4. pc'[w] \in {"queue", "rows"} /\ \A t \in Thread \ {w} : pc'[t] = pc[t]
  BY <1>2 DEF WorkerStep, RecoverRead, ReplayRead, Goto
<1> QED BY <1>3, <1>4 DEF Orderly, IdleWorkers, Holders, Rows, Stored

(* A step that deletes no row and leaves the skips alone keeps them in order. *)
LEMMA SkipsStand ==
  ASSUME Typed, Orderly, \A e \in Event : Stored(e) => Stored(e)',
         \A k \in SkipReq : pc'[k] = pc[k] /\ ev'[k] = ev[k]
  PROVE  \A k \in SkipReq :
            pc'[k] \in {"idle", "skip", "done"} /\ (pc'[k] = "skip" => Stored(ev[k])')
<1> SUFFICES ASSUME NEW k \in SkipReq
             PROVE  pc'[k] \in {"idle", "skip", "done"} /\ (pc'[k] = "skip" => Stored(ev[k])')
  OBVIOUS
<1>1. pc[k] = "skip" => ev[k] \in Event
  BY DEF Typed, OnEvent, Busy, Thread
<1> QED BY <1>1 DEF Orderly, IdleWorkers, Stored

LEMMA SweeperKeeps ==
  ASSUME Typed, Quiet, Orderly, NEW s \in Sweeper, SweeperStep(s)
  PROVE  Orderly'
<1> USE ThreadAssumption DEF Typed, TypeOK, Thread
<1>1. UNCHANGED <<message, ev, handled>>
  BY DEF SweeperStep, SweepRead, SweepRow
<1>2. pc'[s] = "rows" /\ \A t \in Thread \ {s} : pc'[t] = pc[t]
  BY DEF SweeperStep, SweepRead, SweepRow, Goto
<1>3. \A e \in Event : status'[e] = status[e] \/ (status'[e] = "SKIPPED" /\ Stored(e))
  BY DEF SweeperStep, SweepRead, SweepRow, SetStatus, Orderly, IdleWorkers
<1>4. \A t \in (Worker \union Sweeper) \ {s} : todo'[t] = todo[t]
  BY DEF SweeperStep, SweepRead, SweepRow
<1>5. \A e \in todo'[s] : Stored(e)
  BY DEF SweeperStep, SweepRead, SweepRow, Orderly, IdleWorkers, Stored
<1>6. \A e \in Event : (Stored(e) => Stored(e)') /\ (status[e] = "absent" => status'[e] = "absent")
  BY <1>3 DEF Stored
<1>7. todo' \in [Worker \union Sweeper -> SUBSET Event]
  BY DEF SweeperStep, SweepRead, SweepRow
<1>8. IdleWorkers'
  <2>1. \A t \in Worker : pc'[t] = pc[t] /\ todo'[t] = todo[t]
    BY <1>2, <1>4
  <2>2. ASSUME NEW t \in Sweeper PROVE pc'[t] \in {"boot", "rows"} /\ \A e \in todo'[t] : Stored(e)
    BY <1>2, <1>4, <1>5 DEF Orderly, IdleWorkers
  <2>3. ASSUME NEW t \in Sweeper, NEW e \in todo'[t] PROVE Stored(e)'
    BY <2>2, <2>3, <1>6, <1>7
  <2>4. \A k \in SkipReq : pc'[k] = pc[k] /\ ev'[k] = ev[k]
    BY <1>1, <1>2
  <2> QED BY <1>6, <2>1, <2>2, <2>3, <2>4, SkipsStand DEF Orderly, IdleWorkers
<1>9. Holders'
  BY <1>1, <1>2, <1>6, Distinct DEF Orderly, Holders
<1>10. Rows'
  BY <1>1, <1>2, <1>3, <1>6 DEF Orderly, Rows, Stored, Terminal
<1> QED BY <1>8, <1>9, <1>10 DEF Orderly

LEMMA SkipKeeps ==
  ASSUME Typed, Quiet, Orderly, NEW k \in SkipReq, RequestStep(k)
  PROVE  Orderly'
<1> USE ThreadAssumption DEF Typed, TypeOK, Thread
<1>1. RequestRead(k) \/ SkipRow(k)
  BY DEF Orderly, IdleWorkers, RequestStep, RetryQueue, RetryReplay, Consume, Look, Write, Handle, Settle
<1>2. /\ pc'[k] \in {"skip", "done"}
      /\ \A t \in Thread \ {k} : pc'[t] = pc[t] /\ ev'[t] = ev[t]
      /\ pc'[k] = "skip" => Stored(ev'[k]) /\ UNCHANGED status
  BY <1>1 DEF RequestRead, Requestable, SkipRow, Goto, Return, Stored
<1>3. UNCHANGED <<message, handled, todo>>
  <2>1. CASE RequestRead(k)
    BY <2>1 DEF RequestRead
  <2>2. CASE SkipRow(k)
    <3>1. ev[k] \in Event /\ message[ev[k]] # k
      BY <2>2 DEF SkipRow, OnEvent, Busy, Message
    <3> QED BY <2>2, <3>1 DEF SkipRow, Return
  <2> QED BY <1>1, <2>1, <2>2
<1>4. \A e \in Event : status'[e] = status[e] \/ (status'[e] = "SKIPPED" /\ Stored(e))
  <2>1. CASE RequestRead(k)
    BY <2>1 DEF RequestRead
  <2>2. CASE SkipRow(k)
    <3>1. Stored(ev[k]) /\ status' = [status EXCEPT ![ev[k]] = "SKIPPED"]
      BY <2>2 DEF SkipRow, SetStatus, Orderly, IdleWorkers
    <3> QED BY <3>1
  <2> QED BY <1>1, <2>1, <2>2
<1>5. \A e \in Event : (Stored(e) => Stored(e)') /\ (status[e] = "absent" => status'[e] = "absent")
  BY <1>4 DEF Stored
<1>6. IdleWorkers'
  <2>1. \A t \in Worker \union Sweeper : pc'[t] = pc[t] /\ todo'[t] = todo[t]
    BY <1>2, <1>3
  <2>2. ASSUME NEW j \in SkipReq
        PROVE  pc'[j] \in {"idle", "skip", "done"} /\ (pc'[j] = "skip" => Stored(ev[j])')
    <3>1. CASE j = k
      BY <1>2, <3>1 DEF Stored
    <3>2. CASE j # k
      <4>1. pc'[j] = pc[j] /\ ev'[j] = ev[j]
        BY <1>2, <3>2
      <4>2. pc[j] = "skip" => ev[j] \in Event
        BY DEF OnEvent, Busy
      <4> QED BY <1>5, <4>1, <4>2 DEF Orderly, IdleWorkers, Stored
    <3> QED BY <3>1, <3>2
  <2>3. ASSUME NEW t \in Sweeper, NEW e \in todo[t] PROVE Stored(e)'
    BY <1>5, <2>3 DEF Orderly, IdleWorkers
  <2> QED BY <2>1, <2>2, <2>3 DEF Orderly, IdleWorkers
<1>7. Holders'
  BY <1>2, <1>3, <1>5, Distinct DEF Orderly, Holders, Stored
<1>8. Rows'
  BY <1>2, <1>3, <1>4, <1>5 DEF Orderly, Rows, Stored, Terminal
<1> QED BY <1>6, <1>7, <1>8 DEF Orderly

LEMMA DeliverKeeps ==
  ASSUME Typed, Quiet, Orderly, NEW d \in Delivery, Deliver(d)
  PROVE  Orderly'
<1> USE ThreadAssumption DEF Typed, TypeOK, Thread
<1>1. PICK e \in Event : /\ message[e] = "ready" /\ message' = [message EXCEPT ![e] = d]
                         /\ ev' = [ev EXCEPT ![d] = e]
  BY DEF Deliver
<1>2. pc[d] = "idle" /\ UNCHANGED <<status, todo, handled>>
  BY DEF Deliver
<1>3. pc'[d] = "look" /\ \A t \in Thread \ {d} : pc'[t] = pc[t] /\ ev'[t] = ev[t]
  BY <1>1 DEF Deliver, Goto
<1>4. \A b \in Delivery \ {d} : pc[b] # "idle" => ev[b] # e /\ ev[b] \in Event
  BY <1>1, Distinct
<1>5. IdleWorkers'
  BY <1>2, <1>3 DEF Orderly, IdleWorkers, Stored
<1>6. Holders'
  <2>1. message'[e] = d /\ ev'[d] = e
    BY <1>1
  <2>2. \A b \in Delivery \ {d} : pc[b] # "idle" => message'[ev[b]] = message[ev[b]]
    BY <1>1, <1>4
  <2> QED BY <1>2, <1>3, <2>1, <2>2 DEF Orderly, Holders, Stored
<1>7. Rows'
  BY <1>2, <1>3 DEF Orderly, Rows
<1> QED BY <1>5, <1>6, <1>7 DEF Orderly

LEMMA DeliveryKeeps ==
  ASSUME Typed, Quiet, Orderly, NEW d \in Delivery, Consume(d), Quiet'
  PROVE  Orderly'
<1> USE ThreadAssumption DEF Typed, TypeOK, Thread
<1> DEFINE e == ev[d]
<1>0. pc[d] \in {"look", "write", "handle", "succeed"} /\ UNCHANGED todo
  BY DEF Consume, Look, Write, Handle, Settle, Orderly, Holders
<1>1. /\ e \in Event /\ message[e] = d
      /\ \A b \in Delivery \ {d} : pc[b] # "idle" => ev[b] # e /\ ev[b] \in Event
  BY <1>0, Distinct
<1>2. \A t \in Thread \ {d} : pc'[t] = pc[t] /\ ev'[t] = ev[t]
  BY DEF Consume, Look, Write, Handle, Settle, Return, Goto
<1>3. \A f \in Event : f # e => status'[f] = status[f] /\ handled'[f] = handled[f] /\ message'[f] = message[f]
  BY DEF Consume, Look, Write, Handle, Settle, SetStatus, Return
<1>4. Stored(e) => status'[e] # "absent"
  BY <1>1 DEF Consume, Look, Write, Handle, Settle, SetStatus, Outcome, Stored
<1>5. status'[e] \in {status[e], "IN_PROGRESS", "SUCCESS"}
  BY <1>0, <1>1 DEF Consume, Look, Write, Handle, Settle, SetStatus, Outcome
<1>6. \/ pc[d] = "look" /\ pc'[d] = "idle" /\ UNCHANGED <<status, handled>>
      \/ pc[d] = "look" /\ pc'[d] = "write" /\ ~Duplicate(e) /\ UNCHANGED <<status, handled, ev, message>>
      \/ /\ pc[d] = "write" /\ pc'[d] = "handle" /\ UNCHANGED <<handled, ev, message>>
         /\ status'[e] = "IN_PROGRESS"
      \/ pc[d] = "handle" /\ pc'[d] = "succeed" /\ UNCHANGED <<status, ev, message>> /\ handled'[e] = handled[e] + 1
      \/ pc[d] = "succeed" /\ pc'[d] = "idle" /\ status'[e] = "SUCCESS" /\ UNCHANGED handled
  <2>1. CASE Look(d)
    BY <2>1, <1>1 DEF Look, Return, Goto
  <2>2. CASE Write(d)
    <3>1. status[e] = "absent"
      BY <2>2 DEF Write, Orderly, Holders
    <3> QED BY <2>2, <1>1, <3>1 DEF Write, Return, Goto, SetStatus, Stored
  <2>3. CASE Handle(d)
    <3>1. failures' = 0 /\ failures = 0
      BY DEF Quiet, Undisturbed
    <3> QED BY <2>3, <1>1, <3>1 DEF Handle, Goto
  <2>4. CASE Settle(d)
    BY <2>4, <1>0, <1>1 DEF Settle, Return, SetStatus, Outcome
  <2> QED BY <2>1, <2>2, <2>3, <2>4 DEF Consume
<1> HIDE DEF e
<1>7. pc[d] = "look" /\ ~Duplicate(e) => status[e] = "absent"
  <2>1. \A b \in Delivery : pc[b] \in {"handle", "succeed"} /\ ev[b] = e => b = d
    BY <1>1
  <2> QED BY <1>1, <2>1 DEF Orderly, Rows, Duplicate
<1>8. IdleWorkers'
  <2>1. \A f \in Event : Stored(f) => Stored(f)'
    BY <1>3, <1>4 DEF Stored
  <2>2. \A k \in SkipReq : pc'[k] = pc[k] /\ ev'[k] = ev[k]
    BY <1>2
  <2> QED BY <1>0, <1>2, <2>1, <2>2, SkipsStand DEF Orderly, IdleWorkers
<1>9. Holders'
  <2>1. \A b \in Delivery \ {d} : pc[b] # "idle" =>
          /\ status'[ev[b]] = status[ev[b]] /\ handled'[ev[b]] = handled[ev[b]]
          /\ message'[ev[b]] = message[ev[b]]
    BY <1>1, <1>3
  <2>2. ASSUME NEW b \in Delivery \ {d}
        PROVE  /\ pc'[b] \in {"idle", "look", "write", "handle", "succeed"}
               /\ pc'[b] # "idle" => message'[ev'[b]] = b
               /\ pc'[b] = "write" => status'[ev'[b]] = "absent"
               /\ pc'[b] \in {"handle", "succeed"} => Stored(ev[b])'
               /\ pc'[b] = "handle" => handled'[ev'[b]] = 0
    BY <1>2, <2>1 DEF Orderly, Holders, Stored
  <2>3. /\ pc'[d] \in {"idle", "look", "write", "handle", "succeed"}
        /\ pc'[d] # "idle" => message'[ev'[d]] = d
        /\ pc'[d] = "write" => status'[ev'[d]] = "absent"
        /\ pc'[d] \in {"handle", "succeed"} => Stored(ev[d])'
        /\ pc'[d] = "handle" => handled'[ev'[d]] = 0
    <3>1. status[e] = "absent" => handled[e] = 0
      BY <1>1 DEF Orderly, Rows
    <3>2. pc[d] = "write" => status[e] = "absent"
      BY DEF Orderly, Holders, e
    <3>3. pc[d] = "handle" => Stored(e)
      BY DEF Orderly, Holders, e
    <3> QED BY <1>1, <1>4, <1>6, <1>7, <3>1, <3>2, <3>3 DEF Stored, e
  <2> QED BY <2>2, <2>3 DEF Holders
<1>10. Rows'
  <2> SUFFICES ASSUME NEW f \in Event
               PROVE  /\ status'[f] \in {"absent", "IN_PROGRESS"} \union Terminal
                      /\ status'[f] = "IN_PROGRESS" =>
                            \E b \in Delivery : pc'[b] \in {"handle", "succeed"} /\ ev'[b] = f
                      /\ status'[f] = "absent" => handled'[f] = 0
                      /\ handled'[f] <= 1
    BY DEF Rows
  <2>0. /\ status[f] \in {"absent", "IN_PROGRESS"} \union Terminal
        /\ status[f] = "IN_PROGRESS" => \E b \in Delivery : pc[b] \in {"handle", "succeed"} /\ ev[b] = f
        /\ status[f] = "absent" => handled[f] = 0
        /\ handled[f] <= 1
    BY DEF Orderly, Rows
  <2>1. CASE f # e
    <3>1. \A b \in Delivery : ev[b] = f => b # d
      BY <2>1 DEF e
    <3> QED BY <1>2, <1>3, <2>0, <2>1, <3>1
  <2>2. CASE f = e
    <3>1. pc[d] = "handle" => handled[e] = 0 /\ Stored(e)
      BY DEF Orderly, Holders, e
    <3>2. status'[e] \in {"absent", "IN_PROGRESS"} \union Terminal
      BY <1>5, <2>0, <2>2 DEF Terminal
    <3>3. handled'[e] <= 1 /\ (status'[e] = "absent" => handled'[e] = 0)
      BY <1>4, <1>6, <2>0, <2>2, <3>1 DEF Stored
    <3>4. status[e] = "IN_PROGRESS" => pc[d] \in {"handle", "succeed"}
      BY <1>1, <2>0, <2>2
    <3>5. status'[e] = "IN_PROGRESS" => pc'[d] \in {"handle", "succeed"} /\ ev'[d] = e
      <4>1. pc[d] = "look" => status[e] # "IN_PROGRESS"
        BY <3>4
      <4>2. pc[d] \in {"write", "handle"} => ev' = ev
        BY <1>6
      <4> QED BY <1>6, <4>1, <4>2 DEF e
    <3> QED BY <2>2, <3>2, <3>3, <3>5
  <2> QED BY <2>1, <2>2
<1> QED BY <1>8, <1>9, <1>10 DEF Orderly

LEMMA DInvNext == DInv /\ [Next]_vars => DInv'
<1> SUFFICES ASSUME DInv, [Next]_vars PROVE DInv'
  OBVIOUS
<1>0. Typed /\ Typed'
  BY TypedNext DEF DInv
<1>1. CASE UNCHANGED vars
  BY <1>0, <1>1 DEF DInv, Quiet, Undisturbed, Orderly, IdleWorkers, Holders, Rows, Stored, vars, counters
<1>2. ASSUME Next, Quiet' PROVE Orderly'
  <2>1. Quiet /\ Orderly
    BY <1>0, <1>2, QuietBefore DEF DInv
  <2> QED
    BY <1>0, <1>2, <2>1, QuietBefore, ArrivalKeeps, WorkerKeeps, SweeperKeeps, SkipKeeps, DeliverKeeps,
       DeliveryKeeps
    DEF DeliveryStep
<1> QED BY <1>0, <1>1, <1>2 DEF DInv

LEMMA DInvHolds == Spec => []DInv
  BY DInvInit, DInvNext, PTL DEF Spec

(* Deduplication, for any number of deliveries, workers and duplicate       *)
(* publications: the handler completes once per event.                      *)
THEOREM DuplicatesAreDropped == Spec => []HandledOnce
<1>1. DInv => HandledOnce
  BY DEF DInv, HandledOnce, Quiet, Orderly, Rows
<1> QED BY <1>1, DInvHolds, PTL

-----------------------------------------------------------------------------
(* What strands a row *)

(* Undisturbed, only deliveries are inside consume, each with the message   *)
(* of its event in its hands, and there is nothing to recover or replay. A  *)
(* delivery that saw no row is alone with its event, so that no other       *)
(* thread has made it one in progress.                                      *)
Alone ==
    /\ \A w \in Worker : pc[w] \in {"boot", "queue", "rows"} /\ todo[w] = {}
    /\ \A s \in Sweeper : pc[s] \in {"boot", "rows"}
    /\ \A k \in SkipReq : pc[k] \in {"idle", "skip", "done"}
    /\ \A e \in Event : status[e] # "FAILED_RETRYABLE"
    /\ \A d \in Delivery :
          /\ pc[d] \in {"idle", "look", "write", "handle", "succeed"}
          /\ pc[d] # "idle" => message[ev[d]] = d
          /\ pc[d] = "write" /\ ~found[d] => status[ev[d]] # "IN_PROGRESS"

OldIsStored == \A e \in old : Stored(e)

SInv == Typed /\ OldIsStored /\ (Undisturbed => Alone) /\ OnlyFaultsStrand

LEMMA SInvInit == Init => SInv
<1> USE ThreadAssumption DEF Thread
<1> SUFFICES ASSUME Init PROVE SInv
  OBVIOUS
<1>1. /\ \A th \in Worker \union Sweeper : pc[th] = "boot"
      /\ \A th \in Delivery \union SkipReq : pc[th] = "idle"
  BY DEF Init, Start
<1>2. Alone
  BY <1>1 DEF Init, Alone
<1>3. OldIsStored /\ OnlyFaultsStrand
  BY DEF Init, OldIsStored, OnlyFaultsStrand
<1> QED BY <1>2, <1>3, TypedInit DEF SInv

(* What every step but a crash leaves of other threads, and where the       *)
(* thread that takes it stands after it.                                    *)
LEMMA ThreadMoves ==
  ASSUME Typed, NEW th \in Thread,
         \/ Consume(th) \/ ConsumeDbFault(th)
         \/ RecoverRead(th) \/ RecoverRow(th) \/ ReplayRead(th) \/ ReplayRow(th)
         \/ SweepRead(th) \/ SweepRow(th)
         \/ RequestRead(th) \/ RetryQueue(th) \/ RetryReplay(th) \/ SkipRow(th)
  PROVE  /\ \A t \in Thread \ {th} : pc'[t] = pc[t] /\ ev'[t] = ev[t] /\ found'[t] = found[t]
         /\ th \notin Delivery /\ pc[th] # "idle" => pc'[th] # "idle"
<1> USE DEF Typed, TypeOK, Goto, Return
<1>1. CASE Consume(th) \/ ConsumeDbFault(th)
  BY <1>1 DEF Consume, Look, Write, Handle, Settle, ConsumeDbFault
<1>2. CASE RecoverRead(th) \/ RecoverRow(th) \/ ReplayRead(th) \/ ReplayRow(th) \/ SweepRead(th) \/ SweepRow(th)
  BY <1>2 DEF RecoverRead, RecoverRow, ReplayRead, ReplayRow, SweepRead, SweepRow
<1>3. CASE RequestRead(th) \/ RetryQueue(th) \/ RetryReplay(th) \/ SkipRow(th)
  BY <1>3 DEF RequestRead, RetryQueue, RetryReplay, SkipRow
<1> QED BY <1>1, <1>2, <1>3

(* Undisturbed cannot be regained. *)
LEMMA UndisturbedBefore ==
  ASSUME Typed, OldIsStored, Next, Undisturbed'
  PROVE  Undisturbed /\ ~(\E e \in Event : Rebalance(e) \/ Age(e)) /\ ~(\E th \in Thread : ConsumeDbFault(th))
<1> USE ThreadAssumption DEF Typed, TypeOK
<1>1. ASSUME NEW e \in Event, Publish(e) \/ Republish(e) PROVE Undisturbed
  BY <1>1 DEF Publish, Republish, Undisturbed, counters
<1>2. ASSUME NEW e \in Event PROVE ~Rebalance(e) /\ ~Age(e)
  BY DEF Rebalance, Age, Undisturbed
<1>3. ASSUME NEW th \in Thread PROVE ~ConsumeDbFault(th)
  BY DEF ConsumeDbFault, Undisturbed
<1>4. ASSUME NEW p \in Pod, Crash(p) PROVE Undisturbed
  <2>1. old = {}
    BY <1>4 DEF Crash, Undisturbed, OldIsStored
  <2>2. \A r \in RetryReq : pc[r] = "idle"
    <3>1. ASSUME NEW r \in RetryReq, pc[r] # "idle" PROVE pc'[r] # "idle"
      BY <1>4, <3>1 DEF Crash, Thread
    <3> QED BY <3>1 DEF Undisturbed
  <2> QED BY <1>4, <2>1, <2>2 DEF Crash, Undisturbed
<1>5. ASSUME NEW d \in Delivery, Deliver(d) PROVE Undisturbed
  <2>1. \A t \in Thread \ {d} : pc'[t] = pc[t]
    BY <1>5 DEF Deliver, Goto
  <2> QED BY <1>5, <2>1 DEF Deliver, Undisturbed, counters, Thread
<1>6. ASSUME NEW th \in Thread,
             \/ Consume(th)
             \/ RecoverRead(th) \/ RecoverRow(th) \/ ReplayRead(th) \/ ReplayRow(th)
             \/ SweepRead(th) \/ SweepRow(th)
             \/ RequestRead(th) \/ RetryQueue(th) \/ RetryReplay(th) \/ SkipRow(th)
      PROVE  Undisturbed
  <2>1. \A r \in RetryReq : pc'[r] = "idle" => pc[r] = "idle"
    BY <1>6, ThreadMoves DEF Thread
  <2>2. UNCHANGED <<rebalances, dbFaults, old>> /\ (failures' = failures \/ failures' > 0)
    BY <1>6 DEF Consume, Look, Write, Handle, Settle, RecoverRead, RecoverRow, ReplayRead, ReplayRow,
                SweepRead, SweepRow, RequestRead, RetryQueue, RetryReplay, SkipRow, counters
  <2> QED BY <2>1, <2>2 DEF Undisturbed
<1> QED
  BY <1>1, <1>2, <1>3, <1>4, <1>5, <1>6
  DEF Next, DeliveryStep, WorkerStep, SweeperStep, RequestStep, Thread

(* Under Undisturbed, the events of deliveries at work differ. *)
LEMMA AloneDistinct ==
  ASSUME Typed, Alone, NEW d \in Delivery, pc[d] # "idle"
  PROVE  /\ ev[d] \in Event /\ d \in Thread /\ message[ev[d]] = d
         /\ \A b \in Delivery \ {d} : pc[b] # "idle" => ev[b] # ev[d] /\ ev[b] \in Event
  BY DEF Alone, Typed, OnEvent, Busy, Thread

LEMMA ArrivalAlone ==
  ASSUME Typed, Alone, NEW e \in Event, Publish(e) \/ Republish(e)
  PROVE  Alone'
<1>1. UNCHANGED <<status, pc, ev, found, todo>> /\ message[e] \in {"unsent", "acked"}
  BY DEF Publish, Republish
<1>2. \A f \in Event : f # e => message'[f] = message[f]
  BY DEF Publish, Republish, Typed, TypeOK
<1>3. \A d \in Delivery : pc[d] # "idle" => ev[d] # e /\ ev[d] \in Event
  BY <1>1, ThreadAssumption, AloneDistinct
<1> QED BY <1>1, <1>2, <1>3 DEF Alone

LEMMA DeliverAlone ==
  ASSUME Typed, Alone, NEW d \in Delivery, Deliver(d)
  PROVE  Alone'
<1> USE ThreadAssumption DEF Typed, TypeOK, Thread
<1>1. PICK e \in Event : /\ message[e] = "ready" /\ message' = [message EXCEPT ![e] = d]
                         /\ ev' = [ev EXCEPT ![d] = e]
  BY DEF Deliver
<1>2. UNCHANGED <<status, todo, found>>
  BY DEF Deliver
<1>3. pc'[d] = "look" /\ \A t \in Thread \ {d} : pc'[t] = pc[t] /\ ev'[t] = ev[t]
  BY <1>1 DEF Deliver, Goto
<1>4. \A b \in Delivery \ {d} : pc[b] # "idle" => ev[b] \in Event /\ message'[ev[b]] = message[ev[b]]
  BY <1>1, AloneDistinct DEF Alone
<1>5. message'[e] = d /\ ev'[d] = e
  BY <1>1
<1> QED BY <1>2, <1>3, <1>4, <1>5 DEF Alone

LEMMA ConsumeAlone ==
  ASSUME Typed, Alone, NEW th \in Thread, Consume(th), Undisturbed, Undisturbed'
  PROVE  Alone'
<1> USE ThreadAssumption DEF Typed, TypeOK, Thread
<1>0. th \in Delivery /\ pc[th] \in {"look", "write", "handle", "succeed"}
  BY DEF Alone, Undisturbed, Consume, Look, Write, Handle, Settle
<1>1. /\ ev[th] \in Event /\ message[ev[th]] = th
      /\ \A b \in Delivery \ {th} : pc[b] # "idle" => ev[b] # ev[th] /\ ev[b] \in Event
  BY <1>0, AloneDistinct
<1>2. UNCHANGED todo /\ \A t \in Thread \ {th} : pc'[t] = pc[t] /\ ev'[t] = ev[t] /\ found'[t] = found[t]
  BY ThreadMoves DEF Consume, Look, Write, Handle, Settle
<1>3. \A f \in Event : f # ev[th] => status'[f] = status[f] /\ message'[f] = message[f]
  BY DEF Consume, Look, Write, Handle, Settle, SetStatus, Return
<1>4. status'[ev[th]] # "FAILED_RETRYABLE"
  BY <1>0, <1>1 DEF Consume, Look, Write, Handle, Settle, SetStatus, Outcome, Alone
<1>5. \/ pc'[th] = "idle"
      \/ /\ pc'[th] \in {"write", "handle", "succeed"} /\ UNCHANGED <<ev, message>>
         /\ pc'[th] = "write" => UNCHANGED status /\ found'[th] = Stored(ev[th])
  <2>1. CASE Look(th)
    BY <1>0, <2>1 DEF Look, Return, Goto
  <2>2. CASE Write(th)
    BY <1>0, <2>2 DEF Write, Return, Goto
  <2>3. CASE Handle(th)
    <3>1. failures' = 0 /\ failures = 0
      BY DEF Undisturbed
    <3> QED BY <1>0, <2>3, <3>1 DEF Handle, Goto
  <2>4. CASE Settle(th)
    BY <1>0, <2>4 DEF Settle, Return
  <2> QED BY <2>1, <2>2, <2>3, <2>4 DEF Consume
<1>6. ASSUME NEW d \in Delivery
      PROVE  /\ pc'[d] \in {"idle", "look", "write", "handle", "succeed"}
             /\ pc'[d] # "idle" => message'[ev'[d]] = d
             /\ pc'[d] = "write" /\ ~found'[d] => status'[ev'[d]] # "IN_PROGRESS"
  <2>1. CASE d = th
    BY <1>1, <1>5, <2>1 DEF Stored
  <2>2. CASE d # th
    BY <1>1, <1>2, <1>3, <2>2 DEF Alone
  <2> QED BY <2>1, <2>2
<1>7. \A e \in Event : status'[e] # "FAILED_RETRYABLE"
  BY <1>3, <1>4 DEF Alone
<1> QED BY <1>0, <1>2, <1>6, <1>7 DEF Alone

(* The statements of the other threads at most skip rows ... *)
LEMMA OthersWrite ==
  ASSUME Typed, Alone, Undisturbed, Undisturbed', NEW th \in Thread \ Delivery,
         \/ th \in Worker /\ (RecoverRead(th) \/ RecoverRow(th) \/ ReplayRead(th) \/ ReplayRow(th))
         \/ th \in Sweeper /\ SweeperStep(th)
         \/ /\ th \in RetryReq \union SkipReq
            /\ RequestRead(th) \/ RetryQueue(th) \/ RetryReplay(th) \/ SkipRow(th)
  PROVE  UNCHANGED message /\ \A e \in Event : status'[e] \in {status[e], "SKIPPED"}
<1> USE ThreadAssumption DEF Typed, TypeOK, Thread
<1>1. CASE th \in Worker
  BY <1>1 DEF RecoverRead, RecoverRow, ReplayRead, ReplayRow, SweeperStep, SweepRead, SweepRow,
              RequestRead, RetryQueue, RetryReplay, SkipRow, SetStatus, Alone
<1>2. CASE th \in Sweeper
  BY <1>2 DEF SweeperStep, SweepRead, SweepRow, SetStatus
<1>3. CASE th \in RetryReq
  BY <1>3, ThreadMoves DEF Undisturbed, RequestRead, RetryQueue, RetryReplay, SkipRow, Goto
<1>4. CASE th \in SkipReq
  <2>1. RequestRead(th) \/ SkipRow(th)
    BY <1>4 DEF Alone, RetryQueue, RetryReplay
  <2>2. CASE RequestRead(th)
    BY <2>2 DEF RequestRead
  <2>3. CASE SkipRow(th)
    <3>1. ev[th] \in Event /\ pc[th] = "skip"
      BY <2>3 DEF SkipRow, OnEvent, Busy
    <3>2. message[ev[th]] # th
      BY <3>1 DEF Message
    <3>3. UNCHANGED message
      BY <2>3, <3>2 DEF SkipRow, Return
    <3>4. status' = [status EXCEPT ![ev[th]] = "SKIPPED"]
      BY <2>3 DEF SkipRow, SetStatus
    <3> QED BY <3>1, <3>3, <3>4
  <2> QED BY <2>1, <2>2, <2>3
<1> QED BY <1>1, <1>2, <1>3, <1>4

(* ... and leave the deliveries alone. *)
LEMMA OthersAlone ==
  ASSUME Typed, Alone, Undisturbed, Undisturbed', NEW th \in Thread \ Delivery,
         \/ th \in Worker /\ (RecoverRead(th) \/ RecoverRow(th) \/ ReplayRead(th) \/ ReplayRow(th))
         \/ th \in Sweeper /\ SweeperStep(th)
         \/ /\ th \in RetryReq \union SkipReq
            /\ RequestRead(th) \/ RetryQueue(th) \/ RetryReplay(th) \/ SkipRow(th)
  PROVE  Alone'
<1> USE ThreadAssumption DEF Typed, TypeOK, Thread
<1>1. \A t \in Thread \ {th} : pc'[t] = pc[t] /\ ev'[t] = ev[t] /\ found'[t] = found[t]
  BY ThreadMoves DEF SweeperStep
<1>2. UNCHANGED message /\ \A e \in Event : status'[e] \in {status[e], "SKIPPED"}
  BY OthersWrite
<1>3. \A w \in Worker : pc'[w] \in {"boot", "queue", "rows"} /\ todo'[w] = {}
  <2>1. \A e \in Event : ~Due(e) /\ ~Stale(e)
    BY DEF Alone, Undisturbed, Due, Stale
  <2>2. CASE th \in Worker
    <3>1. (RecoverRead(th) \/ ReplayRead(th)) /\ pc'[th] \in {"queue", "rows"}
      BY <2>2 DEF RecoverRead, RecoverRow, ReplayRead, ReplayRow, SweeperStep, SweepRead, SweepRow,
                  RequestRead, RetryQueue, RetryReplay, SkipRow, Goto, Alone
    <3>2. todo' = [todo EXCEPT ![th] = {}]
      BY <2>1, <3>1 DEF RecoverRead, ReplayRead
    <3> QED BY <1>1, <3>1, <3>2 DEF Alone
  <2>3. CASE th \notin Worker
    <3>1. \A w \in Worker : todo'[w] = todo[w]
      BY <2>3 DEF SweeperStep, SweepRead, SweepRow, RequestRead, RetryQueue, RetryReplay, SkipRow
    <3> QED BY <1>1, <2>3, <3>1 DEF Alone
  <2> QED BY <2>2, <2>3
<1>4. th \in Sweeper => pc'[th] = "rows"
  BY DEF SweeperStep, SweepRead, SweepRow, Goto, Alone
<1>5. th \in SkipReq => pc'[th] \in {"skip", "done"}
  BY DEF RequestRead, RetryQueue, RetryReplay, SkipRow, Goto, Return, Alone
<1>6. ASSUME NEW d \in Delivery
      PROVE  /\ pc'[d] \in {"idle", "look", "write", "handle", "succeed"}
             /\ pc'[d] # "idle" => message'[ev'[d]] = d
             /\ pc'[d] = "write" /\ ~found'[d] => status'[ev'[d]] # "IN_PROGRESS"
  <2>1. d # th /\ (pc[d] # "idle" => ev[d] \in Event)
    BY AloneDistinct
  <2> QED BY <1>1, <1>2, <2>1 DEF Alone
<1>7. \A e \in Event : status'[e] # "FAILED_RETRYABLE"
  BY <1>2 DEF Alone
<1>8. (\A s \in Sweeper : pc'[s] \in {"boot", "rows"}) /\ \A k \in SkipReq : pc'[k] \in {"idle", "skip", "done"}
  BY <1>1, <1>4, <1>5 DEF Alone
<1> QED BY <1>3, <1>6, <1>7, <1>8 DEF Alone

LEMMA CrashAlone ==
  ASSUME Typed, Alone, NEW p \in Pod, Crash(p)
  PROVE  Alone'
<1> USE ThreadAssumption DEF Typed, TypeOK, Thread
<1>1. \A t \in Thread : PodOf[t] # p => pc'[t] = pc[t] /\ ev'[t] = ev[t] /\ found'[t] = found[t]
  BY DEF Crash
<1>2. \A t \in Worker \union Sweeper : PodOf[t] = p => pc'[t] = "boot"
  BY DEF Crash, Start
<1>3. \A k \in SkipReq : PodOf[k] = p => pc'[k] \in {"idle", "done"}
  BY DEF Crash, Start
<1>4. \A d \in Delivery : PodOf[d] = p => pc'[d] = "idle"
  BY DEF Crash, Start
<1>5. UNCHANGED status
  BY DEF Crash
<1>6. \A w \in Worker : todo'[w] = {}
  BY DEF Crash, Alone
<1>7. \A d \in Delivery, e \in Event : message[e] = d /\ PodOf[d] # p => message'[e] = d
  BY DEF Crash
<1>8. ASSUME NEW d \in Delivery
      PROVE  /\ pc'[d] \in {"idle", "look", "write", "handle", "succeed"}
             /\ pc'[d] # "idle" => message'[ev'[d]] = d
             /\ pc'[d] = "write" /\ ~found'[d] => status'[ev'[d]] # "IN_PROGRESS"
  <2>1. CASE PodOf[d] = p
    BY <1>4, <2>1
  <2>2. CASE PodOf[d] # p
    <3>1. pc[d] # "idle" => ev[d] \in Event
      BY AloneDistinct
    <3> QED BY <1>1, <1>5, <1>7, <2>2, <3>1 DEF Alone
  <2> QED BY <2>1, <2>2
<1>9. /\ \A w \in Worker : pc'[w] \in {"boot", "queue", "rows"}
      /\ \A s \in Sweeper : pc'[s] \in {"boot", "rows"}
      /\ \A k \in SkipReq : pc'[k] \in {"idle", "skip", "done"}
  BY <1>1, <1>2, <1>3 DEF Alone
<1> QED BY <1>5, <1>6, <1>8, <1>9 DEF Alone

LEMMA AloneNext ==
  ASSUME Typed, Undisturbed => Alone, Undisturbed, Next, Undisturbed',
         ~(\E e \in Event : Rebalance(e) \/ Age(e)) /\ ~(\E th \in Thread : ConsumeDbFault(th))
  PROVE  Alone'
<1> USE ThreadAssumption DEF Thread
<1>1. ASSUME NEW th \in Thread, Consume(th) PROVE Alone'
  BY <1>1, ConsumeAlone
<1>2. ASSUME NEW w \in Worker, RecoverRead(w) \/ RecoverRow(w) \/ ReplayRead(w) \/ ReplayRow(w) PROVE Alone'
  <2>1. w \in Thread \ Delivery
    OBVIOUS
  <2> QED BY <1>2, <2>1, OthersAlone
<1>3. ASSUME NEW s \in Sweeper, SweeperStep(s) PROVE Alone'
  <2>1. s \in Thread \ Delivery
    OBVIOUS
  <2> QED BY <1>3, <2>1, OthersAlone
<1>4. ASSUME NEW r \in RetryReq \union SkipReq, RequestRead(r) \/ RetryQueue(r) \/ RetryReplay(r) \/ SkipRow(r)
      PROVE  Alone'
  <2>1. r \in Thread \ Delivery
    OBVIOUS
  <2> QED BY <1>4, <2>1, OthersAlone
<1> QED
  BY <1>1, <1>2, <1>3, <1>4, ArrivalAlone, DeliverAlone, CrashAlone
  DEF Next, DeliveryStep, WorkerStep, RequestStep

(* A row is only made one in progress by a thread that goes on to handle    *)
(* it; and as long as the row stays in progress, that thread is at it.      *)
Held(e) == \E th \in Thread : Handling(th, e)

LEMMA HeldMoves ==
  ASSUME Typed, NEW th \in Thread,
         \/ Consume(th)
         \/ th \in Delivery /\ Deliver(th)
         \/ th \in Worker /\ (RecoverRead(th) \/ RecoverRow(th) \/ ReplayRead(th) \/ ReplayRow(th))
         \/ th \in Sweeper /\ SweeperStep(th)
         \/ /\ th \in RetryReq \union SkipReq
            /\ RequestRead(th) \/ RetryQueue(th) \/ RetryReplay(th) \/ SkipRow(th),
         NEW e \in Event, status'[e] = "IN_PROGRESS"
  PROVE  Held(e)' \/ (status[e] = "IN_PROGRESS" /\ ~Held(e))
<1> USE DEF Typed, TypeOK
<1>1. \A t \in Thread \ {th} : pc'[t] = pc[t] /\ ev'[t] = ev[t]
  <2>1. CASE Deliver(th)
    BY <2>1 DEF Deliver, Goto
  <2> QED BY <2>1, ThreadMoves DEF SweeperStep
<1>2. \A t \in Thread \ {th} : Handling(t, e) => Held(e)'
  BY <1>1 DEF Handling, Held
<1>3. CASE Consume(th)
  <2>0. ev[th] \in Event
    BY <1>3 DEF Consume, Look, Write, Handle, Settle, OnEvent, Busy
  <2>1. CASE Look(th)
    BY <1>2, <2>1 DEF Look, Handling, Held
  <2>2. CASE Write(th)
    <3>1. CASE status'[e] = status[e]
      BY <1>2, <2>2, <3>1 DEF Write, Handling, Held
    <3>2. CASE status'[e] # status[e]
      <4>1. pc'[th] = "handle" /\ ev'[th] = e
        BY <2>0, <2>2, <3>2 DEF Write, SetStatus, Goto
      <4> QED BY <4>1 DEF Handling, Held
    <3> QED BY <3>1, <3>2
  <2>3. CASE Handle(th)
    <3>1. pc'[th] \in {"succeed", "fail", "reject"} /\ UNCHANGED <<ev, status>>
      BY <2>3 DEF Handle, Goto
    <3>2. Handling(th, e) => Handling(th, e)'
      BY <3>1 DEF Handling
    <3> QED BY <1>2, <3>1, <3>2 DEF Held
  <2>4. CASE Settle(th)
    <3>1. status' = [status EXCEPT ![ev[th]] = Outcome(pc[th])] /\ Outcome(pc[th]) # "IN_PROGRESS"
      BY <2>4 DEF Settle, SetStatus, Outcome
    <3>2. ev[th] # e /\ status'[e] = status[e]
      BY <2>0, <3>1
    <3> QED BY <1>2, <3>2 DEF Held, Handling
  <2> QED BY <1>3, <2>1, <2>2, <2>3, <2>4 DEF Consume
<1>4. CASE ~Consume(th)
  <2>1. status[e] = "IN_PROGRESS"
    <3>1. \A f \in Event : Recovered(f) # "IN_PROGRESS"
      BY DEF Recovered
    <3>2. CASE th \in Worker /\ (RecoverRead(th) \/ RecoverRow(th) \/ ReplayRead(th) \/ ReplayRow(th))
      BY <3>1, <3>2 DEF RecoverRead, RecoverRow, ReplayRead, ReplayRow, SetStatus
    <3>3. CASE Deliver(th) \/ SweeperStep(th)
      BY <3>3 DEF Deliver, SweeperStep, SweepRead, SweepRow, SetStatus
    <3>4. CASE RequestRead(th) \/ RetryQueue(th) \/ RetryReplay(th) \/ SkipRow(th)
      BY <3>4 DEF RequestRead, RetryQueue, RetryReplay, SkipRow, SetStatus
    <3> QED BY <1>4, <3>2, <3>3, <3>4
  <2>2. ~Handling(th, e)
    BY <1>4 DEF Handling, Deliver, RecoverRead, RecoverRow, ReplayRead, ReplayRow, SweeperStep, SweepRead,
                SweepRow, RequestRead, RetryQueue, RetryReplay, SkipRow
  <2> QED BY <1>2, <2>1, <2>2 DEF Held
<1> QED BY <1>3, <1>4

(* Under Undisturbed, a message is let go only with a row that is not in progress. *)
LEMMA GoneIsSettled ==
  ASSUME Typed, Alone, Undisturbed, Undisturbed', Next,
         ~(\E e \in Event : Rebalance(e) \/ Age(e)) /\ ~(\E th \in Thread : ConsumeDbFault(th)),
         NEW e \in Event, message[e] # "acked", status'[e] = "IN_PROGRESS"
  PROVE  message'[e] # "acked"
<1> USE ThreadAssumption DEF Typed, TypeOK, Thread
<1>1. ASSUME NEW f \in Event, Publish(f) \/ Republish(f) PROVE message'[e] # "acked"
  BY <1>1 DEF Publish, Republish
<1>2. ASSUME NEW d \in Delivery, Deliver(d) PROVE message'[e] # "acked"
  BY <1>2 DEF Deliver
<1>3. ASSUME NEW p \in Pod, Crash(p) PROVE message'[e] # "acked"
  BY <1>3 DEF Crash
<1>4. ASSUME NEW th \in Thread, Consume(th) PROVE message'[e] # "acked"
  <2>1. th \in Delivery /\ pc[th] \in {"look", "write", "handle", "succeed"} /\ ev[th] \in Event
    BY <1>4, AloneDistinct DEF Alone, Undisturbed, Consume, Look, Write, Handle, Settle
  <2>2. CASE UNCHANGED message
    BY <2>2
  <2>3. CASE Return(th)
    <3>1. CASE Look(th)
      <4>1. Duplicate(ev[th]) /\ UNCHANGED status
        BY <2>3, <3>1 DEF Look, Return, Goto
      <4>2. ev[th] # e
        BY <4>1 DEF Duplicate, Terminal
      <4> QED BY <2>1, <2>3, <4>2, ReturnGrows
    <3>2. CASE Write(th)
      <4>1. ~found[th] /\ UNCHANGED status /\ pc[th] = "write"
        BY <2>3, <3>2 DEF Write, Return, Goto
      <4>2. ev[th] # e
        BY <2>1, <4>1 DEF Alone
      <4> QED BY <2>1, <2>3, <4>2, ReturnGrows
    <3>3. CASE Settle(th)
      <4>1. status'[ev[th]] # "IN_PROGRESS"
        BY <2>1, <3>3 DEF Settle, SetStatus, Outcome
      <4> QED BY <2>1, <2>3, <4>1, ReturnGrows
    <3>4. CASE Handle(th)
      BY <3>4 DEF Handle
    <3> QED BY <1>4, <3>1, <3>2, <3>3, <3>4 DEF Consume
  <2> QED BY <1>4, <2>2, <2>3 DEF Consume, Look, Write, Handle, Settle
<1>5. ASSUME NEW th \in Thread \ Delivery,
             \/ th \in Worker /\ (RecoverRead(th) \/ RecoverRow(th) \/ ReplayRead(th) \/ ReplayRow(th))
             \/ th \in Sweeper /\ SweeperStep(th)
             \/ /\ th \in RetryReq \union SkipReq
                /\ RequestRead(th) \/ RetryQueue(th) \/ RetryReplay(th) \/ SkipRow(th)
      PROVE  message'[e] # "acked"
  BY <1>5, OthersWrite
<1>6. ASSUME NEW w \in Worker, RecoverRead(w) \/ RecoverRow(w) \/ ReplayRead(w) \/ ReplayRow(w)
      PROVE  message'[e] # "acked"
  <2>1. w \in Thread \ Delivery
    OBVIOUS
  <2> QED BY <1>5, <1>6, <2>1
<1>7. ASSUME NEW s \in Sweeper, SweeperStep(s) PROVE message'[e] # "acked"
  <2>1. s \in Thread \ Delivery
    OBVIOUS
  <2> QED BY <1>5, <1>7, <2>1
<1>8. ASSUME NEW r \in RetryReq \union SkipReq, RequestRead(r) \/ RetryQueue(r) \/ RetryReplay(r) \/ SkipRow(r)
      PROVE  message'[e] # "acked"
  <2>1. r \in Thread \ Delivery
    OBVIOUS
  <2> QED BY <1>5, <1>8, <2>1
<1> QED
  BY <1>1, <1>2, <1>3, <1>4, <1>6, <1>7, <1>8 DEF Next, DeliveryStep, WorkerStep, RequestStep

(* The faults of a strand stay faults. *)
LEMMA StrandNext ==
  ASSUME SInv, Next, Typed', Undisturbed' => Alone' PROVE OnlyFaultsStrand'
<1> SUFFICES ASSUME NEW e \in Event, status'[e] = "IN_PROGRESS", ~Held(e)', dbFaults' = 0
             PROVE  crashes' > 0 /\ (message'[e] # "acked" \/ ~Undisturbed')
  <2>1. failures' \in Nat /\ rebalances' \in Nat /\ dbFaults' \in Nat
    BY DEF Typed, TypeOK
  <2> QED BY <2>1 DEF OnlyFaultsStrand, Undisturbed, Held
<1>0. Typed /\ OldIsStored /\ (Undisturbed => Alone) /\ crashes \in Nat /\ dbFaults \in Nat
  BY DEF SInv, Typed, TypeOK
<1>1. status[e] = "IN_PROGRESS" /\ ~Held(e) => crashes > 0 /\ (message[e] # "acked" \/ ~Undisturbed)
  <2>1. dbFaults = 0
    BY <1>0, StepGrows DEF Grows
  <2> QED BY <2>1 DEF SInv, OnlyFaultsStrand, Undisturbed, Held
<1>2. crashes' = crashes \/ crashes' = crashes + 1
  BY DEF Next, Publish, Republish, Rebalance, Age, DeliveryStep, Deliver, Consume, Look, Write, Handle,
         Settle, WorkerStep, RecoverRead, RecoverRow, ReplayRead, ReplayRow, SweeperStep, SweepRead, SweepRow,
         RequestStep, RequestRead, RetryQueue, RetryReplay, SkipRow, ConsumeDbFault, Crash, counters
<1>3. CASE status[e] = "IN_PROGRESS" /\ ~Held(e)
  <2>1. crashes' > 0
    BY <1>0, <1>1, <1>2, <1>3
  <2>2. Undisturbed' => message[e] # "acked" /\ message'[e] # "acked"
    BY <1>0, <1>1, <1>3, UndisturbedBefore, GoneIsSettled
  <2> QED BY <2>1, <2>2
<1>4. CASE ~(status[e] = "IN_PROGRESS" /\ ~Held(e))
  <2>1. PICK p \in Pod : Crash(p)
    <3>1. ~(\E th \in Thread : ConsumeDbFault(th))
      BY <1>0 DEF ConsumeDbFault
    <3>2. ~(\E f \in Event : Publish(f) \/ Republish(f) \/ Rebalance(f) \/ Age(f))
      BY <1>4 DEF Publish, Republish, Rebalance, Age, Held, Handling
    <3> QED BY <1>0, <1>4, <3>1, <3>2, HeldMoves
            DEF Next, DeliveryStep, WorkerStep, RequestStep, Thread
  <2>2. status[e] = "IN_PROGRESS"
    BY <2>1 DEF Crash
  <2>3. PICK th \in Thread : Handling(th, e)
    BY <1>4, <2>2 DEF Held
  <2>4. PodOf[th] = p
    <3>1. PodOf[th] # p => Handling(th, e)'
      BY <2>1, <2>3 DEF Crash, Handling
    <3> QED BY <3>1 DEF Held
  <2>5. Undisturbed' => message'[e] # "acked"
    <3> SUFFICES ASSUME Undisturbed' PROVE message'[e] # "acked"
      OBVIOUS
    <3>1. Alone
      BY <1>0, UndisturbedBefore
    <3>2. th \in Delivery /\ message[e] = th
      <4>1. ev[th] = e /\ pc[th] \in {"handle", "succeed", "fail", "reject"}
        BY <2>3 DEF Handling
      <4>2. th \in Delivery
        BY <1>0, <3>1, <4>1, UndisturbedBefore DEF Alone, Thread, Undisturbed
      <4> QED BY <3>1, <4>1, <4>2 DEF Alone
    <3>3. message'[e] = "ready"
      BY <2>1, <2>4, <3>2 DEF Crash
    <3> QED BY <3>3
  <2>6. crashes' > 0
    BY <1>0, <2>1 DEF Crash
  <2> QED BY <2>5, <2>6
<1> QED BY <1>3, <1>4

LEMMA SInvNext == SInv /\ [Next]_vars => SInv'
<1> SUFFICES ASSUME SInv, [Next]_vars PROVE SInv'
  OBVIOUS
<1>0. Typed /\ OldIsStored /\ Typed'
  BY TypedNext DEF SInv
<1>1. CASE UNCHANGED vars
  BY <1>0, <1>1 DEF SInv, OldIsStored, Stored, Undisturbed, Alone, OnlyFaultsStrand, Handling, vars, counters
<1>2. CASE Next
  <2>1. OldIsStored'
    <3>1. \A e \in old' : e \in old \/ Stored(e)
      BY <1>2 DEF Next, Publish, Republish, Rebalance, Age, DeliveryStep, Deliver, Consume, Look, Write, Handle,
                  Settle, WorkerStep, RecoverRead, RecoverRow, ReplayRead, ReplayRow, SweeperStep, SweepRead,
                  SweepRow, RequestStep, RequestRead, RetryQueue, RetryReplay, SkipRow, ConsumeDbFault, Crash
    <3>2. old' \in SUBSET Event
      BY <1>0 DEF Typed, TypeOK
    <3> QED BY <1>0, <3>1, <3>2, StepGrows DEF OldIsStored, Grows
  <2>2. Undisturbed' => Alone'
    BY <1>0, <1>2, UndisturbedBefore, AloneNext DEF SInv
  <2>3. OnlyFaultsStrand'
    BY <1>0, <1>2, <2>2, StrandNext
  <2> QED BY <1>0, <2>1, <2>2, <2>3 DEF SInv
<1> QED BY <1>1, <1>2

LEMMA SInvHolds == Spec => []SInv
  BY SInvInit, SInvNext, PTL DEF Spec

(* No race between deliveries, replays, recovery, sweep and operators       *)
(* strands a row in progress: only a failing statement does, or a crash of  *)
(* something else than the delivery that held the message.                  *)
THEOREM RowsAreStrandedByFaults == Spec => []OnlyFaultsStrand
  BY SInvHolds, PTL DEF SInv

(* As long as no statement and no handler fails, no partition moves, no row *)
(* outlives the cutoff and nobody asks for a retry, no event is in the      *)
(* hands of two handlers, crashes and redeliveries included.                *)
THEOREM HandlersExclude == Spec => []OneHandlerAtATime
<1>1. SInv => OneHandlerAtATime
  <2> SUFFICES ASSUME SInv, Undisturbed, NEW e \in Event
               PROVE  Cardinality({th \in Thread : Handling(th, e)}) <= 1
    BY DEF OneHandlerAtATime
  <2> DEFINE H == {th \in Thread : Handling(th, e)}
  <2>1. Typed /\ Alone
    BY DEF SInv
  <2>2. H \subseteq Delivery
    BY <2>1 DEF Handling, Thread, Undisturbed, Alone
  <2>3. \A a, b \in H : a = b
    BY <2>1, <2>2, AloneDistinct DEF Handling
  <2>4. CASE H = {}
    BY <2>4, FS_EmptySet
  <2>5. CASE H # {}
    <3> PICK a \in H : TRUE
      BY <2>5
    <3>1. H = {a}
      BY <2>3
    <3> QED BY <3>1, FS_Singleton
  <2> QED BY <2>4, <2>5
<1> QED BY <1>1, SInvHolds, PTL
-----------------------------------------------------------------------------
(* What takes SUCCESS back *)

(* A thread's own step begins nothing on a successful row, and overwrites   *)
(* it only when the thread was dealing with it before.                      *)
Respects(th, e) ==
    /\ Deals(th, e)' => Deals(th, e)
    /\ status'[e] # "SUCCESS" => Deals(th, e) /\ Acts(th)

LEMMA ConsumeRespects ==
  ASSUME Typed, NEW th \in Thread, Consume(th) \/ ConsumeDbFault(th),
         NEW e \in Event, status[e] = "SUCCESS"
  PROVE  Respects(th, e)
<1> USE ThreadAssumption DEF Typed, TypeOK
<1>1. UNCHANGED todo /\ pc[th] # "queue"
  BY DEF Consume, Look, Write, Handle, Settle, ConsumeDbFault
<1>2. CASE Look(th)
  <2>1. ev[th] = e => pc'[th] # "write"
    BY <1>2 DEF Look, Duplicate, Terminal, Return
  <2>2. status' = status /\ pc'[th] \in {"write", "idle", "rows", "done"} /\ (ev'[th] = ev[th] \/ pc'[th] # "write")
    BY <1>2 DEF Look, Goto, Return
  <2> QED BY <1>1, <2>1, <2>2 DEF Respects, Deals
<1>3. CASE Write(th)
  <2>1. pc[th] = "write" /\ pc'[th] \in {"handle", "idle", "rows", "done"} /\ (ev'[th] = ev[th] \/ pc'[th] # "handle")
    BY <1>3 DEF Write, Goto, Return
  <2>2. ev[th] # e => status'[e] = status[e]
    BY <1>3 DEF Write, SetStatus
  <2> QED BY <1>1, <2>1, <2>2 DEF Respects, Deals, Acts
<1>4. CASE Handle(th)
  BY <1>1, <1>4 DEF Handle, Goto, Respects, Deals
<1>5. CASE Settle(th)
  <2>1. pc'[th] \in {"idle", "rows", "done"} /\ pc[th] \in {"succeed", "fail", "reject"}
    BY <1>5 DEF Settle, Return
  <2>2. ev[th] # e => status'[e] = status[e]
    BY <1>5 DEF Settle, SetStatus
  <2> QED BY <1>1, <2>1, <2>2 DEF Respects, Deals, Acts
<1>6. CASE ConsumeDbFault(th)
  <2>1. status' = status
    BY <1>6 DEF ConsumeDbFault
  <2>2. \/ pc'[th] \in {"idle", "rows", "done"}
        \/ pc[th] = "succeed" /\ ev' = ev /\ pc'[th] = "fail"
    BY <1>6 DEF ConsumeDbFault, Return, Goto
  <2> QED BY <1>1, <2>1, <2>2 DEF Respects, Deals
<1> QED BY <1>2, <1>3, <1>4, <1>5, <1>6 DEF Consume

LEMMA RowsRespect ==
  ASSUME Typed, NEW th \in Worker \union Sweeper,
         RecoverRead(th) \/ RecoverRow(th) \/ ReplayRead(th) \/ ReplayRow(th) \/ SweepRead(th) \/ SweepRow(th),
         NEW e \in Event, status[e] = "SUCCESS"
  PROVE  Respects(th, e)
<1> USE ThreadAssumption DEF Typed, TypeOK, Thread
<1>1. CASE RecoverRead(th) \/ ReplayRead(th) \/ SweepRead(th)
  <2>1. e \notin todo'[th] /\ UNCHANGED <<status, ev>> /\ pc'[th] \in {"queue", "rows"}
    BY <1>1 DEF RecoverRead, ReplayRead, SweepRead, Stale, Due, Goto
  <2> QED BY <2>1 DEF Respects, Deals
<1>2. CASE RecoverRow(th) \/ SweepRow(th)
  <2>1. PICK f \in todo[th] : \E s \in Status : SetStatus(f, s) /\ todo' = [todo EXCEPT ![th] = @ \ {f}]
    BY <1>2 DEF RecoverRow, SweepRow, Recovered, Status, Terminal, Failed
  <2>2. UNCHANGED <<pc, ev>> /\ (pc[th] = "queue" \/ th \in Sweeper)
    BY <1>2 DEF RecoverRow, SweepRow
  <2>3. todo'[th] = todo[th] \ {f} /\ todo'[th] # todo[th]
    BY <2>1
  <2>4. Deals(th, e)' => Deals(th, e)
    BY <2>2, <2>3 DEF Deals
  <2>5. CASE f = e
    BY <2>2, <2>3, <2>4, <2>5 DEF Respects, Deals, Acts
  <2>6. CASE f # e
    <3>1. status'[e] = status[e]
      BY <2>1, <2>6 DEF SetStatus
    <3> QED BY <2>4, <3>1 DEF Respects
  <2> QED BY <2>5, <2>6
<1>3. CASE ReplayRow(th)
  <2>1. PICK f \in todo[th] : /\ todo' = [todo EXCEPT ![th] = @ \ {f}]
                             /\ \/ pc'[th] = "look" /\ UNCHANGED status
                                \/ f \notin HasOutbox /\ SetStatus(f, "SKIPPED") /\ UNCHANGED <<pc, ev>>
    BY <1>3 DEF ReplayRow, Goto
  <2>2. pc[th] = "rows"
    BY <1>3 DEF ReplayRow
  <2> QED BY <2>1, <2>2 DEF Respects, Deals, Acts, SetStatus
<1> QED BY <1>1, <1>2, <1>3

LEMMA RequestRespects ==
  ASSUME Typed, NEW th \in RetryReq \union SkipReq,
         RequestRead(th) \/ RetryQueue(th) \/ RetryReplay(th) \/ SkipRow(th),
         NEW e \in Event, status[e] = "SUCCESS"
  PROVE  Respects(th, e)
<1> USE ThreadAssumption DEF Typed, TypeOK, Thread
<1>0. th \in Thread /\ th \notin Worker \union Sweeper
  OBVIOUS
<1>1. CASE RequestRead(th)
  <2>1. ev'[th] # e /\ UNCHANGED status
    BY <1>0, <1>1 DEF RequestRead, Requestable
  <2> QED BY <1>0, <2>1 DEF Respects, Deals
<1>2. CASE RetryQueue(th)
  <2>1. th \in RetryReq /\ pc[th] = "queue" /\ pc'[th] = "replay" /\ status' = [status EXCEPT ![ev[th]] = "FAILED_RETRYABLE"]
    BY <1>0, <1>2 DEF RetryQueue, Goto, SetStatus
  <2> QED BY <1>0, <2>1 DEF Respects, Deals, Acts
<1>3. CASE RetryReplay(th)
  <2>1. pc'[th] \in {"done", "look"}
    BY <1>0, <1>3 DEF RetryReplay, Return, Goto
  <2>2. status'[e] = status[e]
    BY <1>3 DEF RetryReplay, SetStatus, Duplicate, Terminal
  <2> QED BY <1>0, <2>1, <2>2 DEF Respects, Deals
<1>4. CASE SkipRow(th)
  <2>1. pc[th] = "skip" /\ pc'[th] = "done" /\ status' = [status EXCEPT ![ev[th]] = "SKIPPED"]
    BY <1>0, <1>4 DEF SkipRow, Return, SetStatus
  <2> QED BY <1>0, <2>1 DEF Respects, Deals, Acts
<1> QED BY <1>1, <1>2, <1>3, <1>4

(* What a step has to keep of a successful row. *)
Kept(e) ==
    /\ \A th \in Thread : Deals(th, e)' => Deals(th, e)
    /\ status'[e] # "SUCCESS" => \E th \in Thread : Deals(th, e) /\ Acts(th)

LEMMA ThreadKeeps ==
  ASSUME Typed, NEW e \in Event, NEW th \in Thread, Respects(th, e),
         \/ Consume(th) \/ ConsumeDbFault(th)
         \/ RecoverRead(th) \/ RecoverRow(th) \/ ReplayRead(th) \/ ReplayRow(th)
         \/ SweepRead(th) \/ SweepRow(th)
         \/ RequestRead(th) \/ RetryQueue(th) \/ RetryReplay(th) \/ SkipRow(th)
  PROVE  Kept(e)
<1>1. \A t \in Thread \ {th} : pc'[t] = pc[t] /\ ev'[t] = ev[t]
  BY ThreadMoves
<1>2. \A t \in (Worker \union Sweeper) \ {th} : todo'[t] = todo[t]
  BY DEF Consume, Look, Write, Handle, Settle, ConsumeDbFault, RecoverRead, RecoverRow, ReplayRead,
         ReplayRow, SweepRead, SweepRow, RequestRead, RetryQueue, RetryReplay, SkipRow, Typed, TypeOK
<1>3. \A t \in Thread \ {th} : Deals(t, e)' => Deals(t, e)
  BY <1>1, <1>2 DEF Deals
<1> QED BY <1>3 DEF Respects, Kept

LEMMA DeliverKept ==
  ASSUME Typed, NEW e \in Event, status[e] = "SUCCESS", NEW d \in Delivery, Deliver(d)
  PROVE  Kept(e)
<1> USE ThreadAssumption
<1>1. d \in Thread /\ d \notin Worker \union Sweeper \union RetryReq
  BY DEF Thread
<1>2. pc'[d] = "look" /\ UNCHANGED <<status, todo>> /\ \A t \in Thread \ {d} : pc'[t] = pc[t] /\ ev'[t] = ev[t]
  BY <1>1 DEF Deliver, Goto, Typed, TypeOK
<1> QED BY <1>1, <1>2 DEF Deals, Kept

LEMMA CrashKept ==
  ASSUME Typed, NEW e \in Event, status[e] = "SUCCESS", NEW p \in Pod, Crash(p)
  PROVE  Kept(e)
<1> USE ThreadAssumption DEF Thread
<1>1. UNCHANGED status
  BY DEF Crash
<1>2. ASSUME NEW th \in Thread, PodOf[th] # p, Deals(th, e)' PROVE Deals(th, e)
  <2>1. pc'[th] = pc[th] /\ ev'[th] = ev[th]
    BY <1>2 DEF Crash
  <2>2. th \in Worker \union Sweeper => todo'[th] = todo[th]
    BY <1>2 DEF Crash, Typed, TypeOK
  <2> QED BY <1>2, <2>1, <2>2 DEF Deals
<1>3. ASSUME NEW th \in Thread, PodOf[th] = p PROVE ~Deals(th, e)'
  <2>1. ev'[th] = NoEvent /\ e # NoEvent
    BY <1>3, EventAssumption DEF Crash
  <2>2. th \in Worker \union Sweeper => todo'[th] = {}
    BY <1>3 DEF Crash, Typed, TypeOK
  <2> QED BY <2>1, <2>2 DEF Deals
<1> QED BY <1>1, <1>2, <1>3 DEF Kept

LEMMA StepKept ==
  ASSUME Typed, [Next]_vars, NEW e \in Event, status[e] = "SUCCESS"
  PROVE  Kept(e)
<1>1. CASE UNCHANGED <<status, pc, ev, todo>>
  BY <1>1 DEF Deals, Kept
<1>2. ASSUME NEW th \in Thread, Consume(th) \/ ConsumeDbFault(th) PROVE Kept(e)
  BY <1>2, ConsumeRespects, ThreadKeeps
<1>3. ASSUME NEW th \in Worker \union Sweeper,
             RecoverRead(th) \/ RecoverRow(th) \/ ReplayRead(th) \/ ReplayRow(th) \/ SweepRead(th) \/ SweepRow(th)
      PROVE  Kept(e)
  <2>1. Respects(th, e) /\ th \in Thread
    BY <1>3, RowsRespect DEF Thread
  <2> QED BY <1>3, <2>1, ThreadKeeps
<1>4. ASSUME NEW th \in RetryReq \union SkipReq,
             RequestRead(th) \/ RetryQueue(th) \/ RetryReplay(th) \/ SkipRow(th)
      PROVE  Kept(e)
  <2>1. Respects(th, e) /\ th \in Thread
    BY <1>4, RequestRespects DEF Thread
  <2> QED BY <1>4, <2>1, ThreadKeeps
<1>5. ASSUME NEW f \in Event, Publish(f) \/ Republish(f) \/ Rebalance(f) \/ Age(f) PROVE Kept(e)
  <2>1. UNCHANGED <<status, pc, ev, todo>>
    BY <1>5 DEF Publish, Republish, Rebalance, Age
  <2> QED BY <1>1, <2>1
<1>6. CASE UNCHANGED vars
  BY <1>1, <1>6 DEF vars
<1>7. CASE Next
  BY <1>2, <1>3, <1>4, <1>5, <1>7, DeliverKept, CrashKept
  DEF Next, DeliveryStep, WorkerStep, SweeperStep, RequestStep, Thread
<1> QED BY <1>6, <1>7

(* A row that reached SUCCESS is not taken up anew by anybody, and only a   *)
(* thread that read it before may take SUCCESS back, whatever fails.        *)
THEOREM SuccessStays == Spec => SuccessIsFinal
<1> DEFINE Final ==
      \A e \in Event :
          status[e] = "SUCCESS" =>
              /\ \A th \in Thread : Deals(th, e)' => Deals(th, e)
              /\ status'[e] # "SUCCESS" => \E th \in Thread : Deals(th, e) /\ Acts(th)
<1>1. Typed /\ [Next]_vars => [Final]_vars
  BY StepKept DEF Kept
<1>2. Spec => [][Final]_vars
  BY <1>1, TypedInit, TypedNext, PTL DEF Spec
<1> QED BY <1>2 DEF SuccessIsFinal
=============================================================================
