------------------------ MODULE ScheduledWork_proofs ------------------------
(***************************************************************************)
(* Theorems about ScheduledWork for any number of changes, reminders and   *)
(* overlapping runs, and any window: types, one dispatch per change, what  *)
(* the activation log stands for, the spacing of reminders, and that what  *)
(* the dispatch log records has gone out. The two halves share only the    *)
(* clock, so each has an inductive invariant of its own.                   *)
(***************************************************************************)
EXTENDS ScheduledWork, TLAPS

InHand == {"execute", "mark", "fail"}

(* What a run works on, and when it works on nothing. *)
ActOn == \A a \in Activation :
    act[a].on \in IF act[a].pc \in InHand THEN Change ELSE {Nothing}
RemOn == \A a \in Reminding :
    rem[a].on \in IF rem[a].pc \in {"record", "publish"} THEN Reminder ELSE {Nothing}

Typed == TypeOK /\ ActOn /\ RemOn

-----------------------------------------------------------------------------
LEMMA TypedInit == Init => Typed
  BY WorkAssumption, TimeAssumption
  DEF Init, Typed, TypeOK, ActOn, RemOn, InHand, Act, Rem, NoAct, NoRem, NoRow, Time

(* An action that leaves the runs' tables alone needs only its own types. *)
LEMMA ActTyped ==
  ASSUME Typed, NEW a \in Activation, NEW r \in Act, act' = [act EXCEPT ![a] = r],
         r.on \in IF r.pc \in InHand THEN Change ELSE {Nothing}
  PROVE  act' \in [Activation -> Act] /\ ActOn'
  BY DEF Typed, TypeOK, ActOn

LEMMA RemTyped ==
  ASSUME Typed, NEW a \in Reminding, NEW r \in Rem, rem' = [rem EXCEPT ![a] = r],
         r.on \in IF r.pc \in {"record", "publish"} THEN Reminder ELSE {Nothing}
  PROVE  rem' \in [Reminding -> Rem] /\ RemOn'
  BY DEF Typed, TypeOK, RemOn

LEMMA ActivationTyped ==
  ASSUME Typed, NEW a \in Activation,
         StartActivating(a) \/ ActivationStep(a) \/ ExecuteThrows(a) \/ MarkThrows(a) \/ AbortActivating(a)
  PROVE  Typed'
<1> USE WorkAssumption, TimeAssumption
<1>0. act[a] \in Act /\ act[a].on \in IF act[a].pc \in InHand THEN Change ELSE {Nothing}
  BY DEF Typed, TypeOK, ActOn
<1>1. CASE StartActivating(a)
  <2> DEFINE r == [pc |-> "next", todo |-> DueChanges, read |-> version, on |-> Nothing]
  <2>1. r \in Act /\ r.on = Nothing /\ r.pc = "next" /\ act' = [act EXCEPT ![a] = r]
    BY <1>1 DEF StartActivating, Typed, TypeOK, Act, DueChanges
  <2> HIDE DEF r
  <2>2. act' \in [Activation -> Act] /\ ActOn'
    BY <2>1, ActTyped DEF InHand
  <2> QED
    BY <1>1, <2>2 DEF StartActivating, Typed, TypeOK, RemOn, reminding
<1>2. ASSUME NEW c \in Change, Claim(a, c) PROVE Typed'
  <2> DEFINE r == [act[a] EXCEPT !.pc = "execute", !.todo = act[a].todo \ {c}, !.on = c]
  <2>0. act' = [act EXCEPT ![a] = r]
    BY <1>2 DEF Claim
  <2>1. r \in Act /\ r.on = c /\ r.pc = "execute"
    BY <1>0 DEF Act
  <2> HIDE DEF r
  <2>2. act' \in [Activation -> Act] /\ ActOn'
    BY <2>0, <2>1, ActTyped DEF InHand
  <2> QED
    BY <1>2, <2>2 DEF Claim, Typed, TypeOK, RemOn, reminding
<1>3. ASSUME NEW c \in Change, Skip(a, c) PROVE Typed'
  <2> DEFINE r == [act[a] EXCEPT !.todo = @ \ {c}]
  <2>1. r \in Act /\ r.on = act[a].on /\ r.pc = act[a].pc /\ act' = [act EXCEPT ![a] = r]
    BY <1>0, <1>3 DEF Skip, Act
  <2> HIDE DEF r
  <2>2. act' \in [Activation -> Act] /\ ActOn'
    BY <1>0, <2>1, ActTyped
  <2> QED
    BY <1>3, <2>2 DEF Skip, Typed, TypeOK, RemOn, reminding
<1>4. CASE Execute(a) \/ ExecuteThrows(a)
  <2> PICK l \in {"mark", "fail"} : act' = [act EXCEPT ![a].pc = l]
    BY <1>4 DEF Execute, ExecuteThrows
  <2> PICK c \in Change : act[a].on = c /\ act[a].pc = "execute"
    BY <1>0, <1>4 DEF Execute, ExecuteThrows, InHand
  <2> DEFINE r == [act[a] EXCEPT !.pc = l]
  <2>0. act' = [act EXCEPT ![a] = r]
    OBVIOUS
  <2>1. r \in Act /\ r.on \in IF r.pc \in InHand THEN Change ELSE {Nothing}
    BY <1>0 DEF Act, InHand
  <2> HIDE DEF r
  <2>2. act' \in [Activation -> Act] /\ ActOn'
    BY <2>0, <2>1, ActTyped
  <2>3. sent' = [sent EXCEPT ![c] = sent[c] + 1]
    BY <1>4 DEF Execute, ExecuteThrows
  <2>4. sent' \in [Change -> Nat]
    BY <2>3 DEF Typed, TypeOK
  <2>5. version' \in [Change -> Nat] /\ status' \in [Change -> {"absent", "pending", "applied"}]
    <3>1. \/ UNCHANGED <<status, version>>
          \/ status' = [status EXCEPT ![c] = "applied"] /\ version' = [version EXCEPT ![c] = version[c] + 1]
      BY <1>4 DEF Execute, ExecuteThrows
    <3>2. version \in [Change -> Nat] /\ status \in [Change -> {"absent", "pending", "applied"}]
      BY DEF Typed, TypeOK
    <3>3. [status EXCEPT ![c] = "applied"] \in [Change -> {"absent", "pending", "applied"}]
      BY <3>2
    <3>4. [version EXCEPT ![c] = version[c] + 1] \in [Change -> Nat]
      BY <3>2
    <3> QED BY <3>1, <3>2, <3>3, <3>4
  <2>6. refused' \in SUBSET Change /\ troubled' \in SUBSET Change
    BY <1>4 DEF Execute, ExecuteThrows, Typed, TypeOK
  <2>7. UNCHANGED <<now, log, reminding>>
    BY <1>4 DEF Execute, ExecuteThrows
  <2> QED
    BY <2>2, <2>4, <2>5, <2>6, <2>7 DEF Typed, TypeOK, RemOn, reminding
<1>5. CASE MarkSucceeded(a) \/ MarkFailed(a)
  <2> DEFINE r == [act[a] EXCEPT !.pc = "next", !.on = Nothing]
  <2>1. r \in Act /\ r.on = Nothing /\ r.pc = "next" /\ act' = [act EXCEPT ![a] = r]
    BY <1>0, <1>5 DEF MarkSucceeded, MarkFailed, Act
  <2> HIDE DEF r
  <2>2. act' \in [Activation -> Act] /\ ActOn'
    BY <2>1, ActTyped DEF InHand
  <2> QED
    BY <1>5, <2>2 DEF MarkSucceeded, MarkFailed, Typed, TypeOK, RemOn, reminding
<1>6. CASE MarkThrows(a)
  <2> PICK c \in Change : act[a].on = c
    BY <1>0, <1>6 DEF MarkThrows, InHand
  <2> DEFINE r == [act[a] EXCEPT !.pc = "fail"]
  <2>1. r \in Act /\ r.on = c /\ r.pc = "fail" /\ act' = [act EXCEPT ![a] = r]
    BY <1>0, <1>6 DEF MarkThrows, Act
  <2> HIDE DEF r
  <2>2. act' \in [Activation -> Act] /\ ActOn'
    BY <2>1, ActTyped DEF InHand
  <2> QED
    BY <1>6, <2>2 DEF MarkThrows, Typed, TypeOK, RemOn, reminding
<1>7. CASE FinishActivating(a) \/ AbortActivating(a)
  <2>1. NoAct \in Act /\ act' = [act EXCEPT ![a] = NoAct]
    BY <1>7 DEF FinishActivating, AbortActivating, Act, NoAct
  <2>2. act' \in [Activation -> Act] /\ ActOn'
    <3>1. NoAct.on \in IF NoAct.pc \in InHand THEN Change ELSE {Nothing}
      BY DEF InHand, NoAct
    <3> QED BY <2>1, <3>1, ActTyped
  <2>3. troubled' \in SUBSET Change
    BY <1>0, <1>7 DEF FinishActivating, AbortActivating, Typed, TypeOK
  <2> QED
    BY <1>7, <2>2, <2>3 DEF FinishActivating, AbortActivating, Typed, TypeOK, RemOn, reminding
<1> QED
  BY <1>1, <1>2, <1>3, <1>4, <1>5, <1>6, <1>7 DEF ActivationStep

LEMMA RemindingTyped ==
  ASSUME Typed, NEW a \in Reminding, StartReminding(a) \/ ReminderStep(a) \/ AbortReminding(a)
  PROVE  Typed'
<1> USE WorkAssumption, TimeAssumption
<1>0. rem[a] \in Rem /\ rem[a].on \in IF rem[a].pc \in {"record", "publish"} THEN Reminder ELSE {Nothing}
  BY DEF Typed, TypeOK, RemOn
<1>1. CASE StartReminding(a)
  <2> DEFINE r == [pc |-> "next", todo |-> DueReminders, now |-> now, on |-> Nothing, row |-> NoRow]
  <2>1. r \in Rem /\ r.on = Nothing /\ r.pc = "next" /\ rem' = [rem EXCEPT ![a] = r]
    BY <1>1 DEF StartReminding, Typed, TypeOK, Rem, DueReminders, NoRow
  <2> HIDE DEF r
  <2>2. rem' \in [Reminding -> Rem] /\ RemOn'
    BY <2>1, RemTyped
  <2> QED
    BY <1>1, <2>2 DEF StartReminding, Typed, TypeOK, ActOn, activation
<1>2. ASSUME NEW k \in Reminder, Look(a, k) PROVE Typed'
  <2> DEFINE d == [rem[a] EXCEPT !.todo = rem[a].todo \ {k}]
             r == [rem[a] EXCEPT !.pc = "record", !.todo = rem[a].todo \ {k}, !.on = k, !.row = expires[k]]
  <2>1. d \in Rem /\ d.on = rem[a].on /\ d.pc = rem[a].pc
    BY <1>0 DEF Rem
  <2>2. r \in Rem /\ r.on = k /\ r.pc = "record"
    BY <1>0 DEF Rem, Typed, TypeOK
  <2>3. rem' = [rem EXCEPT ![a] = d] \/ rem' = [rem EXCEPT ![a] = r]
    <3>1. CASE Live(a, k)
      BY <1>2, <3>1 DEF Look
    <3>2. CASE ~Live(a, k)
      BY <1>2, <3>2 DEF Look
    <3> QED BY <3>1, <3>2
  <2> HIDE DEF r, d
  <2>4. rem' \in [Reminding -> Rem] /\ RemOn'
    BY <1>0, <2>1, <2>2, <2>3, RemTyped
  <2> QED
    BY <1>2, <2>4 DEF Look, Typed, TypeOK, ActOn, activation
<1>3. CASE Record(a)
  <2> PICK k \in Reminder : rem[a].on = k
    BY <1>0, <1>3 DEF Record
  <2> DEFINE r == [rem[a] EXCEPT !.pc = "publish"]
  <2>1. r \in Rem /\ r.on = k /\ r.pc = "publish" /\ rem' = [rem EXCEPT ![a] = r]
    BY <1>0, <1>3 DEF Record, Rem
  <2> HIDE DEF r
  <2>2. rem' \in [Reminding -> Rem] /\ RemOn'
    BY <2>1, RemTyped
  <2>3. rem[a].now + Window \in Nat
    BY <1>0 DEF Rem, Time
  <2>4. expires' \in [Reminder -> Nat] /\ overlapped' \in SUBSET Reminder
    BY <1>3, <2>3 DEF Record, Typed, TypeOK
  <2> QED
    BY <1>3, <2>2, <2>4 DEF Record, Typed, TypeOK, ActOn, activation
<1>4. CASE RecordConflicts(a) \/ FinishReminding(a) \/ AbortReminding(a)
  <2>1. NoRem \in Rem /\ rem' = [rem EXCEPT ![a] = NoRem]
    BY <1>4 DEF RecordConflicts, FinishReminding, AbortReminding, Rem, NoRem, Time, NoRow
  <2>2. rem' \in [Reminding -> Rem] /\ RemOn'
    <3>1. NoRem.on \in IF NoRem.pc \in {"record", "publish"} THEN Reminder ELSE {Nothing}
      BY DEF NoRem
    <3> QED BY <2>1, <3>1, RemTyped
  <2>3. lost' \in SUBSET (Reminder \X Time)
    BY <1>0, <1>4 DEF RecordConflicts, FinishReminding, AbortReminding, Typed, TypeOK, Rem
  <2> QED
    BY <1>4, <2>2, <2>3 DEF RecordConflicts, FinishReminding, AbortReminding, Typed, TypeOK, ActOn, activation
<1>5. CASE Publish(a)
  <2> PICK k \in Reminder : rem[a].on = k
    BY <1>0, <1>5 DEF Publish
  <2> DEFINE r == [rem[a] EXCEPT !.pc = "next", !.on = Nothing, !.row = NoRow]
  <2>1. r \in Rem /\ r.on = Nothing /\ r.pc = "next" /\ rem' = [rem EXCEPT ![a] = r]
    BY <1>0, <1>5 DEF Publish, Rem, NoRow
  <2> HIDE DEF r
  <2>2. rem' \in [Reminding -> Rem] /\ RemOn'
    BY <2>1, RemTyped
  <2>3. published' \in [Reminder -> [Time -> Nat]]
    <3>1. published[k] \in [Time -> Nat] /\ [published[k] EXCEPT ![rem[a].now] = @ + 1] \in [Time -> Nat]
      BY <1>0 DEF Typed, TypeOK, Rem
    <3>2. published' = [published EXCEPT ![k] = [published[k] EXCEPT ![rem[a].now] = @ + 1]]
      BY <1>5 DEF Publish
    <3> QED BY <3>1, <3>2 DEF Typed, TypeOK
  <2> QED
    BY <1>5, <2>2, <2>3 DEF Publish, Typed, TypeOK, ActOn, activation
<1> QED
  BY <1>1, <1>2, <1>3, <1>4, <1>5 DEF ReminderStep

LEMMA TypedNext == Typed /\ [Next]_vars => Typed'
<1> SUFFICES ASSUME Typed, [Next]_vars PROVE Typed'
  OBVIOUS
<1>1. CASE Tick
  BY <1>1, TimeAssumption DEF Tick, Typed, TypeOK, ActOn, RemOn, activation, reminding, Time
<1>2. ASSUME NEW c \in Change, Edit(c) PROVE Typed'
  <2>1. version' \in [Change -> Nat] /\ status' \in [Change -> {"absent", "pending", "applied"}]
    BY <1>2 DEF Edit, Typed, TypeOK
  <2> QED
    BY <1>2, <2>1 DEF Edit, Typed, TypeOK, ActOn, RemOn, reminding
<1>3. ASSUME NEW k \in Reminder, Settle(k) PROVE Typed'
  BY <1>3 DEF Settle, Typed, TypeOK, ActOn, RemOn, activation
<1>4. CASE UNCHANGED vars
  BY <1>4 DEF vars, Typed, TypeOK, ActOn, RemOn, activation, reminding
<1> QED
  BY <1>1, <1>2, <1>3, <1>4, ActivationTyped, RemindingTyped DEF Next

(* The state of activations and reminders has its type in every reachable   *)
(* state, whatever runs overlap, fail or die.                               *)
THEOREM TypeCorrect == Spec => []TypeOK
<1>1. Spec => []Typed
  BY TypedInit, TypedNext, PTL DEF Spec
<1> QED BY <1>1, PTL DEF Typed

-----------------------------------------------------------------------------
(* Activations *)

(* Rows in hand are RUNNING, and in one run's hands. *)
Held ==
    /\ \A a \in Activation : act[a].pc \in InHand => log[act[a].on] = "RUNNING"
    /\ \A a, b \in Activation :
         act[a].pc \in InHand /\ act[b].pc \in InHand /\ act[a].on = act[b].on => a = b

(* Nothing is dispatched before the row is there, nor before its run does. *)
Fresh ==
    /\ \A c \in Change : log[c] = "none" => sent[c] = 0
    /\ \A a \in Activation : act[a].pc = "execute" => sent[act[a].on] = 0

(* What a run is about to write is true. *)
Done == \A a \in Activation :
    /\ act[a].pc = "mark" => status[act[a].on] = "applied" \/ act[a].on \in refused \union troubled
    /\ act[a].pc = "fail" => act[a].on \in troubled

AInv == Typed /\ Held /\ Fresh /\ Done /\ DispatchedOnce /\ LogTells

ActOf(a, l, c) == act'[a].pc = l /\ act'[a].on = c /\ \A b \in Activation \ {a} : act'[b] = act[b]

LEMMA AInvInit == Init => AInv
<1> SUFFICES ASSUME Init PROVE AInv
  OBVIOUS
<1>1. Typed
  BY TypedInit
<1>2. \A a \in Activation : act[a].pc = "idle"
  BY DEF Init, NoAct
<1>3. \A c \in Change : log[c] = "none" /\ sent[c] = 0
  BY DEF Init
<1> QED
  BY <1>1, <1>2, <1>3 DEF AInv, Held, Fresh, Done, DispatchedOnce, LogTells, InHand

LEMMA HeldKeeps ==
  ASSUME Held, NEW a \in Activation,
         \A b \in Activation \ {a} : act'[b] = act[b],
         \A b \in Activation \ {a} : act[b].pc \in InHand => log'[act[b].on] = "RUNNING",
         act'[a].pc \in InHand =>
             /\ log'[act'[a].on] = "RUNNING"
             /\ \A b \in Activation \ {a} : act[b].pc \in InHand => act[b].on # act'[a].on
  PROVE  Held'
<1>1. ASSUME NEW b \in Activation, act'[b].pc \in InHand PROVE log'[act'[b].on] = "RUNNING"
  BY <1>1
<1>2. ASSUME NEW b \in Activation, NEW q \in Activation, act'[b].pc \in InHand, act'[q].pc \in InHand,
             act'[b].on = act'[q].on
      PROVE  b = q
  <2>1. CASE b = a \/ q = a
    BY <1>2, <2>1
  <2>2. CASE b # a /\ q # a
    BY <1>2, <2>2 DEF Held
  <2> QED BY <2>1, <2>2
<1> QED BY <1>1, <1>2 DEF Held

LEMMA ClaimKeeps ==
  ASSUME AInv, NEW a \in Activation, NEW c \in Change, Claim(a, c), Typed'
  PROVE  AInv'
<1> USE DEF AInv, Typed, TypeOK, ActOn
<1>1. ActOf(a, "execute", c)
  BY DEF Claim, ActOf, Act
<1>2. log[c] = "none" /\ log' = [log EXCEPT ![c] = "RUNNING"] /\ UNCHANGED <<sent, status, refused, troubled>>
  BY DEF Claim, Free
<1>3. \A b \in Activation : act[b].pc \in InHand => act[b].on # c /\ act[b].on \in Change
  BY <1>2 DEF Held
<1>4. Held'
  <2>1. \A b \in Activation \ {a} : act[b].pc \in InHand => log'[act[b].on] = "RUNNING"
    BY <1>2, <1>3 DEF Held
  <2>2. log'[act'[a].on] = "RUNNING"
    BY <1>1, <1>2 DEF ActOf
  <2> QED BY <1>1, <1>3, <2>1, <2>2, HeldKeeps, SMTT(30) DEF ActOf
<1>5. Fresh'
  BY <1>1, <1>2, <1>3, SMTT(30) DEF Fresh, ActOf, InHand
<1>6. Done'
  BY <1>1, <1>2, <1>3 DEF Done, ActOf, InHand
<1>7. DispatchedOnce'
  BY <1>2 DEF DispatchedOnce
<1>8. LogTells'
  <2> SUFFICES ASSUME NEW d \in Change, log'[d] # "none", d \notin refused \union troubled
               PROVE  IF log'[d] = "SUCCEEDED" THEN status[d] = "applied"
                      ELSE log'[d] = "RUNNING" /\ \E b \in Activation : act'[b].on = d
    BY <1>2 DEF LogTells
  <2>1. CASE d = c
    BY <1>1, <1>2, <2>1 DEF ActOf
  <2>2. CASE d # c
    <3>1. log'[d] = log[d]
      BY <1>2, <2>2
    <3>2. act[a].on = Nothing
      BY DEF Claim, InHand
    <3>3. \A b \in Activation : act[b].on = d => act'[b].on = d
      BY <1>1, <3>2, WorkAssumption DEF ActOf
    <3> QED BY <3>1, <3>3 DEF LogTells
  <2> QED BY <2>1, <2>2
<1> QED BY <1>4, <1>5, <1>6, <1>7, <1>8

LEMMA DispatchKeeps ==
  ASSUME AInv, NEW a \in Activation, Execute(a) \/ ExecuteThrows(a), Typed'
  PROVE  AInv'
<1> USE DEF AInv, Typed, TypeOK, ActOn
<1> PICK c \in Change : act[a].on = c /\ act[a].pc = "execute"
  BY DEF Execute, ExecuteThrows, InHand
<1>1. \/ ActOf(a, "mark", c) /\ (status'[c] = "applied" \/ c \in refused')
      \/ ActOf(a, "fail", c) /\ c \in troubled'
  <2>1. CASE Execute(a)
    BY <2>1 DEF Execute, ActOf, Act
  <2>2. CASE ExecuteThrows(a)
    BY <2>2 DEF ExecuteThrows, ActOf, Act
  <2> QED BY <2>1, <2>2
<1>2. sent' = [sent EXCEPT ![c] = sent[c] + 1] /\ log' = log
  BY DEF Execute, ExecuteThrows
<1>3. refused \subseteq refused' /\ troubled \subseteq troubled'
  BY DEF Execute, ExecuteThrows
<1>4. \A d \in Change : status[d] = "applied" => status'[d] = "applied"
  BY DEF Execute, ExecuteThrows
<1>5. log[c] = "RUNNING" /\ sent[c] = 0
  BY DEF Held, Fresh, InHand
<1>6. \A b \in Activation \ {a} : act[b].pc \in InHand => act[b].on # c /\ act[b].on \in Change
  BY DEF Held, InHand
<1>7. Held'
  <2>1. \A b \in Activation \ {a} : act[b].pc \in InHand => log'[act[b].on] = "RUNNING"
    BY <1>2 DEF Held
  <2>2. act'[a].on = c /\ \A b \in Activation \ {a} : act'[b] = act[b]
    BY <1>1 DEF ActOf
  <2>3. /\ log'[act'[a].on] = "RUNNING"
        /\ \A b \in Activation \ {a} : act[b].pc \in InHand => act[b].on # act'[a].on
    BY <1>2, <1>5, <1>6, <2>2
  <2>4. Held
    OBVIOUS
  <2> HIDE DEF AInv, Typed, TypeOK, ActOn
  <2> QED BY <2>1, <2>2, <2>3, <2>4, HeldKeeps
<1>8. Fresh'
  <2>1. \A d \in Change : log'[d] = "none" => sent'[d] = 0
    BY <1>2, <1>5 DEF Fresh
  <2>2. ASSUME NEW b \in Activation, act'[b].pc = "execute" PROVE sent'[act'[b].on] = 0
    <3>1. b # a /\ act'[b] = act[b]
      BY <1>1, <2>2 DEF ActOf
    <3>2. act[b].on # c /\ act[b].on \in Change /\ sent[act[b].on] = 0
      BY <1>6, <2>2, <3>1 DEF Fresh, InHand
    <3> QED BY <1>2, <3>1, <3>2
  <2> QED BY <2>1, <2>2 DEF Fresh
<1>9. Done'
  BY <1>1, <1>3, <1>4, <1>6 DEF Done, ActOf, InHand
<1>10. DispatchedOnce'
  BY <1>2, <1>5 DEF DispatchedOnce
<1>11. LogTells'
  <2>1. \A b \in Activation : act'[b].on = act[b].on
    BY <1>1 DEF ActOf
  <2> SUFFICES ASSUME NEW d \in Change, log[d] # "none", d \notin refused \union troubled
               PROVE  IF log[d] = "SUCCEEDED" THEN status'[d] = "applied"
                      ELSE log[d] = "RUNNING" /\ \E b \in Activation : act'[b].on = d
    BY <1>2, <1>3 DEF LogTells
  <2>2. IF log[d] = "SUCCEEDED" THEN status[d] = "applied"
        ELSE log[d] = "RUNNING" /\ \E b \in Activation : act[b].on = d
    BY DEF LogTells
  <2>3. CASE log[d] = "SUCCEEDED"
    BY <2>2, <2>3, <1>4
  <2>4. CASE log[d] # "SUCCEEDED"
    BY <2>1, <2>2, <2>4
  <2> QED BY <2>3, <2>4
<1> QED BY <1>7, <1>8, <1>9, <1>10, <1>11

LEMMA MarkKeeps ==
  ASSUME AInv, NEW a \in Activation, MarkSucceeded(a) \/ MarkFailed(a), Typed'
  PROVE  AInv'
<1> USE DEF AInv, Typed, TypeOK, ActOn
<1> PICK c \in Change : act[a].on = c /\ act[a].pc \in {"mark", "fail"}
  BY DEF MarkSucceeded, MarkFailed, InHand
<1>1. ActOf(a, "next", Nothing)
  <2>1. act' = [act EXCEPT ![a] = [act[a] EXCEPT !.pc = "next", !.on = Nothing]]
    BY DEF MarkSucceeded, MarkFailed
  <2> QED BY <2>1 DEF ActOf, Act
<1>2. UNCHANGED <<sent, status, refused, troubled>>
  BY DEF MarkSucceeded, MarkFailed
<1>3. \/ log' = [log EXCEPT ![c] = "SUCCEEDED"] /\ (status[c] = "applied" \/ c \in refused \union troubled)
      \/ log' = [log EXCEPT ![c] = "FAILED"] /\ c \in troubled
  BY DEF MarkSucceeded, MarkFailed, Done
<1>4. \A b \in Activation \ {a} : act[b].pc \in InHand => act[b].on # c /\ act[b].on \in Change
  BY DEF Held, InHand
<1>5. Held'
  <2>1. \A b \in Activation \ {a} : act[b].pc \in InHand => log'[act[b].on] = "RUNNING"
    BY <1>3, <1>4 DEF Held
  <2> QED BY <1>1, <2>1, HeldKeeps DEF ActOf, InHand
<1>6. Fresh'
  <2>1. \A d \in Change : log'[d] = "none" => log[d] = "none"
    BY <1>3
  <2>2. \A b \in Activation : act'[b].pc = "execute" => act'[b] = act[b]
    BY <1>1 DEF ActOf
  <2> QED BY <1>2, <2>1, <2>2 DEF Fresh
<1>7. Done'
  BY <1>1, <1>2 DEF Done, ActOf
<1>8. DispatchedOnce'
  BY <1>2 DEF DispatchedOnce
<1>9. LogTells'
  <2> SUFFICES ASSUME NEW d \in Change, log'[d] # "none", d \notin refused \union troubled
               PROVE  IF log'[d] = "SUCCEEDED" THEN status[d] = "applied"
                      ELSE log'[d] = "RUNNING" /\ \E b \in Activation : act'[b].on = d
    BY <1>2 DEF LogTells
  <2>1. CASE d = c
    BY <1>3, <2>1
  <2>2. CASE d # c
    <3>1. log'[d] = log[d]
      BY <1>3, <2>2
    <3>2. \A b \in Activation : act[b].on = d => act'[b].on = d
      BY <1>1, <2>2 DEF ActOf
    <3> QED BY <3>1, <3>2 DEF LogTells
  <2> QED BY <2>1, <2>2
<1> QED BY <1>5, <1>6, <1>7, <1>8, <1>9

(* Steps that write neither the log nor the count and drop nothing but what *)
(* they count as trouble.                                                   *)
LEMMA OtherActivationKeeps ==
  ASSUME AInv, NEW a \in Activation, Typed',
         \/ StartActivating(a) \/ (\E c \in Change : Skip(a, c))
         \/ MarkThrows(a) \/ FinishActivating(a) \/ AbortActivating(a)
  PROVE  AInv'
<1> USE DEF AInv, Typed, TypeOK, ActOn
<1>1. UNCHANGED <<sent, status, refused, log>> /\ troubled \subseteq troubled'
  BY DEF StartActivating, Skip, MarkThrows, FinishActivating, AbortActivating
<1>2. PICK l \in {"idle", "next", "fail"} : act'[a].pc = l /\ \A b \in Activation \ {a} : act'[b] = act[b]
  BY DEF StartActivating, Skip, MarkThrows, FinishActivating, AbortActivating, Act, NoAct
<1>3. act'[a].pc = "fail" => act[a].pc \in InHand /\ act'[a].on = act[a].on /\ act[a].on \in troubled'
  BY DEF StartActivating, Skip, MarkThrows, FinishActivating, AbortActivating, Act, NoAct, InHand
<1>4. act[a].on \in Change => act'[a].on = act[a].on \/ act[a].on \in troubled'
  <2>1. act[a].pc \notin InHand => act[a].on \notin Change
    BY WorkAssumption
  <2>2. CASE act[a].pc \notin InHand
    BY <2>1, <2>2
  <2>3. CASE MarkThrows(a)
    BY <2>3 DEF MarkThrows, Act
  <2>4. CASE AbortActivating(a)
    BY <2>4, WorkAssumption DEF AbortActivating
  <2> QED
    BY <2>2, <2>3, <2>4 DEF StartActivating, Skip, FinishActivating, InHand
<1>5. Held'
  <2>1. \A b \in Activation \ {a} : act[b].pc \in InHand => log'[act[b].on] = "RUNNING"
    BY <1>1 DEF Held
  <2>2. act'[a].pc \in InHand => act'[a].pc = "fail"
    BY <1>2 DEF InHand
  <2>3. act'[a].pc \in InHand =>
          /\ log'[act'[a].on] = "RUNNING"
          /\ \A b \in Activation \ {a} : act[b].pc \in InHand => act[b].on # act'[a].on
    BY <1>1, <1>3, <2>2 DEF Held
  <2> QED BY <1>2, <2>1, <2>3, HeldKeeps
<1>6. Fresh' /\ DispatchedOnce'
  <2>1. Fresh /\ DispatchedOnce
    OBVIOUS
  <2> HIDE DEF AInv, Typed, TypeOK, ActOn
  <2> QED BY <1>1, <1>2, <2>1 DEF Fresh, DispatchedOnce
<1>7. Done'
  <2> SUFFICES ASSUME NEW b \in Activation
               PROVE  /\ act'[b].pc = "mark" => status'[act'[b].on] = "applied"
                                               \/ act'[b].on \in refused' \union troubled'
                      /\ act'[b].pc = "fail" => act'[b].on \in troubled'
    BY DEF Done
  <2>1. CASE b = a
    BY <1>2, <1>3, <2>1
  <2>2. CASE b # a
    BY <1>1, <1>2, <2>2 DEF Done
  <2> QED BY <2>1, <2>2
<1>8. LogTells'
  <2> SUFFICES ASSUME NEW d \in Change, log[d] # "none", d \notin refused \union troubled'
               PROVE  IF log[d] = "SUCCEEDED" THEN status[d] = "applied"
                      ELSE log[d] = "RUNNING" /\ \E b \in Activation : act'[b].on = d
    BY <1>1 DEF LogTells
  <2>1. \A b \in Activation : act[b].on = d => act'[b].on = d
    BY <1>2, <1>4
  <2> QED BY <2>1, <1>1 DEF LogTells
<1> QED BY <1>5, <1>6, <1>7, <1>8

LEMMA AInvNext == AInv /\ [Next]_vars => AInv'
<1> SUFFICES ASSUME AInv, [Next]_vars PROVE AInv'
  OBVIOUS
<1>0. Typed'
  BY TypedNext DEF AInv
<1>1. ASSUME NEW c \in Change, Edit(c) PROVE AInv'
  <2>1. UNCHANGED <<log, act, sent, refused, troubled>>
    BY <1>1 DEF Edit
  <2>2. \A d \in Change : status[d] = "applied" => status'[d] = "applied"
    BY <1>1 DEF Edit, AInv, Typed, TypeOK
  <2>3. \A a \in Activation : act[a].pc = "mark" => act[a].on \in Change
    BY DEF AInv, Typed, ActOn, InHand
  <2> QED
    BY <1>0, <2>1, <2>2, <2>3 DEF AInv, Held, Fresh, Done, DispatchedOnce, LogTells
<1>2. CASE UNCHANGED activation
  BY <1>0, <1>2 DEF AInv, Held, Fresh, Done, DispatchedOnce, LogTells, activation
<1>3. ASSUME NEW a \in Reminding, StartReminding(a) \/ ReminderStep(a) \/ AbortReminding(a)
      PROVE  UNCHANGED activation
  BY <1>3 DEF StartReminding, ReminderStep, AbortReminding, Look, Record, RecordConflicts,
              Publish, FinishReminding
<1>4. ASSUME NEW k \in Reminder, Settle(k) PROVE UNCHANGED activation
  BY <1>4 DEF Settle
<1> QED
  BY <1>0, <1>1, <1>2, <1>3, <1>4, ClaimKeeps, DispatchKeeps, MarkKeeps, OtherActivationKeeps
  DEF Next, ActivationStep, Tick, vars

(* The command of an effective-dated change is dispatched at most once, for *)
(* any number of runs of the activator that overlap, fail and die.          *)
THEOREM DispatchedAtMostOnce == Spec => []DispatchedOnce
<1>1. Spec => []AInv
  BY AInvInit, AInvNext, PTL DEF Spec
<1> QED BY <1>1, PTL DEF AInv

(* A row of the activation log tells what became of its change, up to       *)
(* refused commands and runs cut short.                                     *)
THEOREM LogIsTrue == Spec => []LogTells
<1>1. Spec => []AInv
  BY AInvInit, AInvNext, PTL DEF Spec
<1> QED BY <1>1, PTL DEF AInv

-----------------------------------------------------------------------------
(* Reminders *)

Flying(a, k) == rem[a].pc = "publish" /\ rem[a].on = k

(* A run renews a row only if it had expired when the run was started. *)
ReadExpired == \A a \in Reminding : rem[a].pc = "record" => rem[a].row <= rem[a].now

(* Windows apart, in either order. *)
Apart(s, t) == s + Window <= t \/ t + Window <= s

(* Of a reminder whose renewals all saw each other, every dispatch lies     *)
(* within the row's window, and those published or about to be are apart.   *)
Spaced(k) ==
    /\ \A t \in Time : published[k][t] > 0 => t + Window <= expires[k]
    /\ \A t \in Time : published[k][t] <= 1
    /\ \A s, t \in Time : published[k][s] > 0 /\ published[k][t] > 0 /\ s # t => Apart(s, t)
    /\ \A a \in Reminding : Flying(a, k) => rem[a].now + Window <= expires[k]
    /\ \A a \in Reminding, t \in Time : Flying(a, k) /\ published[k][t] > 0 => Apart(t, rem[a].now)
    /\ \A a, b \in Reminding : Flying(a, k) /\ Flying(b, k) /\ a # b => Apart(rem[a].now, rem[b].now)

AllSpaced == \A k \in Reminder : k \notin overlapped => Spaced(k)

RInv == Typed /\ ReadExpired /\ AllSpaced /\ RecordedIsPublished

RemOf(a, l) == rem'[a].pc = l /\ \A b \in Reminding \ {a} : rem'[b] = rem[b]

LEMMA WindowPositive == Window \in Nat /\ Window > 0 /\ \A t \in Time : t \in Nat
  BY TimeAssumption DEF Time

LEMMA RInvInit == Init => RInv
<1> SUFFICES ASSUME Init PROVE RInv
  OBVIOUS
<1>1. Typed
  BY TypedInit
<1>2. \A a \in Reminding : rem[a].pc = "idle"
  BY DEF Init, NoRem
<1>3. \A k \in Reminder : expires[k] = NoRow /\ \A t \in Time : published[k][t] = 0
  BY DEF Init
<1> QED
  BY <1>1, <1>2, <1>3 DEF RInv, ReadExpired, AllSpaced, Spaced, Flying, RecordedIsPublished

LEMMA RecordKeeps ==
  ASSUME RInv, NEW a \in Reminding, Record(a), Typed'
  PROVE  RInv'
<1> USE WindowPositive
<1> DEFINE j == rem[a].on
           n == rem[a].now
<1>0. j \in Reminder /\ n \in Time /\ n \in Nat /\ rem[a].row <= n /\ rem[a].row \in Nat
  BY DEF Record, RInv, ReadExpired, Typed, TypeOK, RemOn, Rem
<1>1. RemOf(a, "publish") /\ rem'[a].on = j /\ rem'[a].now = n
  BY DEF Record, RemOf, RInv, Typed, TypeOK, Rem
<1>2. expires' = [expires EXCEPT ![j] = n + Window] /\ UNCHANGED <<published, lost>>
  BY DEF Record
<1>3. overlapped \subseteq overlapped' /\ (j \notin overlapped' => expires[j] = rem[a].row)
  BY DEF Record
<1>4. expires \in [Reminder -> Nat] /\ published \in [Reminder -> [Time -> Nat]] /\ rem \in [Reminding -> Rem]
  BY DEF RInv, Typed, TypeOK
<1> HIDE DEF j, n
<1>5. ReadExpired'
  BY <1>1 DEF RInv, ReadExpired, RemOf
<1>6. AllSpaced'
  <2> SUFFICES ASSUME NEW k \in Reminder, k \notin overlapped' PROVE Spaced(k)'
    BY DEF AllSpaced
  <2>0. Spaced(k)
    BY <1>3 DEF RInv, AllSpaced
  <2>1. CASE k # j
    <3>1. expires'[k] = expires[k] /\ published'[k] = published[k]
      BY <1>2, <2>1
    <3>2. \A b \in Reminding : Flying(b, k)' => b # a /\ Flying(b, k) /\ rem'[b] = rem[b]
      BY <1>1, <2>1 DEF Flying, RemOf
    <3> QED BY <2>0, <3>1, <3>2 DEF Spaced, Apart
  <2>2. CASE k = j
    <3>1. expires[k] <= n /\ expires'[k] = n + Window /\ published'[k] = published[k] /\ expires[k] \in Nat
      BY <1>0, <1>2, <1>3, <1>4, <2>2
    <3>2. \A b \in Reminding \ {a} : rem'[b] = rem[b] /\ rem[b].now \in Nat /\ (Flying(b, k)' => Flying(b, k))
      BY <1>1, <1>4 DEF Flying, RemOf, Rem
    <3>3. \A t \in Time : published[k][t] > 0 => t + Window <= n
      <4> SUFFICES ASSUME NEW t \in Time, published[k][t] > 0 PROVE t + Window <= n
        OBVIOUS
      <4>1. t + Window <= expires[k] /\ t \in Nat
        BY <2>0 DEF Spaced
      <4> QED BY <1>0, <3>1, <4>1
    <3>4. \A b \in Reminding \ {a} : Flying(b, k)' => rem[b].now + Window <= n
      <4> SUFFICES ASSUME NEW b \in Reminding \ {a}, Flying(b, k) PROVE rem[b].now + Window <= n
        BY <3>2
      <4>1. rem[b].now + Window <= expires[k] /\ rem[b].now \in Nat
        BY <2>0, <3>2 DEF Spaced
      <4> QED BY <1>0, <3>1, <4>1
    <3>5. \A t \in Time : published'[k][t] > 0 => t + Window <= expires'[k]
      <4> SUFFICES ASSUME NEW t \in Time, published[k][t] > 0 PROVE t + Window <= n + Window
        BY <3>1
      <4>1. t + Window <= n /\ t \in Nat
        BY <3>3
      <4> QED BY <1>0, <4>1
    <3>6. \A b \in Reminding : Flying(b, k)' => rem'[b].now + Window <= expires'[k]
      <4> SUFFICES ASSUME NEW b \in Reminding, Flying(b, k)' PROVE rem'[b].now + Window <= n + Window
        BY <3>1
      <4>1. CASE b = a
        BY <1>0, <1>1, <4>1
      <4>2. CASE b # a
        <5>1. rem'[b].now \in Nat /\ rem'[b].now + Window <= n
          BY <3>2, <3>4, <4>2
        <5> QED BY <1>0, <5>1
      <4> QED BY <4>1, <4>2
    <3>7. \A b \in Reminding, t \in Time : Flying(b, k)' /\ published'[k][t] > 0 => Apart(t, rem'[b].now)
      <4> SUFFICES ASSUME NEW b \in Reminding, NEW t \in Time, Flying(b, k)', published[k][t] > 0
                   PROVE  Apart(t, rem'[b].now)
        BY <3>1
      <4>1. CASE b = a
        BY <1>1, <3>3, <4>1 DEF Apart
      <4>2. CASE b # a
        BY <2>0, <3>2, <4>2 DEF Spaced
      <4> QED BY <4>1, <4>2
    <3>8. \A b, q \in Reminding : Flying(b, k)' /\ Flying(q, k)' /\ b # q => Apart(rem'[b].now, rem'[q].now)
      <4> SUFFICES ASSUME NEW b \in Reminding, NEW q \in Reminding, Flying(b, k)', Flying(q, k)', b # q
                   PROVE  Apart(rem'[b].now, rem'[q].now)
        OBVIOUS
      <4>1. CASE b = a
        BY <1>1, <3>2, <3>4, <4>1 DEF Apart
      <4>2. CASE q = a
        BY <1>1, <3>2, <3>4, <4>2 DEF Apart
      <4>3. CASE b # a /\ q # a
        BY <2>0, <3>2, <4>3 DEF Spaced
      <4> QED BY <4>1, <4>2, <4>3
    <3> QED BY <2>0, <3>1, <3>5, <3>6, <3>7, <3>8 DEF Spaced, Apart
  <2> QED BY <2>1, <2>2
<1>7. RecordedIsPublished'
  <2> SUFFICES ASSUME NEW k \in Reminder, expires'[k] # NoRow
               PROVE  \/ published[k][expires'[k] - Window] > 0 \/ <<k, expires'[k] - Window>> \in lost
                      \/ \E b \in Reminding : /\ rem'[b].pc = "publish" /\ rem'[b].on = k
                                             /\ rem'[b].now = expires'[k] - Window
    BY <1>2 DEF RecordedIsPublished
  <2>1. CASE k = j
    <3>1. expires'[k] = n + Window /\ expires'[k] - Window = n
      BY <1>0, <1>2, <1>4, <2>1
    <3>2. rem'[a].pc = "publish" /\ rem'[a].on = k /\ rem'[a].now = n
      BY <1>1, <2>1 DEF RemOf
    <3> QED BY <3>1, <3>2
  <2>2. CASE k # j
    <3>1. expires'[k] = expires[k]
      BY <1>2, <2>2
    <3>2. rem[a].pc = "record"
      BY DEF Record
    <3>3. \A b \in Reminding : rem[b].pc = "publish" => rem'[b] = rem[b]
      BY <1>1, <3>2 DEF RemOf
    <3> QED BY <3>1, <3>3 DEF RInv, RecordedIsPublished
  <2> QED BY <2>1, <2>2
<1> QED BY <1>5, <1>6, <1>7 DEF RInv

LEMMA PublishKeeps ==
  ASSUME RInv, NEW a \in Reminding, Publish(a), Typed'
  PROVE  RInv'
<1> USE WindowPositive
<1> DEFINE j == rem[a].on
           n == rem[a].now
<1>0. j \in Reminder /\ n \in Time /\ n \in Nat /\ Flying(a, j)
  BY DEF Publish, RInv, Typed, TypeOK, RemOn, Rem, Flying
<1>1. RemOf(a, "next")
  BY DEF Publish, RemOf, RInv, Typed, TypeOK, Rem
<1>2. UNCHANGED <<expires, lost, overlapped>>
  BY DEF Publish
<1>3. published' = [published EXCEPT ![j][n] = published[j][n] + 1]
  BY DEF Publish
<1>4. published \in [Reminder -> [Time -> Nat]]
  BY DEF RInv, Typed, TypeOK
<1> HIDE DEF j, n
<1>5. \A k \in Reminder, t \in Time :
        published'[k][t] = IF k = j /\ t = n THEN published[k][t] + 1 ELSE published[k][t]
  BY <1>0, <1>3, <1>4
<1>6. \A k \in Reminder, b \in Reminding : Flying(b, k)' => b # a /\ Flying(b, k) /\ rem'[b] = rem[b]
  BY <1>1 DEF RemOf, Flying
<1>7. ReadExpired'
  BY <1>1 DEF RInv, ReadExpired, RemOf
<1>8. AllSpaced'
  <2> SUFFICES ASSUME NEW k \in Reminder, k \notin overlapped PROVE Spaced(k)'
    BY <1>2 DEF AllSpaced
  <2>0. Spaced(k)
    BY DEF RInv, AllSpaced
  <2>1. CASE k # j
    <3>1. \A t \in Time : published'[k][t] = published[k][t]
      BY <1>5, <2>1
    <3> QED BY <2>0, <3>1, <1>2, <1>6 DEF Spaced, Apart
  <2>2. CASE k = j
    <3>1. \A t \in Time : published[k][t] \in Nat
      BY <1>4
    <3>2. \A t \in Time : published[k][t] > 0 => Apart(t, n)
      BY <1>0, <2>0, <2>2 DEF Spaced, n
    <3>3. published[k][n] = 0
      BY <1>0, <3>1, <3>2 DEF Apart
    <3>4. \A t \in Time : published'[k][t] > 0 => t = n \/ published[k][t] > 0
      BY <1>5
    <3>5. \A t \in Time : published'[k][t] > 0 => t + Window <= expires'[k]
      <4>1. n + Window <= expires[k]
        BY <1>0, <2>0, <2>2 DEF Spaced, n
      <4> QED BY <1>2, <2>0, <3>4, <4>1 DEF Spaced
    <3>6. \A t \in Time : published'[k][t] <= 1
      <4> SUFFICES ASSUME NEW t \in Time PROVE published'[k][t] <= 1
        OBVIOUS
      <4>1. CASE t = n
        BY <1>5, <2>2, <3>3, <4>1
      <4>2. CASE t # n
        BY <1>5, <2>0, <4>2 DEF Spaced
      <4> QED BY <4>1, <4>2
    <3>7. \A s, t \in Time : published'[k][s] > 0 /\ published'[k][t] > 0 /\ s # t => Apart(s, t)
      <4> SUFFICES ASSUME NEW s \in Time, NEW t \in Time, s # t,
                          s = n \/ published[k][s] > 0, t = n \/ published[k][t] > 0
                   PROVE  Apart(s, t)
        BY <3>4
      <4>1. CASE s = n
        BY <3>2, <4>1 DEF Apart
      <4>2. CASE t = n
        BY <3>2, <4>2 DEF Apart
      <4>3. CASE s # n /\ t # n
        BY <2>0, <4>3 DEF Spaced
      <4> QED BY <4>1, <4>2, <4>3
    <3>8. \A b \in Reminding : Flying(b, k)' => rem'[b].now + Window <= expires'[k]
      BY <1>2, <1>6, <2>0 DEF Spaced
    <3>9. \A b \in Reminding, t \in Time : Flying(b, k)' /\ published'[k][t] > 0 => Apart(t, rem'[b].now)
      <4> SUFFICES ASSUME NEW b \in Reminding, NEW t \in Time, Flying(b, k)', t = n \/ published[k][t] > 0
                   PROVE  Apart(t, rem[b].now)
        BY <1>6, <3>4
      <4>1. b # a /\ Flying(b, k)
        BY <1>6
      <4>2. CASE t = n
        BY <1>0, <2>0, <2>2, <4>1, <4>2 DEF Spaced, Apart, n
      <4>3. CASE t # n
        BY <2>0, <4>1, <4>3 DEF Spaced
      <4> QED BY <4>2, <4>3
    <3>10. \A b, q \in Reminding : Flying(b, k)' /\ Flying(q, k)' /\ b # q => Apart(rem'[b].now, rem'[q].now)
      BY <1>6, <2>0 DEF Spaced
    <3> QED BY <3>5, <3>6, <3>7, <3>8, <3>9, <3>10 DEF Spaced, Apart
  <2> QED BY <2>1, <2>2
<1>9. RecordedIsPublished'
  <2> SUFFICES ASSUME NEW k \in Reminder, expires[k] # NoRow, NEW t, t = expires[k] - Window
               PROVE  \/ published'[k][t] > 0 \/ <<k, t>> \in lost
                      \/ \E b \in Reminding : rem'[b].pc = "publish" /\ rem'[b].on = k /\ rem'[b].now = t
    BY <1>2 DEF RecordedIsPublished
  <2>1. CASE k = j /\ t = n
    BY <1>0, <1>4, <1>5, <2>1
  <2>2. CASE ~(k = j /\ t = n)
    <3>1. published'[k][t] = published[k][t]
      <4>1. CASE k # j
        BY <1>3, <1>4, <4>1
      <4>2. CASE k = j
        BY <1>0, <1>3, <1>4, <2>2, <4>2
      <4> QED BY <4>1, <4>2
    <3>2. \A b \in Reminding : rem[b].pc = "publish" /\ rem[b].on = k /\ rem[b].now = t => rem'[b] = rem[b]
      BY <1>1, <2>2 DEF RemOf, j, n
    <3> QED BY <3>1, <3>2 DEF RInv, RecordedIsPublished
  <2> QED BY <2>1, <2>2
<1> QED BY <1>7, <1>8, <1>9 DEF RInv

(* Steps that leave the dispatch log and what was published as they are and *)
(* drop no dispatch that they do not count as lost.                         *)
LEMMA OtherRemindingKeeps ==
  ASSUME RInv, NEW a \in Reminding, Typed',
         \/ StartReminding(a) \/ (\E k \in Reminder : Look(a, k))
         \/ RecordConflicts(a) \/ FinishReminding(a) \/ AbortReminding(a)
  PROVE  RInv'
<1>1. UNCHANGED <<expires, published, overlapped>>
  BY DEF StartReminding, Look, RecordConflicts, FinishReminding, AbortReminding
<1>2. \A b \in Reminding \ {a} : rem'[b] = rem[b]
  BY DEF StartReminding, Look, RecordConflicts, FinishReminding, AbortReminding, RInv, Typed, TypeOK
<1>3. rem'[a].pc \in {"idle", "next", "record"}
  <2>1. rem[a] \in Rem /\ a \in DOMAIN rem
    BY DEF RInv, Typed, TypeOK
  <2>2. ASSUME NEW k \in Reminder, Look(a, k) PROVE rem'[a].pc \in {"next", "record"}
    BY <2>1, <2>2 DEF Look, Rem
  <2>3. CASE StartReminding(a) \/ RecordConflicts(a) \/ FinishReminding(a) \/ AbortReminding(a)
    BY <2>1, <2>3 DEF StartReminding, RecordConflicts, FinishReminding, AbortReminding, NoRem
  <2> QED BY <2>2, <2>3
<1>4. rem'[a].pc = "record" => rem'[a].row <= rem'[a].now
  <2>1. CASE \E k \in Reminder : Look(a, k)
    <3> PICK k \in Reminder : Look(a, k)
      BY <2>1
    <3>1. rem[a].now \in Nat /\ expires[k] \in Nat
      BY WindowPositive DEF RInv, Typed, TypeOK, Rem
    <3>4. rem[a] \in Rem /\ rem[a].pc = "next" /\ rem \in [Reminding -> Rem]
      BY DEF Look, RInv, Typed, TypeOK
    <3>2. CASE Live(a, k)
      <4>1. rem' = [rem EXCEPT ![a] = [rem[a] EXCEPT !.todo = rem[a].todo \ {k}]]
        BY <3>2 DEF Look
      <4> QED BY <3>4, <4>1 DEF Rem
    <3>3. CASE ~Live(a, k)
      <4>2. rem' = [rem EXCEPT ![a] = [rem[a] EXCEPT !.pc = "record", !.todo = rem[a].todo \ {k},
                                                     !.on = k, !.row = expires[k]]]
        BY <3>3 DEF Look
      <4>1. rem'[a].row = expires[k] /\ rem'[a].now = rem[a].now
        BY <3>4, <4>2 DEF Rem
      <4> QED BY <3>1, <3>3, <4>1 DEF Live
    <3> QED BY <3>2, <3>3
  <2>2. CASE ~\E k \in Reminder : Look(a, k)
    BY <2>2 DEF StartReminding, RecordConflicts, FinishReminding, AbortReminding, RInv, Typed, TypeOK,
                Rem, NoRem
  <2> QED BY <2>1, <2>2
<1>5. ReadExpired'
  BY <1>2, <1>4 DEF RInv, ReadExpired
<1>6. \A k \in Reminder, b \in Reminding : Flying(b, k)' => Flying(b, k) /\ rem'[b] = rem[b]
  BY <1>2, <1>3 DEF Flying
<1>7. AllSpaced'
  BY <1>1, <1>6 DEF RInv, AllSpaced, Spaced, Apart
<1>8. lost \subseteq lost' /\ (rem[a].pc = "publish" => <<rem[a].on, rem[a].now>> \in lost')
  BY DEF StartReminding, Look, RecordConflicts, FinishReminding, AbortReminding
<1>9. RecordedIsPublished'
  BY <1>1, <1>2, <1>8 DEF RInv, RecordedIsPublished
<1> QED BY <1>5, <1>7, <1>9 DEF RInv

LEMMA RInvNext == RInv /\ [Next]_vars => RInv'
<1> SUFFICES ASSUME RInv, [Next]_vars PROVE RInv'
  OBVIOUS
<1>0. Typed'
  BY TypedNext DEF RInv
<1>1. CASE UNCHANGED <<expires, rem, published, lost, overlapped>>
  <2>1. ReadExpired' /\ RecordedIsPublished'
    BY <1>1 DEF RInv, ReadExpired, RecordedIsPublished
  <2>2. AllSpaced'
    BY <1>1, SMTT(30) DEF RInv, AllSpaced, Spaced, Flying
  <2> QED BY <1>0, <2>1, <2>2 DEF RInv
<1>2. ASSUME NEW a \in Activation,
             \/ StartActivating(a) \/ ActivationStep(a)
             \/ ExecuteThrows(a) \/ MarkThrows(a) \/ AbortActivating(a)
      PROVE  UNCHANGED reminding
  BY <1>2 DEF StartActivating, ActivationStep, Claim, Skip, Execute, ExecuteThrows, MarkSucceeded,
              MarkThrows, MarkFailed, FinishActivating, AbortActivating
<1>3. ASSUME NEW c \in Change, Edit(c) PROVE UNCHANGED reminding
  BY <1>3 DEF Edit
<1>4. ASSUME NEW k \in Reminder, Settle(k) PROVE UNCHANGED <<expires, rem, published, lost, overlapped>>
  BY <1>4 DEF Settle
<1>5. UNCHANGED reminding => UNCHANGED <<expires, rem, published, lost, overlapped>>
  BY DEF reminding
<1> QED
  BY <1>0, <1>1, <1>2, <1>3, <1>4, <1>5, RecordKeeps, PublishKeeps, OtherRemindingKeeps
  DEF Next, ReminderStep, Tick, vars

(* Two publications of a reminder are a window apart, for any number of     *)
(* runs, unless a renewal overwrote a row that its run had not seen.        *)
THEOREM RemindersAreSpaced == Spec => []RemindedOncePerWindow
<1>1. RInv => RemindedOncePerWindow
  <2> SUFFICES ASSUME RInv, NEW k \in Reminder \ overlapped, NEW s \in Time, NEW t \in Time,
                      published[k][s] > 0, s <= t, t < s + Window
               PROVE  published[k][t] <= 1 /\ (s < t => published[k][t] = 0)
    BY DEF RemindedOncePerWindow
  <2>1. Spaced(k)
    BY DEF RInv, AllSpaced
  <2>2. published[k][t] <= 1
    BY <2>1 DEF Spaced
  <2>3. ASSUME s < t PROVE published[k][t] = 0
    <3>1. ~Apart(s, t) /\ s # t
      BY <2>3, WindowPositive DEF Apart
    <3>2. ~(published[k][t] > 0) /\ published[k][t] \in Nat
      BY <2>1, <3>1 DEF Spaced, RInv, Typed, TypeOK
    <3> QED BY <3>2
  <2> QED BY <2>2, <2>3
<1>2. Spec => []RInv
  BY RInvInit, RInvNext, PTL DEF Spec
<1> QED BY <1>1, <1>2, PTL

(* Every row of the dispatch log stands for a publication that was made, is *)
(* about to be made, or was lost to a failure right after the row.          *)
THEOREM RecordsArePublished == Spec => []RecordedIsPublished
<1>1. Spec => []RInv
  BY RInvInit, RInvNext, PTL DEF Spec
<1> QED BY <1>1, PTL DEF RInv
=============================================================================
