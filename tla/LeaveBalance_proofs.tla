-------------------------- MODULE LeaveBalance_proofs --------------------------
(***************************************************************************)
(* What LeaveBalance keeps for any requests, sessions, hours and calendar. *)
(* The book-keeping properties excuse certain races, which the variable    *)
(* stale records; the proofs show that nothing else breaks them. Sums over *)
(* requests have lemmas of their own.                                      *)
(***************************************************************************)
EXTENDS LeaveBalance, TLAPS, FiniteSetTheorems, WellFoundedInduction

LEMMA DivBounds ==
  ASSUME NEW x \in Nat, NEW m \in Nat \ {0}
  PROVE  x \div m \in Nat /\ x \div m <= x
<1>1. x \div m \in Int /\ m * (x \div m) <= x /\ x < m * (x \div m) + m
  BY SMT
<1>2. x \div m >= 0
  BY <1>1, SMT
<1> QED BY <1>1, <1>2, SMT

(* A session at work is at work on a request. *)
OnRequest ==
    \A s \in Session : cmd[s].pc # "idle" =>
        cmd[s].on \in Request /\ (cmd[s].pc # "insert" => cmd[s].op # "create")

Typed == TypeOK /\ OnRequest

(* Every day of the calendar has a period key that the job has a row for.   *)
LEMMA KeyInRange ==
  ASSUME NEW utc \in 0 .. MaxDay
  PROVE  PeriodKey(utc) \in Month
<1>1. utc \in Nat /\ MaxDay \in Nat /\ MonthLength \in Nat \ {0}
  BY CalendarAssumption
<1>2. PeriodKey(utc) \in Nat /\ PeriodKey(utc) <= utc
  BY <1>1, DivBounds DEF PeriodKey
<1> QED BY <1>1, <1>2 DEF Month

(* What a run's start does, at whichever time. *)
Started ==
    /\ job.pc = "idle"
    /\ \E m \in Month :
         \/ run' = [run EXCEPT ![m] = "RUNNING"] /\ job' = [NoJob EXCEPT !.pc = "read", !.key = m]
         \/ run' = [run EXCEPT ![m] = "SUCCEEDED"] /\ UNCHANGED job
    /\ UNCHANGED <<leave, balance, stale, today, zone, accrualDay, key, cached, posted, troubled>>

LEMMA RunsStart ==
  ASSUME Typed, Tick \/ RunByHand
  PROVE  Started
<1>1. PICK utc \in 0 .. MaxDay : \E local : StartRun(local, utc)
  BY DEF Tick, RunByHand, Typed, TypeOK
<1> QED BY <1>1, KeyInRange DEF StartRun, Started

LEMMA TypedInit == Init => Typed
<1> SUFFICES ASSUME Init PROVE Typed
  OBVIOUS
<1>1. Empty \in Balance /\ balance \in Balance
  BY BalanceAssumption DEF Init, Empty, Balance
<1>2. NoRow \in Row /\ request \in [Request -> Row]
  BY DEF Init, NoRow, Row, Status
<1>3. Idle \in Cmd /\ cmd \in [Session -> Cmd] /\ \A s \in Session : cmd[s].pc = "idle"
  BY <1>1, <1>2 DEF Init, Idle, Cmd, Op
<1>4. job \in Job
  BY <1>1, CalendarAssumption DEF Init, NoJob, Job, Month
<1>5. today \in 0 .. MaxDay
  BY CalendarAssumption DEF Init
<1>6. TypeOK
  BY <1>1, <1>2, <1>3, <1>4, <1>5 DEF Init, TypeOK
<1> QED BY <1>3, <1>6 DEF Typed, OnRequest

(* The command of one session changes; the calendar and the job do not.     *)
LEMMA CmdTyped ==
  ASSUME Typed, NEW s \in Session, UNCHANGED accruals,
         cmd' = [cmd EXCEPT ![s] = cmd'[s]], cmd'[s] \in Cmd,
         cmd'[s].pc # "idle" => cmd'[s].on \in Request /\ (cmd'[s].pc # "insert" => cmd'[s].op # "create"),
         request' \in [Request -> Row], balance' \in Balance,
         stale' \in SUBSET {"check", "charge", "accrual", "decision"},
         unseen' \in SUBSET SUBSET Request
  PROVE  Typed'
<1>1. cmd' \in [Session -> Cmd] /\ \A t \in Session \ {s} : cmd'[t] = cmd[t]
  BY DEF Typed, TypeOK
<1>2. OnRequest'
  BY <1>1 DEF Typed, OnRequest
<1> QED BY <1>1, <1>2 DEF Typed, TypeOK, accruals

LEMMA ChargeTyped ==
  ASSUME NEW b \in Balance, NEW r \in Request
  PROVE  /\ Charge(b, r) \in Balance
         /\ Charge(b, r).hours = b.hours - Hours[r] /\ Charge(b, r).used = b.used + Hours[r]
         /\ Charge(b, r).accrued = b.accrued
<1>1. Hours[r] \in Nat /\ b.hours \in Int /\ b.used \in Int /\ b.accrued \in Int
  BY RequestAssumption DEF Balance
<1>2. PICK h \in Int, u \in Int : h = b.hours - Hours[r] /\ u = b.used + Hours[r]
  BY <1>1
<1>3. Charge(b, r) = [b EXCEPT !.hours = h, !.used = u]
  BY <1>2 DEF Charge, Balance
<1>4. LET c == [b EXCEPT !.hours = h, !.used = u]
      IN  c \in Balance /\ c.hours = h /\ c.used = u /\ c.accrued = b.accrued
  BY DEF Balance
<1> QED BY <1>2, <1>3, <1>4

LEMMA CommandTyped ==
  ASSUME Typed, NEW s \in Session,
         \/ \E r \in Request : Create(s, r)
         \/ Insert(s) \/ Handle(s) \/ Check(s) \/ Apply(s) \/ Commit(s) \/ Abandon(s)
         \/ \E op \in Op, r \in Request : Admit(s, op, r)
  PROVE  Typed'
<1> USE DEF Typed, TypeOK
<1>0. cmd[s] \in Cmd /\ (cmd[s].pc # "idle" => cmd[s].on \in Request)
      /\ (cmd[s].pc \notin {"idle", "insert"} => cmd[s].op # "create") /\ s \in DOMAIN cmd
  BY DEF OnRequest
<1>1. Idle \in Cmd
  BY DEF Idle, Cmd, Op, NoRow, Row, Status, Empty, Balance
<1>2. CASE \E r \in Request : Create(s, r)
  <2> PICK r \in Request : Create(s, r)
    BY <1>2
  <2>1. cmd' = [cmd EXCEPT ![s] = [cmd[s] EXCEPT !.pc = "insert", !.op = "create", !.on = r]]
    BY DEF Create
  <2>2. cmd'[s] \in Cmd /\ cmd'[s].pc = "insert" /\ cmd'[s].on = r
    BY <1>0, <2>1 DEF Cmd, Op
  <2>3. unseen' \in SUBSET SUBSET Request
    <3>1. unseen' = unseen \union {{q, r} : q \in {p \in Overlapping(r) : InDraft(p)}}
      BY DEF Create
    <3>2. \A q \in Overlapping(r) : {q, r} \in SUBSET Request
      BY DEF Overlapping
    <3>3. {{q, r} : q \in {p \in Overlapping(r) : InDraft(p)}} \subseteq SUBSET Request
      BY <3>2
    <3> QED BY <3>1, <3>3
  <2>4. UNCHANGED accruals /\ UNCHANGED <<request, balance, stale>> /\ cmd' = [cmd EXCEPT ![s] = cmd'[s]]
    BY <2>1 DEF Create
  <2> QED BY <2>2, <2>3, <2>4, CmdTyped
<1>3. CASE Insert(s)
  <2>1. request' \in [Request -> Row]
    <3>1. request[cmd[s].on] \in Row
      BY <1>0, <1>3 DEF Insert
    <3>2. [request[cmd[s].on] EXCEPT !.status = "DRAFT"] \in Row
      BY <3>1 DEF Row, Status
    <3> QED BY <1>3, <3>2 DEF Insert
  <2>2. cmd'[s] = Idle /\ Idle.pc = "idle" /\ cmd' = [cmd EXCEPT ![s] = cmd'[s]]
    BY <1>3 DEF Insert, Idle
  <2> QED BY <1>1, <1>3, <2>1, <2>2, CmdTyped DEF Insert
<1>4. CASE \E op \in Op, r \in Request : Admit(s, op, r)
  <2> PICK op \in Op, r \in Request : Admit(s, op, r)
    BY <1>4
  <2>1. cmd' = [cmd EXCEPT ![s] = [cmd[s] EXCEPT !.pc = "handle", !.op = op, !.on = r]] /\ op # "create"
    BY DEF Admit
  <2>2. cmd'[s] \in Cmd /\ cmd'[s].pc = "handle" /\ cmd'[s].on = r /\ cmd'[s].op = op
    BY <1>0, <2>1 DEF Cmd
  <2>3. UNCHANGED accruals /\ UNCHANGED <<request, balance, stale, unseen>> /\ cmd' = [cmd EXCEPT ![s] = cmd'[s]]
    BY <2>1 DEF Admit
  <2>4. request' \in [Request -> Row] /\ balance' \in Balance /\ unseen' \in SUBSET SUBSET Request
        /\ stale' \in SUBSET {"check", "charge", "accrual", "decision"}
    BY <2>3
  <2>5. Typed /\ UNCHANGED accruals /\ cmd' = [cmd EXCEPT ![s] = cmd'[s]]
        /\ (cmd'[s].pc # "idle" => cmd'[s].on \in Request /\ (cmd'[s].pc # "insert" => cmd'[s].op # "create"))
    BY <2>1, <2>2, <2>3
  <2> HIDE DEF Typed, TypeOK
  <2> QED BY <2>2, <2>4, <2>5, CmdTyped
<1>5. CASE Handle(s)
  <2>1. PICK l \in {"check", "commit"} :
           cmd' = [cmd EXCEPT ![s] = [cmd[s] EXCEPT !.pc = l, !.ar = request[cmd[s].on]]]
    BY <1>5 DEF Handle
  <2>2. cmd[s].pc = "handle" /\ request[cmd[s].on] \in Row
    BY <1>0, <1>5 DEF Handle
  <2>3. cmd'[s] \in Cmd /\ cmd'[s].pc = l /\ cmd'[s].on = cmd[s].on /\ cmd'[s].op = cmd[s].op
    BY <1>0, <2>1, <2>2 DEF Cmd
  <2>4. UNCHANGED accruals /\ UNCHANGED <<request, balance, stale, unseen>> /\ cmd' = [cmd EXCEPT ![s] = cmd'[s]]
    BY <1>5, <2>1 DEF Handle
  <2> QED BY <1>0, <2>2, <2>3, <2>4, CmdTyped
<1>6. CASE Check(s)
  <2>1. cmd' = [cmd EXCEPT ![s] = [cmd[s] EXCEPT !.pc = "apply", !.checked = balance.hours]] /\ cmd[s].pc = "check"
    BY <1>6 DEF Check
  <2>2. cmd'[s] \in Cmd /\ cmd'[s].pc = "apply" /\ cmd'[s].on = cmd[s].on /\ cmd'[s].op = cmd[s].op
    BY <1>0, <2>1 DEF Cmd, Balance
  <2>3. UNCHANGED accruals /\ UNCHANGED <<request, balance, stale, unseen>> /\ cmd' = [cmd EXCEPT ![s] = cmd'[s]]
    BY <1>6, <2>1 DEF Check
  <2> QED BY <1>0, <2>1, <2>2, <2>3, CmdTyped
<1>7. CASE Apply(s)
  <2>1. cmd' = [cmd EXCEPT ![s] = [cmd[s] EXCEPT !.pc = "commit", !.bal = balance]] /\ cmd[s].pc = "apply"
    BY <1>7 DEF Apply
  <2>2. cmd'[s] \in Cmd /\ cmd'[s].pc = "commit" /\ cmd'[s].on = cmd[s].on /\ cmd'[s].op = cmd[s].op
    BY <1>0, <2>1 DEF Cmd
  <2>3. UNCHANGED accruals /\ UNCHANGED <<request, balance, stale, unseen>> /\ cmd' = [cmd EXCEPT ![s] = cmd'[s]]
    BY <1>7, <2>1 DEF Apply
  <2> QED BY <1>0, <2>1, <2>2, <2>3, CmdTyped
<1>8. CASE Commit(s)
  <2>0. cmd[s].pc = "commit" /\ cmd[s].ar \in Row /\ cmd[s].bal \in Balance /\ cmd[s].on \in Request
        /\ cmd[s].op \in Op /\ cmd[s].op # "create"
    BY <1>0, <1>8 DEF Commit, Cmd
  <2>1. Target(cmd[s].op) \in Status
    BY <2>0 DEF Target, Op, Status
  <2>2. request' \in [Request -> Row]
    <3>1. [status |-> Target(cmd[s].op), version |-> cmd[s].ar.version + 1] \in Row
      BY <2>0, <2>1 DEF Row
    <3> QED BY <1>8, <3>1 DEF Commit
  <2>3. balance' \in Balance
    BY <1>8, <2>0, ChargeTyped DEF Commit
  <2>4. stale' \in SUBSET {"check", "charge", "accrual", "decision"}
    BY <1>8 DEF Commit
  <2>5. cmd'[s] = Idle /\ Idle.pc = "idle" /\ cmd' = [cmd EXCEPT ![s] = cmd'[s]] /\ UNCHANGED unseen /\ UNCHANGED accruals
    BY <1>8 DEF Commit, Idle
  <2> QED BY <1>1, <2>2, <2>3, <2>4, <2>5, CmdTyped
<1>9. CASE Abandon(s)
  <2>1. cmd'[s] = Idle /\ Idle.pc = "idle" /\ cmd' = [cmd EXCEPT ![s] = cmd'[s]]
    BY <1>9 DEF Abandon, Idle
  <2> QED BY <1>1, <1>9, <2>1, CmdTyped DEF Abandon
<1> QED BY <1>2, <1>3, <1>4, <1>5, <1>6, <1>7, <1>8, <1>9

LEMMA JobTyped ==
  ASSUME Typed,
         \/ Tick \/ RunByHand \/ ReadBalance \/ LoadBalance \/ WriteBalance
         \/ CommandFails \/ FinishRun \/ RunFails \/ Evict \/ NewDay
  PROVE  Typed'
<1> USE DEF Typed, TypeOK
<1>0. NoJob \in Job /\ job.key \in Month
  BY CalendarAssumption DEF NoJob, Job, Empty, Balance, Month
<1>1. Reserved \in [Month -> SUBSET Payload]
  <2>1. Accrued \in Payload
    BY BalanceAssumption DEF Accrued, Payload, Job, Balance
  <2> QED BY <1>0, <2>1 DEF Reserved
<1>2. CASE Tick \/ RunByHand
  <2>1. Started
    BY <1>2, RunsStart
  <2>2. job' \in Job /\ run' \in [Month -> {"none", "RUNNING", "SUCCEEDED", "FAILED"}]
    BY <1>0, <2>1 DEF Started, Job
  <2> QED BY <2>1, <2>2 DEF Started, leave, OnRequest
<1>3. CASE ReadBalance \/ LoadBalance
  BY <1>0, <1>3 DEF ReadBalance, LoadBalance, Job, leave, OnRequest
<1>4. CASE WriteBalance
  <2>1. balance' \in Balance /\ job' \in Job
    BY <1>4, BalanceAssumption DEF WriteBalance, Accrued, Balance, Job
  <2>2. UNCHANGED <<leave, today, zone, accrualDay, run, troubled>> /\ key' = Reserved
        /\ cached' \in SUBSET Month /\ posted' \in [Month -> Nat]
        /\ stale' \in SUBSET {"check", "charge", "accrual", "decision"}
    BY <1>0, <1>4 DEF WriteBalance
  <2> QED BY <1>1, <2>1, <2>2 DEF leave, OnRequest
<1>5. CASE CommandFails
  BY <1>0, <1>1, <1>5 DEF CommandFails, Job, leave, OnRequest
<1>6. CASE FinishRun \/ RunFails
  BY <1>0, <1>6 DEF FinishRun, RunFails, leave, OnRequest
<1>7. CASE Evict
  BY <1>7 DEF Evict, leave, OnRequest
<1>8. CASE NewDay
  <2>1. today' \in 0 .. MaxDay /\ PeriodKey(today) \in Month
    BY <1>8, CalendarAssumption, KeyInRange DEF NewDay
  <2> QED BY <1>8, <2>1 DEF NewDay, leave, OnRequest
<1> QED BY <1>2, <1>3, <1>4, <1>5, <1>6, <1>7, <1>8

LEMMA TypedNext == Typed /\ [Next]_vars => Typed'
<1> SUFFICES ASSUME Typed, [Next]_vars PROVE Typed'
  OBVIOUS
<1>1. CASE UNCHANGED vars
  BY <1>1 DEF Typed, TypeOK, OnRequest, vars, leave, accruals
<1> QED BY <1>1, CommandTyped, JobTyped DEF Next

(* Requests, balance, commands, the job and its rows keep their shapes.     *)
THEOREM TypeCorrect == Spec => []TypeOK
<1>1. Spec => []Typed
  BY TypedInit, TypedNext, PTL DEF Spec
<1> QED BY <1>1, PTL DEF Typed

-----------------------------------------------------------------------------
(* A step of session s, and what it leaves in cmd[s]. *)
CommandOf(s) ==
    \/ \E r \in Request : Create(s, r)
    \/ Insert(s)
    \/ \E op \in Op, r \in Request : Admit(s, op, r)
    \/ Handle(s) \/ Check(s) \/ Apply(s) \/ Commit(s) \/ Abandon(s)

JobStep ==
    \/ Tick \/ RunByHand \/ ReadBalance \/ LoadBalance \/ CommandFails
    \/ FinishRun \/ RunFails \/ Evict \/ NewDay

LEMMA CommandMoves ==
  ASSUME Typed, NEW s \in Session
  PROVE  /\ \A r \in Request : Create(s, r) => cmd'[s].pc = "insert" /\ cmd'[s].on = r
         /\ Insert(s) \/ Commit(s) \/ Abandon(s) => cmd'[s].pc = "idle"
         /\ \A op \in Op, r \in Request : Admit(s, op, r) => cmd'[s].pc = "handle"
         /\ Handle(s) => /\ cmd'[s].pc \in {"check", "commit"}
                         /\ cmd'[s].pc = "check" <=> cmd[s].op = "approve"
                         /\ cmd'[s].op = cmd[s].op /\ cmd'[s].on = cmd[s].on
                         /\ cmd'[s].ar = request[cmd[s].on]
         /\ Check(s) => /\ cmd'[s].pc = "apply" /\ cmd'[s].checked = balance.hours
                        /\ cmd'[s].op = cmd[s].op /\ cmd'[s].on = cmd[s].on /\ cmd'[s].ar = cmd[s].ar
         /\ Apply(s) => /\ cmd'[s].pc = "commit" /\ cmd'[s].bal = balance
                        /\ cmd'[s].op = cmd[s].op /\ cmd'[s].on = cmd[s].on /\ cmd'[s].ar = cmd[s].ar
                        /\ cmd'[s].checked = cmd[s].checked
<1> USE DEF Typed, TypeOK
<1>0. cmd[s] \in Cmd /\ s \in DOMAIN cmd /\ Idle.pc = "idle"
  BY DEF Idle
<1>1. ASSUME NEW r \in Request, Create(s, r) PROVE cmd'[s].pc = "insert" /\ cmd'[s].on = r
  BY <1>0, <1>1 DEF Create, Cmd
<1>2. Insert(s) \/ Commit(s) \/ Abandon(s) => cmd'[s].pc = "idle"
  BY <1>0 DEF Insert, Commit, Abandon
<1>3. ASSUME NEW op \in Op, NEW r \in Request, Admit(s, op, r) PROVE cmd'[s].pc = "handle"
  BY <1>0, <1>3 DEF Admit, Cmd
<1>4. ASSUME Handle(s)
      PROVE  /\ cmd'[s].pc \in {"check", "commit"}
             /\ cmd'[s].pc = "check" <=> cmd[s].op = "approve"
             /\ cmd'[s].op = cmd[s].op /\ cmd'[s].on = cmd[s].on
             /\ cmd'[s].ar = request[cmd[s].on]
  BY <1>0, <1>4 DEF Handle, Cmd
<1>5. ASSUME Check(s)
      PROVE  /\ cmd'[s].pc = "apply" /\ cmd'[s].checked = balance.hours
             /\ cmd'[s].op = cmd[s].op /\ cmd'[s].on = cmd[s].on /\ cmd'[s].ar = cmd[s].ar
  BY <1>0, <1>5 DEF Check, Cmd
<1>6. ASSUME Apply(s)
      PROVE  /\ cmd'[s].pc = "commit" /\ cmd'[s].bal = balance
             /\ cmd'[s].op = cmd[s].op /\ cmd'[s].on = cmd[s].on /\ cmd'[s].ar = cmd[s].ar
             /\ cmd'[s].checked = cmd[s].checked
  BY <1>0, <1>6 DEF Apply, Cmd
<1> QED BY <1>1, <1>2, <1>3, <1>4, <1>5, <1>6

LEMMA CommandFrame ==
  ASSUME Typed, NEW s \in Session, CommandOf(s)
  PROVE  /\ UNCHANGED accruals
         /\ \A t \in Session \ {s} : cmd'[t] = cmd[t]
         /\ ~Commit(s) => UNCHANGED <<balance, stale>>
         /\ ~Commit(s) /\ ~Insert(s) => UNCHANGED request
         /\ (\A r \in Request : ~Create(s, r)) => UNCHANGED unseen
<1>1. UNCHANGED accruals /\ \A t \in Session \ {s} : cmd'[t] = cmd[t]
  BY DEF Typed, TypeOK, CommandOf, Create, Insert, Admit, Handle, Check, Apply, Commit, Abandon
<1>2. ~Commit(s) => UNCHANGED <<balance, stale>>
  BY DEF CommandOf, Create, Insert, Admit, Handle, Check, Apply, Abandon
<1>3. ~Commit(s) /\ ~Insert(s) => UNCHANGED request
  BY DEF CommandOf, Create, Admit, Handle, Check, Apply, Abandon
<1>4. (\A r \in Request : ~Create(s, r)) => UNCHANGED unseen
  BY DEF CommandOf, Insert, Admit, Handle, Check, Apply, Commit, Abandon
<1> QED BY <1>1, <1>2, <1>3, <1>4

LEMMA JobFrame ==
  /\ JobStep => UNCHANGED <<leave, balance, stale>>
  /\ WriteBalance => UNCHANGED leave
BY DEF JobStep, Tick, RunByHand, StartRun, ReadBalance, LoadBalance, CommandFails, FinishRun,
       RunFails, Evict, NewDay, WriteBalance

(* Every step is one of a session or of the job. *)
LEMMA StepCases ==
  [Next]_vars => UNCHANGED vars \/ WriteBalance \/ JobStep \/ \E s \in Session : CommandOf(s)
BY DEF Next, CommandOf, JobStep

(* The row an approval is about to save charges the balance it read.        *)
LEMMA CommitWrites ==
  ASSUME Typed, NEW s \in Session, Commit(s)
  PROVE  /\ cmd[s].pc = "commit" /\ cmd[s].on \in Request /\ cmd[s].bal \in Balance
         /\ cmd[s].op \in Op /\ cmd[s].ar \in Row
         /\ cmd[s].op = "approve" => /\ balance'.hours = cmd[s].bal.hours - Hours[cmd[s].on]
                                     /\ balance'.used = cmd[s].bal.used + Hours[cmd[s].on]
                                     /\ balance'.accrued = cmd[s].bal.accrued
         /\ cmd[s].op # "approve" => UNCHANGED balance
         /\ stale \subseteq stale'
<1>1. cmd[s].pc = "commit" /\ cmd[s].on \in Request /\ cmd[s].bal \in Balance
      /\ cmd[s].op \in Op /\ cmd[s].ar \in Row
  BY DEF Commit, Typed, TypeOK, OnRequest, Cmd
<1>2. cmd[s].op = "approve" => balance' = Charge(cmd[s].bal, cmd[s].on)
  BY DEF Commit
<1>3. (cmd[s].op # "approve" => UNCHANGED balance) /\ stale \subseteq stale'
  BY DEF Commit
<1> QED BY <1>1, <1>2, <1>3, ChargeTyped

-----------------------------------------------------------------------------
(* The balance adds up, and so does every copy of it an approval will save. *)
AddsUp(b) == b.hours + b.used = Opening + b.accrued

BInv ==
    "accrual" \notin stale =>
        /\ AddsUp(balance)
        /\ \A s \in Session : cmd[s].pc = "commit" /\ cmd[s].op = "approve" => AddsUp(cmd[s].bal)

LEMMA BInit == Init => BInv
BY BalanceAssumption DEF Init, BInv, AddsUp, Idle

LEMMA BNext == Typed /\ BInv /\ [Next]_vars => BInv'
<1> SUFFICES ASSUME Typed, BInv, [Next]_vars, "accrual" \notin stale'
             PROVE  /\ AddsUp(balance')
                    /\ \A t \in Session : cmd'[t].pc = "commit" /\ cmd'[t].op = "approve" => AddsUp(cmd'[t].bal)
  BY DEF BInv, AddsUp
<1>1. CASE UNCHANGED vars
  BY <1>1 DEF vars, leave, BInv
<1>2. CASE JobStep
  BY <1>2, JobFrame DEF leave, BInv
<1>3. CASE WriteBalance
  <2>1. "accrual" \notin stale /\ balance = job.seen /\ balance = job.loaded
    BY <1>3 DEF WriteBalance
  <2>2. balance'.hours = balance.hours + Accrual /\ balance'.accrued = balance.accrued + Accrual
        /\ balance'.used = balance.used
    BY <1>3, <2>1 DEF WriteBalance, Accrued
  <2>3. AddsUp(balance')
    <3>1. balance.hours \in Int /\ balance.used \in Int /\ balance.accrued \in Int
      BY DEF Typed, TypeOK, Balance
    <3>2. balance.hours + balance.used = Opening + balance.accrued
      BY <2>1 DEF BInv, AddsUp
    <3> QED BY <2>2, <3>1, <3>2, BalanceAssumption DEF AddsUp
  <2> QED BY <1>3, <2>1, <2>3, JobFrame DEF leave, BInv
<1>4. CASE \E s \in Session : CommandOf(s)
  <2> PICK s \in Session : CommandOf(s)
    BY <1>4
  <2>0. "accrual" \notin stale
    BY CommandFrame, CommitWrites
  <2>1. ASSUME NEW t \in Session \ {s}, cmd'[t].pc = "commit", cmd'[t].op = "approve" PROVE AddsUp(cmd'[t].bal)
    BY <2>0, <2>1, CommandFrame DEF BInv
  <2>2. CASE Commit(s)
    <3>1. AddsUp(balance')
      <4>1. CASE cmd[s].op = "approve"
        <5>1. AddsUp(cmd[s].bal)
          BY <2>0, <2>2, <4>1, CommitWrites DEF BInv
        <5> QED BY <2>2, <4>1, <5>1, CommitWrites, RequestAssumption, BalanceAssumption DEF AddsUp, Balance
      <4> QED BY <2>0, <2>2, <4>1, CommitWrites DEF BInv
    <3>2. cmd'[s].pc = "idle"
      BY <2>2, CommandMoves
    <3> QED BY <2>1, <3>1, <3>2
  <2>3. CASE ~Commit(s)
    <3>1. AddsUp(balance) /\ balance' = balance
      BY <2>0, <2>3, CommandFrame DEF BInv
    <3>2. cmd'[s].pc = "commit" /\ cmd'[s].op = "approve" => AddsUp(cmd'[s].bal)
      BY <2>3, <3>1, CommandMoves DEF CommandOf
    <3> QED BY <2>1, <3>1, <3>2
  <2> QED BY <2>2, <2>3
<1> QED BY <1>1, <1>2, <1>3, <1>4, StepCases

(* What is left and what was used make what was given, unless the accrual   *)
(* job overwrote a balance that had changed since it read it.               *)
THEOREM BalancesAddUp == Spec => []BalanceAddsUp
<1>1. Typed /\ BInv => BalanceAddsUp
  BY BalanceAssumption DEF Typed, TypeOK, Balance, BInv, AddsUp, BalanceAddsUp
<1> QED BY <1>1, TypedInit, TypedNext, BInit, BNext, PTL DEF Spec

-----------------------------------------------------------------------------
(* An approval that has checked a balance found in it what it will deduct.  *)
OInv ==
    /\ \A s \in Session :
         /\ cmd[s].pc \in {"check", "apply"} => cmd[s].op = "approve"
         /\ cmd[s].pc \in {"apply", "commit"} /\ cmd[s].op = "approve"
              => Hours[cmd[s].on] <= cmd[s].checked
    /\ stale \intersect {"check", "charge", "accrual"} = {} => balance.hours >= 0

LEMMA OInit == Init => OInv
BY BalanceAssumption DEF Init, OInv, Idle

LEMMA ONext == Typed /\ OInv /\ [Next]_vars => OInv'
<1> SUFFICES ASSUME Typed, OInv, [Next]_vars PROVE OInv'
  OBVIOUS
<1>1. CASE UNCHANGED vars
  BY <1>1 DEF vars, leave, OInv
<1>2. CASE JobStep
  BY <1>2, JobFrame DEF leave, OInv
<1>3. CASE WriteBalance
  <2>1. ASSUME stale' \intersect {"check", "charge", "accrual"} = {} PROVE balance'.hours >= 0
    <3>1. stale \intersect {"check", "charge", "accrual"} = {} /\ balance = job.seen
      BY <1>3, <2>1 DEF WriteBalance
    <3>2. balance'.hours = balance.hours + Accrual
      BY <1>3, <3>1 DEF WriteBalance, Accrued
    <3>3. balance.hours >= 0 /\ balance.hours \in Int
      BY <3>1 DEF OInv, Typed, TypeOK, Balance
    <3> QED BY <3>2, <3>3, BalanceAssumption
  <2> QED BY <1>3, <2>1, JobFrame DEF leave, OInv
<1>4. CASE \E s \in Session : CommandOf(s)
  <2> PICK s \in Session : CommandOf(s)
    BY <1>4
  <2>1. \A t \in Session \ {s} : cmd'[t] = cmd[t]
    BY CommandFrame
  <2>2. /\ cmd'[s].pc \in {"check", "apply"} => cmd'[s].op = "approve"
        /\ cmd'[s].pc \in {"apply", "commit"} /\ cmd'[s].op = "approve" => Hours[cmd'[s].on] <= cmd'[s].checked
    <3>1. CASE Check(s)
      BY <3>1, CommandMoves DEF Check, Covers, OInv
    <3>2. CASE Apply(s)
      BY <3>2, CommandMoves DEF Apply, OInv
    <3>3. CASE Handle(s)
      BY <3>3, CommandMoves
    <3> QED BY <3>1, <3>2, <3>3, CommandMoves DEF CommandOf
  <2>3. ASSUME stale' \intersect {"check", "charge", "accrual"} = {} PROVE balance'.hours >= 0
    <3>0. stale \intersect {"check", "charge", "accrual"} = {} /\ balance.hours >= 0
      BY <2>3, CommandFrame, CommitWrites DEF OInv
    <3>1. CASE Commit(s) /\ cmd[s].op = "approve"
      <4>1. cmd[s].bal.hours = cmd[s].checked
        BY <2>3, <3>1 DEF Commit
      <4>2. Hours[cmd[s].on] <= cmd[s].checked
        BY <3>1, CommitWrites DEF OInv
      <4>3. balance'.hours = cmd[s].bal.hours - Hours[cmd[s].on]
            /\ Hours[cmd[s].on] \in Nat /\ cmd[s].bal.hours \in Int
        BY <3>1, CommitWrites, RequestAssumption DEF Balance
      <4> QED BY <4>1, <4>2, <4>3
    <3>2. CASE ~(Commit(s) /\ cmd[s].op = "approve")
      BY <3>0, <3>2, CommandFrame, CommitWrites
    <3> QED BY <3>1, <3>2
  <2> QED BY <2>1, <2>2, <2>3 DEF OInv
<1> QED BY <1>1, <1>2, <1>3, <1>4, StepCases

(* The balance is not overdrawn, unless it changed between an approval's    *)
(* check and its deduction, or a changed balance was overwritten.           *)
THEOREM NothingIsOverdrawn == Spec => []NoOverdraft
<1>1. OInv => NoOverdraft
  BY DEF OInv, NoOverdraft
<1> QED BY <1>1, TypedInit, TypedNext, OInit, ONext, PTL DEF Spec

-----------------------------------------------------------------------------
(* What a month has accrued is on its row, in a payload that the balance    *)
(* has caught up with; the payload of a run in progress is ahead of it.     *)
Posted(m) ==
    posted[m] # 0 =>
        posted[m] = 1 /\ key[m] # {} /\ \A payload \in key[m] : payload.accrued <= balance.accrued

KInv ==
    "charge" \notin stale =>
        /\ \A m \in Month : Posted(m)
        /\ job.pc \in {"load", "write"} => job.seen.accrued = balance.accrued
        /\ job.pc = "write" => posted[job.key] = 0 /\ ~Mismatch

LEMMA KInit == Init => KInv
BY DEF Init, KInv, Posted, NoJob

LEMMA KNext == Typed /\ KInv /\ [Next]_vars => KInv'
<1> SUFFICES ASSUME Typed, KInv, [Next]_vars, "charge" \notin stale'
             PROVE  /\ \A m \in Month : Posted(m)'
                    /\ job'.pc \in {"load", "write"} => job'.seen.accrued = balance'.accrued
                    /\ job'.pc = "write" => posted'[job'.key] = 0 /\ ~Mismatch'
  BY DEF KInv
<1> USE DEF Typed, TypeOK
<1>0. /\ job \in Job /\ job.key \in Month /\ balance.accrued \in Int /\ Accrual \in Nat \ {0}
      /\ "charge" \notin stale
      /\ \A m \in Month : \A payload \in key[m] : payload.accrued \in Int
  <2>1. stale \subseteq stale'
    BY CommandFrame, CommitWrites, JobFrame, StepCases DEF WriteBalance, vars
  <2> QED BY <2>1, BalanceAssumption DEF Job, Balance, Payload
<1>1. \A m \in Month : Posted(m)
  BY <1>0 DEF KInv
<1>2. job.pc \in {"load", "write"} => Accrued.accrued = balance.accrued + Accrual
  BY <1>0 DEF KInv, Accrued
<1>3. CASE UNCHANGED vars \/ \E s \in Session : CommandOf(s)
  <2>1. UNCHANGED accruals
    BY <1>3, CommandFrame DEF vars
  <2>2. balance'.accrued = balance.accrued
    <3>1. CASE UNCHANGED vars
      BY <3>1 DEF vars
    <3>2. ASSUME NEW s \in Session, CommandOf(s) PROVE balance'.accrued = balance.accrued
      <4>1. CASE Commit(s) /\ cmd[s].op = "approve"
        BY <4>1, CommitWrites DEF Commit
      <4> QED BY <3>2, <4>1, CommandFrame, CommitWrites
    <3> QED BY <1>3, <3>1, <3>2
  <2>3. UNCHANGED <<job, posted, key>> /\ Mismatch' = Mismatch
    BY <2>1 DEF accruals, Mismatch, Accrued
  <2> QED BY <1>0, <1>1, <2>2, <2>3 DEF KInv, Posted
<1>4. CASE WriteBalance
  <2>1. /\ job.pc = "write" /\ job'.pc = "finish" /\ key' = Reserved /\ balance'.accrued = Accrued.accrued
        /\ posted' = [posted EXCEPT ![job.key] = posted[job.key] + 1]
    BY <1>0, <1>4 DEF WriteBalance, Job
  <2>2. posted[job.key] = 0 /\ ~Mismatch
    BY <1>0, <2>1 DEF KInv
  <2>3. key'[job.key] = {Accrued} /\ \A m \in Month \ {job.key} : key'[m] = key[m]
    <3>1. key[job.key] \subseteq {Accrued}
      BY <2>2 DEF Mismatch
    <3> QED BY <1>0, <2>1, <3>1 DEF Reserved
  <2>4. ASSUME NEW m \in Month PROVE Posted(m)'
    <3>1. CASE m = job.key
      BY <1>0, <1>2, <2>1, <2>2, <2>3, <3>1 DEF Posted
    <3>2. CASE m # job.key
      <4>1. posted'[m] = posted[m] /\ key'[m] = key[m]
        BY <2>1, <2>3, <3>2
      <4>2. balance'.accrued = balance.accrued + Accrual
        BY <1>2, <2>1
      <4>3. \A payload \in key[m] : payload.accrued <= balance.accrued => payload.accrued <= balance'.accrued
        BY <1>0, <4>2
      <4> QED BY <1>1, <4>1, <4>3 DEF Posted
    <3> QED BY <3>1, <3>2
  <2> QED BY <2>1, <2>4
<1>5. CASE JobStep
  <2>1. UNCHANGED <<balance, posted>>
    BY <1>5 DEF JobStep, Tick, RunByHand, StartRun, ReadBalance, LoadBalance, CommandFails, FinishRun, RunFails, Evict, NewDay
  <2>2. key' \in {key, Reserved}
    BY <1>5 DEF JobStep, Tick, RunByHand, StartRun, ReadBalance, LoadBalance, CommandFails, FinishRun, RunFails, Evict, NewDay
  <2>3. ASSUME NEW m \in Month PROVE Posted(m)'
    <3>1. key[m] # {} => key'[m] = key[m]
      BY <1>0, <2>2 DEF Reserved
    <3> QED BY <1>1, <2>1, <3>1 DEF Posted
  <2>4. CASE LoadBalance
    <3>1. ASSUME job'.pc = "write" PROVE posted[job.key] = 0 /\ ~Mismatch
      <4>1. ~Mismatch
        BY <1>0, <2>4, <3>1 DEF LoadBalance, Job
      <4>2. job.pc = "load"
        BY <2>4 DEF LoadBalance
      <4>3. posted[job.key] # 0 => \E payload \in key[job.key] : payload.accrued <= balance.accrued
        BY <1>0, <1>1 DEF Posted
      <4>4. \A payload \in key[job.key] : payload = Accrued
        BY <4>1 DEF Mismatch
      <4>5. ~(Accrued.accrued <= balance.accrued)
        BY <1>0, <1>2, <4>2
      <4> QED BY <4>1, <4>3, <4>4, <4>5
    <3>2. job'.key = job.key /\ job'.seen = job.seen /\ job.pc = "load" /\ UNCHANGED key
      <4>1. \/ job' = [job EXCEPT !.pc = "finish"]
            \/ job' = [job EXCEPT !.pc = "write", !.loaded = balance]
        BY <2>4 DEF LoadBalance
      <4> HIDE DEF Typed, TypeOK
      <4>2. CASE job' = [job EXCEPT !.pc = "finish"]
        BY <1>0, <2>4, <4>2 DEF LoadBalance, Job
      <4>3. CASE job' = [job EXCEPT !.pc = "write", !.loaded = balance]
        BY <1>0, <2>4, <4>3 DEF LoadBalance, Job
      <4> QED BY <4>1, <4>2, <4>3
    <3>3. Mismatch' = Mismatch
      BY <3>2 DEF Mismatch, Accrued
    <3> QED BY <1>0, <2>1, <2>3, <3>1, <3>2, <3>3 DEF KInv
  <2>5. CASE ReadBalance
    <3>1. job'.pc = "load" /\ job'.seen = balance
      BY <1>0, <2>5 DEF ReadBalance, Job
    <3> QED BY <2>1, <2>3, <3>1
  <2>6. CASE Tick \/ RunByHand \/ CommandFails \/ FinishRun \/ RunFails
    <3>1. job'.pc \notin {"load", "write"}
      <4>1. CASE Tick \/ RunByHand
        BY <1>0, <4>1, RunsStart DEF Started, NoJob
      <4> QED BY <1>0, <2>6, <4>1 DEF CommandFails, FinishRun, RunFails, NoJob, Job
    <3> QED BY <2>3, <3>1
  <2>7. CASE Evict \/ NewDay
    <3>1. UNCHANGED <<job, key>>
      BY <2>7 DEF Evict, NewDay
    <3>2. Mismatch' = Mismatch
      BY <3>1 DEF Mismatch, Accrued
    <3> QED BY <1>0, <2>1, <2>3, <3>1, <3>2 DEF KInv
  <2> QED BY <1>5, <2>4, <2>5, <2>6, <2>7 DEF JobStep
<1> QED BY <1>3, <1>4, <1>5, StepCases

(* A month accrues at most once, however often its run failed, died or was  *)
(* started again, and whatever the cache has lost, unless an approval put   *)
(* back a balance that had changed.                                         *)
THEOREM MonthsAccrueOnce == Spec => []AccruesOnce
<1>1. Typed /\ KInv => AccruesOnce
  BY DEF Typed, TypeOK, KInv, Posted, AccruesOnce
<1> QED BY <1>1, TypedInit, TypedNext, KInit, KNext, PTL DEF Spec

-----------------------------------------------------------------------------
(* What a session is about to write is a transition from the row it read,   *)
(* and a request is inserted once.                                          *)
Loaded == {"check", "apply", "commit"}

DInv ==
    \A s \in Session :
      /\ cmd[s].pc \in Loaded =>
           CanLeave(cmd[s].op, cmd[s].ar.status) /\ request[cmd[s].on].status # "none"
      /\ cmd[s].pc = "insert" =>
           /\ request[cmd[s].on].status = "none"
           /\ \A t \in Session \ {s} : cmd[t].pc = "insert" => cmd[t].on # cmd[s].on

LEMMA DInit == Init => DInv
BY DEF Init, DInv, Loaded, Idle

LEMMA TransitionFacts ==
  ASSUME NEW op \in Op, NEW status \in Status, CanLeave(op, status)
  PROVE  status \in {"DRAFT", "PENDING_APPROVAL"} /\ op # "create" /\ Target(op) # "none"
BY DEF CanLeave, Target, Op

(* What the steps of a session do to the requests. *)
LEMMA RequestMoves ==
  ASSUME Typed, DInv, NEW s \in Session, CommandOf(s), NEW q \in Request
  PROVE  /\ Commit(s) /\ q = cmd[s].on => request'[q].status = Target(cmd[s].op)
         /\ Insert(s) /\ q = cmd[s].on => request'[q].status = "DRAFT"
         /\ (Commit(s) \/ Insert(s)) /\ q # cmd[s].on => request'[q] = request[q]
         /\ ~Commit(s) /\ ~Insert(s) => request'[q] = request[q]
<1> USE DEF Typed, TypeOK
<1>1. Commit(s) => /\ q = cmd[s].on => request'[q].status = Target(cmd[s].op)
                   /\ q # cmd[s].on => request'[q] = request[q]
  BY DEF Commit
<1>2. Insert(s) => /\ q = cmd[s].on => request'[q].status = "DRAFT"
                   /\ q # cmd[s].on => request'[q] = request[q]
  BY DEF Insert, Row
<1> QED BY <1>1, <1>2, CommandFrame

LEMMA DNext == Typed /\ DInv /\ [Next]_vars => DInv'
<1> SUFFICES ASSUME Typed, DInv, [Next]_vars PROVE DInv'
  OBVIOUS
<1>1. CASE UNCHANGED vars \/ JobStep \/ WriteBalance
  BY <1>1, JobFrame DEF vars, leave, DInv
<1>2. CASE \E s \in Session : CommandOf(s)
  <2> PICK s \in Session : CommandOf(s)
    BY <1>2
  <2>0. \A t \in Session \ {s} : cmd'[t] = cmd[t]
    BY CommandFrame
  <2>1. \A t \in Session : cmd[t] \in Cmd /\ (cmd[t].pc # "idle" => cmd[t].on \in Request)
    BY DEF Typed, TypeOK, OnRequest
  <2>2. ASSUME NEW q \in Request, request[q].status # "none" PROVE request'[q].status # "none"
    <3>1. CASE Commit(s) /\ q = cmd[s].on
      <4>1. cmd[s].op \in Op /\ cmd[s].ar.status \in Status /\ CanLeave(cmd[s].op, cmd[s].ar.status)
        BY <3>1, CommitWrites DEF DInv, Loaded, Row
      <4> QED BY <3>1, <4>1, RequestMoves, TransitionFacts
    <3>2. CASE Insert(s) /\ q = cmd[s].on
      BY <3>2, RequestMoves
    <3> QED BY <2>2, <3>1, <3>2, RequestMoves
  <2>3. ASSUME NEW t \in Session, cmd'[t].pc \in Loaded
        PROVE  CanLeave(cmd'[t].op, cmd'[t].ar.status) /\ request'[cmd'[t].on].status # "none"
    <3>1. CASE t # s
      <4>1. cmd[t].pc \in Loaded /\ cmd'[t] = cmd[t]
        BY <2>0, <2>3, <3>1
      <4>2. cmd[t].on \in Request /\ request[cmd[t].on].status # "none"
            /\ CanLeave(cmd[t].op, cmd[t].ar.status)
        BY <2>1, <4>1 DEF DInv, Loaded
      <4> QED BY <2>2, <4>1, <4>2
    <3>2. CASE t = s /\ Handle(s)
      <4>1. cmd[s].on \in Request /\ UNCHANGED request /\ CanLeave(cmd[s].op, request[cmd[s].on].status)
        BY <2>1, <3>2 DEF Handle
      <4>2. request[cmd[s].on].status # "none"
        BY <4>1 DEF CanLeave
      <4> QED BY <3>2, <4>1, <4>2, CommandMoves
    <3>3. CASE t = s /\ (Check(s) \/ Apply(s))
      <4>1. cmd[s].pc \in Loaded /\ cmd[s].on \in Request /\ UNCHANGED request
        BY <2>1, <3>3 DEF Check, Apply, Loaded
      <4>2. cmd'[s].op = cmd[s].op /\ cmd'[s].on = cmd[s].on /\ cmd'[s].ar = cmd[s].ar
        BY <3>3, CommandMoves
      <4> QED BY <3>3, <4>1, <4>2 DEF DInv
    <3> QED BY <2>3, <3>1, <3>2, <3>3, CommandMoves DEF CommandOf, Loaded
  <2>4. ASSUME NEW t \in Session, cmd'[t].pc = "insert"
        PROVE  /\ request'[cmd'[t].on].status = "none"
               /\ \A u \in Session \ {t} : cmd'[u].pc = "insert" => cmd'[u].on # cmd'[t].on
    <3>1. CASE t # s
      <4>1. cmd'[t] = cmd[t] /\ cmd[t].on \in Request /\ request[cmd[t].on].status = "none"
            /\ \A u \in Session \ {t} : cmd[u].pc = "insert" => cmd[u].on # cmd[t].on
        BY <2>0, <2>1, <2>4, <3>1 DEF DInv
      <4>2. Commit(s) \/ Insert(s) => cmd[t].on # cmd[s].on
        <5>1. CASE Commit(s)
          BY <4>1, <5>1 DEF DInv, Loaded, Commit
        <5>2. CASE Insert(s)
          BY <3>1, <4>1, <5>2 DEF Insert
        <5> QED BY <5>1, <5>2
      <4>3. request'[cmd[t].on] = request[cmd[t].on]
        BY <4>1, <4>2, RequestMoves
      <4>4. cmd'[s].pc = "insert" => cmd'[s].on # cmd[t].on
        <5>1. ASSUME NEW r \in Request, Create(s, r) PROVE cmd'[s].on # cmd[t].on
          <6>1. cmd'[s].on = r
            BY <5>1, CommandMoves
          <6>2. cmd[t].pc = "insert"
            BY <2>4, <4>1
          <6> QED BY <5>1, <6>1, <6>2 DEF Create
        <5>2. Insert(s) \/ Handle(s) \/ Check(s) \/ Apply(s) \/ Commit(s) \/ Abandon(s)
              \/ (\E op \in Op, r \in Request : Admit(s, op, r)) => cmd'[s].pc # "insert"
          BY CommandMoves
        <5> QED BY <5>1, <5>2 DEF CommandOf
      <4> QED BY <2>0, <4>1, <4>3, <4>4
    <3>2. CASE t = s
      <4>1. PICK r \in Request : Create(s, r)
        BY <2>4, <3>2, CommandMoves DEF CommandOf
      <4>2. request[r].status = "none" /\ UNCHANGED request /\ cmd'[s].on = r
            /\ \A u \in Session : cmd[u].pc = "insert" => cmd[u].on # r
        BY <4>1, CommandMoves DEF Create
      <4> QED BY <2>0, <3>2, <4>2
    <3> QED BY <3>1, <3>2
  <2> QED BY <2>3, <2>4 DEF DInv
<1> QED BY <1>1, <1>2, StepCases

(* A command that replaces a decision read the request before the decision  *)
(* and saved it after.                                                      *)
THEOREM DecisionsHold == Spec => DecisionHolds
<1> DEFINE Holds ==
      \A r \in Request :
        request[r].status \in Decided /\ "decision" \notin stale' => request'[r] = request[r]
<1>1. ASSUME Typed, DInv, [Next]_vars PROVE Holds
  <2> SUFFICES ASSUME NEW r \in Request, request[r].status \in Decided, "decision" \notin stale'
               PROVE  request'[r] = request[r]
    OBVIOUS
  <2>1. CASE UNCHANGED vars \/ JobStep \/ WriteBalance
    BY <2>1, JobFrame DEF vars, leave
  <2>2. ASSUME NEW s \in Session, CommandOf(s), r = cmd[s].on, Commit(s) PROVE FALSE
    <3>1. request[r] = cmd[s].ar
      BY <2>2 DEF Commit
    <3>2. cmd[s].op \in Op /\ cmd[s].ar.status \in Status /\ CanLeave(cmd[s].op, cmd[s].ar.status)
      BY <1>1, <2>2, CommitWrites DEF DInv, Loaded, Row
    <3> QED BY <3>1, <3>2, TransitionFacts DEF Decided
  <2>3. ASSUME NEW s \in Session, CommandOf(s), r = cmd[s].on, Insert(s) PROVE FALSE
    BY <1>1, <2>3 DEF DInv, Insert, Decided
  <2> QED BY <1>1, <2>1, <2>2, <2>3, StepCases, RequestMoves
<1>2. Typed /\ DInv /\ [Next]_vars => [Holds]_vars
  BY <1>1
<1>3. Spec => [][Holds]_vars
  BY <1>2, TypedInit, TypedNext, DInit, DNext, PTL DEF Spec
<1> QED BY <1>3 DEF DecisionHolds

-----------------------------------------------------------------------------
(* Two live requests of the same date are a pair that did not see each      *)
(* other: the later of them was created while the other was a draft.        *)
Alive(r) ==
    \/ request[r].status \in {"DRAFT", "PENDING_APPROVAL", "APPROVED"}
    \/ \E s \in Session : cmd[s].pc = "insert" /\ cmd[s].on = r

UInv ==
    "decision" \notin stale =>
        \A r, q \in Request : Alive(r) /\ Alive(q) /\ r # q /\ Date[r] = Date[q] => {r, q} \in unseen

LEMMA UInit == Init => UInv
BY DEF Init, UInv, Alive, NoRow, Idle

LEMMA UNext == Typed /\ DInv /\ UInv /\ [Next]_vars => UInv'
<1> SUFFICES ASSUME Typed, DInv, UInv, [Next]_vars, "decision" \notin stale'
             PROVE  \A r, q \in Request :
                      Alive(r)' /\ Alive(q)' /\ r # q /\ Date[r] = Date[q] => {r, q} \in unseen'
  BY DEF UInv
<1>1. CASE UNCHANGED vars \/ JobStep \/ WriteBalance
  <2>1. UNCHANGED <<request, cmd, unseen>> /\ "decision" \notin stale
    BY <1>1, JobFrame DEF vars, leave, WriteBalance
  <2> QED BY <2>1 DEF UInv, Alive
<1>2. CASE \E s \in Session : CommandOf(s)
  <2> PICK s \in Session : CommandOf(s)
    BY <1>2
  <2>0. /\ \A t \in Session \ {s} : cmd'[t] = cmd[t]
        /\ "decision" \notin stale
    BY CommandFrame, CommitWrites
  <2>1. ASSUME NEW q \in Request, Alive(q)', ~Create(s, q) PROVE Alive(q)
    <3>1. CASE request'[q].status \in {"DRAFT", "PENDING_APPROVAL", "APPROVED"}
      <4>1. CASE Commit(s) /\ q = cmd[s].on
        <5>1. request[q] = cmd[s].ar
          BY <4>1 DEF Commit
        <5>2. cmd[s].op \in Op /\ cmd[s].ar.status \in Status /\ CanLeave(cmd[s].op, cmd[s].ar.status)
          BY <4>1, CommitWrites DEF DInv, Loaded, Row
        <5> QED BY <5>1, <5>2, TransitionFacts DEF Alive
      <4>2. CASE Insert(s) /\ q = cmd[s].on
        BY <4>2 DEF Insert, Alive
      <4> QED BY <3>1, <4>1, <4>2, RequestMoves DEF Alive
    <3>2. ASSUME NEW t \in Session, cmd'[t].pc = "insert", cmd'[t].on = q PROVE Alive(q)
      <4>1. t # s
        BY <2>1, <3>2, CommandMoves DEF CommandOf
      <4> QED BY <2>0, <3>2, <4>1 DEF Alive
    <3> QED BY <2>1, <3>1, <3>2 DEF Alive
  <2>2. CASE \A r \in Request : ~Create(s, r)
    BY <2>0, <2>1, <2>2, CommandFrame DEF UInv
  <2>3. ASSUME NEW r \in Request, Create(s, r)
        PROVE  \A p, q \in Request :
                 Alive(p)' /\ Alive(q)' /\ p # q /\ Date[p] = Date[q] => {p, q} \in unseen'
    <3>1. \A p \in Request : p # r => ~Create(s, p)
      BY <2>3, CommandMoves
    <3>2. unseen' = unseen \union {{q, r} : q \in {p \in Overlapping(r) : InDraft(p)}}
      BY <2>3 DEF Create
    <3>3. ASSUME NEW q \in Request, q # r, Date[q] = Date[r], Alive(q) PROVE {q, r} \in unseen'
      <4>1. q \in Overlapping(r) /\ request[q].status \notin Blocking
        BY <2>3, <3>3 DEF Create, Overlapping
      <4>2. InDraft(q)
        BY <3>3, <4>1 DEF Alive, InDraft, Blocking
      <4> QED BY <3>2, <4>1, <4>2
    <3> SUFFICES ASSUME NEW p \in Request, NEW q \in Request, Alive(p)', Alive(q)', p # q, Date[p] = Date[q]
                 PROVE  {p, q} \in unseen'
      OBVIOUS
    <3>4. CASE p = r
      <4>1. Alive(q) /\ {q, r} \in unseen'
        BY <2>1, <3>1, <3>3, <3>4
      <4> QED BY <3>4, <4>1
    <3>5. CASE q = r
      BY <2>1, <3>1, <3>3, <3>5
    <3>6. CASE p # r /\ q # r
      BY <2>0, <2>1, <3>1, <3>2, <3>6 DEF UInv
    <3> QED BY <3>4, <3>5, <3>6
  <2> QED BY <2>2, <2>3
<1> QED BY <1>1, <1>2, StepCases

(* Overlapping requests are approved only if each was created while the     *)
(* other was no more than a draft, or a decision overwrote another.         *)
THEOREM NobodyIsDoubleBooked == Spec => []NoDoubleBooking
<1>1. UInv => NoDoubleBooking
  BY DEF UInv, Alive, NoDoubleBooking, Approved
<1> QED BY <1>1, TypedInit, TypedNext, DInit, DNext, UInit, UNext, PTL DEF Spec
-----------------------------------------------------------------------------
(* What some requests cost together, and what the sum gains with one more.  *)
Total(R) == MapThenSumSet(LAMBDA r : Hours[r], R)

(* The recursive function a sum unfolds to, on the sets D. *)
One(t) == CHOOSE x \in t : TRUE
FoldStep(f, t) == IF t = {} THEN 0 ELSE Hours[One(t)] + f[t \ {One(t)}]
Unfolds(f, D) == f = [t \in D |-> FoldStep(f, t)]

LEMMA OneIn == \A t : t # {} => One(t) \in t
BY DEF One

(* Of a set of requests with some property there is a least. *)
LEMMA Minimal ==
  ASSUME NEW S, IsFiniteSet(S), NEW T \in SUBSET SUBSET S, T # {}
  PROVE  \E t \in T : \A u \in T : u \subseteq t => u = t
<1>1. T \subseteq FiniteSubsetsOf(S)
  BY FS_Subset DEF FiniteSubsetsOf
<1>2. PICK t \in T : \A u \in T : <<u, t>> \notin StrictSubsetOrdering(S)
  BY <1>1, FS_StrictSubsetOrderingWellFounded, WFMin
<1>3. ASSUME NEW u \in T, u \subseteq t, u # t PROVE FALSE
  BY <1>2, <1>3 DEF StrictSubsetOrdering
<1> QED BY <1>3

(* Requests are finitely many, so the recursion ends. *)
LEMMA FoldExists ==
  ASSUME NEW S \in SUBSET Request
  PROVE  \E f : Unfolds(f, SUBSET S)
<1> DEFINE Level(n) == {t \in SUBSET S : Cardinality(t) <= n}
           Bad == {n \in Nat : ~ \E f : Unfolds(f, Level(n))}
<1>0. /\ IsFiniteSet(S)
      /\ \A t \in SUBSET S : IsFiniteSet(t) /\ Cardinality(t) \in Nat /\ Cardinality(t) <= Cardinality(S)
  BY RequestAssumption, FS_Subset, FS_CardinalityType
<1>1. Bad = {}
  <2> SUFFICES ASSUME Bad # {} PROVE FALSE
    OBVIOUS
  <2>1. PICK n \in Bad : \A m \in Bad : <<m, n>> \notin OpToRel(<, Nat)
    <3>1. Bad \subseteq Nat
      OBVIOUS
    <3> HIDE DEF Bad
    <3> QED BY <3>1, NatLessThanWellFounded, WFMin
  <2>2. n # 0
    <3> SUFFICES ASSUME n = 0 PROVE FALSE
      OBVIOUS
    <3>1. \A t \in Level(0) : t = {}
      BY <1>0, FS_EmptySet
    <3>2. Unfolds([t \in Level(0) |-> 0], Level(0))
      BY <3>1 DEF Unfolds, FoldStep
    <3> QED BY <3>2
  <2>3. n - 1 \in Nat /\ <<n - 1, n>> \in OpToRel(<, Nat)
    BY <2>2 DEF OpToRel
  <2>4. PICK f : Unfolds(f, Level(n - 1))
    BY <2>1, <2>3
  <2> DEFINE g == [t \in Level(n) |-> FoldStep(f, t)]
  <2>5. \A t \in Level(n - 1) : g[t] = f[t]
    <3>1. ASSUME NEW t \in Level(n - 1) PROVE t \in Level(n)
      <4>1. t \in SUBSET S /\ Cardinality(t) \in Nat /\ Cardinality(t) <= n - 1 /\ n \in Nat
        BY <1>0
      <4>2. Cardinality(t) <= n
        BY <4>1
      <4> QED BY <4>1, <4>2
    <3>2. \A t \in Level(n - 1) : f[t] = FoldStep(f, t)
      BY <2>4 DEF Unfolds
    <3>3. \A t \in Level(n) : g[t] = FoldStep(f, t)
      OBVIOUS
    <3> QED BY <3>1, <3>2, <3>3
  <2>6. \A t \in Level(n) : t # {} => t \ {One(t)} \in Level(n - 1)
    <3> SUFFICES ASSUME NEW t \in Level(n), t # {} PROVE t \ {One(t)} \in Level(n - 1)
      OBVIOUS
    <3>1. One(t) \in t
      BY OneIn
    <3>2. Cardinality(t \ {One(t)}) = Cardinality(t) - 1
      BY <1>0, <3>1, FS_RemoveElement
    <3> QED BY <1>0, <3>2
  <2>7. \A t \in Level(n) : FoldStep(f, t) = FoldStep(g, t)
    BY <2>5, <2>6 DEF FoldStep
  <2>8. Unfolds(g, Level(n))
    BY <2>7 DEF Unfolds
  <2> QED BY <2>8
<1>2. Level(Cardinality(S)) = SUBSET S /\ Cardinality(S) \in Nat
  BY <1>0
<1>3. Cardinality(S) \notin Bad
  BY <1>1
<1> QED BY <1>2, <1>3

LEMMA TotalUnfolding ==
  ASSUME NEW S \in SUBSET Request
  PROVE  \E f : Unfolds(f, SUBSET S) /\ Total(S) = f[S]
<1> DEFINE f == CHOOSE f : Unfolds(f, SUBSET S)
<1>1. Unfolds(f, SUBSET S)
  BY FoldExists
<1>2. Total(S) = f[S]
  BY DEF Total, MapThenSumSet, MapThenFoldSet, Unfolds, FoldStep, One
<1> QED BY <1>1, <1>2

(* ... and whichever set it starts from, it finds the same sums. *)
LEMMA FoldUnique ==
  ASSUME NEW S \in SUBSET Request, NEW T \in SUBSET S, NEW f, NEW g,
         Unfolds(f, SUBSET S), Unfolds(g, SUBSET T)
  PROVE  f[T] = g[T]
<1> DEFINE Bad == {t \in SUBSET T : f[t] # g[t]}
<1>1. Bad = {}
  <2> SUFFICES ASSUME Bad # {} PROVE FALSE
    OBVIOUS
  <2>1. PICK t \in Bad : \A u \in Bad : u \subseteq t => u = t
    <3>1. Bad \in SUBSET SUBSET T /\ IsFiniteSet(T)
      BY RequestAssumption, FS_Subset
    <3> HIDE DEF Bad
    <3> QED BY <3>1, Minimal
  <2>2. f[t] = FoldStep(f, t) /\ g[t] = FoldStep(g, t)
    BY DEF Unfolds
  <2>3. CASE t = {}
    BY <2>2, <2>3 DEF FoldStep
  <2>4. CASE t # {}
    <3>1. One(t) \in t
      BY <2>4, OneIn
    <3>2. t \ {One(t)} \notin Bad
      BY <2>1, <3>1
    <3>3. f[t \ {One(t)}] = g[t \ {One(t)}]
      BY <3>2
    <3> QED BY <2>2, <2>4, <3>3 DEF FoldStep
  <2> QED BY <2>3, <2>4
<1> QED BY <1>1

LEMMA TotalUnfolds ==
  /\ Total({}) = 0
  /\ \A S \in SUBSET Request : S # {} => Total(S) = Hours[One(S)] + Total(S \ {One(S)})
<1>1. ASSUME NEW S \in SUBSET Request
      PROVE  Total(S) = IF S = {} THEN 0 ELSE Hours[One(S)] + Total(S \ {One(S)})
  <2>1. PICK f : Unfolds(f, SUBSET S) /\ Total(S) = f[S]
    BY TotalUnfolding
  <2>2. Total(S) = FoldStep(f, S)
    BY <2>1 DEF Unfolds
  <2> DEFINE T == S \ {One(S)}
  <2>3. T \in SUBSET S /\ T \in SUBSET Request
    OBVIOUS
  <2> HIDE DEF T
  <2>4. f[T] = Total(T)
    <3>1. PICK g : Unfolds(g, SUBSET T) /\ Total(T) = g[T]
      BY <2>3, TotalUnfolding
    <3> QED BY <2>1, <2>3, <3>1, FoldUnique
  <2> QED BY <2>2, <2>4 DEF FoldStep, T
<1> QED BY <1>1

(* Whichever request is taken out of a sum, its hours are what is missing.  *)
LEMMA TotalOfMore ==
  ASSUME NEW S \in SUBSET Request
  PROVE  /\ Total(S) \in Nat
         /\ \A r \in S : Total(S) = Total(S \ {r}) + Hours[r]
<1> DEFINE Good(t) == Total(t) \in Nat /\ \A r \in t : Total(t) = Total(t \ {r}) + Hours[r]
           Bad == {t \in SUBSET S : ~Good(t)}
<1>1. Bad = {}
  <2> SUFFICES ASSUME Bad # {} PROVE FALSE
    OBVIOUS
  <2>1. PICK t \in Bad : \A u \in Bad : u \subseteq t => u = t
    <3>1. Bad \in SUBSET SUBSET S /\ IsFiniteSet(S)
      BY RequestAssumption, FS_Subset
    <3> HIDE DEF Bad
    <3> QED BY <3>1, Minimal
  <2>2. t # {}
    BY TotalUnfolds
  <2> DEFINE x == One(t)
             u == t \ {x}
  <2>3. x \in t /\ Total(t) = Hours[x] + Total(u)
    BY <2>2, OneIn, TotalUnfolds
  <2>4. \A v \in SUBSET t : v # t => Good(v)
    BY <2>1
  <2>5. Total(u) \in Nat /\ Hours[x] \in Nat
    BY <2>3, <2>4, RequestAssumption
  <2>6. ASSUME NEW r \in t PROVE Total(t) = Total(t \ {r}) + Hours[r]
    <3>1. CASE r = x
      BY <2>3, <2>5, <3>1
    <3>2. CASE r # x
      <4>1. Total(u) = Total(u \ {r}) + Hours[r]
        BY <2>3, <2>4, <3>2
      <4>2. Total(t \ {r}) = Total((t \ {r}) \ {x}) + Hours[x]
        <5>1. x \in t \ {r} /\ t \ {r} # t /\ t \ {r} \in SUBSET t
          BY <2>3, <3>2
        <5> QED BY <2>4, <5>1
      <4>3. u \ {r} = (t \ {r}) \ {x}
        OBVIOUS
      <4>4. Total(u \ {r}) \in Nat /\ Hours[r] \in Nat
        BY <2>3, <2>4, RequestAssumption
      <4> HIDE DEF x, u
      <4>5. Total(t) = Hours[x] + (Total(u \ {r}) + Hours[r])
        BY <2>3, <4>1
      <4>6. Total(t \ {r}) = Total(u \ {r}) + Hours[x]
        BY <4>2, <4>3
      <4> QED BY <2>5, <4>4, <4>5, <4>6
    <3> QED BY <3>1, <3>2
  <2>7. Good(t)
    BY <2>3, <2>5, <2>6
  <2> QED BY <2>7
<1> QED BY <1>1

-----------------------------------------------------------------------------
(* Nothing is charged that is not granted, in the row or in any copy of it  *)
(* that an approval or the job is about to save.                            *)
GInv ==
    "decision" \notin stale =>
        /\ balance.used <= Granted
        /\ \A s \in Session : cmd[s].pc = "commit" /\ cmd[s].op = "approve" => cmd[s].bal.used <= Granted
        /\ job.pc = "write" => job.loaded.used <= Granted
        /\ stale \intersect {"charge", "accrual"} = {} => balance.used = Granted

LEMMA GrantedType ==
  /\ Granted = Total(Approved) /\ Approved \in SUBSET Request /\ Granted \in Nat
  /\ Granted' = Total(Approved') /\ Approved' \in SUBSET Request
<1>0. Granted = Total(Approved)
  BY DEF Granted, Total
<1>1. (Granted = Total(Approved))'
  BY <1>0, PTL
<1>2. Approved \in SUBSET Request /\ Approved' \in SUBSET Request
  BY DEF Approved
<1> QED BY <1>0, <1>1, <1>2, TotalOfMore

LEMMA GInit == Init => GInv
<1> SUFFICES ASSUME Init PROVE GInv
  OBVIOUS
<1>1. Approved = {}
  BY DEF Init, Approved, NoRow
<1>2. Granted = 0
  BY <1>1, GrantedType, TotalUnfolds
<1> QED BY <1>2 DEF Init, GInv, Idle, NoJob

(* The hours granted change only when an approval is committed.             *)
LEMMA GrantedMoves ==
  ASSUME Typed, DInv, NEW s \in Session, CommandOf(s), "decision" \notin stale'
  PROVE  /\ ~(Commit(s) /\ cmd[s].op = "approve") => UNCHANGED Granted
         /\ Commit(s) /\ cmd[s].op = "approve" => Granted' = Granted + Hours[cmd[s].on]
<1>1. /\ Granted = Total(Approved) /\ Granted' = Total(Approved') /\ Granted \in Nat
      /\ Approved \in SUBSET Request /\ Approved' \in SUBSET Request
  BY GrantedType
<1>2. ASSUME Commit(s)
      PROVE  /\ cmd[s].on \in Request \ Approved
             /\ \A q \in Request : request'[q].status = IF q = cmd[s].on THEN Target(cmd[s].op)
                                                       ELSE request[q].status
  <2>1. request[cmd[s].on] = cmd[s].ar /\ cmd[s].on \in Request
    BY <1>2, CommitWrites DEF Commit
  <2>2. cmd[s].op \in Op /\ cmd[s].ar.status \in Status /\ CanLeave(cmd[s].op, cmd[s].ar.status)
    BY <1>2, CommitWrites DEF DInv, Loaded, Row
  <2>3. cmd[s].on \notin Approved
    BY <2>1, <2>2, TransitionFacts DEF Approved
  <2> QED BY <1>2, <2>1, <2>3, RequestMoves
<1>3. CASE Commit(s) /\ cmd[s].op = "approve"
  <2>1. Approved' = Approved \union {cmd[s].on}
    BY <1>2, <1>3 DEF Approved, Target
  <2>2. Approved' \ {cmd[s].on} = Approved /\ cmd[s].on \in Approved'
    BY <1>2, <1>3, <2>1
  <2> QED BY <1>1, <1>3, <2>2, TotalOfMore
<1>4. CASE Commit(s) /\ cmd[s].op # "approve"
  <2>1. cmd[s].op \in Op \ {"approve"}
    BY <1>4, CommitWrites
  <2>2. Target(cmd[s].op) # "APPROVED"
    <3>1. cmd[s].op # "create"
      BY <1>4, CommitWrites, TransitionFacts DEF DInv, Loaded, Row
    <3> QED BY <2>1, <3>1 DEF Op, Target
  <2>3. Approved' = Approved
    BY <1>2, <1>4, <2>2 DEF Approved
  <2> QED BY <1>1, <1>4, <2>3
<1>5. CASE ~Commit(s)
  <2>1. ASSUME NEW q \in Request PROVE (request'[q].status = "APPROVED") <=> (request[q].status = "APPROVED")
    <3>1. CASE Insert(s) /\ q = cmd[s].on
      BY <3>1, RequestMoves DEF DInv, Insert
    <3> QED BY <1>5, <3>1, RequestMoves
  <2>2. Approved' = Approved
    BY <2>1 DEF Approved
  <2> QED BY <1>1, <1>5, <2>2
<1> QED BY <1>3, <1>4, <1>5

LEMMA GNext == Typed /\ DInv /\ GInv /\ [Next]_vars => GInv'
<1> SUFFICES ASSUME Typed, DInv, GInv, [Next]_vars, "decision" \notin stale'
             PROVE  /\ balance'.used <= Granted'
                    /\ \A t \in Session : cmd'[t].pc = "commit" /\ cmd'[t].op = "approve" => cmd'[t].bal.used <= Granted'
                    /\ job'.pc = "write" => job'.loaded.used <= Granted'
                    /\ stale' \intersect {"charge", "accrual"} = {} => balance'.used = Granted'
  BY DEF GInv
<1>0. Granted \in Nat /\ balance.used \in Int
  BY GrantedType DEF Typed, TypeOK, Balance
<1>1. UNCHANGED request => UNCHANGED Granted
  <2>1. UNCHANGED request => UNCHANGED Approved
    BY DEF Approved
  <2> QED BY <2>1, GrantedType
<1>2. CASE UNCHANGED vars
  BY <1>1, <1>2 DEF vars, leave, accruals, GInv
<1>3. CASE JobStep
  <2>1. UNCHANGED Granted /\ UNCHANGED <<cmd, balance, stale>>
    BY <1>1, <1>3, JobFrame DEF leave
  <2>2. ASSUME job'.pc = "write" PROVE job'.loaded.used <= Granted
    <3>1. CASE LoadBalance
      <4>1. job'.loaded = balance
        BY <2>2, <3>1 DEF LoadBalance, Typed, TypeOK, Job
      <4> QED BY <2>1, <4>1 DEF GInv
    <3>2. CASE Evict \/ NewDay
      BY <2>1, <2>2, <3>2 DEF Evict, NewDay, GInv
    <3>3. CASE Tick \/ RunByHand
      BY <2>2, <3>3, RunsStart DEF Started, NoJob
    <3>4. CASE ReadBalance \/ CommandFails
      BY <2>2, <3>4 DEF ReadBalance, CommandFails, Typed, TypeOK, Job
    <3>5. CASE FinishRun \/ RunFails
      BY <2>2, <3>5 DEF FinishRun, RunFails, NoJob
    <3> QED BY <1>3, <3>1, <3>2, <3>3, <3>4, <3>5 DEF JobStep
  <2> QED BY <2>1, <2>2 DEF GInv
<1>4. CASE WriteBalance
  <2>1. UNCHANGED Granted /\ UNCHANGED cmd /\ "decision" \notin stale
    BY <1>1, <1>4, JobFrame DEF leave, WriteBalance
  <2>2. job.pc = "write" /\ job'.pc = "finish" /\ balance'.used = job.loaded.used
    BY <1>4 DEF WriteBalance, Typed, TypeOK, Job
  <2>3. ASSUME stale' \intersect {"charge", "accrual"} = {} PROVE balance'.used = Granted
    <3>1. stale \intersect {"charge", "accrual"} = {} /\ balance = job.loaded
      BY <1>4, <2>3 DEF WriteBalance
    <3> QED BY <2>1, <2>2, <3>1 DEF GInv
  <2> QED BY <2>1, <2>2, <2>3 DEF GInv
<1>5. CASE \E s \in Session : CommandOf(s)
  <2> PICK s \in Session : CommandOf(s)
    BY <1>5
  <2>1. UNCHANGED job /\ "decision" \notin stale /\ \A t \in Session \ {s} : cmd'[t] = cmd[t]
    BY CommandFrame, CommitWrites DEF accruals
  <2>2. CASE Commit(s) /\ cmd[s].op = "approve"
    <3>1. /\ Granted' = Granted + Hours[cmd[s].on] /\ Hours[cmd[s].on] \in Nat
          /\ balance'.used = cmd[s].bal.used + Hours[cmd[s].on]
          /\ cmd[s].bal.used \in Int /\ cmd[s].bal.used <= Granted
      BY <2>1, <2>2, GrantedMoves, CommitWrites, RequestAssumption DEF GInv, Balance
    <3>2. cmd'[s].pc = "idle"
      BY <2>2, CommandMoves
    <3>3. ASSUME stale' \intersect {"charge", "accrual"} = {} PROVE balance'.used = Granted'
      <4>1. stale \intersect {"charge", "accrual"} = {} /\ balance = cmd[s].bal
        BY <2>2, <3>3 DEF Commit
      <4> QED BY <1>0, <2>1, <3>1, <4>1 DEF GInv
    <3>4. ASSUME NEW t \in Session, cmd'[t].pc = "commit", cmd'[t].op = "approve"
          PROVE  cmd'[t].bal.used <= Granted'
      <4>1. cmd'[t] = cmd[t] /\ cmd[t].bal.used <= Granted /\ cmd[t].bal.used \in Int
        BY <2>1, <3>2, <3>4 DEF GInv, Typed, TypeOK, Cmd, Balance
      <4> QED BY <1>0, <3>1, <4>1
    <3>5. ASSUME job'.pc = "write" PROVE job'.loaded.used <= Granted'
      <4>1. job.loaded.used <= Granted /\ job.loaded.used \in Int
        BY <2>1, <3>5 DEF GInv, Typed, TypeOK, Job, Balance
      <4> QED BY <1>0, <2>1, <3>1, <4>1
    <3>6. balance'.used <= Granted'
      BY <1>0, <3>1
    <3> QED BY <3>3, <3>4, <3>5, <3>6
  <2>3. CASE ~(Commit(s) /\ cmd[s].op = "approve")
    <3>1. UNCHANGED <<Granted, balance>> /\ (stale' \intersect {"charge", "accrual"} = {} => stale \intersect {"charge", "accrual"} = {})
      BY <2>3, GrantedMoves, CommandFrame, CommitWrites
    <3>2. ASSUME cmd'[s].pc = "commit", cmd'[s].op = "approve" PROVE cmd'[s].bal = balance
      BY <3>2, CommandMoves DEF CommandOf
    <3> QED BY <2>1, <3>1, <3>2 DEF GInv
  <2> QED BY <2>2, <2>3
<1> QED BY <1>2, <1>3, <1>4, <1>5, StepCases

(* What is charged is granted, unless a decision overwrote another one; and *)
(* all that is granted is charged, unless besides an approval or the job    *)
(* overwrote a balance that had changed.                                    *)
THEOREM ChargesAreGrants == Spec => []ChargesMatchGrants
<1>1. GInv => ChargesMatchGrants
  BY DEF GInv, ChargesMatchGrants
<1> QED BY <1>1, TypedInit, TypedNext, DInit, DNext, GInit, GNext, PTL DEF Spec
=============================================================================
