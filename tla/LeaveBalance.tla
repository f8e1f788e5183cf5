----------------------------- MODULE LeaveBalance -----------------------------
(***************************************************************************)
(* One worker's leave: the absence requests of one leave type, the balance *)
(* row they are charged to, the commands that people send for them, and    *)
(* the monthly accrual job. Every command is one read-committed            *)
(* transaction of the command bus, whose repositories read without a lock  *)
(* and save the whole row by id. A command's writes take effect together   *)
(* when it commits: they were computed from its earlier reads, rows it has *)
(* written are locked until then, and only approvals write two rows.       *)
(***************************************************************************)
EXTENDS Integers, FiniteSets, FiniteSetsExt

CONSTANTS
    Request,      \* absence requests that deduct from the balance
    Session,      \* concurrent callers of the command bus
    Hours,        \* Hours[r]: what r costs
    Date,         \* Date[r]: requests with the same date overlap
    Opening,      \* the balance at the start
    Accrual,      \* monthlyAccrualHours of the policy
    Zones,        \* the tenant's time zone: on, east or west of UTC
    AccrualDays,  \* values of the setting leaveAccrualDay
    MonthLength,  \* days in a month
    NoRequest,    \* what an idle session works on
    ByHand,       \* bound: whether an administrator starts runs too
    MaxDay        \* bound: days

ASSUME RequestAssumption ==
    /\ IsFiniteSet(Request) /\ Hours \in [Request -> Nat]
    /\ NoRequest \notin Request
ASSUME BalanceAssumption == Opening \in Nat /\ Accrual \in Nat \ {0}
ASSUME CalendarAssumption ==
    /\ MonthLength \in Nat \ {0} /\ MaxDay \in Nat /\ ByHand \in BOOLEAN
    /\ Zones \subseteq {"utc", "east", "west"} /\ AccrualDays \subseteq 1 .. MonthLength

VARIABLES
    request,     \* request[r]: status and aggregate_version of its row
    balance,     \* the row's hours, used and accrued
    cmd,         \* cmd[s]: the command s is executing, and what it has read
    today,       \* the UTC date at the tenant's 02:00, counted from 0
    zone, accrualDay,  \* the tenant's zone and setting
    run,         \* run[m]: the accrual job's row for period key m
    key,         \* key[m]: the payload on m's idempotency row, if there is one
    cached,      \* period keys whose accrual command has a cached answer
    posted,      \* posted[m]: accruals committed under key m
    job,         \* the accrual run in progress
    stale,       \* rows overwritten, or checks relied on, that had changed since
    unseen,      \* pairs of requests of which neither saw the other pending
    troubled     \* period keys with a missed tick, a failure or a crash

leave == <<request, cmd, unseen>>
accruals == <<today, zone, accrualDay, run, key, cached, posted, job, troubled>>
vars == <<leave, balance, stale, accruals>>

Status == {"none", "DRAFT", "PENDING_APPROVAL", "APPROVED", "REJECTED", "CANCELLED"}
Decided == {"APPROVED", "REJECTED", "CANCELLED"}
Op == {"create", "submit", "approve", "reject", "cancel"}

Balance == [hours : Int, used : Int, accrued : Int]
Row     == [status : Status, version : Nat]
Cmd == [pc : {"idle", "insert", "handle", "check", "apply", "commit"}, op : Op, on : Request \union {NoRequest},
        ar : Row, checked : Int, bal : Balance]
Payload == [hours : Int, accrued : Int]

Month == 0 .. MaxDay      \* period keys
Job == [pc : {"idle", "read", "load", "write", "finish"}, key : Month,
        seen : Balance, loaded : Balance]

Empty == [hours |-> 0, used |-> 0, accrued |-> 0]
NoRow == [status |-> "none", version |-> 0]

Idle == [pc |-> "idle", op |-> "create", on |-> NoRequest,
         ar |-> NoRow, checked |-> 0, bal |-> Empty]
NoJob == [pc |-> "idle", key |-> 0, seen |-> Empty, loaded |-> Empty]

TypeOK ==
    /\ request \in [Request -> Row]
    /\ balance \in Balance
    /\ cmd \in [Session -> Cmd]
    /\ today \in 0 .. MaxDay /\ zone \in Zones /\ accrualDay \in AccrualDays
    /\ run \in [Month -> {"none", "RUNNING", "SUCCEEDED", "FAILED"}]
    /\ key \in [Month -> SUBSET Payload] /\ cached \in SUBSET Month /\ posted \in [Month -> Nat]
    /\ job \in Job
    /\ stale \in SUBSET {"check", "charge", "accrual", "decision"}
    /\ unseen \in SUBSET SUBSET Request
    /\ troubled \in SUBSET Month

Init ==
    /\ request = [r \in Request |-> NoRow]
    /\ balance = [hours |-> Opening, used |-> 0, accrued |-> 0]
    /\ cmd = [s \in Session |-> Idle]
    /\ today = 0 /\ zone \in Zones /\ accrualDay \in AccrualDays
    /\ run = [m \in Month |-> "none"]
    /\ key = [m \in Month |-> {}] /\ cached = {} /\ posted = [m \in Month |-> 0]
    /\ job = NoJob
    /\ stale = {} /\ unseen = {} /\ troubled = {}

-----------------------------------------------------------------------------
(* CreateAbsenceRequest *)

(* Mutant: the balance is not checked. *)
MutCovers(b, r) == TRUE

(* assertBalanceAvailable *)
Covers(b, r) == Hours[r] <= b.hours

(* Mutant: only approved requests stand in the way. *)
MutBlocking == {"APPROVED"}

Blocking == {"PENDING_APPROVAL", "APPROVED"}

Overlapping(r) == {q \in Request \ {r} : Date[q] = Date[r]}

(* A request in preparation: its row is a draft, or about to be inserted. *)
InDraft(q) ==
    request[q].status = "DRAFT" \/ \E s \in Session : cmd[s].pc = "insert" /\ cmd[s].on = q

(* The balance must cover the request, and no overlapping request may be    *)
(* pending or approved; drafts are not looked at.                           *)
Create(s, r) ==
    /\ cmd[s].pc = "idle"
    /\ request[r].status = "none"
    /\ \A t \in Session : cmd[t].pc = "insert" => cmd[t].on # r
    /\ Covers(balance, r)
    /\ \A q \in Overlapping(r) : request[q].status \notin Blocking
    /\ cmd' = [cmd EXCEPT ![s].pc = "insert", ![s].op = "create", ![s].on = r]
    /\ unseen' = unseen \union {{q, r} : q \in {p \in Overlapping(r) : InDraft(p)}}
    /\ UNCHANGED <<request, balance, stale, accruals>>

Insert(s) ==
    /\ cmd[s].pc = "insert"
    /\ request' = [request EXCEPT ![cmd[s].on].status = "DRAFT"]
    /\ cmd' = [cmd EXCEPT ![s] = Idle]
    /\ UNCHANGED <<balance, unseen, stale, accruals>>

-----------------------------------------------------------------------------
(* The commands on an existing request *)

(* Mutant: an approved request can be cancelled. *)
MutCanLeave(op, status) ==
    \/ op = "submit" /\ status = "DRAFT"
    \/ op \in {"approve", "reject"} /\ status = "PENDING_APPROVAL"
    \/ op = "cancel" /\ status \in {"DRAFT", "PENDING_APPROVAL", "APPROVED"}

(* The transitions, in the FSM definition and again in the aggregate. *)
CanLeave(op, status) ==
    \/ op = "submit" /\ status = "DRAFT"
    \/ op \in {"approve", "reject"} /\ status = "PENDING_APPROVAL"
    \/ op = "cancel" /\ status \in {"DRAFT", "PENDING_APPROVAL"}

Target(op) ==
    CASE op = "submit" -> "PENDING_APPROVAL" [] op = "approve" -> "APPROVED"
      [] op = "reject" -> "REJECTED"         [] op = "cancel"  -> "CANCELLED"

(* The controller reads the row and sends its state and version along; the  *)
(* bus compares them with an unlocked read and asks the FSM. A command that *)
(* does not get past this changes nothing, so only those that do are steps. *)
Admit(s, op, r) ==
    /\ cmd[s].pc = "idle"
    /\ op # "create" /\ CanLeave(op, request[r].status)
    /\ cmd' = [cmd EXCEPT ![s].pc = "handle", ![s].op = op, ![s].on = r]
    /\ UNCHANGED <<request, balance, unseen, stale, accruals>>

(* Mutant: the aggregate's method does not look at the status. *)
MutHandle(s) ==
    /\ cmd[s].pc = "handle"
    /\ cmd' = [cmd EXCEPT ![s].pc = IF cmd[s].op = "approve" THEN "check" ELSE "commit",
                          ![s].ar = request[cmd[s].on]]
    /\ UNCHANGED <<request, balance, unseen, stale, accruals>>

(* The handler's own findById, and the aggregate's method, which throws in  *)
(* any other status. (An approval throws after its balance check: either    *)
(* way nothing has been written.)                                           *)
Handle(s) ==
    /\ cmd[s].pc = "handle"
    /\ CanLeave(cmd[s].op, request[cmd[s].on].status)
    /\ cmd' = [cmd EXCEPT ![s].pc = IF cmd[s].op = "approve" THEN "check" ELSE "commit",
                          ![s].ar = request[cmd[s].on]]
    /\ UNCHANGED <<request, balance, unseen, stale, accruals>>

(* assertBalanceImpactAvailable *)
Check(s) ==
    /\ cmd[s].pc = "check"
    /\ Covers(balance, cmd[s].on)
    /\ cmd' = [cmd EXCEPT ![s].pc = "apply", ![s].checked = balance.hours]
    /\ UNCHANGED <<request, balance, unseen, stale, accruals>>

(* applyBalanceImpact reads the balance again and computes from that.       *)
Apply(s) ==
    /\ cmd[s].pc = "apply"
    /\ cmd' = [cmd EXCEPT ![s].pc = "commit", ![s].bal = balance]
    /\ UNCHANGED <<request, balance, unseen, stale, accruals>>

(* Mutant: the hours stay. *)
MutChargeHours(b, r) == [b EXCEPT !.used = @ + Hours[r]]

Charge(b, r) == [b EXCEPT !.hours = @ - Hours[r], !.used = @ + Hours[r]]

(* Saves by id alone, and commit: whoever saves last has the row. *)
Commit(s) ==
    /\ cmd[s].pc = "commit"
    /\ LET c == cmd[s]
           Changed == {k \in {"decision", "charge", "check"} :
                         \/ k = "decision" /\ request[c.on] # c.ar
                         \/ k = "charge"   /\ c.op = "approve" /\ balance # c.bal
                         \/ k = "check"    /\ c.op = "approve" /\ c.bal.hours # c.checked}
       IN /\ request' = [request EXCEPT ![c.on] = [status |-> Target(c.op), version |-> c.ar.version + 1]]
          /\ balance' = IF c.op = "approve" THEN Charge(c.bal, c.on) ELSE balance
          /\ stale' = stale \union Changed
    /\ cmd' = [cmd EXCEPT ![s] = Idle]
    /\ UNCHANGED <<unseen, accruals>>

(* A refusal, a failing statement, a lost connection or process: the        *)
(* transaction is rolled back, or had written nothing.                      *)
Abandon(s) ==
    /\ cmd[s].pc # "idle"
    /\ cmd' = [cmd EXCEPT ![s] = Idle]
    /\ UNCHANGED <<request, balance, unseen, stale, accruals>>

-----------------------------------------------------------------------------
(* LeaveAccrualRunJob: due at 02:00 local time every day, and by hand *)

(* The UTC date less the local date, over a local day and at 02:00 (where   *)
(* east is what lies beyond UTC+2).                                         *)
Shifts == [utc |-> {0}, east |-> {-1, 0}, west |-> {0, 1}]
AtTwo  == [utc |-> 0,   east |-> -1,      west |-> 0]

LocalDay(local) == (local % MonthLength) + 1

(* monthPeriodKey: the month of the UTC date. *)
PeriodKey(utc) == utc \div MonthLength

(* The run's lease (SchedulerRuns): a period that has succeeded is over, a  *)
(* failed one, or one whose process died, can be run again. On any day but  *)
(* the accrual day there is nothing to do, and the run has succeeded.       *)
StartRun(local, utc) ==
    /\ job.pc = "idle"
    /\ run[PeriodKey(utc)] # "SUCCEEDED"
    /\ \/ /\ LocalDay(local) = accrualDay
          /\ run' = [run EXCEPT ![PeriodKey(utc)] = "RUNNING"]
          /\ job' = [NoJob EXCEPT !.pc = "read", !.key = PeriodKey(utc)]
       \/ /\ LocalDay(local) # accrualDay
          /\ run' = [run EXCEPT ![PeriodKey(utc)] = "SUCCEEDED"]
          /\ UNCHANGED job
    /\ UNCHANGED <<leave, balance, stale, today, zone, accrualDay, key, cached, posted, troubled>>

Tick == StartRun(today - AtTwo[zone], today)

(* An administrator may give the run any instant for its "now". *)
RunByHand ==
    /\ ByHand
    /\ \E utc \in 0 .. MaxDay, shift \in Shifts[zone] : StartRun(utc - shift, utc)

(* findActiveAccrualBalances *)
ReadBalance ==
    /\ job.pc = "read"
    /\ job' = [job EXCEPT !.pc = "load", !.seen = balance]
    /\ UNCHANGED <<leave, balance, stale, today, zone, accrualDay, run, key, cached, posted, troubled>>

(* UpdateAbsenceAccrualBalance. The payload's hours are absolute, computed  *)
(* when the job began.                                                      *)
Accrued == [hours |-> job.seen.hours + Accrual, accrued |-> job.seen.accrued + Accrual]

(* Mutant: the hash on the row is not compared. *)
MutMismatch == FALSE

(* rejectHashMismatch *)
Mismatch == \E payload \in key[job.key] : payload # Accrued

(* The command's key names the period. A cached answer, or an idempotency   *)
(* row with another payload, ends it, and the conflict is cached in turn;   *)
(* over a row with its own payload it runs again, whatever the row's status.*)
LoadBalance ==
    /\ job.pc = "load"
    /\ \/ /\ job.key \in cached \/ Mismatch
          /\ job' = [job EXCEPT !.pc = "finish"]
          /\ cached' = cached \union {job.key}
       \/ /\ job.key \notin cached /\ ~Mismatch
          /\ job' = [job EXCEPT !.pc = "write", !.loaded = balance]
          /\ UNCHANGED cached
    /\ UNCHANGED <<leave, balance, stale, today, zone, accrualDay, run, key, posted, troubled>>

(* reserveKey: a row that is there already stays. *)
Reserved == [key EXCEPT ![job.key] = IF @ = {} THEN {Accrued} ELSE @]

WriteBalance ==
    /\ job.pc = "write"
    /\ balance' = [hours   |-> Accrued.hours,
                   accrued |-> Accrued.accrued,
                   used    |-> job.loaded.used]
    /\ stale' = stale \union IF balance = job.seen /\ balance = job.loaded THEN {} ELSE {"accrual"}
    /\ key' = Reserved /\ cached' = cached \union {job.key}
    /\ posted' = [posted EXCEPT ![job.key] = @ + 1]
    /\ job' = [job EXCEPT !.pc = "finish"]
    /\ UNCHANGED <<leave, today, zone, accrualDay, run, troubled>>

(* The command answers an error, which the job does not look at. Its row    *)
(* stays unless the transaction is doomed, and the error is cached, unless  *)
(* storing it fails; an answer cached before a lost commit stays as well.   *)
CommandFails ==
    /\ job.pc \in {"load", "write"}
    /\ key' \in {key, Reserved} /\ cached' \in {cached, cached \union {job.key}}
    /\ job' = [job EXCEPT !.pc = "finish"]
    /\ troubled' = troubled \union {job.key}
    /\ UNCHANGED <<leave, balance, stale, today, zone, accrualDay, run, posted>>

FinishRun ==
    /\ job.pc = "finish"
    /\ run' = [run EXCEPT ![job.key] = "SUCCEEDED"]
    /\ job' = NoJob
    /\ UNCHANGED <<leave, balance, stale, today, zone, accrualDay, key, cached, posted, troubled>>

(* A query or a connection fails and the run is marked FAILED, or its       *)
(* process dies.                                                            *)
RunFails ==
    /\ job.pc # "idle"
    /\ run' \in {run, [run EXCEPT ![job.key] = "FAILED"]}
    /\ job' = NoJob
    /\ troubled' = troubled \union {job.key}
    /\ UNCHANGED <<leave, balance, stale, today, zone, accrualDay, key, cached, posted>>

(* The cache loses an answer, or a day has passed. *)
Evict ==
    /\ \E m \in cached : cached' = cached \ {m}
    /\ UNCHANGED <<leave, balance, stale, today, zone, accrualDay, run, key, posted, job, troubled>>

(* A tick is missed if the scheduler is down at 02:00. *)
NewDay ==
    /\ today < MaxDay
    /\ today' = today + 1
    /\ troubled' = troubled \union
         IF run[PeriodKey(today)] = "none" THEN {PeriodKey(today)} ELSE {}
    /\ UNCHANGED <<leave, balance, stale, zone, accrualDay, run, key, cached, posted, job>>

-----------------------------------------------------------------------------
Next ==
    \/ \E s \in Session :
         \/ \E r \in Request : Create(s, r)
         \/ Insert(s)
         \/ \E op \in Op, r \in Request : Admit(s, op, r)
         \/ Handle(s) \/ Check(s) \/ Apply(s) \/ Commit(s) \/ Abandon(s)
    \/ Tick \/ RunByHand \/ ReadBalance \/ LoadBalance \/ WriteBalance
    \/ CommandFails \/ FinishRun \/ RunFails
    \/ Evict \/ NewDay

Spec == Init /\ [][Next]_vars

-----------------------------------------------------------------------------
Approved == {r \in Request : request[r].status = "APPROVED"}
Granted  == MapThenSumSet(LAMBDA r : Hours[r], Approved)

(* The balance adds up: what is left and what was used make what was given, *)
(* whatever approvals overwrite each other or an accrual. Only the job,     *)
(* which writes hours it read before, can break it.                         *)
BalanceAddsUp ==
    "accrual" \notin stale => balance.hours + balance.used = Opening + balance.accrued

(* What is charged is what is granted: no leave is charged that is not      *)
(* granted, unless a decision overwrote another one (an approval a          *)
(* rejection, or the second approval the first); and all that is granted is *)
(* charged, unless besides an approval overwrote a balance that had         *)
(* changed, or the accrual job one that was being charged.                  *)
ChargesMatchGrants ==
    "decision" \notin stale =>
        /\ balance.used <= Granted
        /\ stale \intersect {"charge", "accrual"} = {} => balance.used = Granted

(* The balance is never overdrawn, unless it changed between the check and  *)
(* the deduction, or a changed balance was overwritten.                     *)
NoOverdraft ==
    stale \intersect {"check", "charge", "accrual"} = {} => balance.hours >= 0

(* A decision stands: no command replaces it, unless it read the request    *)
(* before the decision and saved it after.                                  *)
DecisionHolds ==
    [][\A r \in Request :
         request[r].status \in Decided /\ "decision" \notin stale' => request'[r] = request[r]]_vars

(* Overlapping requests are not both approved, unless each was created      *)
(* while the other was no more than a draft.                                *)
NoDoubleBooking ==
    "decision" \notin stale =>
        \A r, q \in Approved : r # q /\ Date[r] = Date[q] => {r, q} \in unseen

(* A month accrues once, though its job be run again after a failure or a   *)
(* crash and the cache have lost the first answer: the hours it has added   *)
(* make the second payload another one. An approval that puts back the      *)
(* balance it read before the accrual undoes that, too.                     *)
AccruesOnce == "charge" \notin stale => \A m \in Month : posted[m] <= 1

(* What the job's documentation and its test say of a month: if its run     *)
(* succeeded, without a missed tick, failure or crash, it has accrued once. *)
(* In the code a run on another day than the accrual day succeeds, too.     *)
EveryMonthAccrues ==
    \A m \in Month : run[m] = "SUCCEEDED" /\ m \notin troubled => posted[m] = 1
=============================================================================
