---------------------------- MODULE ScheduledWork ----------------------------
(***************************************************************************)
(* What the jobs of the scheduler do once they run: activations, which     *)
(* dispatch a command for every change whose effective date has come, and  *)
(* reminders, which publish an event for every due date that is near. Runs *)
(* of one job overlap: the lease is for one minute (SchedulerRuns), and a  *)
(* manual run or a tick of another minute has a period key of its own. A   *)
(* table keeps each kind of work from being done twice: the activation     *)
(* log, written once, and the dispatch log, renewed after a time window.   *)
(***************************************************************************)
EXTENDS Integers

CONSTANTS
    Change,      \* effective-dated changes (an aggregate and its date bucket)
    Reminder,    \* dispatch keys of reminders
    Activation,  \* concurrent runs of the activation job
    Reminding,   \* concurrent runs of the reminder job
    DueAt,       \* DueAt[i]: when the change or reminder i is due
    Window,      \* dedupeWindowMs
    LastTrouble, \* bound: no query fails and no process dies after this time
    MaxTime,     \* bound: the last time
    MaxEdits,    \* bound: edits of a pending change
    Tenants,     \* bound: the sets of changes and reminders a tenant may start with
    Nothing      \* what a run that is between two rows works on

ASSUME WorkAssumption ==
    /\ DueAt \in [Change \union Reminder -> Nat]
    /\ Nothing \notin Change \union Reminder
    /\ Tenants \subseteq SUBSET (Change \union Reminder)
ASSUME TimeAssumption ==
    /\ Window \in Nat \ {0} /\ LastTrouble \in Nat
    /\ MaxTime \in Nat /\ MaxEdits \in Nat

VARIABLES
    now,       \* the clock
    status,    \* status[c]: whether c is pending or has taken effect
    version,   \* version[c]: its aggregate_version
    log,       \* log[c]: status of c's row in effective_dating_activation_log
    act,       \* act[a]: the activation run a
    sent,      \* sent[c]: commands dispatched for c
    refused,   \* changes whose command was answered with an error
    troubled,  \* changes whose activation a failing call or a crash cut short
    open,      \* open[k]: whether reminder k is still called for
    expires,   \* expires[k]: expires_at of k's row in reminder_dispatch_log
    rem,       \* rem[a]: the reminder run a
    published, \* published[k][t]: ReminderDue events of k by runs begun at t
    lost,      \* dispatches <<k, t>> recorded and not published
    overlapped \* reminders renewed by a run that had read an older row

activation == <<status, version, log, act, sent, refused, troubled>>
reminding  == <<open, expires, rem, published, lost, overlapped>>
vars == <<now, activation, reminding>>

Time == 0 .. MaxTime
NoRow == 0      \* no row expires at time 0

Act == [pc : {"idle", "next", "execute", "mark", "fail"}, todo : SUBSET Change,
        read : [Change -> Nat], on : Change \union {Nothing}]
Rem == [pc : {"idle", "next", "record", "publish"}, todo : SUBSET Reminder,
        now : Time, on : Reminder \union {Nothing}, row : Nat]

TypeOK ==
    /\ now \in Time
    /\ status \in [Change -> {"absent", "pending", "applied"}]
    /\ version \in [Change -> Nat]
    /\ log \in [Change -> {"none", "RUNNING", "SUCCEEDED", "FAILED"}]
    /\ act \in [Activation -> Act]
    /\ sent \in [Change -> Nat]
    /\ refused \in SUBSET Change /\ troubled \in SUBSET Change
    /\ open \in [Reminder -> BOOLEAN]
    /\ expires \in [Reminder -> Nat]
    /\ rem \in [Reminding -> Rem]
    /\ published \in [Reminder -> [Time -> Nat]]
    /\ lost \in SUBSET (Reminder \X Time) /\ overlapped \in SUBSET Reminder

NoAct == [pc |-> "idle", todo |-> {}, read |-> [c \in Change |-> 0], on |-> Nothing]
NoRem == [pc |-> "idle", todo |-> {}, now |-> 0, on |-> Nothing, row |-> NoRow]

Init ==
    /\ now = 0
    /\ \E work \in Tenants :
         /\ status = [c \in Change |-> IF c \in work THEN "pending" ELSE "absent"]
         /\ open = [k \in Reminder |-> k \in work]
    /\ version = [c \in Change |-> 0]
    /\ log = [c \in Change |-> "none"]
    /\ act = [a \in Activation |-> NoAct]
    /\ sent = [c \in Change |-> 0]
    /\ refused = {} /\ troubled = {}
    /\ expires = [k \in Reminder |-> NoRow]
    /\ rem = [a \in Reminding |-> NoRem]
    /\ published = [k \in Reminder |-> [t \in Time |-> 0]]
    /\ lost = {} /\ overlapped = {}

Tick == now < MaxTime /\ now' = now + 1 /\ UNCHANGED <<activation, reminding>>

MayFail == now <= LastTrouble

-----------------------------------------------------------------------------
(* EffectiveDatingActivator *)

(* isDue *)
DueChanges == {c \in Change : status[c] = "pending" /\ DueAt[c] <= now}

(* queryDueRows: the due rows, with the version the command will expect. *)
StartActivating(a) ==
    /\ act[a].pc = "idle" /\ DueChanges # {}
    /\ act' = [act EXCEPT ![a] = [pc |-> "next", todo |-> DueChanges, read |-> version, on |-> Nothing]]
    /\ UNCHANGED <<now, status, version, log, sent, refused, troubled, reminding>>

(* Mutant: a row somebody else left RUNNING is taken over. *)
MutFree(c) == log[c] \in {"none", "RUNNING"}

Free(c) == log[c] = "none"

(* tryStartActivation: the insert, ON CONFLICT DO NOTHING. *)
Claim(a, c) ==
    /\ act[a].pc = "next" /\ c \in act[a].todo /\ Free(c)
    /\ log' = [log EXCEPT ![c] = "RUNNING"]
    /\ act' = [act EXCEPT ![a] = [@ EXCEPT !.pc = "execute", !.todo = act[a].todo \ {c}, !.on = c]]
    /\ UNCHANGED <<now, status, version, sent, refused, troubled, reminding>>

(* A change that has a row is skipped, whatever the row says. *)
Skip(a, c) ==
    /\ act[a].pc = "next" /\ c \in act[a].todo /\ ~Free(c)
    /\ act' = [act EXCEPT ![a].todo = @ \ {c}]
    /\ UNCHANGED <<now, status, version, log, sent, refused, troubled, reminding>>

(* What the command bus accepts: the version and state that were read. *)
Expected(a, c) == status[c] = "pending" /\ version[c] = act[a].read[c]

(* execute, as one step: what can come between its own steps is the subject *)
(* of CommandBus and LeaveBalance. Errors, those of the policies and guards *)
(* included, and an answer that an approval is needed, are return values.   *)
Execute(a) ==
    /\ act[a].pc = "execute"
    /\ LET c == act[a].on IN
       /\ sent' = [sent EXCEPT ![c] = @ + 1]
       /\ \/ /\ Expected(a, c)
             /\ status' = [status EXCEPT ![c] = "applied"]
             /\ version' = [version EXCEPT ![c] = @ + 1]
             /\ UNCHANGED refused
          \/ /\ refused' = refused \union {c}
             /\ UNCHANGED <<status, version>>
    /\ act' = [act EXCEPT ![a].pc = "mark"]
    /\ UNCHANGED <<now, log, troubled, reminding>>

(* execute throws if its transaction cannot begin or commit; a commit whose *)
(* answer is lost may have happened.                                        *)
ExecuteThrows(a) ==
    /\ act[a].pc = "execute"
    /\ LET c == act[a].on IN
       /\ sent' = [sent EXCEPT ![c] = @ + 1]
       /\ troubled' = troubled \union {c}
       /\ \/ /\ Expected(a, c)
             /\ status' = [status EXCEPT ![c] = "applied"]
             /\ version' = [version EXCEPT ![c] = @ + 1]
          \/ UNCHANGED <<status, version>>
    /\ act' = [act EXCEPT ![a].pc = "fail"]
    /\ UNCHANGED <<now, log, refused, reminding>>

(* Mutant: the update does not name the row. *)
MutMarkSucceeded(a) ==
    /\ act[a].pc = "mark"
    /\ log' = [c \in Change |-> IF log[c] = "none" THEN "none" ELSE "SUCCEEDED"]
    /\ act' = [act EXCEPT ![a] = [@ EXCEPT !.pc = "next", !.on = Nothing]]
    /\ UNCHANGED <<now, status, version, sent, refused, troubled, reminding>>

MarkSucceeded(a) ==
    /\ act[a].pc = "mark"
    /\ log' = [log EXCEPT ![act[a].on] = "SUCCEEDED"]
    /\ act' = [act EXCEPT ![a] = [@ EXCEPT !.pc = "next", !.on = Nothing]]
    /\ UNCHANGED <<now, status, version, sent, refused, troubled, reminding>>

(* markSucceeded throws: the catch marks what has been done as FAILED. *)
MarkThrows(a) ==
    /\ act[a].pc = "mark"
    /\ troubled' = troubled \union {act[a].on}
    /\ act' = [act EXCEPT ![a].pc = "fail"]
    /\ UNCHANGED <<now, status, version, log, sent, refused, reminding>>

MarkFailed(a) ==
    /\ act[a].pc = "fail"
    /\ log' = [log EXCEPT ![act[a].on] = "FAILED"]
    /\ act' = [act EXCEPT ![a] = [@ EXCEPT !.pc = "next", !.on = Nothing]]
    /\ UNCHANGED <<now, status, version, sent, refused, troubled, reminding>>

(* Mutant: the run is over when it comes to a row it skips. *)
MutFinishActivating(a) ==
    /\ act[a].pc = "next" /\ (act[a].todo = {} \/ \E c \in act[a].todo : ~Free(c))
    /\ act' = [act EXCEPT ![a] = NoAct]
    /\ UNCHANGED <<now, status, version, log, sent, refused, troubled, reminding>>

FinishActivating(a) ==
    /\ act[a].pc = "next" /\ act[a].todo = {}
    /\ act' = [act EXCEPT ![a] = NoAct]
    /\ UNCHANGED <<now, status, version, log, sent, refused, troubled, reminding>>

(* A query or markFailed throws, or the process dies: the row stays RUNNING. *)
AbortActivating(a) ==
    /\ MayFail /\ act[a].pc # "idle"
    /\ troubled' = troubled \union ({act[a].on} \ {Nothing})
    /\ act' = [act EXCEPT ![a] = NoAct]
    /\ UNCHANGED <<now, status, version, log, sent, refused, reminding>>

(* Another command edits the change, or makes it effective. *)
Edit(c) ==
    /\ status[c] = "pending" /\ version[c] < MaxEdits
    /\ version' = [version EXCEPT ![c] = @ + 1]
    /\ status' \in {status, [status EXCEPT ![c] = "applied"]}
    /\ UNCHANGED <<now, log, act, sent, refused, troubled, reminding>>

-----------------------------------------------------------------------------
(* ReminderEmitter *)

DueReminders == {k \in Reminder : open[k] /\ DueAt[k] <= now}

(* The job's query; ctx.now is when the run was started. *)
StartReminding(a) ==
    /\ rem[a].pc = "idle" /\ DueReminders # {}
    /\ rem' = [rem EXCEPT ![a] = [pc |-> "next", todo |-> DueReminders, now |-> now,
                                  on |-> Nothing, row |-> NoRow]]
    /\ UNCHANGED <<now, activation, open, expires, published, lost, overlapped>>

(* Mutants: the comparison is off by one; a row never expires. *)
MutLive(a, k)    == expires[k] > rem[a].now + 1
MutForever(a, k) == expires[k] # NoRow

Live(a, k) == expires[k] > rem[a].now

(* tryRecordDispatch reads the row; a live one makes it a duplicate. *)
Look(a, k) ==
    /\ rem[a].pc = "next" /\ k \in rem[a].todo
    /\ rem' = IF Live(a, k)
                THEN [rem EXCEPT ![a] = [@ EXCEPT !.todo = rem[a].todo \ {k}]]
                ELSE [rem EXCEPT ![a] = [@ EXCEPT !.pc = "record", !.todo = rem[a].todo \ {k},
                                                  !.on = k, !.row = expires[k]]]
    /\ UNCHANGED <<now, activation, open, expires, published, lost, overlapped>>

(* It updates the row it read, by id, or inserts one. *)
Record(a) ==
    /\ rem[a].pc = "record"
    /\ LET k == rem[a].on IN
       /\ rem[a].row = NoRow => expires[k] = NoRow
       /\ expires' = [expires EXCEPT ![k] = rem[a].now + Window]
       /\ overlapped' = overlapped \union IF expires[k] = rem[a].row THEN {} ELSE {k}
    /\ rem' = [rem EXCEPT ![a].pc = "publish"]
    /\ UNCHANGED <<now, activation, open, published, lost>>

(* The insert violates the unique key: the run fails. *)
RecordConflicts(a) ==
    /\ rem[a].pc = "record"
    /\ rem[a].row = NoRow /\ expires[rem[a].on] # NoRow
    /\ rem' = [rem EXCEPT ![a] = NoRem]
    /\ UNCHANGED <<now, activation, open, expires, published, lost, overlapped>>

Publish(a) ==
    /\ rem[a].pc = "publish"
    /\ published' = [published EXCEPT ![rem[a].on][rem[a].now] = @ + 1]
    /\ rem' = [rem EXCEPT ![a] = [@ EXCEPT !.pc = "next", !.on = Nothing, !.row = NoRow]]
    /\ UNCHANGED <<now, activation, open, expires, lost, overlapped>>

FinishReminding(a) ==
    /\ rem[a].pc = "next" /\ rem[a].todo = {}
    /\ rem' = [rem EXCEPT ![a] = NoRem]
    /\ UNCHANGED <<now, activation, open, expires, published, lost, overlapped>>

(* A query or the event bus throws, or the process dies. *)
AbortReminding(a) ==
    /\ MayFail /\ rem[a].pc # "idle"
    /\ lost' = lost \union IF rem[a].pc = "publish" THEN {<<rem[a].on, rem[a].now>>} ELSE {}
    /\ rem' = [rem EXCEPT ![a] = NoRem]
    /\ UNCHANGED <<now, activation, open, expires, published, overlapped>>

(* What the reminder is about is done, or its escalation tier has passed. *)
Settle(k) ==
    /\ open[k]
    /\ open' = [open EXCEPT ![k] = FALSE]
    /\ UNCHANGED <<now, activation, expires, rem, published, lost, overlapped>>

-----------------------------------------------------------------------------
ActivationStep(a) ==
    \/ \E c \in Change : Claim(a, c) \/ Skip(a, c)
    \/ Execute(a) \/ MarkSucceeded(a) \/ MarkFailed(a) \/ FinishActivating(a)

ReminderStep(a) ==
    \/ \E k \in Reminder : Look(a, k)
    \/ Record(a) \/ RecordConflicts(a) \/ Publish(a) \/ FinishReminding(a)

Next ==
    \/ Tick
    \/ \E a \in Activation :
         \/ StartActivating(a) \/ ActivationStep(a)
         \/ ExecuteThrows(a) \/ MarkThrows(a) \/ AbortActivating(a)
    \/ \E c \in Change : Edit(c)
    \/ \E a \in Reminding : StartReminding(a) \/ ReminderStep(a) \/ AbortReminding(a)
    \/ \E k \in Reminder : Settle(k)

(* The clock runs, a scheduled job is started again and again, and a run    *)
(* that has not died goes on.                                               *)
Fairness ==
    /\ WF_vars(Tick)
    /\ \A a \in Activation : WF_vars(StartActivating(a)) /\ WF_vars(ActivationStep(a))
    /\ \A a \in Reminding : WF_vars(StartReminding(a)) /\ WF_vars(ReminderStep(a))

Spec == Init /\ [][Next]_vars /\ Fairness

-----------------------------------------------------------------------------
(* A change's command is dispatched at most once, however many runs find it *)
(* due at the same time or one after the other, runs that died in between   *)
(* included: the insert gives way to a row in any state, RUNNING, SUCCEEDED *)
(* or FAILED (effective-dating-activation-log.repository.ts:54-58).         *)
DispatchedOnce == \A c \in Change : sent[c] <= 1

(* The log can be trusted up to refusals and trouble: a change it has a row *)
(* for has taken effect or is in the hands of a run, unless its command was *)
(* answered with an error, which the row does not show, or the run was cut  *)
(* short; and only then does a row end FAILED.                              *)
LogTells ==
    \A c \in Change : log[c] # "none" /\ c \notin refused \union troubled =>
        IF log[c] = "SUCCEEDED" THEN status[c] = "applied"
        ELSE log[c] = "RUNNING" /\ \E a \in Activation : act[a].on = c

(* A change that is due takes effect, unless its one command was refused or *)
(* its run was cut short: nothing tries again then.                         *)
DueChangeSettles ==
    \A c \in Change :
        status[c] = "pending" /\ DueAt[c] <= now ~> status[c] = "applied" \/ c \in refused \union troubled

(* Two publications of a reminder lie at least a window apart, by the times *)
(* of their runs, unless a renewal overwrote one that its run had not seen. *)
RemindedOncePerWindow ==
    \A k \in Reminder \ overlapped : \A s, t \in Time :
        published[k][s] > 0 /\ s <= t /\ t < s + Window =>
            published[k][t] <= 1 /\ (s < t => published[k][t] = 0)

(* What the dispatch log records has been published or is about to be,      *)
(* unless the event bus or the process failed just then.                    *)
RecordedIsPublished ==
    \A k \in Reminder : expires[k] # NoRow =>
        LET t == expires[k] - Window IN
        \/ published[k][t] > 0 \/ <<k, t>> \in lost
        \/ \E a \in Reminding : rem[a].pc = "publish" /\ rem[a].on = k /\ rem[a].now = t

(* A reminder that is called for is published in the end, though publishing *)
(* failed or its process died when it was first recorded.                   *)
ReminderArrives ==
    \A k \in Reminder :
        open[k] /\ DueAt[k] <= now ~> ~open[k] \/ \E t \in Time : published[k][t] > 0
=============================================================================
