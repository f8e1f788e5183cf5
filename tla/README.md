# Verification of the HR platform's command, event, approval, scheduler and leave core

TLA+ models of the parts of this repository whose correctness depends on the order in which several
processes, transactions, messages and failures meet; TLC runs that check them on small instances; and
proofs, checked by TLAPS, of the properties that carry most weight. Definitions keep the names of the
source, and `PROJECT.json` (`map`) names the lines every definition stands for.

Paths below are relative to the repository; `platform/` stands for `apps/hr-api/src/platform/`,
`domains/` for `apps/hr-api/src/domains/`.

1. [The system](#1-the-system)
2. [Plan](#2-plan)
3. [Modules](#3-modules)
4. [Runs](#4-runs)
5. [Proofs](#5-proofs)
6. [What the code does that its documents do not say](#6-what-the-code-does-that-its-documents-do-not-say)
7. [What is not modelled](#7-what-is-not-modelled)
8. [Running it](#8-running-it)

## 1. The system

A NestJS API server, deployed as two or more identical processes behind a load balancer
(`deploy/k8s/base/api-deployment.yaml`), one PostgreSQL database, a Redis cache, a Kafka broker and a web
client. Every change of business state is a *command* that goes through one pipeline; every command
that succeeds leaves *events* in an outbox table, from where a publisher in every process sends them to
Kafka; consumers take them in through an inbox table. Time-driven work is started by a cron tick in
every process and guarded by a lease row. Some commands are held back by an approval chain and replayed
when it is approved.

```
 HTTP ──> CommandBus ──(one transaction)──> aggregate row, idempotency row, audit row, outbox rows
             │  ▲                                                              │
     gated   │  │ replay                                     poll, FOR UPDATE SKIP LOCKED
             ▼  │                                                              ▼
        ApprovalChain                                        OutboxPublisher ─> EventBus ─> Kafka
             ▲  ▲                                                              │ eachMessage
      cron   │  │ approve, reject, delegate, escalate                          ▼
 Scheduler ──┘  └── HTTP                                InboxConsumer ─> handler (saga, projection,
   (lease on scheduler_job_runs)                          ▲   ▲            integration adapter)
                                            recovery / replay worker, dead-letter operators
```

### Components

| Component | State it keeps | Operations | What is hard | What makes it correct |
|---|---|---|---|---|
| Command bus (`platform/command-bus`, `packages/hr-database`, `packages/hr-platform-core/src/cache`) | idempotency rows, a Redis cache of answers, aggregate versions, audit and outbox rows, transition ledger, one pooled connection per request and a second one for queries outside the transaction | `execute` and its steps | concurrent commands on one aggregate or one key; a failure that is answered rather than thrown, so the transaction commits; pool exhaustion | no lost update; a key has one meaning; success is only reported for committed state; state and its records are committed together; every request is answered |
| Outbox publisher and event bus (`platform/outbox-inbox`, `platform/event-bus`) | outbox rows; per process, the set of event ids it has taken | insertion, `pollAndPublish`, operator retry and skip | overlapping polls, sends that fail or are not acknowledged, crashes between send and commit, operator requests beside polls | published means sent; one send per process; skipped stays skipped until that row is retried; every row leaves the queue |
| Inbox consumer and recovery worker (same folders) | inbox rows, Kafka offsets | `consume`, recovery, replay, sweep, operator retry and skip | redelivery to another process, replay beside delivery, crash inside the handler | handled once; success was earned, and nothing begins on it again; an acknowledged message is recorded; every message settles |
| Scheduler (`platform/scheduler`) | the run row of a (tenant, job, period), the schedule override | cron tick, manual run, `tryStartRun`, `markSucceeded`, `markFailed`, `markSkipped` | two or more processes tick at once; takeover of a dead runner; a slow runner that is not dead | one runner at a time; success is earned, kept and not repeated |
| Approval workflow (`platform/workflow/approval-*`) | chain row, step rows, cached outcome of the replay | gate, approve, reject, delegate, escalate, replay | the copy is loaded in two statements and saved row by row without a version; overlapping commands; death between approval and replay | approvals count in their turn; the gated command runs only after all; decisions are final; no chain is stuck |
| Workflow engine, FSM framework, guard library (`platform/workflow`) | none | pure checks | none of its own | the FSM check belongs to the pipeline of the command bus |
| Effective dating (`platform/scheduler/effective-dating-*`) | activation log | `activateDue`, `tryStart`, `markSucceeded`, `markFailed` | a log row of its own around a command that answers errors instead of throwing them; overlapping runs; edits between query and command | a due change's command is dispatched once; the log tells what became of it; a due change settles |
| Reminders (`platform/scheduler/reminder-*`) | dispatch log | `emit`, `tryRecordDispatch` | recorded before published; expired rows read by two runs | once per window, and in the end it goes out |
| Scheduled jobs, cron arithmetic (`hcm-scheduled-jobs.ts`, `scheduler-time.ts`) | none of their own | queries and commands of the domains | time zones; payloads computed from earlier reads; answers that nobody looks at | a due job has one period key, and has done its work when it says so |
| Leave requests and balances (`domains/absence-leave`, `LeaveAccrualRunJob`) | request rows, a balance row per worker and leave type | create, submit, approve, reject, cancel; the monthly accrual | unlocked reads and whole-row saves by id; a check and a charge from two reads; an accrual in absolute hours | the balance adds up; what is charged is granted; no overdraft; decisions stand; no double booking; a month accrues once |
| Domain sagas (`domains/*/sagas`) | in memory, or none | reactions to events by issuing commands | redelivered events, death half way | a saga's commands take effect once |
| Domain aggregates and handlers (`domains/*`) | one table or more each | one handler per command | sequential; they run inside the pipeline | state tables |
| Payroll and time calculations | computed records | pure computations | rounding, long formulas | arithmetic |
| Policy engines, access control | none, rule packs | pure decisions | size | decisions |
| Notifications, personal inbox, export, integrations | notification rows, dead letters | inbox handlers, queries, HTTP adapters | side effects outside the database are repeated by a replay | deduplication of the inbox |
| Authentication, database access, platform core, contracts, web client, deployment | sessions, migrations, hash chain | | | |

### Behaviours that tests hardly reach

`PROJECT.json` (`hazards`) lists them at the line where they bite, each with the properties that guard
against it or with the reason why none does. They fall into five kinds: statements of one operation that
run outside its transaction (ledger, cache, chain rows); rows updated by id without asking what they say
by now (inbox, outbox, scheduler outcomes); in-process memory that survives a failure or dies with a crash
(publish-once memory, timers of sagas); work recorded before it is done, or done before it is recorded
(reminders, activations, accruals, replay after approval); and resources everybody needs two of (the pool).

## 2. Plan

| # | Module | Status |
|---|---|---|
| 1 | `OutboxDelivery`, the publishing half of the event spine | written, checked, five theorems |
| 2 | `InboxConsumer`, the consuming half | written, checked, seven theorems |
| 3 | `SchedulerRuns`, the run lease, and `PeriodLease`, the abstract specification it implements | written, checked, six theorems (the refinement is one) |
| 4 | `CommandBus`, the pipeline, and `AtomicCommands`, the abstract specification it implements | written, checked, seven theorems (the refinement is one) |
| 5 | `ApprovalChain`, gate, decisions and replay, and `StagedApproval`, the abstract specification it implements | written, checked, seven theorems (the refinement is one) |
| 6 | `ReliableDelivery`, the abstract specification of the spine, and `EventPipeline`, which composes 1 and 2 and implements it | written, checked, two theorems (the safety half of the refinement is one) |
| 7 | `ScheduledWork`, what the jobs do once they run: activations and reminders | written, checked, five theorems |
| 8 | `LeaveBalance`, one domain taken apart: requests, the balance they are charged to, and the job that adds to it | written, checked, seven theorems |

Left for later: an *account* (each grant charged once, never below zero) as an abstract specification of `LeaveBalance`, and
*once per key* as one of `ScheduledWork`, both with the races they excuse as abstract actions; what the abstract specifications imply, as
theorems about them; the year-end carry-over as a third writer of the balance row; `scheduler-time.ts` as functions against a
reference definition.

## 3. Modules

Every module follows one plan: the CONSTANTS are the actors, the configuration values that matter and
the bounds; `pc[t]` says between which two statements of the code an actor stands (one label per place
where another actor may run: an `await`, a statement, a lock); an action is what the code does up to the
next such place; `MC*` modules only give values to functions that a configuration cannot spell. Faults
are actions of their own, each with a bound (`MaxFaults`, `MaxCrash`, ...). Definitions called `Mut...`
are plausible mistakes; no specification uses them, they show that each property would notice.

### OutboxDelivery

*Source*: `platform/outbox-inbox/outbox-publisher.ts`, `dead-letter-operations.service.ts` (outbox half),
`platform/event-bus/event-bus.ts`, `kafka-event-bus.ts`.

| Model | Code |
|---|---|
| `created`, `row` | `outbox_events`: position in `created_at`, `published_at`, `publish_attempt_count`, `operator_action` |
| `outcome[t]` | what the open transaction of poll `t` holds: rows locked, and updates made but not committed |
| `memo[p]` | `EventBus.publishedEventIds` of process `p` |
| `sends`, `sent`, `broken` | hand-overs to `producer.send`, what the broker has, sends that were rejected or died |
| `TickBegin`, `TickPublish`, `TickSent`, `TickCommit`, `TickAbort` | `pollAndPublish`: the locking SELECT, one row of the loop, the awaited send, commit, rollback |
| `Retry*`, `Skip*`, `RequestFault` | `retryOutboxEvent`, `publishOutboxEvent`, `skipOutboxEvent`, statement by statement |
| `Crash` | the process dies: rollback, memory lost, messages on the wire may or may not arrive |

A row's lock is a non-`"none"` outcome: a poll skips locked rows, an operator's UPDATE waits for them, its
SELECT does not. `Poison` rows are those whose envelope cannot be rebuilt. Published events are a set
at the broker: order within a topic and payloads are not looked at. `publishAll` has no caller and is left out.

### InboxConsumer

*Source*: `platform/outbox-inbox/inbox-consumer.ts`, `inbox-deduplicator.ts`, `inbox-recovery.worker.ts`,
`dead-letter-operations.service.ts` (inbox half), the `eachMessage` loop of `kafka-event-bus.ts`.

One consumer (name and version). `status[e]` is the inbox row; `message[e]` says whether the event is
unpublished, waiting, in the hands of a delivery loop, or behind the committed offset; `handled[e]` counts
completions of the handler. `Look`, `Write`, `Handle`, `Settle` are `consume`, shared by the delivery
loop, the replay of the worker and the operator's retry, as in the code; `RecoverRead/Row`,
`ReplayRead/Row`, `SweepRead/Row` are the SELECT of a batch and the treatment of one of its rows. `old`
replaces the clock: rows whose `created_at` is beyond the recovery cutoff. A crash returns unfinished
messages and restarts worker and sweep; with `LongOutage` every stored row has aged past the cutoff by then.
Every disturbance (duplicate, rebalance, handler error, failing statement, crash) has a bound of its own, and
`MaxTogether` bounds how many of them meet in one behaviour.

### ReliableDelivery and EventPipeline

`ReliableDelivery` is what the spine promises, in three variables: events `committed`, `effects[e]` (how often
a handler has completed for `e`) and events `parked` where an operator can see them. An event is handled only
after it was committed, possibly more than once, and every committed event is in the end handled or parked.

`EventPipeline` is `OutboxDelivery` and `InboxConsumer`, instantiated as `O` and `I`, in the same processes:
an event arrives at the consumer only after the publisher has put it on the broker (`OnBroker`), and a crash
takes both halves of its process with it (`O!Crash(p) /\ I!Crash(p)`). What each half is asked alone is switched
off here: sends fail in `OutboxDelivery`, statements of the inbox, rebalances and operators in the two halves. The
refinement mapping reads `committed` off the outbox rows, `effects` off `handled`, and `parked` off outbox rows out of attempts and inbox
rows that are skipped or not to be retried.

### SchedulerRuns

*Source*: `platform/scheduler/job-runner.service.ts`, `scheduler-job-run.repository.ts`,
`scheduler.controller.ts`, `scheduler-job-schedule.repository.ts`.

One row of `scheduler_job_runs`. `Begin` takes `startedAt`; `Insert`, `Read`, `Reclaim` are the three
statements of `tryStartRun`, with the reclaiming UPDATE pinned to the `started_at` that was read; `Work`
is the job, with its two outcomes; `Finish` writes the outcome by row id; `Retune` is the schedule
override; `Advance` the clock. `overran` remembers runners that were still active later than
`STALE_RUNNING_MS` after their `startedAt`.

`PeriodLease` is what that promises the job of a period: at most one runner `inside`, `closed` by one whose job has `finished`
well, nobody inside afterwards; once a runner has outlived the threshold (`excused`) the only promise left is that the period closes on some
completion. The mapping reads `inside` off the labels between taking the row and writing the outcome, `finished` off the
completions, `closed` off the row's status, `excused` off `overran`.

### CommandBus

*Source*: `platform/command-bus/command-bus.ts` and `steps/`, `platform/workflow/transition-ledger.ts`,
`packages/hr-database` (`base-repository.ts`, `transaction-context.ts`, `pool.ts`),
`packages/hr-platform-core/src/cache/redis-cache.ts`.

Requests of one process on one aggregate whose repository joins the transaction of the bus.

| Model | Code |
|---|---|
| `idem`, `version`, `did`, `events` | committed idempotency rows (their hash), the aggregate's version, requests whose change, and whose audit and outbox rows, are committed |
| `cache`, `ledger` | Redis and the transition ledger, which take part in no transaction |
| `tx[r]` | what the open transaction of `r` holds: inserted and updated idempotency row, version read, aggregate written, records written, doomed by a failed statement |
| `Begin` ... `Commit` | connection, validation, `fastLookup`, `reserveKey`, hash check, load and version check, gates, handler's load, optimistic save, ledger, audit and outbox, `storeResult`, cache, commit |
| `StoreError`, `AnswerError` | the catch block: `storeError`, the cached error, and a *commit* |
| `StatementFails`, `OutsideFails`, `NoConnection`, `Lose`, `Evict`, `Reject` | what can go wrong, where |

PostgreSQL at read committed: a transaction sees committed rows and its own; `ReserveKey`, `Save` and
`StoreResult` wait for the lock of another transaction. A request holds one connection while its
transaction is open; `FreeConnection` is the condition for the second one that validation, gates and
ledger take for the duration of a query.

`AtomicCommands` is what callers may rely on: a command is `applied` and `recorded` at one instant, on top of every effect before it and with one
payload per key, and its caller is `told`; a success may be known to others of the key a little before it is in force (`deciding`: the
answer is cached before the commit). A command that has `slipped` (an error after its write) may take effect while its caller is told
otherwise. In the mapping all of this happens at the commit, when the transaction's writes become visible; every earlier
step of the pipeline is a stutter, a decision or a slip.

### ApprovalChain

*Source*: `platform/workflow/approval-workflow.service.ts`, `approval-chain.aggregate.ts`,
`approval-chain.repository.ts`, `approval-chain.handlers.ts`, `approval-chain.controller.ts`.

One chain. `status`, `state` are the rows; `copy[r]` the aggregate in the memory of command `r`; `todo[r]`
the step rows it has yet to save; `after[r]` what it does then. `LoadChain` is the first SELECT, the
second one happens at the start of `ApproveStep`, `RejectStep`, `DelegateStep`, `EscalateOverdue`, which
change the copy; `SaveChain`, `SaveStep` write it back, row by row, whole. `Execute` is the replay through
the command bus, reduced to what matters here: the outcome is cached under the chain's key, and may be a
refusal. The gate is a thread that starts at the save of a new chain. `approved`, `early` and `overlapped` are
history: steps ever saved as approved, a command that found step rows missing, a command that loaded the
chain while another one was between its load and the end of its save.

`StagedApproval` is what the workflow promises: steps are `granted` in their turn, the `verdict` is given once and is in favour only when at most one
approval is missing (the one about to be saved), and the gated command is run once, with every step granted and the verdict in favour. It has one
flag for each of the two excuses: `raced` (`overlapped`) and `partial` (`early`). Approvals count in their turn under either; a race excuses a
changed verdict, a grant after a rejection and a second run; a partial chain excuses missing approvals, not a second run.

### ScheduledWork

*Source*: `platform/scheduler/effective-dating-activator.ts`, `effective-dating-activation-log.repository.ts`,
`reminder-emitter.ts`, `reminder-dispatch-log.repository.ts`, and the `execute` methods in
`hcm-scheduled-jobs.ts` that call them.

| Model | Code |
|---|---|
| `status`, `version` | the aggregate with an effective date: pending or in effect, and its `aggregate_version` |
| `log` | its row in `effective_dating_activation_log` |
| `act[a]` | an activation run: rows it has queried (with the versions its commands will expect) and the one in hand |
| `expires` | `expires_at` of a row in `reminder_dispatch_log` |
| `rem[a]` | a reminder run: `ctx.now`, what it has queried, the row it has read |
| `StartActivating`, `Claim`, `Skip`, `Execute`, `MarkSucceeded`, `MarkFailed`, `ExecuteThrows`, `MarkThrows` | `activateDue` |
| `Look`, `Record`, `RecordConflicts`, `Publish` | `emit` and `tryRecordDispatch`, statement by statement |
| `Abort*` | a query that throws, or the death of the process |

Runs of one job overlap although the lease is held, because a lease is for one period key: a manual
run (`scheduler.controller.ts:69`) and a tick of another minute have a different one. `Execute` is a command as one step, with the
three ways it can end: done, answered with an error, or, in `ExecuteThrows`, thrown with or without its commit. The two halves
share nothing but the clock, so `Tenants` starts them apart. `sent`, `refused`, `troubled`, `published`, `lost` and `overlapped` are history.

### LeaveBalance

*Source*: `domains/absence-leave` (the aggregate, its handlers, `leave-policy.service.ts`, both repositories),
`LeaveAccrualRunJob` in `hcm-scheduled-jobs.ts`, `monthPeriodKey`.

| Model | Code |
|---|---|
| `request[r]` | the row of an absence request: status and `aggregate_version` |
| `balance` | the row of a worker and leave type: hours, used, accrued |
| `cmd[s]` | the command a caller has under way: the aggregate it loaded, the hours it checked, the balance it will charge |
| `Create`, `Insert` | overlap and balance checks on what can be read, then the draft |
| `Admit`, `Handle`, `Check`, `Apply`, `Commit` | the bus's unlocked check, the handler's own load, `assertBalanceImpactAvailable`, `applyBalanceImpact` (which reads again), the saves by id |
| `today`, `zone`, `Shifts`, `AtTwo` | the UTC date at the tenant's 02:00; how far UTC dates and local dates lie apart over a local day, and at 02:00 |
| `PeriodKey`, `LocalDay` | the month of the UTC date, the day of the month of the local date |
| `Tick`, `RunByHand` | the two ways to start a run: by cron at 02:00, and by an administrator, who may pick any instant |
| `StartRun` ... `FinishRun`, `CommandFails`, `RunFails` | the accrual run under its lease: query, command with its key, outcome |
| `key`, `cached`, `Mismatch`, `Reserved`, `Evict` | the idempotency row of a month's command (its payload), the cached answers, and what the bus does with both |

A command's writes take effect together at `Commit`. That is faithful because they are computed from its earlier reads, because a row it has written stays
locked until the commit (a second writer waits, then overwrites), and because only an approval writes two rows, always in the same
order. Other callers read through connections of their own, and see what is committed. `stale` (which overwritten reads have happened), `unseen` (pairs of
requests of which neither saw the other pending) and `troubled` (months with a missed tick or failure) are history that the properties
use to say under which race they do not hold. One accrual run is under way at a time; two that overlap under different period keys are left out.

## 4. Runs

| Run | Question | Instance |
|---|---|---|
| `outbox_delivery` | With a broker that rejects and loses acknowledgements: can a row become published for another reason than a broken send, what can undo a skip or forget a publication, does every row leave the queue? | 2 events, one of them poison, in either order; batches of one, so that the poison row can hold up the other; 2 processes with a poll each, a retry, a skip, 2 attempts, 1 crash or rollback |
| `outbox_lost` | *violation*: guaranteed delivery | 1 event, 2 polls, no crash |
| `inbox_consume` | With everything that can meet in an inbox row: what is acknowledged without a record, handled twice or by two at a time, stranded, or taken up again after SUCCESS? | 2 events, one with an outbox row; 2 processes with a delivery each, a worker, a sweep, a retry, a skip; one of each disturbance, two together |
| `event_pipeline` | Do publisher, broker and consumer together implement `ReliableDelivery`, across a crash that hits both halves? | 2 events, one poison; 2 processes; a poll, a delivery, a worker; 1 duplicate, failure, crash, rollback |
| `scheduler_lease` | Ticks and manual runs of two processes with crash, fault and a clock that can pass the threshold: is it one runner at a time, one completion, and a `PeriodLease`? | 2 ticks, 1 manual run, threshold 1, clock to 3 |
| `scheduled_work` | What do overlapping runs, refusals, edits and deaths make of activations and reminders? | 2 changes or 1 reminder, 2 overlapping runs, window 2, clock to 2, trouble at the start, 1 edit |
| `commands_pipeline` | The whole pipeline with refusals, faults, losses and evictions: the safety properties, that everybody is answered, and that it implements `AtomicCommands` | 3 requests, two on one key, one of these with an altered payload; pool of 3; one of each fault |
| `commands_atomic` | *violation*: a committed change whose later writes failed | 2 requests, pool of 2, *no* faults: pool exhaustion is enough |
| `approvals_decisions` | Any order of decisions by overlapping commands, with one death: the safety properties, and that it implements `StagedApproval` | 2 sequential steps and a parallel one, 3 commands, 1 fault |
| `approvals_partial` | *violation*: the gated command applied with an approval missing | 2 steps, 2 commands |
| `leave_balances` | Outside which races do balance, grants and charges agree, decisions stand and months accrue once? | 2 overlapping requests of 2 hours, 3 hours to begin with, 2 callers, an accrual of 1 hour on the first of months of 2 days, a tenant east of UTC, runs by hand |
| `leave_months` | *violation*: a month whose run succeeded has accrued | the same tenant, ticks only, 4 days |

A type invariant is among the invariants of `outbox_delivery` only; in every module it is a theorem, and the places in the
other runs went to properties that say more. Other properties that are proved and that no run needs to repeat are
named in section 5.

### Why the bounds are enough

- *Actors.* Two actors show every race between two places in the code; a third one is there where the
  property is about what two of them do to each other's leftovers (two polls and an operator, two ticks and a manual run, three
  requests, three approvers). Commands of `ApprovalChain`, and callers and requests of `LeaveBalance`, differ in
  nothing but their name, hence the symmetry sets; no other run uses symmetry, and none with a liveness property does.
- *Faults.* One of each kind, anywhere. The safety properties that assume fewer faults say so in their
  own text (`LossNeedsBrokenSend`, `CompletesOnce`, `ApprovedIsAnswered`, `HandledOnce`, `OneHandlerAtATime`, the history in `LeaveBalance`).
- *Counters.* `MaxAttempts = 2` distinguishes first, last and exhausted attempts; the code's 5 adds only
  repetition. A batch of one is the limit of the SELECT at its tightest: the poison row fills it until its attempts are used up.
  `Stale = 1` with a clock to 3 puts a second runner below, at and above the threshold and leaves
  room for a third one. In `ScheduledWork` the clock runs one window past the last trouble, so that a reminder lost at the start
  comes up again. In `LeaveBalance` 3 hours cover one request of 2 and not two, and an accrual makes up the difference; a month of two days
  has an accrual day and another one. East of UTC a local day meets two UTC dates, so that the tick and a run by hand of one local day can have
  different period keys; UTC itself and the zones west of it are covered by the proofs, which hold for every set of `Zones`.
- *Reached.* The mutants in `PROJECT.json` are run against the same instances and are all caught, so
  no property is vacuous there. The situations that the condition of a property excludes can happen in the instance of its run; section 6 says what
  happens then.

### Fairness and why the code justifies it

Only liveness properties use it.

- `OutboxDelivery`: weak fairness of the *steps of each poll*. `setInterval` fires as long as the process
  lives and a poll that has begun awaits only statements and sends, which return. Weak fairness of
  commit is enough because nothing disables a poll's own step. Operators owe nothing.
- `EventPipeline`: weak fairness of polls, arrivals from the broker, delivery and worker steps. Nobody has to insert an event:
  the promise starts with a committed one, `EveryMessageSettles` with a published one. `InboxConsumer` alone is checked for safety only.
- `ScheduledWork`: the clock, the starts of both jobs (a cron tick comes again as long as a process lives), and the
  steps of a run that is alive. Edits, refusals and deaths are owed nothing. No trouble after `LastTrouble`: a tenant whose processes die at every
  run is promised nothing.
- `CommandBus`: weak fairness of each request's pipeline. Where a step waits for a lock, the holder is a
  request with fairness of its own; where it waits for a connection, the five second timeout
  (`NoConnection`, and in `Begin`) is the alternative. No fairness for faults.

`EventPipeline` has `LongOutage = TRUE`. A process that restarts *within* the cutoff of
fifteen minutes finds its interrupted row too young to be recovered, and recovery runs once per start; an
interrupted row without redelivery then waits for the next restart or an operator. `inbox_consume` has
`LongOutage = FALSE` and shows with `OnlyFaultsStrand` exactly when that happens.

## 5. Proofs

`*_proofs` modules hold theorems about the specification for *every* value of the constants that
satisfies the named ASSUMEs of its module (finite sets of actors, disjoint kinds of threads, bounds that
are naturals). Each of the safety arguments is an inductive invariant.

**`OutboxDelivery_proofs`**: `TypeCorrect`, `SendsAtMostOnce` (`OneSendPerProcess`),
`NothingElseLosesEvents` (`LossNeedsBrokenSend`), `SkipsHold` (`SkipHolds`), `PublishedStays` (`PublishedIsFinal`).
`TypeOK` alone is not inductive, because `TickSent` indexes rows by `cur[t]`: `TypeInv` adds `CurOK` (a thread that
deals with an event has one). For the sends, `SendsOK`: what a process handed over once is in its memory.
For the loss, `HandledInv`: "published" is said in four places (the memory of a process, the open
transaction of a poll, a retry about to mark its row, the row) and each says it of an event that is sent,
broken or in flight. A crash turns in-flight into broken, which is why all four must be stated together.
The last two rest on one lemma on how a row may move in a step (`RowMoves`): a poll never lowers its attempts (`PolledKeeps`), a skip puts it out of reach
(`SkippedKeeps`), and all else is a retry of the row, by its reset (`ResetRow`) or its closing write (`RetriedRow`).

**`InboxConsumer_proofs`**: `TypeCorrect`, `SuccessIsEarned` (`SuccessWasHandled`), `AcknowledgedAreRecorded`,
`DuplicatesAreDropped` (`HandledOnce`), `HandlersExclude` (`OneHandlerAtATime`), `SuccessStays` (`SuccessIsFinal`, an action property),
`RowsAreStrandedByFaults` (`OnlyFaultsStrand`).
`EInv` adds to the two safety properties that a thread about to write SUCCESS has completed the handler; `Grows` says what every kind of step has in
common (rows are never deleted, completions never taken back). `DInv` says `Quiet => Orderly`: as long as nothing has disturbed
the inbox and no process has died (`Quiet`), workers have nothing to do, a message is held by the one delivery that is working on it, and the row's status, the holder's place and the
count of completions agree. `Quiet` can only end, which is why the implication is inductive.
`SInv` is about stranded rows. As long as the inbox is `Undisturbed`, crashes aside, only deliveries are inside `consume`, each with its own message, and one
that saw no row is alone with its event (`Alone`), which is `OneHandlerAtATime`; a crash therefore strands only rows whose message comes back. Every other step either leaves a thread
that is at the row (`HeldMoves`) or is one of the faults that the property names. The argument needs that
the markers `"unsent"`, `"ready"`, `"acked"` are no threads, which `ThreadAssumption` says. `SuccessStays` needs no condition: a thread's own step begins nothing
on a successful row and overwrites it only when the thread was past its reading of the row (`Respects`), and the steps of others leave it where it was (`Kept`).

**`EventPipeline_proofs`**: `HalvesAgree` (`InboxFollowsOutbox`), `ImplementsPromise`: every behaviour is one of
`ReliableDelivery` without its liveness. `PInv` ties the halves together: `Shape` (types the argument needs), `Locks` (what polls
hold), `Sent` (what is on the broker is committed and published, on the way to it, or was cut short) and `Downstream` (whatever the inbox has
was on the broker). Under it each step maps to committing, handling, parking, resuming or nothing. The liveness half
stays with `event_pipeline`.

**`SchedulerRuns_proofs`**: `TypeCorrect`, `MutualExclusion`, `CompletesAtMostOnce`, `SuccessIsEarned`,
`SuccessIsKept` (an action property), `ImplementsLease` (`KeepsItsPromise`).
Mutual exclusion needs the age of every runner (`AgeOK`: a runner beyond the threshold is in `overran`) and
the tie between holder and row (`HolderOK`: whoever is inside wrote the row's `started_at` and there is one
of them). The lemma `TakenRowIsFree` then shows that a row that can be inserted or reclaimed has no holder.
That lemma is also the step `Enter` of the refinement; while nobody has overrun, a step of the job is `EndWell`, writing its outcome `Close` or
`Leave`, a crash `Leave`; the step in which somebody is found to overrun is `Excuse`, and what follows it `Excused`.

**`CommandBus_proofs`**: `TypeCorrect`, `UpdatesAreKept` (`NoLostUpdate`), `KeysMeanOnePayload`
(`OneMeaningPerKey`), `ChangesAreRecorded` (`AllOrNothing`), `RecordsAreTrue` (`EventsHaveState`), `SuccessIsCommitted` (`OkIsCommitted`),
`ImplementsAtomicCommands` (`KeepsItsPromise`).
`WriteInv`: a transaction that has written the aggregate read the version that is still the committed
one, and it is the only one. `KeyInv`: an inserted, uncommitted idempotency row is the only one of its key and no
committed one exists; from the hash check on, a request's key carries its own hash. `RecordInv`: what a
request has done at each label, and that one on the error path after its write is either doomed or late.

The three parts rest on `WriteInv`, so that `Spec => [](WriteInv /\ RecordInv)` is proved once.
`OkInv`: wherever success is said (a cached answer, an answer under way, an answer given) some request of the same key has
committed, is about to, or was lost on the way. Under the four parts together (`BusInv`) the commit maps to `Apply`, `ApplySlipped` or an
`Answer` without effect: `WriteInv` says that the version it writes is the next one, `KeyInv` that its key is its own, `RecordInv` that the
records are there or the command has slipped, and `OkInv` that a success answered from the cache is known from somebody.

**`ApprovalChain_proofs`**: `TypeCorrect`, `InOrder` (`ApprovedInOrder`), `OnlyApprovedIsApplied`
(`AppliedAfterApproval`), `Answered` (`ApprovedIsAnswered`), `FinalDecisions` (`DecisionIsFinal`, an action
property), `CanBeDecided` (`NeverStuck`), `ImplementsStagedApproval` (`KeepsItsPromise`): every property the run checks.
`Decision` says what approve, reject, delegate and escalate have in common; the invariants are about it.
`OrderInv`: the rows there are the first ones, a command saves only rows it found, and what a copy in
memory shows as approved is approved or in its turn. A stale copy may take an approval back in the table,
never out of `approved`, which is why the property is about that history. `ReplayInv` and `AnswerInv` follow a
command from its decision through the save to the replay. `FinalInv` is the hard one: while commands do not
overlap, a copy that leaves the chain in progress has an undecided step that is undecided in the table too,
so that whichever rows are saved before a failure one stays open. `CanBeDecided` then takes the
sequential one of smallest order, which exists because the natural numbers are well-founded (`Smallest`).
For the refinement, `OnceInv` adds what none of them says: a copy that decides against the chain approves nothing new, one that decides for it lacks
at most one approval in the table (`CopyDecides`), and while commands do not overlap at most one thread is between the deciding save and the end of
the replay, with nothing cached yet (`OneReplay`). Saving the chain row is then `Decide`, a step row `Grant`, the replay `Run`.

**`ScheduledWork_proofs`**: `TypeCorrect`, `DispatchedAtMostOnce`, `LogIsTrue` (`LogTells`), `RemindersAreSpaced`
(`RemindedOncePerWindow`), `RecordsArePublished` (`RecordedIsPublished`). `AInv`: a change in the hands of a run is in
nobody else's and its row is RUNNING; one without a row was never dispatched. `RInv` needs that a run records only over a row that has
expired by its own clock (`ReadExpired`) and, per reminder, that publications made and under way lie a window apart and not after
the row's own (`Spaced`).

**`LeaveBalance_proofs`**: `TypeCorrect`, `BalancesAddUp`, `NothingIsOverdrawn`, `MonthsAccrueOnce`, `DecisionsHold`
(an action property), `NobodyIsDoubleBooked`, `ChargesAreGrants` (`ChargesMatchGrants`).
Types need arithmetic: every UTC date of the instance, a run by hand's included, has a period key in range (`KeyInRange`), by
bounds on the integer division. `BInv` and `OInv` say of every balance in a command's memory what holds of the row (adds up; covers what it checked).
`KInv`: what a month
accrued is on its idempotency row, in a payload the balance has caught up with (`Posted`); a run in progress computes a payload ahead of that, so that
the row rejects it. An approval that saves a stale copy puts the balance behind the payload again, hence the condition of `AccruesOnce`. `DInv`: what a command loaded admits its operation; a decision over a
decided row therefore loaded it before. `UInv`: of two overlapping requests past their draft, one saw the other or the pair is in `unseen`.

What is granted is a sum over a set of requests of any size (`MapThenSumSet`, a fold). The library's induction theorems take an operator as a
parameter and cannot be used, but least counterexamples can: a fold that failed for some set would fail for a smallest one, by size (`FoldExists`) or by
inclusion (`Minimal`, `FoldUnique`), and taking one element out of that contradicts it; the fold therefore unfolds (`TotalUnfolds`). The
lemma `TotalOfMore` is what the invariant uses: granting one request adds its hours to the sum, whatever else is in it. `GInv` says of the
row, and of each copy that is about to be saved over it, that it charges no more than is granted, and exactly that until a stale copy has been saved.

**The three refinements** by `SchedulerRuns`, `CommandBus` and `ApprovalChain` have one form: the initial states correspond, and under the
inductive invariant every step is an abstract step or a stutter; the abstract specifications are safety only. Each spells out in actions of its own what
a race or a fault may do that the promise does not cover (`Excused`, `ApplySlipped`, `Race`, `ComeEarly`), so that the implementation
has to fit those too.

**Only model-checked**: liveness (`EveryRowLeavesTheQueue`, `EveryRequestAnswered`, `EveryMessageSettles`, the
liveness half of `EventPipeline`'s `KeepsItsPromise`, `DueChangeSettles`, `ReminderArrives`), which with `ENABLED` is out of the prover's reach; and
the violations. Every invariant and every action property of a passing run is a theorem.
No module declares a RECURSIVE operator.

## 6. What the code does that its documents do not say

Four disagreements have a run whose trace shows them (`PROJECT.json`, `findings`):

1. `outbox_lost`: a rejected send is remembered as published (`event-bus.ts:50`), so the next poll of the same process marks the row
   published without sending it.
2. `commands_atomic`: a failure after the state write that is not a failed statement of the transaction is
   answered, and the transaction commits the state without its audit record and events.
3. `approvals_partial`: a chain is approved on the step rows a command finds; if the gate died between two of them,
   or has not yet saved the second, one approval is enough.
4. `leave_months`: the monthly accrual accrues only if the first run of the UTC month's key falls on the accrual day of the tenant's
   calendar (`hcm-scheduled-jobs.ts:2423`, `:2432`); any other run succeeds, with nothing done, and closes the month. See *Calendar* below.

Others were met while modelling and explain the conditions in the properties:

- *Outbox.* `publishOutboxEvent` writes the attempt count it read before the send plus one (`outbox-publisher.ts:131`). If an operator skips the
  row meanwhile and the send fails, the skip is undone: the count is below the limit again and the next poll sends what was to be skipped. `SkipHolds` names this
  write, beside the reset of a retry, as the only ways a skipped row comes back. `retryOutboxEvent` resets a
  row a poll has published since its check (`dead-letter-operations.service.ts:286`); `PublishedIsFinal` names the retry that saw the row unpublished as the
  one exception.
- *Inbox.* The bus logs an error and moves its offset on (`kafka-event-bus.ts:149`): an INSERT that fails loses the
  event for this consumer, and `AcknowledgedIsRecorded` is conditioned on their absence. Two replay workers read the
  same due rows and claim none (`inbox-consumer.ts:294`), so one event may be in two handlers at once; `OneHandlerAtATime` names what has to happen before there is
  anything to replay. An operator's skip or retry can overwrite a SUCCESS written after its check (`dead-letter-operations.service.ts:254`), and so can a replay or a
  sweep that read the row before: `SuccessIsFinal` says that nobody else does. Recovery
  goes by `created_at`, which a replay does not renew (`inbox-consumer.ts:240`): an old row in the hands of a replay counts as abandoned.
- *Scheduler.* A replaced runner that finishes late writes its outcome by row id (`scheduler-job-run.repository.ts:151`, `:168`): it can overwrite SUCCEEDED,
  and its late `markFailed` opens its successor's lease to a third runner while the successor is still within the threshold. Hence the condition
  `overran = {}`.
- *Command bus.* The idempotency key does not make a command happen at most once: `reserveKey` lets an equal request pass whose
  first run is still under way or whose cached answer is gone, and only the aggregate's version stops it. The expected version is compared with an unlocked read
  (`aggregate-load.step.ts`, whose comment speaks of a row lock), the handler loads again. A cached answer is given
  without comparing hashes, and is cached before the commit. A retry that fails validation overwrites the cached
  success of its key with its error. The ledger row of a command that rolls back stays.
- *Pool.* Every command holds one connection and takes a second: with as many commands as connections (six in
  production, `deploy/k8s/base/configmap.yaml:24`) all of them wait until the first times out after five seconds. Nobody waits for ever
  (`EveryRequestAnswered`), but commands past their state write are then committed in part, which is what `commands_atomic` shows.
- *Approvals.* Commands that overlap save whole stale copies: an approval can be lost, a chain can be left
  IN_PROGRESS with every step approved, a REJECTED chain can become APPROVED. An approved chain whose replay died or
  was refused is never replayed; `approveStep` reports success either way. Two approvers of the last step replay twice. A gated command whose
  transaction rolls back leaves its chain behind.
- *Activations.* `execute` answers errors, so a refused command is marked SUCCEEDED (`effective-dating-activator.ts:88`); a row RUNNING or FAILED is refused
  for ever (`effective-dating-activation-log.repository.ts:34`), so that nothing tries again (`DueChangeSettles` names both exceptions). For FAILED that is not
  what the port and the tests have: its type knows `'RUNNING' | 'SUCCEEDED'` only (`effective-dating-activation-log.repository.ts:16-18`), the tests' log
  starts a failed activation again (`effective-dating-activator.test.ts:132-140`), and the repository reports one as SUCCEEDED (lines 75-78). `DispatchedOnce` holds
  of the repository; under the tests' log it would not. One job
  sends `surveyId` (`hcm-scheduled-jobs.ts:2942`) where the handler reads `engagementSurveyId` (`activate-engagement-survey.handler.ts:19`), others pass
  an id as a string where the handler reads `.value`: their commands are always refused. `findPositionsToActivate` goes by `created_at`
  (`hcm-scheduled-jobs.ts:2142`) where `docs/scheduler.md:103` has the effective date.
- *Reminders.* A row is recorded before the event is published (`reminder-emitter.ts:74`), so a reminder that fails there waits for its window; two runs that read
  the same expired row both renew it by id and both publish.
- *Leave.* Repositories save whole rows by id and nothing compares versions: two approvals of different requests can charge the same balance, a
  cancellation and an approval of one request can both succeed, and the balance is checked and charged from two reads
  (`absence-balance-enforcement.test.ts:158` tests them one after the other). The accrual writes hours it computed at the start of its run
  (`hcm-scheduled-jobs.ts:2441`), and the year-end carry-over saves the whole row it has read; whatever was charged in between is put back. Overlap is
  looked for at creation only, so two drafts for the same days can both be granted.
- *Accrual.* `reserveKey` never reads the status of the row it finds, so an equal payload is executed again once the cached answer is gone. A month can therefore
  accrue twice: an approval saves a balance it read before the accrual, the run fails or dies after its command, the cache loses the answer, and the run is
  repeated. Without the stale approval the hash of the first payload prevents it, which is what `AccruesOnce` says.
- *Calendar.* The accrual's period key is the UTC month and its day the tenant's (`hcm-scheduled-jobs.ts:2423`). The first tick of a key falls on the first local
  day, or on the second where 02:00 local time is still the previous UTC date: further east than UTC+2, or Cairo (the tests' time zone) in summer. There the default
  `leaveAccrualDay` of 1 accrues by no tick; elsewhere every other accrual day does not. `docs/scheduler.md:43` and `hcm-scheduled-jobs.test.ts:100` have one accrual
  per month. A run by hand, later on the first local day, finds the UTC month begun and accrues. A job's minute that the clocks skip is a missed tick; one they repeat is the same period key.

## 7. What is not modelled

- *Sagas* (hiring, head count, offboarding, payroll inputs, country policies). Each delivery to one is `InboxConsumer`'s, each
  command `CommandBus`'s; what a saga adds is a sequence of commands with fresh ids and keys on every delivery
  (`offer-to-hire.saga.ts:120`), so that there is no deduplication of its own to state. The publication saga of country policies waits in a
  timer of the process, for at most a day; a restart forgets it.
- *Cron arithmetic* (`scheduler-time.ts`): a pure function; `SchedulerRuns` starts from the period key.
- *The other scheduled jobs* have the shape of the accrual job or of `ScheduledWork`; creating, closing, correcting and carrying over balances, and
  workers without a balance row, are not in `LeaveBalance`.
- *The other domains' aggregates, payroll and time calculations, policy engines, access control*: sequential code inside one step of
  the pipeline, most of it twenty-five domains of one shape; their outcome is a nondeterministic refusal there.
- *Handlers whose repository does not join the transaction*, the approval gate's early return inside
  the pipeline, and the rules by which a command is gated.
- *The second scheduler engine* (`domains/scheduler`): nothing calls it.
- *Notifications and integrations*: consumers whose delivery is `InboxConsumer`; what a third party does with a repeated call is
  not in this repository.
- *Authentication, web client, auditor agent, migrations, row level security, contracts, deployment*: no protocol of this system's
  own between concurrent actors, or outside the code.

Most of the repository is web client, read models, contracts and domain handlers of one shape, so the share of its lines that a
protocol model can name is small: the modules cover where several actors meet.

## 8. Running it

In this directory, with the TLA+ tools and TLAPS installed:

```
tlc -workers 2 -config CommandBus_pipeline.cfg MCCommandBus     # a run: cfg and MC module, see PROJECT.json "runs"
tlapm CommandBus_proofs.tla                                      # the proofs of a module
```

`CHECK_DEADLOCK FALSE` everywhere: polls, requests, ticks and commands are finite in number in an instance, and the system
may stop when they are done.
