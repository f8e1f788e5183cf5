---------------------------- MODULE SchedulerRuns ----------------------------
(***************************************************************************)
(* The scheduler's lease on one (tenant, job, period): the row of          *)
(* scheduler_job_runs, the cron ticks of every process and the operators'  *)
(* manual runs that compete for it, the job they run, and the outcome they *)
(* write. Jobs with a month or year key meet the same row on many ticks;   *)
(* the others only in the same minute and in manual runs. Rows of other    *)
(* keys are independent, and no statement touches two.                     *)
(***************************************************************************)
EXTENDS Naturals, FiniteSets

CONSTANTS
    Tick,       \* cron ticks for which the job is due (JobRunner.handleCronTick)
    Manual,     \* manual runs (SchedulerController.runJob)
    Pod,        \* API processes
    PodOf,      \* the process a runner runs in
    Stale,      \* STALE_RUNNING_MS
    MaxTime,    \* bound: the clock
    MaxFaults,  \* bound: failing statements
    MaxCrash    \* bound: process crashes

Runner == Tick \union Manual

ASSUME RunnerAssumption == Tick \intersect Manual = {}
ASSUME PodAssumption    == PodOf \in [Runner -> Pod]
ASSUME BoundAssumption  == {Stale, MaxTime, MaxFaults, MaxCrash} \subseteq Nat

VARIABLES
    row,      \* the row: its status and started_at; status "none" before the insert
    enabled,  \* the tenant's schedule override
    clock,    \* the time
    pc,       \* where each runner stands
    began,    \* began[r]: the startedAt of r's attempt
    seen,     \* seen[r]: the row r read
    ran,      \* runners whose job ended without errors
    overran,  \* runners that lived longer than Stale after their startedAt
    faults, crashes  \* bounded counts

vars == <<row, enabled, clock, pc, began, seen, ran, overran, faults, crashes>>

Status == {"none", "RUNNING", "SUCCEEDED", "FAILED", "SKIPPED"}
Row    == [status : Status, startedAt : Nat]

Label   == {"idle", "skip", "begin", "insert", "read", "reclaim",
            "work", "succeeded", "failed", "done"}
Working == {"work", "succeeded", "failed"}    \* labels of a runner that holds the row
Active  == {"insert", "read", "reclaim"} \union Working  \* ... that has its startedAt

TypeOK ==
    /\ row \in Row
    /\ enabled \in BOOLEAN
    /\ clock \in Nat
    /\ pc \in [Runner -> Label]
    /\ began \in [Runner -> Nat]
    /\ seen \in [Runner -> Row]
    /\ ran \in SUBSET Runner
    /\ overran \in SUBSET Runner
    /\ faults \in Nat /\ crashes \in Nat

Init ==
    /\ row = [status |-> "none", startedAt |-> 0]
    /\ enabled = TRUE
    /\ clock = 0
    /\ pc = [r \in Runner |-> IF r \in Tick THEN "idle" ELSE "begin"]
    /\ began = [r \in Runner |-> 0]
    /\ seen = [r \in Runner |-> row]
    /\ ran = {}
    /\ overran = {}
    /\ faults = 0 /\ crashes = 0

Goto(r, l) == pc' = [pc EXCEPT ![r] = l]

-----------------------------------------------------------------------------
(* JobRunner.runDueJobs *)

(* A tick reads the override: a disabled schedule is recorded as skipped. *)
CheckSchedule(r) ==
    /\ pc[r] = "idle"
    /\ Goto(r, IF enabled THEN "begin" ELSE "skip")
    /\ UNCHANGED <<row, enabled, clock, began, seen, ran, overran, faults, crashes>>

(* markSkipped: INSERT ... ON CONFLICT DO NOTHING. *)
MarkSkipped(r) ==
    /\ pc[r] = "skip"
    /\ row' = IF row.status = "none" THEN [status |-> "SKIPPED", startedAt |-> clock] ELSE row
    /\ Goto(r, "done")
    /\ UNCHANGED <<enabled, clock, began, seen, ran, overran, faults, crashes>>

(* runJobForTenant takes its startedAt before it asks for the row. *)
Begin(r) ==
    /\ pc[r] = "begin"
    /\ began' = [began EXCEPT ![r] = clock]
    /\ Goto(r, "insert")
    /\ UNCHANGED <<row, enabled, clock, seen, ran, overran, faults, crashes>>

-----------------------------------------------------------------------------
(* SchedulerJobRunRepository.tryStartRun *)

Acquire(r) ==
    /\ row' = [status |-> "RUNNING", startedAt |-> began[r]]
    /\ Goto(r, "work")

Insert(r) ==
    /\ pc[r] = "insert"
    /\ \/ /\ row.status = "none"
          /\ Acquire(r)
       \/ /\ row.status # "none"
          /\ Goto(r, "read")
          /\ UNCHANGED row
    /\ UNCHANGED <<enabled, clock, began, seen, ran, overran, faults, crashes>>

(* Mutant: the threshold is not checked. *)
MutIsStale(r, w) == w.status = "RUNNING"

IsStale(r, w) == w.status = "RUNNING" /\ began[r] > w.startedAt + Stale

(* A row that succeeded, or that is running and not stale, is left alone. *)
Read(r) ==
    /\ pc[r] = "read"
    /\ seen' = [seen EXCEPT ![r] = row]
    /\ Goto(r, IF row.status \in {"SUCCEEDED", "RUNNING"} /\ ~IsStale(r, row) THEN "done" ELSE "reclaim")
    /\ UNCHANGED <<row, enabled, clock, began, ran, overran, faults, crashes>>

(* Mutants: the UPDATE is not pinned to the started_at that was read; it    *)
(* takes a row that has succeeded since.                                    *)
MutReclaimableUnpinned(r) ==
    row.status \notin {"SUCCEEDED", "RUNNING"} \/ (IsStale(r, seen[r]) /\ row.status = "RUNNING")
MutReclaimableAny(r) ==
    row.status # "RUNNING" \/ (IsStale(r, seen[r]) /\ row = seen[r])

Reclaimable(r) ==
    \/ row.status \notin {"SUCCEEDED", "RUNNING"}
    \/ /\ IsStale(r, seen[r])
       /\ row.status = "RUNNING" /\ row.startedAt = seen[r].startedAt

Reclaim(r) ==
    /\ pc[r] = "reclaim"
    /\ \/ /\ Reclaimable(r)
          /\ Acquire(r)
       \/ /\ ~Reclaimable(r)
          /\ Goto(r, "done")
          /\ UNCHANGED row
    /\ UNCHANGED <<enabled, clock, began, seen, ran, overran, faults, crashes>>

-----------------------------------------------------------------------------
(* The job, and the outcome, whose UPDATE names the row by id only. *)

Work(r) ==
    /\ pc[r] = "work"
    /\ \/ /\ ran' = ran \union {r}
          /\ Goto(r, "succeeded")
       \/ /\ Goto(r, "failed")
          /\ UNCHANGED ran
    /\ UNCHANGED <<row, enabled, clock, began, seen, overran, faults, crashes>>

(* Mutant: errors that the job reports are not looked at. *)
MutOutcome(r) == "SUCCEEDED"

Outcome(r) == IF pc[r] = "succeeded" THEN "SUCCEEDED" ELSE "FAILED"

Finish(r) ==
    /\ pc[r] \in {"succeeded", "failed"}
    /\ row' = [row EXCEPT !.status = Outcome(r)]
    /\ Goto(r, "done")
    /\ UNCHANGED <<enabled, clock, began, seen, ran, overran, faults, crashes>>

(* A statement that fails ends the tick; a markSucceeded that fails is      *)
(* caught and becomes a markFailed.                                         *)
Fault(r) ==
    /\ faults < MaxFaults
    /\ faults' = faults + 1
    /\ pc[r] \in {"idle", "skip", "insert", "read", "reclaim", "succeeded", "failed"}
    /\ Goto(r, IF pc[r] = "succeeded" THEN "failed" ELSE "done")
    /\ UNCHANGED <<row, enabled, clock, began, seen, ran, overran, crashes>>

-----------------------------------------------------------------------------
(* The operator, the clock and the processes *)

Retune ==
    /\ enabled' = ~enabled
    /\ UNCHANGED <<row, clock, pc, began, seen, ran, overran, faults, crashes>>

Advance ==
    /\ clock < MaxTime
    /\ clock' = clock + 1
    /\ overran' = overran \union {r \in Runner : pc[r] \in Active /\ clock' > began[r] + Stale}
    /\ UNCHANGED <<row, enabled, pc, began, seen, ran, faults, crashes>>

(* A process dies: what its runners had begun goes no further. *)
Crash(p) ==
    /\ crashes < MaxCrash
    /\ crashes' = crashes + 1
    /\ pc' = [r \in Runner |-> IF PodOf[r] = p /\ pc[r] \in Active \union {"skip"} THEN "done" ELSE pc[r]]
    /\ UNCHANGED <<row, enabled, clock, began, seen, ran, overran, faults>>

Step(r) ==
    \/ CheckSchedule(r) \/ MarkSkipped(r) \/ Begin(r)
    \/ Insert(r) \/ Read(r) \/ Reclaim(r)
    \/ Work(r) \/ Finish(r)

Next ==
    \/ \E r \in Runner : Step(r) \/ Fault(r)
    \/ Retune
    \/ Advance
    \/ \E p \in Pod : Crash(p)

Spec == Init /\ [][Next]_vars

-----------------------------------------------------------------------------
(* Mutual exclusion: as long as no runner has outlived the staleness        *)
(* threshold, at most one of them is inside the job for the period, however *)
(* ticks, manual runs, retries, reclaims and crashes interleave.            *)
OneRunnerUnlessOverrun ==
    overran = {} => \A r, q \in Runner : pc[r] \in Working /\ pc[q] \in Working => r = q

Promise == INSTANCE PeriodLease WITH
               inside   <- {r \in Runner : pc[r] \in Working},
               finished <- ran,
               closed   <- row.status = "SUCCEEDED",
               excused  <- overran # {}

(* The row, its conditional updates and the threshold implement the lease:  *)
(* runners take turns, only the job of the runner whose turn it is can      *)
(* close the period, a closed period stays closed and gives no turn.        *)
KeepsItsPromise == Promise!Spec

(* A period that succeeded is done: while no runner outlives the threshold, *)
(* no failure, skip or reclaim replaces the SUCCEEDED of its row.           *)
SucceededHolds ==
    [][overran = {} /\ row.status = "SUCCEEDED" => row'.status = "SUCCEEDED"]_vars

(* The job ends without errors at most once per period, unless a crash or a *)
(* failing statement kept that from being written down, or a runner outran  *)
(* the threshold.                                                           *)
CompletesOnce ==
    overran = {} /\ faults = 0 /\ crashes = 0 => Cardinality(ran) <= 1

(* The row says SUCCEEDED only if some runner's job ended without errors.   *)
SuccessWasEarned ==
    row.status = "SUCCEEDED" => ran # {}
=============================================================================
