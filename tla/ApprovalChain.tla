----------------------------- MODULE ApprovalChain -----------------------------
(***************************************************************************)
(* One approval chain: the command gate that creates it, the commands that *)
(* approve, reject, delegate and escalate its steps, and the replay of the *)
(* gated command after the last approval. A command loads the chain in two *)
(* selects, changes its copy and saves all of it, the chain row first and  *)
(* then every step row, each in a transaction of its own: the repository   *)
(* does not join the command bus's, and compares no version.               *)
(***************************************************************************)
EXTENDS Naturals

CONSTANTS
    Step,        \* active steps of the approval rule
    Order,       \* their order
    Parallel,    \* steps of mode PARALLEL, the others are SEQUENTIAL
    Tiered,      \* steps with an escalation tier
    Request,     \* commands that approve, reject, delegate or escalate
    Gate,        \* the command that needs approval, in the gate
    MaxFaults    \* bound: statements that fail, processes that die

Thread == Request \union {Gate}

ASSUME StepAssumption == Order \in [Step -> Nat] /\ Parallel \subseteq Step /\ Tiered \subseteq Step
ASSUME GateAssumption  == Gate \notin Request
ASSUME BoundAssumption == MaxFaults \in Nat

VARIABLES
    status,      \* the chain row's status
    state,       \* state[s]: the state in the row of s
    pc,          \* where each command stands
    copy,        \* copy[r]: the chain as command r holds it in memory
    todo,        \* todo[r]: step rows r has yet to save
    after,       \* after[r]: what r does once they are saved
    cached,      \* the outcome the idempotency cache holds for the replay's key
    applied,     \* times the gated command took effect
    logged,      \* commands whose delegation row or reminders are written
    approved,    \* history: steps whose row was saved with an approval
    early,       \* history: a command loaded the chain with rows missing
    overlapped,  \* history: a command loaded the chain while another was at it
    faults       \* bounded count

rows    == <<status, state>>
history == <<approved, early, overlapped>>
vars    == <<rows, pc, copy, todo, after, cached, applied, logged, history, faults>>

ChainStatus == {"none", "IN_PROGRESS", "APPROVED", "REJECTED"}
StepState   == {"none", "PENDING", "DELEGATED", "ESCALATED", "APPROVED", "REJECTED"}
Label       == {"idle", "steps", "chain", "rows", "replay", "execute", "log", "done"}

TypeOK ==
    /\ status \in ChainStatus
    /\ state \in [Step -> StepState]
    /\ pc \in [Thread -> Label]
    /\ copy \in [Thread -> [status : ChainStatus, state : [Step -> StepState]]]
    /\ todo \in [Thread -> SUBSET Step]
    /\ after \in [Thread -> {"replay", "log", "done"}]
    /\ cached \in {"none", "ok", "error"}
    /\ applied \in Nat /\ faults \in Nat
    /\ logged \in SUBSET Request
    /\ approved \in SUBSET Step
    /\ early \in BOOLEAN /\ overlapped \in BOOLEAN

Blank == [status |-> "none", state |-> [s \in Step |-> "none"]]

(* ApprovalChain.create: every step is pending. *)
New == [status |-> "IN_PROGRESS", state |-> [s \in Step |-> "PENDING"]]

Init ==
    /\ status = "none"
    /\ state = [s \in Step |-> "none"]
    /\ pc = [r \in Thread |-> IF r = Gate THEN "chain" ELSE "idle"]
    /\ copy = [r \in Thread |-> IF r = Gate THEN New ELSE Blank]
    /\ todo = [r \in Thread |-> IF r = Gate THEN Step ELSE {}]
    /\ after = [r \in Thread |-> "done"]
    /\ cached = "none" /\ applied = 0 /\ logged = {}
    /\ approved = {} /\ early = FALSE /\ overlapped = FALSE
    /\ faults = 0

-----------------------------------------------------------------------------
(* The aggregate *)

Goto(r, l) == pc' = [pc EXCEPT ![r] = l]

(* A command ends and forgets its copy. *)
Quit(r) ==
    /\ Goto(r, "done")
    /\ copy' = [copy EXCEPT ![r] = Blank]
    /\ todo' = [todo EXCEPT ![r] = {}]
    /\ after' = [after EXCEPT ![r] = "done"]

Rows(chain) == {s \in Step : chain[s] # "none"}

(* Mutant: a decided chain may be changed. *)
MutActive(st) == TRUE

(* assertActive *)
Active(st) == st = "IN_PROGRESS"

Open == {"PENDING", "DELEGATED", "ESCALATED"}

(* Mutant: an earlier step that someone has taken up counts as approved. *)
MutActionable(chain, s) ==
    s \in Parallel \/ \A t \in Rows(chain) \ Parallel : Order[t] < Order[s] => chain[t] # "PENDING"

(* isStepActionable *)
Actionable(chain, s) ==
    s \in Parallel \/ \A t \in Rows(chain) \ Parallel : Order[t] < Order[s] => chain[t] = "APPROVED"

(* Mutant: the chain is approved when no step is pending any more. *)
MutAdvance(st, chain) ==
    IF \A s \in Rows(chain) : chain[s] # "PENDING" THEN "APPROVED" ELSE st

(* Mutant: the status is left to somebody else. *)
MutAdvanceLater(st, chain) == st

(* advanceStatus: approved once every step it holds is. *)
Advance(st, chain) ==
    IF \A s \in Rows(chain) : chain[s] = "APPROVED" THEN "APPROVED" ELSE st

-----------------------------------------------------------------------------
(* Loading: the chain row, then its step rows *)

InProgress(r) == pc[r] \in {"steps", "chain", "rows"}

(* A command is not refused for a chain another command is working on. *)
LoadChain(r) ==
    /\ pc[r] = "idle" /\ status # "none"
    /\ copy' = [copy EXCEPT ![r].status = status]
    /\ overlapped' = (overlapped \/ \E q \in Request \ {r} : InProgress(q))
    /\ Goto(r, "steps")
    /\ UNCHANGED <<rows, todo, after, cached, applied, logged, approved, early, faults>>

(* The step rows are there: the copy changes in memory and is saved. What   *)
(* follows the save is known by then.                                       *)
Decide(r, st, chain, next) ==
    /\ copy' = [copy EXCEPT ![r] = [status |-> st, state |-> chain]]
    /\ todo' = [todo EXCEPT ![r] = Rows(state)]
    /\ after' = [after EXCEPT ![r] = next]
    /\ early' = (early \/ Rows(state) # Step)
    /\ Goto(r, "chain")
    /\ UNCHANGED <<rows, cached, applied, logged, approved, overlapped, faults>>

Ready(r) == pc[r] = "steps" /\ Active(copy[r].status)

(* Mutant: the replay is left to whoever finds the chain approved. *)
MutApproveStep(r) ==
    /\ Ready(r)
    /\ \E s \in Rows(state) :
          LET chain == [state EXCEPT ![s] = "APPROVED"] IN
          /\ state[s] \in Open /\ Actionable(state, s)
          /\ Decide(r, Advance(copy[r].status, chain), chain,
                    IF copy[r].status = "APPROVED" THEN "replay" ELSE "done")

ApproveStep(r) ==
    /\ Ready(r)
    /\ \E s \in Rows(state) :
          LET chain == [state EXCEPT ![s] = "APPROVED"]
              st    == Advance(copy[r].status, chain)
          IN  /\ state[s] \in Open /\ Actionable(state, s)
              /\ Decide(r, st, chain, IF st = "APPROVED" THEN "replay" ELSE "done")

(* A step may be rejected before its turn has come. *)
RejectStep(r) ==
    /\ Ready(r)
    /\ \E s \in Rows(state) :
          /\ state[s] \in Open
          /\ Decide(r, "REJECTED", [state EXCEPT ![s] = "REJECTED"], "done")

DelegateStep(r) ==
    /\ Ready(r)
    /\ \E s \in Rows(state) :
          /\ state[s] \in {"PENDING", "DELEGATED"}
          /\ Decide(r, copy[r].status, [state EXCEPT ![s] = "DELEGATED"], "log")

(* Whatever is overdue at the time the command names is escalated; the copy *)
(* is saved even if nothing is.                                             *)
EscalateOverdue(r) ==
    /\ Ready(r)
    /\ \E due \in SUBSET Tiered :
          LET taken == {s \in due : state[s] \in {"PENDING", "DELEGATED"} /\ Actionable(state, s)}
          IN  Decide(r, copy[r].status,
                     [s \in Step |-> IF s \in taken THEN "ESCALATED" ELSE state[s]],
                     IF taken = {} THEN "done" ELSE "log")

(* The chain is decided, or the step is not one the command may act on. *)
Refuse(r) ==
    /\ r \in Request /\ pc[r] = "steps"
    /\ Quit(r)
    /\ UNCHANGED <<rows, cached, applied, logged, history, faults>>

-----------------------------------------------------------------------------
(* Saving *)

(* After the last row comes what the command has left to do. *)
AllSaved(r) ==
    \/ /\ after[r] = "done"
       /\ Quit(r)
    \/ /\ after[r] # "done"
       /\ Goto(r, after[r])
       /\ todo' = [todo EXCEPT ![r] = {}]
       /\ UNCHANGED <<copy, after>>

SaveChain(r) ==
    /\ pc[r] = "chain"
    /\ status' = copy[r].status
    /\ \/ todo[r] = {} /\ AllSaved(r)
       \/ /\ todo[r] # {}
          /\ Goto(r, "rows")
          /\ UNCHANGED <<copy, todo, after>>
    /\ UNCHANGED <<state, cached, applied, logged, history, faults>>

(* The step rows, in their order. *)
SaveStep(r) ==
    /\ pc[r] = "rows"
    /\ \E s \in todo[r] :
          /\ \A t \in todo[r] : Order[s] <= Order[t]
          /\ state' = [state EXCEPT ![s] = copy[r].state[s]]
          /\ approved' = IF copy[r].state[s] = "APPROVED" THEN approved \union {s} ELSE approved
          /\ \/ todo[r] = {s} /\ AllSaved(r)
             \/ /\ todo[r] # {s}
                /\ todo' = [todo EXCEPT ![r] = @ \ {s}]
                /\ UNCHANGED <<pc, copy, after>>
    /\ UNCHANGED <<status, cached, applied, logged, early, overlapped, faults>>

(* recordDelegation, emitEscalationReminders *)
Log(r) ==
    /\ pc[r] = "log"
    /\ logged' = logged \union {r}
    /\ Quit(r)
    /\ UNCHANGED <<rows, cached, applied, history, faults>>

-----------------------------------------------------------------------------
(* The replay: the command bus, with the chain's own idempotency key *)

ReplayApprovedCommand(r) ==
    /\ pc[r] = "replay"
    /\ \/ cached = "none" /\ Goto(r, "execute") /\ UNCHANGED <<copy, todo, after>>
       \/ cached # "none" /\ Quit(r)
    /\ UNCHANGED <<rows, cached, applied, logged, history, faults>>

(* Mutant: a command that was refused is tried again. *)
MutExecute(r) ==
    /\ pc[r] = "execute"
    /\ \/ applied' = applied + 1 /\ cached' = "ok" /\ Quit(r)
       \/ cached' = "error" /\ UNCHANGED <<applied, pc, copy, todo, after>>
    /\ UNCHANGED <<rows, logged, history, faults>>

(* Whether the bus executes the command or refuses it, approveStep returns  *)
(* a success.                                                               *)
Execute(r) ==
    /\ pc[r] = "execute"
    /\ \/ applied' = applied + 1 /\ cached' = "ok"
       \/ cached' = "error" /\ UNCHANGED applied
    /\ Quit(r)
    /\ UNCHANGED <<rows, logged, history, faults>>

(* A statement fails or the process dies: nobody takes up what is left.     *)
Fail(r) ==
    /\ faults < MaxFaults
    /\ faults' = faults + 1
    /\ pc[r] \notin {"idle", "done"}
    /\ Quit(r)
    /\ UNCHANGED <<rows, cached, applied, logged, history>>

Next ==
    \/ \E r \in Request :
          \/ LoadChain(r) \/ ApproveStep(r) \/ RejectStep(r) \/ DelegateStep(r) \/ EscalateOverdue(r)
          \/ Refuse(r) \/ Log(r) \/ ReplayApprovedCommand(r) \/ Execute(r)
    \/ \E r \in Thread : SaveChain(r) \/ SaveStep(r) \/ Fail(r)

Spec == Init /\ [][Next]_vars

-----------------------------------------------------------------------------
(* An approval counts only in its turn: a sequential step's is saved only   *)
(* after every earlier sequential step's, whatever stale copies are saved   *)
(* in between.                                                              *)
ApprovedInOrder ==
    \A s \in approved \ Parallel, t \in Step \ Parallel : Order[t] < Order[s] => t \in approved

(* The gated command takes effect only after every step of the rule has     *)
(* been approved, unless an approver came upon the chain before the gate    *)
(* had saved it all.                                                        *)
AppliedAfterApproval ==
    applied > 0 => early \/ approved = Step

(* While commands on the chain do not overlap, a decision is final: an      *)
(* approved chain is not rejected any more, nor a rejected one approved,    *)
(* even if the command that decided it died on its way.                     *)
DecisionIsFinal ==
    [][overlapped \/ status = "IN_PROGRESS" \/ status = "none" \/ status' = status]_vars

(* While commands on the chain do not overlap, a chain in progress can be   *)
(* decided: some step it has is open and its turn has come.                 *)
NeverStuck ==
    status = "IN_PROGRESS" /\ Rows(state) # {} =>
        \/ overlapped
        \/ \E s \in Step : state[s] \in Open /\ Actionable(state, s)

(* An approved chain is not forgotten: once no command is at work on it,    *)
(* the gated command has been executed or refused, unless something failed  *)
(* on the way.                                                              *)
ApprovedIsAnswered ==
    status = "APPROVED" /\ (\A r \in Thread : pc[r] \in {"idle", "done"}) =>
        cached # "none" \/ faults > 0

(* The chain as its approvers see it: steps are granted when their rows     *)
(* are saved, the verdict is the status, the outcome what the cache holds.  *)
Promise == INSTANCE StagedApproval WITH
    granted <- approved,
    verdict <- CASE status = "APPROVED" -> "approved" [] status = "REJECTED" -> "rejected" [] OTHER -> "open",
    outcome <- cached,
    effects <- applied,
    raced   <- overlapped,
    partial <- early

(* The workflow keeps the promise of StagedApproval: approvals in turn, a   *)
(* verdict that is final and is in favour only when the last approval is    *)
(* under way, a command that is run once, with every approval given and     *)
(* never after a rejection. Overlapping commands and a chain half saved     *)
(* excuse what the abstract actions say they excuse, and no more.           *)
KeepsItsPromise == Promise!Spec

(* What the workflow's test promises: the gated command is replayed only    *)
(* after final approval, so every step of its rule has been approved.       *)
OnlyAfterFinalApproval ==
    applied > 0 => approved = Step
=============================================================================
