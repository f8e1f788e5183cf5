------------------------ MODULE SchedulerRuns_proofs ------------------------
(***************************************************************************)
(* Theorems about SchedulerRuns for any number of ticks, manual runs and   *)
(* processes and any threshold: types, mutual exclusion below the          *)
(* threshold, one completion per period, what SUCCEEDED stands for, and    *)
(* that all of it implements PeriodLease.                                  *)
(***************************************************************************)
EXTENDS SchedulerRuns, FiniteSetTheorems, TLAPS

(* A runner's startedAt is not in the future, and is younger than the       *)
(* threshold unless the runner is known to have overrun it.                 *)
AgeOK ==
    \A r \in Runner : pc[r] \in Active =>
        /\ began[r] <= clock
        /\ clock > began[r] + Stale => r \in overran

(* Unless somebody overran, the runner inside the job is the one whose      *)
(* startedAt the row carries, and the only one.                             *)
HolderOK ==
    overran = {} =>
        /\ \A r \in Runner : pc[r] \in Working => row.status = "RUNNING" /\ row.startedAt = began[r]
        /\ \A r, q \in Runner : pc[r] \in Working /\ pc[q] \in Working => r = q

(* A completion is written down, or its runner is about to write it. *)
CompletionOK ==
    overran = {} /\ faults = 0 /\ crashes = 0 =>
        /\ \A r \in ran : pc[r] = "succeeded" \/ row.status = "SUCCEEDED"
        /\ \A r, q \in ran : r = q

EarnedOK ==
    /\ \A r \in Runner : pc[r] = "succeeded" => r \in ran
    /\ row.status = "SUCCEEDED" => ran # {}

IInv == TypeOK /\ AgeOK /\ HolderOK /\ CompletionOK /\ EarnedOK

-----------------------------------------------------------------------------
LEMMA TypeInit == Init => TypeOK
  BY DEF Init, TypeOK, Row, Status, Label, Runner

LEMMA TypeNext == TypeOK /\ [Next]_vars => TypeOK'
<1> SUFFICES ASSUME TypeOK, [Next]_vars PROVE TypeOK'
  OBVIOUS
<1> USE BoundAssumption
<1>1. ASSUME NEW r \in Runner, CheckSchedule(r) PROVE TypeOK'
  BY <1>1 DEF TypeOK, CheckSchedule, Goto, Label
<1>2. ASSUME NEW r \in Runner, MarkSkipped(r) PROVE TypeOK'
  BY <1>2 DEF TypeOK, MarkSkipped, Goto, Label, Row, Status
<1>3. ASSUME NEW r \in Runner, Begin(r) PROVE TypeOK'
  BY <1>3 DEF TypeOK, Begin, Goto, Label
<1>4. ASSUME NEW r \in Runner, Insert(r) PROVE TypeOK'
  BY <1>4 DEF TypeOK, Insert, Acquire, Goto, Label, Row, Status
<1>5. ASSUME NEW r \in Runner, Read(r) PROVE TypeOK'
  BY <1>5 DEF TypeOK, Read, Goto, Label
<1>6. ASSUME NEW r \in Runner, Reclaim(r) PROVE TypeOK'
  BY <1>6 DEF TypeOK, Reclaim, Acquire, Goto, Label, Row, Status
<1>7. ASSUME NEW r \in Runner, Work(r) PROVE TypeOK'
  BY <1>7 DEF TypeOK, Work, Goto, Label
<1>8. ASSUME NEW r \in Runner, Finish(r) PROVE TypeOK'
  BY <1>8 DEF TypeOK, Finish, Outcome, Goto, Label, Row, Status
<1>9. ASSUME NEW r \in Runner, Fault(r) PROVE TypeOK'
  BY <1>9 DEF TypeOK, Fault, Goto, Label
<1>10. CASE Retune
  BY <1>10 DEF TypeOK, Retune
<1>11. CASE Advance
  BY <1>11 DEF TypeOK, Advance
<1>12. ASSUME NEW p \in Pod, Crash(p) PROVE TypeOK'
  BY <1>12 DEF TypeOK, Crash, Label
<1>13. CASE UNCHANGED vars
  BY <1>13 DEF TypeOK, vars
<1> QED
  BY <1>1, <1>2, <1>3, <1>4, <1>5, <1>6, <1>7, <1>8, <1>9, <1>10, <1>11, <1>12, <1>13 DEF Next, Step

(* The whole state has its type in every reachable state of the scheduler's *)
(* lease on a period.                                                       *)
THEOREM TypeCorrect == Spec => []TypeOK
  BY TypeInit, TypeNext, PTL DEF Spec

-----------------------------------------------------------------------------
LEMMA AgeNext == ASSUME TypeOK, AgeOK, [Next]_vars PROVE AgeOK'
<1> USE BoundAssumption DEF TypeOK, AgeOK, Active, Working
<1>1. ASSUME NEW r \in Runner, Begin(r) PROVE AgeOK'
  BY <1>1 DEF Begin, Goto
<1>2. ASSUME NEW r \in Runner, CheckSchedule(r) \/ MarkSkipped(r) PROVE AgeOK'
  BY <1>2 DEF CheckSchedule, MarkSkipped, Goto
<1>3. ASSUME NEW r \in Runner, Insert(r) \/ Read(r) \/ Reclaim(r) PROVE AgeOK'
  BY <1>3 DEF Insert, Read, Reclaim, Acquire, Goto
<1>4. ASSUME NEW r \in Runner, Work(r) \/ Finish(r) PROVE AgeOK'
  BY <1>4 DEF Work, Finish, Goto
<1>5. ASSUME NEW r \in Runner, Fault(r) PROVE AgeOK'
  BY <1>5 DEF Fault, Goto
<1>6. CASE Advance
  BY <1>6 DEF Advance
<1>7. CASE Retune \/ UNCHANGED vars
  BY <1>7 DEF Retune, vars
<1>8. ASSUME NEW p \in Pod, Crash(p) PROVE AgeOK'
  BY <1>8 DEF Crash
<1> QED
  BY <1>1, <1>2, <1>3, <1>4, <1>5, <1>6, <1>7, <1>8 DEF Next, Step

(* While nobody overran, a row that can be taken has no runner inside: it   *)
(* is not running, or its startedAt is too old for a living holder's.       *)
LEMMA TakenRowIsFree ==
  ASSUME IInv, overran = {}, NEW r \in Runner, NEW q \in Runner, pc[q] \in Working,
         \/ row.status = "none"
         \/ pc[r] = "reclaim" /\ Reclaimable(r)
  PROVE  FALSE
<1>1. row.status = "RUNNING" /\ row.startedAt = began[q]
  BY DEF IInv, HolderOK
<1>2. pc[q] \in Active /\ clock <= began[q] + Stale
  BY BoundAssumption DEF IInv, AgeOK, TypeOK, Active
<1>3. pc[r] = "reclaim" /\ began[r] > seen[r].startedAt + Stale /\ row.startedAt = seen[r].startedAt
  BY <1>1 DEF Reclaimable, IsStale
<1>4. began[r] <= clock
  BY <1>3 DEF IInv, AgeOK, Active
<1>5. clock \in Nat /\ began[r] \in Nat /\ began[q] \in Nat /\ Stale \in Nat
  BY BoundAssumption DEF IInv, TypeOK
<1> QED BY <1>1, <1>2, <1>3, <1>4, <1>5

LEMMA HolderNext == ASSUME IInv, [Next]_vars PROVE HolderOK'
<1> SUFFICES ASSUME overran' = {} PROVE HolderOK'
  BY DEF HolderOK
<1>0. overran = {}
  BY DEF Next, Step, CheckSchedule, MarkSkipped, Begin, Insert, Read, Reclaim, Work, Finish, Fault,
         Retune, Advance, Crash, vars
<1>t. TypeOK /\ HolderOK
  BY DEF IInv
<1> USE <1>0, <1>t DEF HolderOK, TypeOK, Working
<1>1. ASSUME NEW r \in Runner, CheckSchedule(r) PROVE HolderOK'
  BY <1>1 DEF CheckSchedule, Goto
<1>2. ASSUME NEW r \in Runner, MarkSkipped(r) PROVE HolderOK'
  BY <1>2 DEF MarkSkipped, Goto
<1>3. ASSUME NEW r \in Runner, Begin(r) PROVE HolderOK'
  BY <1>3 DEF Begin, Goto
<1>4. ASSUME NEW r \in Runner, Insert(r) PROVE HolderOK'
  <2>1. row.status = "none" => \A q \in Runner : pc[q] \notin Working
    BY TakenRowIsFree
  <2> QED BY <1>4, <2>1 DEF Insert, Acquire, Goto
<1>5. ASSUME NEW r \in Runner, Read(r) PROVE HolderOK'
  BY <1>5 DEF Read, Goto
<1>6. ASSUME NEW r \in Runner, Reclaim(r) PROVE HolderOK'
  <2>1. pc[r] = "reclaim" /\ Reclaimable(r) => \A q \in Runner : pc[q] \notin Working
    BY TakenRowIsFree
  <2> QED BY <1>6, <2>1 DEF Reclaim, Acquire, Goto
<1>7. ASSUME NEW r \in Runner, Work(r) PROVE HolderOK'
  BY <1>7 DEF Work, Goto
<1>8. ASSUME NEW r \in Runner, Finish(r) PROVE HolderOK'
  BY <1>8 DEF Finish, Goto
<1>9. ASSUME NEW r \in Runner, Fault(r) PROVE HolderOK'
  BY <1>9 DEF Fault, Goto
<1>10. CASE Retune
  BY <1>10 DEF Retune
<1>11. CASE Advance
  BY <1>11 DEF Advance
<1>12. ASSUME NEW p \in Pod, Crash(p) PROVE HolderOK'
  BY <1>12 DEF Crash
<1>13. CASE UNCHANGED vars
  BY <1>13 DEF vars
<1> QED
  BY <1>1, <1>2, <1>3, <1>4, <1>5, <1>6, <1>7, <1>8, <1>9, <1>10, <1>11, <1>12, <1>13 DEF Next, Step

(* A runner that takes the row finds no completion: it would still be held, *)
(* or say SUCCEEDED.                                                        *)
LEMMA TakenRowHasNoCompletion ==
  ASSUME IInv, overran = {}, faults = 0, crashes = 0, NEW r \in Runner,
         \/ row.status = "none"
         \/ pc[r] = "reclaim" /\ Reclaimable(r)
  PROVE  ran = {}
<1>1. \A q \in Runner : pc[q] \notin Working
  BY TakenRowIsFree
<1>2. row.status # "SUCCEEDED"
  BY DEF Reclaimable
<1> QED BY <1>1, <1>2 DEF IInv, TypeOK, CompletionOK, Working

LEMMA CompletionNext == ASSUME IInv, [Next]_vars PROVE CompletionOK'
<1> SUFFICES ASSUME overran' = {}, faults' = 0, crashes' = 0 PROVE CompletionOK'
  BY DEF CompletionOK
<1>0. overran = {} /\ faults = 0 /\ crashes = 0
  BY DEF IInv, TypeOK, Next, Step, CheckSchedule, MarkSkipped, Begin, Insert, Read, Reclaim, Work, Finish,
         Fault, Retune, Advance, Crash, vars
<1>t. TypeOK /\ HolderOK /\ CompletionOK
  BY DEF IInv
<1> USE <1>0, <1>t DEF CompletionOK, TypeOK
<1>1. ASSUME NEW r \in Runner, CheckSchedule(r) PROVE CompletionOK'
  BY <1>1 DEF CheckSchedule, Goto
<1>2. ASSUME NEW r \in Runner, MarkSkipped(r) PROVE CompletionOK'
  BY <1>2 DEF MarkSkipped, Goto
<1>3. ASSUME NEW r \in Runner, Begin(r) PROVE CompletionOK'
  BY <1>3 DEF Begin, Goto
<1>4. ASSUME NEW r \in Runner, Insert(r) PROVE CompletionOK'
  <2>1. row.status = "none" => ran = {}
    BY TakenRowHasNoCompletion
  <2> QED BY <1>4, <2>1 DEF Insert, Acquire, Goto
<1>5. ASSUME NEW r \in Runner, Read(r) PROVE CompletionOK'
  BY <1>5 DEF Read, Goto
<1>6. ASSUME NEW r \in Runner, Reclaim(r) PROVE CompletionOK'
  <2>1. pc[r] = "reclaim" /\ Reclaimable(r) => ran = {}
    BY TakenRowHasNoCompletion
  <2> QED BY <1>6, <2>1 DEF Reclaim, Acquire, Goto
<1>7. ASSUME NEW r \in Runner, Work(r) PROVE CompletionOK'
  <2>1. pc[r] = "work" /\ row.status = "RUNNING"
    BY <1>7 DEF Work, HolderOK, Working
  <2>2. \A q \in Runner : pc[q] # "succeeded"
    BY <2>1 DEF HolderOK, Working
  <2>3. ran = {}
    BY <2>1, <2>2
  <2> QED BY <1>7, <2>3 DEF Work, Goto
<1>8. ASSUME NEW r \in Runner, Finish(r) PROVE CompletionOK'
  <2>1. CASE pc[r] = "succeeded"
    BY <1>8, <2>1 DEF Finish, Outcome, Goto, Row
  <2>2. CASE pc[r] = "failed"
    <3>1. row.status = "RUNNING" /\ \A q \in Runner : pc[q] # "succeeded"
      BY <2>2 DEF HolderOK, Working
    <3>2. ran = {}
      BY <3>1
    <3> QED BY <1>8, <3>2 DEF Finish
  <2> QED BY <1>8, <2>1, <2>2 DEF Finish
<1>9. ASSUME NEW r \in Runner, Fault(r) PROVE FALSE
  BY <1>9 DEF Fault
<1>10. CASE Retune
  BY <1>10 DEF Retune
<1>11. CASE Advance
  BY <1>11 DEF Advance
<1>12. ASSUME NEW p \in Pod, Crash(p) PROVE FALSE
  BY <1>12 DEF Crash
<1>13. CASE UNCHANGED vars
  BY <1>13 DEF vars
<1> QED
  BY <1>1, <1>2, <1>3, <1>4, <1>5, <1>6, <1>7, <1>8, <1>9, <1>10, <1>11, <1>12, <1>13 DEF Next, Step

LEMMA EarnedNext == ASSUME TypeOK, EarnedOK, [Next]_vars PROVE EarnedOK'
<1> USE DEF TypeOK, EarnedOK
<1>1. ASSUME NEW r \in Runner, CheckSchedule(r) \/ Begin(r) PROVE EarnedOK'
  BY <1>1 DEF CheckSchedule, Begin, Goto
<1>2. ASSUME NEW r \in Runner, MarkSkipped(r) PROVE EarnedOK'
  BY <1>2 DEF MarkSkipped, Goto
<1>3. ASSUME NEW r \in Runner, Insert(r) \/ Read(r) \/ Reclaim(r) PROVE EarnedOK'
  BY <1>3 DEF Insert, Read, Reclaim, Acquire, Goto
<1>4. ASSUME NEW r \in Runner, Work(r) PROVE EarnedOK'
  BY <1>4 DEF Work, Goto
<1>5. ASSUME NEW r \in Runner, Finish(r) PROVE EarnedOK'
  BY <1>5 DEF Finish, Outcome, Goto, Row
<1>6. ASSUME NEW r \in Runner, Fault(r) PROVE EarnedOK'
  BY <1>6 DEF Fault, Goto
<1>7. CASE Retune \/ Advance \/ UNCHANGED vars
  BY <1>7 DEF Retune, Advance, vars
<1>8. ASSUME NEW p \in Pod, Crash(p) PROVE EarnedOK'
  BY <1>8 DEF Crash
<1> QED
  BY <1>1, <1>2, <1>3, <1>4, <1>5, <1>6, <1>7, <1>8 DEF Next, Step

-----------------------------------------------------------------------------
LEMMA Inductive == Spec => []IInv
<1>1. Init => IInv
  BY TypeInit DEF Init, IInv, AgeOK, HolderOK, CompletionOK, EarnedOK, Active, Working
<1>2. IInv /\ [Next]_vars => IInv'
  BY TypeNext, AgeNext, HolderNext, CompletionNext, EarnedNext DEF IInv
<1> QED BY <1>1, <1>2, PTL DEF Spec

(* Mutual exclusion: unless a runner outlived the threshold, at most one is *)
(* inside the job for a period.                                             *)
THEOREM MutualExclusion == Spec => []OneRunnerUnlessOverrun
<1>1. IInv => OneRunnerUnlessOverrun
  BY DEF IInv, HolderOK, OneRunnerUnlessOverrun
<1> QED BY <1>1, Inductive, PTL

(* Without overruns, faults and crashes the job completes at most once per  *)
(* period.                                                                  *)
THEOREM CompletesAtMostOnce == Spec => []CompletesOnce
<1>1. ASSUME IInv PROVE CompletesOnce
  <2> SUFFICES ASSUME overran = {}, faults = 0, crashes = 0 PROVE Cardinality(ran) <= 1
    BY DEF CompletesOnce
  <2>1. CASE ran = {}
    BY <2>1, FS_EmptySet
  <2>2. CASE ran # {}
    <3>1. PICK r \in ran : TRUE
      BY <2>2
    <3>2. ran = {r}
      BY <1>1, <3>1 DEF IInv, CompletionOK
    <3>3. Cardinality({r}) = 1
      BY FS_Singleton
    <3> QED BY <3>2, <3>3
  <2> QED BY <2>1, <2>2
<1> QED BY <1>1, Inductive, PTL

(* A row says SUCCEEDED only if the job ended without errors for some       *)
(* runner, whatever overran, failed or crashed.                             *)
THEOREM SuccessIsEarned == Spec => []SuccessWasEarned
<1>1. IInv => SuccessWasEarned
  BY DEF IInv, EarnedOK, SuccessWasEarned
<1> QED BY <1>1, Inductive, PTL

(* Unless a runner outlived the threshold, a row that says SUCCEEDED keeps  *)
(* saying so.                                                               *)
THEOREM SuccessIsKept == Spec => SucceededHolds
<1>1. ASSUME IInv, [Next]_vars
      PROVE  overran = {} /\ row.status = "SUCCEEDED" => row'.status = "SUCCEEDED"
  <2> SUFFICES ASSUME overran = {}, row.status = "SUCCEEDED" PROVE row'.status = "SUCCEEDED"
    OBVIOUS
  <2>1. \A r \in Runner : pc[r] \notin Working /\ ~Reclaimable(r)
    BY <1>1 DEF IInv, HolderOK, Reclaimable
  <2>2. ASSUME NEW r \in Runner, Step(r) PROVE row' = row
    BY <2>1, <2>2 DEF Step, CheckSchedule, MarkSkipped, Begin, Insert, Read, Reclaim, Work, Finish, Working
  <2>3. CASE UNCHANGED row
    BY <2>3
  <2> QED BY <1>1, <2>2, <2>3 DEF Next, Fault, Retune, Advance, Crash, vars
<1> QED BY <1>1, Inductive, PTL DEF Spec, SucceededHolds
-----------------------------------------------------------------------------
(* The lease implements its promise: every step is one of PeriodLease's, or *)
(* leaves alone whose turn it is, what has ended and whether it is closed.  *)
Inside == {r \in Runner : pc[r] \in Working}

LEMMA PromiseVars ==
  ASSUME UNCHANGED <<Inside, ran, row, overran>>
  PROVE  UNCHANGED Promise!vars
BY DEF Inside, Promise!vars

(* Nobody can be inside but the runner that takes the next step in there.   *)
LEMMA Alone ==
  ASSUME IInv, overran = {}, NEW r \in Runner, pc[r] \in Working
  PROVE  Inside = {r} /\ row.status = "RUNNING"
BY DEF IInv, HolderOK, Inside

LEMMA EnterStep ==
  ASSUME IInv, overran = {}, NEW r \in Runner, Insert(r) \/ Reclaim(r)
  PROVE  [Promise!Next]_Promise!vars
<1> USE DEF IInv, TypeOK
<1>1. UNCHANGED <<ran, overran>>
  BY DEF Insert, Reclaim
<1>2. CASE Acquire(r)
  <2>1. Inside = {}
    BY <1>2, TakenRowIsFree DEF Insert, Reclaim, Inside, Goto, Acquire, Working
  <2>2. row.status # "SUCCEEDED" /\ row'.status # "SUCCEEDED"
    BY <1>2 DEF Insert, Reclaim, Acquire, Reclaimable
  <2>3. Inside' = {r}
    BY <1>2, <2>1 DEF Inside, Acquire, Goto, Working
  <2>4. Promise!Enter(r)
    BY <1>1, <2>1, <2>2, <2>3 DEF Promise!Enter, Inside
  <2> QED BY <2>4 DEF Promise!Next
<1>3. CASE ~Acquire(r)
  <2>1. UNCHANGED row /\ pc[r] \notin Working /\ (Goto(r, "read") \/ Goto(r, "done"))
    BY <1>3 DEF Insert, Reclaim, Working
  <2>2. UNCHANGED Inside
    BY <2>1 DEF Inside, Goto, Working
  <2> QED BY <1>1, <2>1, <2>2, PromiseVars
<1> QED BY <1>2, <1>3

LEMMA WorkStep ==
  ASSUME IInv, overran = {}, NEW r \in Runner, Work(r)
  PROVE  [Promise!Next]_Promise!vars
<1> USE DEF IInv, TypeOK
<1>1. Inside = {r} /\ Inside' = Inside /\ UNCHANGED <<row, overran>>
  BY Alone DEF Work, Goto, Inside, Working
<1>2. CASE ran' = ran \union {r}
  <2>1. Promise!EndWell(r)
    BY <1>1, <1>2 DEF Promise!EndWell, Inside
  <2> QED BY <2>1 DEF Promise!Next
<1>3. CASE UNCHANGED ran
  BY <1>1, <1>3, PromiseVars
<1> QED BY <1>2, <1>3 DEF Work

LEMMA FinishStep ==
  ASSUME IInv, overran = {}, NEW r \in Runner, Finish(r)
  PROVE  [Promise!Next]_Promise!vars
<1> USE DEF IInv, TypeOK
<1>1. Inside = {r} /\ row.status = "RUNNING" /\ UNCHANGED <<ran, overran>>
  BY Alone DEF Finish, Working
<1>2. Inside' = {}
  BY <1>1 DEF Finish, Goto, Inside, Working
<1>3. row'.status = Outcome(r)
  BY DEF Finish, Row
<1>4. CASE pc[r] = "succeeded"
  <2>1. r \in ran /\ row'.status = "SUCCEEDED"
    BY <1>3, <1>4 DEF EarnedOK, Outcome
  <2>2. Promise!Close(r)
    BY <1>1, <1>2, <2>1 DEF Promise!Close, Inside
  <2> QED BY <2>2 DEF Promise!Next
<1>5. CASE pc[r] # "succeeded"
  <2>1. row'.status = "FAILED"
    BY <1>3, <1>5 DEF Outcome
  <2>2. Promise!Leave
    BY <1>1, <1>2, <2>1 DEF Promise!Leave, Inside
  <2> QED BY <2>2 DEF Promise!Next
<1> QED BY <1>4, <1>5

(* A fault or a crash takes the turn of the one who has it, or nobody's.    *)
LEMMA LeaveStep ==
  ASSUME IInv, overran = {}, UNCHANGED <<row, ran, overran>>, Inside' \subseteq Inside
  PROVE  [Promise!Next]_Promise!vars
<1>1. CASE Inside' = Inside
  BY <1>1, PromiseVars
<1>2. CASE Inside' # Inside
  <2>1. PICK r \in Inside : TRUE
    BY <1>2
  <2>2. Inside = {r}
    BY <2>1, Alone DEF Inside
  <2>3. Inside' = {}
    BY <1>2, <2>2
  <2>4. Promise!Leave
    BY <2>3 DEF Promise!Leave, Inside
  <2> QED BY <2>4 DEF Promise!Next
<1> QED BY <1>1, <1>2

LEMMA ExcusedStep ==
  ASSUME IInv, IInv', [Next]_vars, overran # {}
  PROVE  [Promise!Next]_Promise!vars
<1>1. ran \subseteq ran' /\ overran \subseteq overran'
  BY DEF Next, Step, CheckSchedule, MarkSkipped, Begin, Insert, Read, Reclaim, Work, Finish, Fault,
         Retune, Advance, Crash, vars
<1>2. row'.status = "SUCCEEDED" => row.status = "SUCCEEDED" \/ ran # {}
  <2>1. CASE \E r \in Runner : Work(r)
    BY <2>1 DEF Work
  <2>2. CASE ~ \E r \in Runner : Work(r)
    <3>1. UNCHANGED ran
      BY <2>2 DEF Next, Step, CheckSchedule, MarkSkipped, Begin, Insert, Read, Reclaim, Finish, Fault,
                  Retune, Advance, Crash, vars
    <3> QED BY <3>1 DEF IInv, EarnedOK
  <2> QED BY <2>1, <2>2
<1>3. Promise!Excused
  BY <1>1, <1>2 DEF Promise!Excused
<1> QED BY <1>3 DEF Promise!Next

LEMMA PromiseNext == IInv /\ IInv' /\ [Next]_vars => [Promise!Next]_Promise!vars
<1> SUFFICES ASSUME IInv, IInv', [Next]_vars PROVE [Promise!Next]_Promise!vars
  OBVIOUS
<1>1. CASE overran # {}
  BY <1>1, ExcusedStep
<1>2. CASE overran = {}
  <2> USE <1>2 DEF IInv, TypeOK
  <2>1. ASSUME NEW r \in Runner, CheckSchedule(r) \/ Begin(r) \/ Read(r) \/ MarkSkipped(r)
        PROVE  [Promise!Next]_Promise!vars
    <3>1. UNCHANGED <<Inside, ran, overran>>
      BY <2>1 DEF CheckSchedule, Begin, Read, MarkSkipped, Goto, Inside, Working
    <3>2. row'.status = "SUCCEEDED" <=> row.status = "SUCCEEDED"
      BY <2>1 DEF CheckSchedule, Begin, Read, MarkSkipped
    <3> QED BY <3>1, <3>2 DEF Promise!vars, Inside
  <2>2. ASSUME NEW r \in Runner, Fault(r) PROVE [Promise!Next]_Promise!vars
    <3>1. UNCHANGED <<row, ran, overran>> /\ Inside' \subseteq Inside
      BY <2>2 DEF Fault, Goto, Inside, Working
    <3> QED BY <3>1, LeaveStep
  <2>3. ASSUME NEW p \in Pod, Crash(p) PROVE [Promise!Next]_Promise!vars
    <3>1. UNCHANGED <<row, ran, overran>> /\ Inside' \subseteq Inside
      BY <2>3 DEF Crash, Inside, Working
    <3> QED BY <3>1, LeaveStep
  <2>4. CASE Advance
    <3>1. UNCHANGED <<Inside, row, ran>>
      BY <2>4 DEF Advance, Inside
    <3>2. CASE overran' = {}
      BY <3>1, <3>2, PromiseVars
    <3>3. CASE overran' # {}
      <4>1. Promise!Excuse
        BY <3>1, <3>3 DEF Promise!Excuse, Inside
      <4> QED BY <4>1 DEF Promise!Next
    <3> QED BY <3>2, <3>3
  <2>5. CASE Retune \/ UNCHANGED vars
    <3>1. UNCHANGED <<Inside, ran, row, overran>>
      BY <2>5 DEF Retune, vars, Inside
    <3> QED BY <3>1, PromiseVars
  <2> QED
    BY <2>1, <2>2, <2>3, <2>4, <2>5, EnterStep, WorkStep, FinishStep DEF Next, Step
<1> QED BY <1>1, <1>2

LEMMA PromiseInit == Init => Promise!Init
BY DEF Init, Promise!Init, Working

(* The row, its conditional updates and the threshold implement the lease,  *)
(* for any number of ticks, manual runs, processes, faults and crashes.     *)
THEOREM ImplementsLease == Spec => KeepsItsPromise
<1>1. Spec => []IInv
  BY Inductive
<1>2. Spec => Promise!Init
  BY PromiseInit DEF Spec
<1>3. [][Next]_vars /\ []IInv => [][Promise!Next]_(Promise!vars)
  BY PromiseNext, PTL
<1> QED BY <1>1, <1>2, <1>3, PTL DEF Spec, KeepsItsPromise, Promise!Spec
=============================================================================
