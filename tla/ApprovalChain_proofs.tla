------------------------ MODULE ApprovalChain_proofs ------------------------
(***************************************************************************)
(* Theorems about ApprovalChain for any steps, orders, modes and number of *)
(* overlapping commands and failures. Inductive invariants carry them:     *)
(* OrderInv (approvals in turn), ReplayInv and AnswerInv (the gated        *)
(* command waits for every approval and is answered), FinalInv (what a     *)
(* command at work alone leaves behind: decisions are final, and one can   *)
(* still be made), and OnceInv (one replay), with which they show that the *)
(* workflow implements StagedApproval.                                     *)
(***************************************************************************)
EXTENDS ApprovalChain, TLAPS, WellFoundedInduction

-----------------------------------------------------------------------------
(* What the four commands have in common *)

Undecided(chain, u) == chain[u] \notin {"none", "APPROVED"}

(* A decision on an active chain: st, chain and next are what it makes of   *)
(* the status, of the states and of the way on.                             *)
Decision(r, st, chain, next) ==
    /\ pc[r] = "steps" /\ copy[r].status = "IN_PROGRESS"
    /\ Decide(r, st, chain, next)
    /\ chain \in [Step -> StepState]
    /\ st \in {"IN_PROGRESS", "APPROVED", "REJECTED"}
    /\ next \in {"replay", "log", "done"}
    /\ \A u \in Step : chain[u] = "none" <=> state[u] = "none"
    /\ \A u \in Step : chain[u] = "APPROVED" =>
          state[u] = "APPROVED" \/ (state[u] # "none" /\ Actionable(state, u))
    /\ st = "APPROVED" <=> next = "replay"
    /\ st = "APPROVED" =>
          /\ \A u \in Step : chain[u] \in {"none", "APPROVED"}
          /\ \E s \in Step : \A u \in Step \ {s} : chain[u] = state[u]
    /\ st = "REJECTED" => \A u \in Step : chain[u] = "APPROVED" => state[u] = "APPROVED"
    /\ \A u \in Step : chain[u] = "REJECTED" => state[u] = "REJECTED" \/ st = "REJECTED"
    /\ st = "IN_PROGRESS" => chain = state \/ \E u \in Step : Undecided(state, u) /\ Undecided(chain, u)

LEMMA EveryDecision ==
  ASSUME TypeOK, NEW r \in Request,
         ApproveStep(r) \/ RejectStep(r) \/ DelegateStep(r) \/ EscalateOverdue(r)
  PROVE  \E st, chain, next : Decision(r, st, chain, next)
<1>1. ASSUME Ready(r) PROVE pc[r] = "steps" /\ copy[r].status = "IN_PROGRESS"
  BY <1>1 DEF Ready, Active
<1>2. CASE ApproveStep(r)
  <2> DEFINE chain(s) == [state EXCEPT ![s] = "APPROVED"]
             st(s)    == Advance(copy[r].status, chain(s))
             next(s)  == IF st(s) = "APPROVED" THEN "replay" ELSE "done"
  <2>1. PICK s \in Step : /\ state[s] \in Open /\ Actionable(state, s)
                          /\ Decide(r, st(s), chain(s), next(s))
    BY <1>2 DEF ApproveStep, Rows
  <2>2. Ready(r)
    BY <1>2 DEF ApproveStep
  <2>3. chain(s) \in [Step -> StepState] /\ (\A u \in Step \ {s} : chain(s)[u] = state[u])
        /\ chain(s)[s] = "APPROVED"
    BY DEF TypeOK, StepState
  <2>4. /\ st(s) \in {"IN_PROGRESS", "APPROVED", "REJECTED"}
        /\ st(s) = "APPROVED" => \A u \in Step : chain(s)[u] \in {"none", "APPROVED"}
        /\ st(s) = "IN_PROGRESS" => \E u \in Step : Undecided(chain(s), u)
    BY <1>1, <2>2 DEF Advance, Rows, Undecided
  <2>5. next(s) \in {"replay", "log", "done"} /\ (st(s) = "APPROVED" <=> next(s) = "replay")
    OBVIOUS
  <2> HIDE DEF chain, st, next
  <2>6. state[s] # "none"
    BY <2>1 DEF Open
  <2>7. \A u \in Step : Undecided(chain(s), u) => Undecided(state, u)
    BY <2>3 DEF Undecided
  <2>8. st(s) # "REJECTED"
    BY <1>1, <2>2 DEF Advance, st
  <2> QED BY <1>1, <2>1, <2>2, <2>3, <2>4, <2>5, <2>6, <2>7, <2>8 DEF Decision
<1>3. CASE RejectStep(r)
  <2> DEFINE chain(s) == [state EXCEPT ![s] = "REJECTED"]
  <2>1. PICK s \in Step : state[s] \in Open /\ Decide(r, "REJECTED", chain(s), "done")
    BY <1>3 DEF RejectStep, Rows
  <2>2. Ready(r)
    BY <1>3 DEF RejectStep
  <2>3. chain(s) \in [Step -> StepState] /\ (\A u \in Step \ {s} : chain(s)[u] = state[u])
        /\ chain(s)[s] = "REJECTED"
    BY DEF TypeOK, StepState
  <2> HIDE DEF chain
  <2>4. state[s] # "none"
    BY <2>1 DEF Open
  <2> QED BY <1>1, <2>1, <2>2, <2>3, <2>4 DEF Decision
<1>4. CASE DelegateStep(r)
  <2> DEFINE chain(s) == [state EXCEPT ![s] = "DELEGATED"]
  <2>1. PICK s \in Step : /\ state[s] \in {"PENDING", "DELEGATED"}
                          /\ Decide(r, copy[r].status, chain(s), "log")
    BY <1>4 DEF DelegateStep, Rows
  <2>2. Ready(r)
    BY <1>4 DEF DelegateStep
  <2>3. chain(s) \in [Step -> StepState] /\ (\A u \in Step \ {s} : chain(s)[u] = state[u])
        /\ chain(s)[s] = "DELEGATED"
    BY DEF TypeOK, StepState
  <2> HIDE DEF chain
  <2>4. Undecided(state, s) /\ Undecided(chain(s), s)
    BY <2>1, <2>3 DEF Undecided
  <2> QED BY <1>1, <2>1, <2>2, <2>3, <2>4 DEF Decision
<1>5. CASE EscalateOverdue(r)
  <2> DEFINE taken(due) == {s \in due : state[s] \in {"PENDING", "DELEGATED"} /\ Actionable(state, s)}
             chain(due) == [s \in Step |-> IF s \in taken(due) THEN "ESCALATED" ELSE state[s]]
             next(due)  == IF taken(due) = {} THEN "done" ELSE "log"
  <2>1. PICK due \in SUBSET Tiered : Decide(r, copy[r].status, chain(due), next(due))
    BY <1>5 DEF EscalateOverdue
  <2>2. Ready(r)
    BY <1>5 DEF EscalateOverdue
  <2>3. \A u \in taken(due) : state[u] \in {"PENDING", "DELEGATED"}
    OBVIOUS
  <2>4. next(due) \in {"done", "log"}
    OBVIOUS
  <2> HIDE DEF taken, next
  <2>5. \A u \in Step : chain(due)[u] = IF u \in taken(due) THEN "ESCALATED" ELSE state[u]
    OBVIOUS
  <2>6. chain(due) \in [Step -> StepState]
    BY DEF TypeOK, StepState
  <2>7. ASSUME taken(due) = {} PROVE chain(due) = state
    BY <2>5, <2>6, <2>7 DEF TypeOK
  <2>8. ASSUME taken(due) # {} PROVE \E u \in Step : Undecided(state, u) /\ Undecided(chain(due), u)
    <3>1. PICK u \in taken(due) : TRUE
      BY <2>8
    <3>2. u \in Step
      BY StepAssumption DEF taken
    <3> QED BY <3>1, <3>2, <2>3, <2>5 DEF Undecided
  <2> HIDE DEF chain
  <2> QED BY <1>1, <2>1, <2>2, <2>3, <2>4, <2>5, <2>6, <2>7, <2>8 DEF Decision
<1> QED BY <1>2, <1>3, <1>4, <1>5

(* A step is one of these.                                                  *)
LEMMA Steps ==
  ASSUME TypeOK, [Next]_vars
  PROVE  \/ \E r \in Request : LoadChain(r)
         \/ \E r \in Request : \E st, chain, next : Decision(r, st, chain, next)
         \/ \E r \in Request : Refuse(r) \/ Log(r)
         \/ \E r \in Request : ReplayApprovedCommand(r)
         \/ \E r \in Request : Execute(r)
         \/ \E r \in Thread : SaveChain(r)
         \/ \E r \in Thread : SaveStep(r)
         \/ \E r \in Thread : Fail(r)
         \/ UNCHANGED vars
<1>1. ASSUME NEW r \in Request, ApproveStep(r) \/ RejectStep(r) \/ DelegateStep(r) \/ EscalateOverdue(r)
      PROVE  \E q \in Request : \E st, chain, next : Decision(q, st, chain, next)
  BY <1>1, EveryDecision
<1> QED BY <1>1 DEF Next

-----------------------------------------------------------------------------
(* Type correctness *)

LEMMA QuitType ==
  ASSUME TypeOK, NEW r \in Thread, Quit(r)
  PROVE  /\ pc' \in [Thread -> Label]
         /\ copy' \in [Thread -> [status : ChainStatus, state : [Step -> StepState]]]
         /\ todo' \in [Thread -> SUBSET Step]
         /\ after' \in [Thread -> {"replay", "log", "done"}]
  BY DEF Quit, Goto, TypeOK, Label, Blank, ChainStatus, StepState

LEMMA AllSavedType ==
  ASSUME TypeOK, NEW r \in Thread, AllSaved(r)
  PROVE  /\ pc' \in [Thread -> Label]
         /\ copy' \in [Thread -> [status : ChainStatus, state : [Step -> StepState]]]
         /\ todo' \in [Thread -> SUBSET Step]
         /\ after' \in [Thread -> {"replay", "log", "done"}]
<1>1. CASE after[r] = "done"
  BY <1>1, QuitType DEF AllSaved
<1>2. CASE after[r] # "done"
  BY <1>2 DEF AllSaved, Goto, TypeOK, Label
<1> QED BY <1>1, <1>2

LEMMA DecideType ==
  ASSUME TypeOK, NEW r \in Thread, NEW st \in ChainStatus, NEW chain \in [Step -> StepState],
         NEW next \in {"replay", "log", "done"}, Decide(r, st, chain, next)
  PROVE  TypeOK'
  BY DEF Decide, Goto, Rows, rows, TypeOK, Label

LEMMA TypeInit == Init => TypeOK
<1> SUFFICES ASSUME Init PROVE TypeOK
  OBVIOUS
<1>1. New \in [status : ChainStatus, state : [Step -> StepState]]
  BY DEF New, ChainStatus, StepState
<1>2. Blank \in [status : ChainStatus, state : [Step -> StepState]]
  BY DEF Blank, ChainStatus, StepState
<1>3. copy \in [Thread -> [status : ChainStatus, state : [Step -> StepState]]]
  BY <1>1, <1>2 DEF Init
<1> QED BY <1>3 DEF Init, TypeOK, ChainStatus, StepState, Label

LEMMA TypeNext == TypeOK /\ [Next]_vars => TypeOK'
<1> SUFFICES ASSUME TypeOK, [Next]_vars PROVE TypeOK'
  OBVIOUS
<1>1. ASSUME NEW r \in Request, LoadChain(r) PROVE TypeOK'
  BY <1>1 DEF LoadChain, InProgress, Goto, rows, TypeOK, Label, Thread
<1>2. ASSUME NEW r \in Request, NEW st, NEW chain, NEW next, Decision(r, st, chain, next) PROVE TypeOK'
  BY <1>2, DecideType DEF Decision, ChainStatus, Thread
<1>3. ASSUME NEW r \in Request, Refuse(r) PROVE TypeOK'
  BY <1>3, QuitType DEF Refuse, rows, history, TypeOK, Thread
<1>4. ASSUME NEW r \in Request, Log(r) PROVE TypeOK'
  BY <1>4, QuitType DEF Log, rows, history, TypeOK, Thread
<1>5. ASSUME NEW r \in Request, ReplayApprovedCommand(r) PROVE TypeOK'
  <2>1. CASE cached = "none"
    BY <1>5, <2>1 DEF ReplayApprovedCommand, Goto, rows, history, TypeOK, Label, Thread
  <2>2. CASE cached # "none"
    BY <1>5, <2>2, QuitType DEF ReplayApprovedCommand, rows, history, TypeOK, Thread
  <2> QED BY <2>1, <2>2
<1>6. ASSUME NEW r \in Request, Execute(r) PROVE TypeOK'
  BY <1>6, QuitType DEF Execute, rows, history, TypeOK, Thread
<1>7. ASSUME NEW r \in Thread, SaveChain(r) PROVE TypeOK'
  <2>1. /\ pc' \in [Thread -> Label]
        /\ copy' \in [Thread -> [status : ChainStatus, state : [Step -> StepState]]]
        /\ todo' \in [Thread -> SUBSET Step]
        /\ after' \in [Thread -> {"replay", "log", "done"}]
    BY <1>7, AllSavedType DEF SaveChain, Goto, TypeOK, Label
  <2> QED BY <1>7, <2>1 DEF SaveChain, history, TypeOK
<1>8. ASSUME NEW r \in Thread, SaveStep(r) PROVE TypeOK'
  <2>1. PICK s \in todo[r] :
           /\ state' = [state EXCEPT ![s] = copy[r].state[s]]
           /\ approved' = IF copy[r].state[s] = "APPROVED" THEN approved \union {s} ELSE approved
           /\ \/ todo[r] = {s} /\ AllSaved(r)
              \/ /\ todo[r] # {s}
                 /\ todo' = [todo EXCEPT ![r] = @ \ {s}]
                 /\ UNCHANGED <<pc, copy, after>>
    BY <1>8 DEF SaveStep
  <2>2. s \in Step /\ copy[r].state[s] \in StepState
    BY DEF TypeOK
  <2>3. /\ pc' \in [Thread -> Label]
        /\ copy' \in [Thread -> [status : ChainStatus, state : [Step -> StepState]]]
        /\ todo' \in [Thread -> SUBSET Step]
        /\ after' \in [Thread -> {"replay", "log", "done"}]
    BY <2>1, AllSavedType DEF TypeOK
  <2> QED BY <1>8, <2>1, <2>2, <2>3 DEF SaveStep, TypeOK
<1>9. ASSUME NEW r \in Thread, Fail(r) PROVE TypeOK'
  BY <1>9, QuitType, BoundAssumption DEF Fail, rows, history, TypeOK
<1>10. CASE UNCHANGED vars
  BY <1>10 DEF vars, rows, history, TypeOK
<1> QED
  BY <1>1, <1>2, <1>3, <1>4, <1>5, <1>6, <1>7, <1>8, <1>9, <1>10, Steps

(* Every variable keeps its type: no command makes of the chain, of its     *)
(* rows or of its own copy something the tables do not know.                *)
THEOREM TypeCorrect == Spec => []TypeOK
  BY TypeInit, TypeNext, PTL DEF Spec

-----------------------------------------------------------------------------
(* Approvals in turn *)

(* Every earlier sequential step has been approved. *)
InTurn(u) == u \in Parallel \/ \A t \in Step \ Parallel : Order[t] < Order[u] => t \in approved

(* While the gate is saving, a row that is missing is still to come. *)
GateSaves == pc[Gate] \in {"chain", "rows"} => \A s \in Step : state[s] = "none" => s \in todo[Gate]

(* The rows that are there are the first ones. *)
FirstRows == \A s, t \in Step : Order[t] < Order[s] /\ state[s] # "none" => state[t] # "none"

(* A command saves the rows it has found, and no copy lacks a row to save. *)
FoundRows ==
    /\ \A r \in Request : \A s \in todo[r] : state[s] # "none"
    /\ \A r \in Thread : \A s \in todo[r] : copy[r].state[s] # "none"

(* What a row or a copy calls approved has been, or may be by its turn. *)
TrueRows   == \A u \in Step : state[u] = "APPROVED" => u \in approved
CopyInTurn == \A r \in Thread : \A u \in Step : copy[r].state[u] = "APPROVED" => InTurn(u)

OrderInv == GateSaves /\ FirstRows /\ FoundRows /\ TrueRows /\ CopyInTurn /\ ApprovedInOrder

LEMMA OrderInit == Init => OrderInv
<1> SUFFICES ASSUME Init PROVE OrderInv
  OBVIOUS
<1>1. \A r \in Thread, s \in Step : copy[r].state[s] # "APPROVED" /\ (s \in todo[r] => copy[r].state[s] = "PENDING")
  BY DEF Init, New, Blank
<1>2. Gate \in Thread /\ \A r \in Request : r # Gate
  BY GateAssumption DEF Thread
<1> QED BY <1>1, <1>2 DEF Init, OrderInv, GateSaves, FirstRows, FoundRows, TrueRows, CopyInTurn, ApprovedInOrder, Thread

(* A command that ends takes nothing with it. *)
LEMMA OrderQuit ==
  ASSUME TypeOK, OrderInv, NEW r \in Thread, Quit(r), UNCHANGED <<state, approved>>
  PROVE  OrderInv'
<1>1. /\ pc'[r] = "done" /\ todo'[r] = {} /\ \A s \in Step : copy'[r].state[s] = "none"
      /\ \A q \in Thread \ {r} : pc'[q] = pc[q] /\ todo'[q] = todo[q] /\ copy'[q] = copy[q]
  BY DEF Quit, Goto, Blank, TypeOK
<1>2. Gate \in Thread /\ Request \subseteq Thread
  BY DEF Thread
<1>3. GateSaves' /\ FirstRows' /\ FoundRows' /\ TrueRows'
  BY <1>1, <1>2 DEF OrderInv, GateSaves, FirstRows, FoundRows, TrueRows
<1>4. CopyInTurn' /\ ApprovedInOrder'
  BY <1>1 DEF OrderInv, CopyInTurn, InTurn, ApprovedInOrder
<1> QED BY <1>3, <1>4 DEF OrderInv

(* So does one that goes on, unless it is to save. *)
LEMMA OrderGoto ==
  ASSUME TypeOK, OrderInv, NEW r \in Thread, NEW l, Goto(r, l), l \notin {"chain", "rows"} \/ pc[r] = "chain",
         UNCHANGED <<state, approved, copy>>,
         UNCHANGED todo \/ (todo[r] = {} /\ todo' = [todo EXCEPT ![r] = {}])
  PROVE  OrderInv'
<1>1. UNCHANGED todo /\ \A q \in Thread : pc'[q] \in {"chain", "rows"} => pc[q] \in {"chain", "rows"}
  BY DEF Goto, TypeOK
<1>2. Gate \in Thread
  BY DEF Thread
<1>3. GateSaves' /\ FirstRows' /\ FoundRows' /\ TrueRows'
  BY <1>1, <1>2 DEF OrderInv, GateSaves, FirstRows, FoundRows, TrueRows
<1>4. CopyInTurn' /\ ApprovedInOrder'
  BY DEF OrderInv, CopyInTurn, InTurn, ApprovedInOrder
<1> QED BY <1>3, <1>4 DEF OrderInv

(* An approver finds every earlier row, and every one of them approved. *)
LEMMA OrderDecision ==
  ASSUME TypeOK, OrderInv, NEW r \in Request, NEW st, NEW chain, NEW next, Decision(r, st, chain, next)
  PROVE  OrderInv'
<1>1. /\ copy'[r].state = chain /\ todo'[r] = Rows(state) /\ pc'[r] = "chain" /\ r \in Thread /\ r # Gate
      /\ \A q \in Thread \ {r} : pc'[q] = pc[q] /\ todo'[q] = todo[q] /\ copy'[q] = copy[q]
      /\ UNCHANGED <<state, approved>>
  BY GateAssumption DEF Decision, Decide, Goto, TypeOK, rows, Thread
<1>2. Gate \in Thread /\ Request \subseteq Thread
  BY DEF Thread
<1>3. \A u \in Step : chain[u] = "none" <=> state[u] = "none"
  BY DEF Decision
<1>4. GateSaves' /\ FirstRows' /\ TrueRows'
  BY <1>1, <1>2 DEF OrderInv, GateSaves, FirstRows, TrueRows
<1>5. FoundRows'
  BY <1>1, <1>2, <1>3 DEF OrderInv, FoundRows, Rows
<1>6. \A u \in Step : chain[u] = "APPROVED" => InTurn(u)
  <2> SUFFICES ASSUME NEW u \in Step, chain[u] = "APPROVED" PROVE InTurn(u)
    OBVIOUS
  <2>1. CASE state[u] = "APPROVED"
    BY <2>1 DEF OrderInv, TrueRows, ApprovedInOrder, InTurn
  <2>2. CASE state[u] # "none" /\ Actionable(state, u)
    BY <2>2 DEF OrderInv, TrueRows, FirstRows, Actionable, Rows, InTurn
  <2> QED BY <2>1, <2>2 DEF Decision
<1>7. CopyInTurn' /\ ApprovedInOrder'
  BY <1>1, <1>6 DEF OrderInv, CopyInTurn, InTurn, ApprovedInOrder
<1> QED BY <1>4, <1>5, <1>7 DEF OrderInv

LEMMA OrderSave ==
  ASSUME TypeOK, OrderInv, NEW r \in Thread, SaveStep(r)
  PROVE  OrderInv'
<1>1. PICK s \in todo[r] :
         /\ \A t \in todo[r] : Order[s] <= Order[t]
         /\ state' = [state EXCEPT ![s] = copy[r].state[s]]
         /\ approved' = IF copy[r].state[s] = "APPROVED" THEN approved \union {s} ELSE approved
         /\ \/ todo[r] = {s} /\ AllSaved(r)
            \/ /\ todo[r] # {s}
               /\ todo' = [todo EXCEPT ![r] = @ \ {s}]
               /\ UNCHANGED <<pc, copy, after>>
  BY DEF SaveStep
<1>2. pc[r] = "rows" /\ s \in Step
  BY <1>1 DEF SaveStep, TypeOK
<1>3. /\ \A q \in Thread \ {r} : pc'[q] = pc[q] /\ todo'[q] = todo[q] /\ copy'[q] = copy[q]
      /\ pc'[r] \in {"chain", "rows"} => todo'[r] = todo[r] \ {s}
      /\ todo'[r] \subseteq todo[r] \ {s}
      /\ todo'[r] = {} \/ copy'[r] = copy[r]
      /\ \A u \in Step : copy'[r].state[u] \in {copy[r].state[u], "none"}
  BY <1>1, <1>2 DEF AllSaved, Quit, Goto, Blank, TypeOK
<1>4. /\ state'[s] = copy[r].state[s] /\ state'[s] # "none"
      /\ \A u \in Step \ {s} : state'[u] = state[u]
  BY <1>1, <1>2 DEF OrderInv, FoundRows, TypeOK
<1>5. Gate \in Thread /\ Request \subseteq Thread /\ (r \in Request \/ r = Gate)
  BY DEF Thread
<1>6. GateSaves'
  BY <1>2, <1>3, <1>4, <1>5 DEF OrderInv, GateSaves
<1>7. FirstRows'
  <2> SUFFICES ASSUME NEW u \in Step, NEW t \in Step, Order[t] < Order[u], state'[u] # "none"
               PROVE  state'[t] # "none"
    BY DEF FirstRows
  <2>1. CASE t = s
    BY <2>1, <1>4
  <2>2. CASE t # s /\ u # s
    BY <2>2, <1>4 DEF OrderInv, FirstRows
  <2>3. CASE t # s /\ u = s
    <3>1. CASE r \in Request
      BY <3>1, <2>3, <1>2, <1>4 DEF OrderInv, FirstRows, FoundRows
    <3>2. CASE r = Gate
      <4>1. t \notin todo[Gate]
        BY <3>2, <2>3, <1>1, StepAssumption
      <4> QED BY <4>1, <3>2, <2>3, <1>2, <1>4 DEF OrderInv, GateSaves
    <3> QED BY <3>1, <3>2, <1>5
  <2> QED BY <2>1, <2>2, <2>3
<1>8. FoundRows'
  <2>1. ASSUME NEW q \in Request, NEW u \in todo'[q] PROVE state'[u] # "none"
    <3>1. u \in todo[q]
      BY <2>1, <1>3, <1>5
    <3> QED BY <3>1, <1>4, <1>5 DEF OrderInv, FoundRows, TypeOK
  <2>2. ASSUME NEW q \in Thread, NEW u \in todo'[q] PROVE copy'[q].state[u] # "none"
    <3>1. u \in todo[q] /\ copy'[q] = copy[q]
      BY <2>2, <1>3
    <3> QED BY <3>1 DEF OrderInv, FoundRows
  <2> QED BY <2>1, <2>2 DEF FoundRows
<1>9. TrueRows'
  BY <1>1, <1>4 DEF OrderInv, TrueRows
<1>10. approved \subseteq approved' /\ \A u \in approved' : u \in approved \/ InTurn(u)
  BY <1>1, <1>2 DEF OrderInv, CopyInTurn
<1>11. CopyInTurn'
  BY <1>3, <1>10 DEF OrderInv, CopyInTurn, InTurn
<1>12. ApprovedInOrder'
  <2> SUFFICES ASSUME NEW u \in approved' \ Parallel, NEW t \in Step \ Parallel, Order[t] < Order[u]
               PROVE  t \in approved
    BY <1>10 DEF ApprovedInOrder
  <2> QED BY <1>10 DEF OrderInv, ApprovedInOrder, InTurn
<1> QED BY <1>6, <1>7, <1>8, <1>9, <1>11, <1>12 DEF OrderInv

LEMMA OrderNext == TypeOK /\ OrderInv /\ [Next]_vars => OrderInv'
<1> SUFFICES ASSUME TypeOK, OrderInv, [Next]_vars PROVE OrderInv'
  OBVIOUS
<1> USE DEF rows, history
<1>1. ASSUME NEW r \in Request, LoadChain(r) PROVE OrderInv'
  <2>1. /\ UNCHANGED <<state, todo, approved>> /\ r \in Thread /\ Gate \in Thread /\ r # Gate
        /\ \A q \in Thread : copy'[q].state = copy[q].state /\ (q # r => pc'[q] = pc[q])
    BY <1>1, GateAssumption DEF LoadChain, Goto, TypeOK, Thread
  <2>2. GateSaves' /\ FirstRows' /\ FoundRows' /\ TrueRows'
    BY <2>1 DEF OrderInv, GateSaves, FirstRows, FoundRows, TrueRows
  <2>3. CopyInTurn' /\ ApprovedInOrder'
    BY <2>1 DEF OrderInv, CopyInTurn, InTurn, ApprovedInOrder
  <2> QED BY <2>2, <2>3 DEF OrderInv
<1>2. ASSUME NEW r \in Request, NEW st, NEW chain, NEW next, Decision(r, st, chain, next) PROVE OrderInv'
  BY <1>2, OrderDecision
<1>3. ASSUME NEW r \in Request, Refuse(r) \/ Log(r) \/ Execute(r) PROVE OrderInv'
  BY <1>3, OrderQuit DEF Refuse, Log, Execute, Thread
<1>4. ASSUME NEW r \in Request, ReplayApprovedCommand(r) PROVE OrderInv'
  BY <1>4, OrderQuit, OrderGoto DEF ReplayApprovedCommand, Thread
<1>5. ASSUME NEW r \in Thread, SaveChain(r) PROVE OrderInv'
  <2>1. after[r] \in {"replay", "log", "done"} /\ UNCHANGED <<state, approved>> /\ pc[r] = "chain"
    BY <1>5 DEF SaveChain, TypeOK
  <2>2. CASE todo[r] = {} /\ AllSaved(r)
    BY <2>1, <2>2, OrderQuit, OrderGoto DEF AllSaved
  <2>3. CASE Goto(r, "rows") /\ UNCHANGED <<copy, todo, after>>
    BY <2>1, <2>3, OrderGoto
  <2> QED BY <1>5, <2>2, <2>3 DEF SaveChain
<1>6. ASSUME NEW r \in Thread, SaveStep(r) PROVE OrderInv'
  BY <1>6, OrderSave
<1>7. ASSUME NEW r \in Thread, Fail(r) PROVE OrderInv'
  BY <1>7, OrderQuit DEF Fail
<1>8. CASE UNCHANGED vars
  BY <1>8 DEF vars, OrderInv, GateSaves, FirstRows, FoundRows, TrueRows, CopyInTurn, InTurn, ApprovedInOrder
<1> QED BY <1>1, <1>2, <1>3, <1>4, <1>5, <1>6, <1>7, <1>8, Steps

(* An approval counts only in its turn, whatever stale copies are saved: a  *)
(* sequential step's row is saved as approved only after every earlier      *)
(* sequential step's was.                                                   *)
THEOREM InOrder == Spec => []ApprovedInOrder
<1>1. Init => TypeOK /\ OrderInv
  BY TypeInit, OrderInit
<1>2. TypeOK /\ OrderInv /\ [Next]_vars => (TypeOK /\ OrderInv)'
  BY TypeNext, OrderNext
<1>3. OrderInv => ApprovedInOrder
  BY DEF OrderInv
<1> QED BY <1>1, <1>2, <1>3, PTL DEF Spec

-----------------------------------------------------------------------------
(* The gated command waits for every approval *)

Saving(r)  == pc[r] \in {"chain", "rows"}
Holding(r) == pc[r] \in {"replay", "execute"}

(* A copy that will be replayed approves every step, and so does the table  *)
(* once it is saved.                                                        *)
ReplayInv ==
    /\ \A r \in Thread : Saving(r) /\ after[r] = "replay" =>
          early \/ \A u \in Step : copy[r].state[u] = "APPROVED" /\ u \in approved \union todo[r]
    /\ \A r \in Thread : Holding(r) => early \/ approved = Step
    /\ AppliedAfterApproval

LEMMA ReplayInit == Init => ReplayInv
  BY DEF Init, ReplayInv, Saving, Holding, AppliedAfterApproval

LEMMA ReplayQuit ==
  ASSUME TypeOK, ReplayInv, NEW r \in Thread, Quit(r), UNCHANGED <<approved, early>>,
         applied' = applied \/ (Holding(r) /\ applied' = applied + 1)
  PROVE  ReplayInv'
<1>1. pc'[r] = "done" /\ \A q \in Thread \ {r} :
         pc'[q] = pc[q] /\ todo'[q] = todo[q] /\ copy'[q] = copy[q] /\ after'[q] = after[q]
  BY DEF Quit, Goto, TypeOK
<1>2. AppliedAfterApproval'
  BY DEF ReplayInv, AppliedAfterApproval
<1> QED BY <1>1, <1>2 DEF ReplayInv, Saving, Holding

(* Saved in full: what comes next is the replay only if everything is       *)
(* approved.                                                                *)
LEMMA ReplaySaved ==
  ASSUME TypeOK, TypeOK', ReplayInv, NEW r \in Thread, AllSaved(r), approved \subseteq approved',
         UNCHANGED <<applied, early>>, Saving(r),
         after[r] = "replay" => early \/ approved' = Step
  PROVE  ReplayInv'
<1>1. \A q \in Thread \ {r} :
         pc'[q] = pc[q] /\ todo'[q] = todo[q] /\ copy'[q] = copy[q] /\ after'[q] = after[q]
  BY DEF AllSaved, Quit, Goto, TypeOK
<1>2. pc'[r] = "done" \/ (pc'[r] = after[r] /\ after[r] \in {"replay", "log"})
  BY DEF AllSaved, Quit, Goto, TypeOK
<1>3. approved' = Step \/ approved # Step
  BY DEF TypeOK
<1>4. AppliedAfterApproval'
  BY <1>3 DEF ReplayInv, AppliedAfterApproval
<1>5. \A q \in Thread : Saving(q)' /\ after'[q] = "replay" =>
         early' \/ \A u \in Step : copy'[q].state[u] = "APPROVED" /\ u \in approved' \union todo'[q]
  BY <1>1, <1>2 DEF ReplayInv, Saving
<1>6. \A q \in Thread : Holding(q)' => early' \/ approved' = Step
  BY <1>1, <1>2, <1>3 DEF ReplayInv, Holding
<1> QED BY <1>4, <1>5, <1>6 DEF ReplayInv

LEMMA ReplayNext == TypeOK /\ ReplayInv /\ [Next]_vars => ReplayInv'
<1> SUFFICES ASSUME TypeOK, ReplayInv, [Next]_vars PROVE ReplayInv'
  OBVIOUS
<1> USE DEF rows, history
<1> TypeOK'
  BY TypeNext
<1>1. ASSUME NEW r \in Request, LoadChain(r) PROVE ReplayInv'
  <2>1. /\ UNCHANGED <<todo, after, approved, early, applied>> /\ pc'[r] = "steps" /\ r \in Thread
        /\ \A q \in Thread \ {r} : copy'[q] = copy[q] /\ pc'[q] = pc[q]
    BY <1>1 DEF LoadChain, Goto, TypeOK, Thread
  <2> QED BY <2>1 DEF ReplayInv, Saving, Holding, AppliedAfterApproval
<1>2. ASSUME NEW r \in Request, NEW st, NEW chain, NEW next, Decision(r, st, chain, next) PROVE ReplayInv'
  <2>1. /\ copy'[r].state = chain /\ todo'[r] = Rows(state) /\ pc'[r] = "chain" /\ r \in Thread
        /\ after'[r] = next /\ UNCHANGED <<approved, applied>> /\ early' = (early \/ Rows(state) # Step)
        /\ \A q \in Thread \ {r} :
              pc'[q] = pc[q] /\ todo'[q] = todo[q] /\ copy'[q] = copy[q] /\ after'[q] = after[q]
    BY <1>2 DEF Decision, Decide, Goto, TypeOK, Thread
  <2>2. next = "replay" => early' \/ \A u \in Step : chain[u] = "APPROVED" /\ u \in Rows(state)
    BY <1>2, <2>1 DEF Decision, Rows
  <2>3. AppliedAfterApproval'
    BY <2>1 DEF ReplayInv, AppliedAfterApproval
  <2>4. \A q \in Thread : Holding(q)' => early' \/ approved' = Step
    BY <2>1 DEF ReplayInv, Holding
  <2>5. \A q \in Thread : Saving(q)' /\ after'[q] = "replay" =>
           early' \/ \A u \in Step : copy'[q].state[u] = "APPROVED" /\ u \in approved' \union todo'[q]
    <3> SUFFICES ASSUME NEW q \in Thread, Saving(q)', after'[q] = "replay", ~early', NEW u \in Step
                 PROVE  copy'[q].state[u] = "APPROVED" /\ u \in approved' \union todo'[q]
      OBVIOUS
    <3>1. CASE q = r
      BY <2>1, <2>2, <3>1
    <3>2. CASE q # r
      BY <2>1, <3>2 DEF ReplayInv, Saving
    <3> QED BY <3>1, <3>2
  <2> QED BY <2>3, <2>4, <2>5 DEF ReplayInv
<1>3. ASSUME NEW r \in Request, Refuse(r) \/ Log(r) PROVE ReplayInv'
  BY <1>3, ReplayQuit DEF Refuse, Log, Thread
<1>4. ASSUME NEW r \in Request, ReplayApprovedCommand(r) PROVE ReplayInv'
  <2>1. CASE Quit(r)
    BY <1>4, <2>1, ReplayQuit DEF ReplayApprovedCommand, Thread
  <2>2. CASE Goto(r, "execute") /\ UNCHANGED <<copy, todo, after>>
    <3>1. /\ Holding(r) /\ pc'[r] = "execute" /\ UNCHANGED <<applied, approved, early>>
          /\ \A q \in Thread \ {r} : pc'[q] = pc[q]
      BY <1>4, <2>2 DEF ReplayApprovedCommand, Goto, Holding, TypeOK, Thread
    <3> QED BY <2>2, <3>1 DEF ReplayInv, Saving, Holding, AppliedAfterApproval, Thread
  <2> QED BY <1>4, <2>1, <2>2 DEF ReplayApprovedCommand
<1>5. ASSUME NEW r \in Request, Execute(r) PROVE ReplayInv'
  BY <1>5, ReplayQuit DEF Execute, Holding, Thread
<1>6. ASSUME NEW r \in Thread, SaveChain(r) PROVE ReplayInv'
  <2>1. UNCHANGED <<approved, applied, early>> /\ Saving(r)
    BY <1>6 DEF SaveChain, Saving
  <2>2. CASE todo[r] = {} /\ AllSaved(r)
    <3>1. after[r] = "replay" => early \/ approved' = Step
      BY <2>1, <2>2 DEF ReplayInv, TypeOK
    <3> QED BY <2>1, <2>2, <3>1, ReplaySaved
  <2>3. CASE Goto(r, "rows") /\ UNCHANGED <<copy, todo, after>>
    <3>1. pc'[r] = "rows" /\ \A q \in Thread \ {r} : pc'[q] = pc[q]
      BY <2>3 DEF Goto, TypeOK
    <3> QED BY <2>1, <2>3, <3>1 DEF ReplayInv, Saving, Holding, AppliedAfterApproval
  <2> QED BY <1>6, <2>2, <2>3 DEF SaveChain
<1>7. ASSUME NEW r \in Thread, SaveStep(r) PROVE ReplayInv'
  <2>1. PICK s \in todo[r] :
           /\ approved' = IF copy[r].state[s] = "APPROVED" THEN approved \union {s} ELSE approved
           /\ \/ todo[r] = {s} /\ AllSaved(r)
              \/ /\ todo[r] # {s}
                 /\ todo' = [todo EXCEPT ![r] = @ \ {s}]
                 /\ UNCHANGED <<pc, copy, after>>
    BY <1>7 DEF SaveStep
  <2>2. Saving(r) /\ UNCHANGED <<applied, early>> /\ approved \subseteq approved' /\ s \in Step
    BY <1>7, <2>1 DEF SaveStep, Saving, TypeOK
  <2>3. CASE todo[r] = {s} /\ AllSaved(r)
    <3>1. after[r] = "replay" => early \/ approved' = Step
      BY <2>1, <2>2, <2>3 DEF ReplayInv, TypeOK
    <3> QED BY <2>2, <2>3, <3>1, ReplaySaved
  <2>4. CASE todo' = [todo EXCEPT ![r] = @ \ {s}] /\ UNCHANGED <<pc, copy, after>>
    <3>1. todo'[r] = todo[r] \ {s} /\ \A q \in Thread \ {r} : todo'[q] = todo[q]
      BY <2>4 DEF TypeOK
    <3>2. \A q \in Thread : Saving(q)' /\ after'[q] = "replay" =>
             early' \/ \A u \in Step : copy'[q].state[u] = "APPROVED" /\ u \in approved' \union todo'[q]
      BY <2>1, <2>2, <2>4, <3>1 DEF ReplayInv, Saving
    <3>3. approved = Step => approved' = Step
      BY <2>2 DEF TypeOK
    <3>4. AppliedAfterApproval' /\ \A q \in Thread : Holding(q)' => early' \/ approved' = Step
      BY <2>2, <2>4, <3>3 DEF ReplayInv, Holding, AppliedAfterApproval
    <3> QED BY <3>2, <3>4 DEF ReplayInv
  <2> QED BY <2>1, <2>3, <2>4
<1>8. ASSUME NEW r \in Thread, Fail(r) PROVE ReplayInv'
  BY <1>8, ReplayQuit DEF Fail
<1>9. CASE UNCHANGED vars
  BY <1>9 DEF vars, ReplayInv, Saving, Holding, AppliedAfterApproval
<1> QED BY <1>1, <1>2, <1>3, <1>4, <1>5, <1>6, <1>7, <1>8, <1>9, Steps

(* The gated command takes effect only after every step of the rule has     *)
(* been approved, unless an approver came upon a chain half saved, whoever  *)
(* else is at work on it.                                                   *)
THEOREM OnlyApprovedIsApplied == Spec => []AppliedAfterApproval
<1>1. Init => TypeOK /\ ReplayInv
  BY TypeInit, ReplayInit
<1>2. TypeOK /\ ReplayInv /\ [Next]_vars => (TypeOK /\ ReplayInv)'
  BY TypeNext, ReplayNext
<1>3. ReplayInv => AppliedAfterApproval
  BY DEF ReplayInv
<1> QED BY <1>1, <1>2, <1>3, PTL DEF Spec

-----------------------------------------------------------------------------
(* An approved chain is answered *)

(* Whoever is about to save a chain as approved will replay its command.    *)
WillReplay == \A r \in Thread : pc[r] = "chain" /\ copy[r].status = "APPROVED" => after[r] = "replay"

(* A command on its way to the cache, or at it. *)
OnItsWay(r) == (Saving(r) /\ after[r] = "replay") \/ Holding(r)

AnswerInv ==
    /\ WillReplay
    /\ status = "APPROVED" => cached # "none" \/ faults > 0 \/ \E r \in Thread : OnItsWay(r)

LEMMA AnswerInit == Init => AnswerInv
<1> SUFFICES ASSUME Init PROVE AnswerInv
  OBVIOUS
<1>1. \A r \in Thread : copy[r].status # "APPROVED"
  BY DEF Init, New, Blank
<1> QED BY <1>1 DEF Init, AnswerInv, WillReplay

LEMMA AnswerQuit ==
  ASSUME TypeOK, AnswerInv, NEW r \in Thread, Quit(r), UNCHANGED status, faults' \in Nat,
         \/ UNCHANGED <<cached, faults>> /\ ~OnItsWay(r)
         \/ cached' # "none" \/ faults' > 0
  PROVE  AnswerInv'
<1>1. pc'[r] = "done" /\ \A q \in Thread \ {r} :
         pc'[q] = pc[q] /\ copy'[q] = copy[q] /\ after'[q] = after[q]
  BY DEF Quit, Goto, TypeOK
<1>2. WillReplay'
  BY <1>1 DEF AnswerInv, WillReplay
<1>3. status' = "APPROVED" => cached' # "none" \/ faults' > 0 \/ \E q \in Thread : OnItsWay(q)'
  BY <1>1 DEF AnswerInv, OnItsWay, Saving, Holding
<1> QED BY <1>2, <1>3 DEF AnswerInv

(* A command that goes on keeps on its way. *)
LEMMA AnswerGoto ==
  ASSUME TypeOK, AnswerInv, NEW r \in Thread,
         pc'[r] # "chain", OnItsWay(r) => OnItsWay(r)',
         \A q \in Thread \ {r} : pc'[q] = pc[q] /\ copy'[q] = copy[q] /\ after'[q] = after[q],
         UNCHANGED <<cached, faults>>,
         status' = "APPROVED" => status = "APPROVED" \/ OnItsWay(r)'
  PROVE  AnswerInv'
<1>1. WillReplay'
  BY DEF AnswerInv, WillReplay
<1>2. status' = "APPROVED" => cached' # "none" \/ faults' > 0 \/ \E q \in Thread : OnItsWay(q)'
  <2> SUFFICES ASSUME status' = "APPROVED", status = "APPROVED", NEW q \in Thread, OnItsWay(q)
               PROVE  OnItsWay(q)'
    BY DEF AnswerInv
  <2> QED BY DEF OnItsWay, Saving, Holding
<1> QED BY <1>1, <1>2 DEF AnswerInv

LEMMA AnswerNext == TypeOK /\ AnswerInv /\ [Next]_vars => AnswerInv'
<1> SUFFICES ASSUME TypeOK, AnswerInv, [Next]_vars PROVE AnswerInv'
  OBVIOUS
<1> USE DEF rows, history
<1> TypeOK'
  BY TypeNext
<1>0. cached' \in {"none", "ok", "error"} /\ faults \in Nat /\ faults' \in Nat
  BY DEF TypeOK
<1>1. ASSUME NEW r \in Request, LoadChain(r) PROVE AnswerInv'
  <2>1. /\ UNCHANGED <<status, after, cached, faults>> /\ pc'[r] = "steps" /\ r \in Thread /\ ~OnItsWay(r)
        /\ \A q \in Thread \ {r} : copy'[q] = copy[q] /\ pc'[q] = pc[q]
    BY <1>1 DEF LoadChain, Goto, OnItsWay, Saving, Holding, TypeOK, Thread
  <2> QED BY <2>1, AnswerGoto
<1>2. ASSUME NEW r \in Request, NEW st, NEW chain, NEW next, Decision(r, st, chain, next) PROVE AnswerInv'
  <2>1. /\ copy'[r].status = st /\ pc'[r] = "chain" /\ r \in Thread /\ after'[r] = next /\ pc[r] = "steps"
        /\ UNCHANGED <<status, cached, faults>> /\ (st = "APPROVED" <=> next = "replay")
        /\ \A q \in Thread \ {r} : pc'[q] = pc[q] /\ copy'[q] = copy[q] /\ after'[q] = after[q]
    BY <1>2 DEF Decision, Decide, Goto, TypeOK, Thread
  <2>2. WillReplay'
    BY <2>1 DEF AnswerInv, WillReplay
  <2>3. \A q \in Thread : OnItsWay(q) => OnItsWay(q)'
    BY <2>1 DEF OnItsWay, Saving, Holding
  <2> QED BY <2>1, <2>2, <2>3 DEF AnswerInv
<1>3. ASSUME NEW r \in Request, Refuse(r) \/ Log(r) PROVE AnswerInv'
  <2>1. ~OnItsWay(r)
    BY <1>3 DEF Refuse, Log, OnItsWay, Saving, Holding
  <2> QED BY <1>0, <1>3, <2>1, AnswerQuit DEF Refuse, Log, Thread
<1>4. ASSUME NEW r \in Request, ReplayApprovedCommand(r) PROVE AnswerInv'
  <2>1. CASE cached # "none" /\ Quit(r)
    BY <1>0, <1>4, <2>1, AnswerQuit DEF ReplayApprovedCommand, Thread
  <2>2. CASE Goto(r, "execute") /\ UNCHANGED <<copy, todo, after>>
    <3>1. /\ pc'[r] = "execute" /\ OnItsWay(r)' /\ UNCHANGED <<status, cached, faults>> /\ r \in Thread
          /\ \A q \in Thread \ {r} : pc'[q] = pc[q]
      BY <1>4, <2>2 DEF ReplayApprovedCommand, Goto, OnItsWay, Holding, TypeOK, Thread
    <3> QED BY <2>2, <3>1, AnswerGoto
  <2> QED BY <1>4, <2>1, <2>2 DEF ReplayApprovedCommand
<1>5. ASSUME NEW r \in Request, Execute(r) PROVE AnswerInv'
  <2>1. cached' # "none" /\ r \in Thread
    BY <1>5 DEF Execute, Thread
  <2> QED BY <1>0, <1>5, <2>1, AnswerQuit DEF Execute
<1>6. ASSUME NEW r \in Thread, AllSaved(r), UNCHANGED <<cached, faults>>, Saving(r),
             status' = status \/ (pc[r] = "chain" /\ status' = copy[r].status)
      PROVE  AnswerInv'
  <2>1. status' = "APPROVED" => status = "APPROVED" \/ after[r] = "replay"
    BY <1>6 DEF AnswerInv, WillReplay
  <2>2. /\ \A q \in Thread \ {r} : pc'[q] = pc[q] /\ copy'[q] = copy[q] /\ after'[q] = after[q]
        /\ pc'[r] \in {"replay", "log", "done"} /\ (after[r] = "replay" => pc'[r] = "replay")
    BY <1>6 DEF AllSaved, Quit, Goto, TypeOK
  <2>3. (after[r] = "replay" => OnItsWay(r)') /\ (OnItsWay(r) => after[r] = "replay")
    BY <1>6, <2>2 DEF OnItsWay, Saving, Holding
  <2> QED BY <1>6, <2>1, <2>2, <2>3, AnswerGoto
<1>7. ASSUME NEW r \in Thread, SaveChain(r) PROVE AnswerInv'
  <2>1. CASE AllSaved(r)
    BY <1>6, <1>7, <2>1 DEF SaveChain, Saving
  <2>2. CASE Goto(r, "rows") /\ UNCHANGED <<copy, todo, after>>
    <3>1. /\ status' = "APPROVED" => after[r] = "replay"
          /\ pc'[r] = "rows" /\ pc[r] = "chain" /\ UNCHANGED <<cached, faults>>
          /\ \A q \in Thread \ {r} : pc'[q] = pc[q]
      BY <1>7, <2>2 DEF SaveChain, AnswerInv, WillReplay, Goto, TypeOK
    <3>2. (OnItsWay(r) <=> after[r] = "replay") /\ (OnItsWay(r)' <=> after[r] = "replay")
      BY <2>2, <3>1 DEF OnItsWay, Saving, Holding
    <3> QED BY <2>2, <3>1, <3>2, AnswerGoto
  <2> QED BY <1>7, <2>1, <2>2 DEF SaveChain
<1>8. ASSUME NEW r \in Thread, SaveStep(r) PROVE AnswerInv'
  <2>1. CASE AllSaved(r)
    BY <1>6, <1>8, <2>1 DEF SaveStep, Saving
  <2>2. CASE UNCHANGED <<pc, copy, after>>
    BY <1>8, <2>2 DEF SaveStep, AnswerInv, WillReplay, OnItsWay, Saving, Holding
  <2> QED BY <1>8, <2>1, <2>2 DEF SaveStep
<1>9. ASSUME NEW r \in Thread, Fail(r) PROVE AnswerInv'
  <2>1. faults' > 0
    BY <1>0, <1>9 DEF Fail
  <2> QED BY <1>0, <1>9, <2>1, AnswerQuit DEF Fail
<1>10. CASE UNCHANGED vars
  BY <1>10 DEF vars, AnswerInv, WillReplay, OnItsWay, Saving, Holding
<1> QED BY <1>1, <1>2, <1>3, <1>4, <1>5, <1>7, <1>8, <1>9, <1>10, Steps

(* An approved chain is not forgotten: when nobody is at work on it any     *)
(* more, the gated command has been executed or refused, unless something   *)
(* failed on the way.                                                       *)
THEOREM Answered == Spec => []ApprovedIsAnswered
<1>1. Init => TypeOK /\ AnswerInv
  BY TypeInit, AnswerInit
<1>2. TypeOK /\ AnswerInv /\ [Next]_vars => (TypeOK /\ AnswerInv)'
  BY TypeNext, AnswerNext
<1>3. AnswerInv => ApprovedIsAnswered
  BY DEF AnswerInv, ApprovedIsAnswered, OnItsWay, Saving, Holding
<1> QED BY <1>1, <1>2, <1>3, PTL DEF Spec

-----------------------------------------------------------------------------
(* Decisions, while commands do not overlap *)

(* The gate comes first, finds nothing and saves rows nobody has touched.   *)
GateFirst ==
    /\ pc[Gate] = "chain" => status = "none" /\ copy[Gate].status = "IN_PROGRESS"
    /\ pc[Gate] = "rows" => status # "none"
    /\ status = "none" => (\A r \in Request : pc[r] = "idle") /\ (\A s \in Step : state[s] = "none")
    /\ \A s \in todo[Gate] : copy[Gate].state[s] = "PENDING" /\ state[s] = "none"
    /\ \A r \in Thread : pc[r] = "chain" => copy[r].status # "none"

(* One command at a time, and it knows the status.                          *)
Alone ==
    /\ \A r, q \in Request : InProgress(r) /\ InProgress(q) => r = q
    /\ \A r \in Request :
          /\ pc[r] \in {"steps", "rows"} => copy[r].status = status
          /\ pc[r] = "chain" => status = "IN_PROGRESS"

(* A step that is still to be decided.                                      *)
Pending ==
    status = "IN_PROGRESS" =>
        /\ \A u \in Step : state[u] # "REJECTED"
        /\ (\A u \in Step : state[u] = "none") \/ \E u \in Step : Undecided(state, u)

(* A copy that leaves the chain in progress leaves it such a step, whatever *)
(* rows of it are saved.                                                    *)
StillPending ==
    \A r \in Request : Saving(r) /\ copy[r].status = "IN_PROGRESS" =>
        /\ \A u \in Step : copy[r].state[u] # "REJECTED"
        /\ todo[r] = {} \/ \E u \in Step : Undecided(state, u) /\ Undecided(copy[r].state, u)

FinalInv == GateFirst /\ (overlapped \/ (Alone /\ Pending /\ StillPending))

LEMMA FinalInit == Init => FinalInv
<1> SUFFICES ASSUME Init PROVE FinalInv
  OBVIOUS
<1>1. /\ copy[Gate] = New /\ pc[Gate] = "chain"
      /\ \A r \in Request : pc[r] = "idle"
      /\ \A r \in Thread : pc[r] = "chain" => copy[r] = New
  BY GateAssumption DEF Init, Thread
<1>2. New.status = "IN_PROGRESS" /\ \A s \in Step : New.state[s] = "PENDING" /\ state[s] = "none"
  BY DEF Init, New
<1>3. status = "none" /\ todo[Gate] = Step
  BY DEF Init, Thread
<1>4. GateFirst
  BY <1>1, <1>2, <1>3 DEF GateFirst
<1>5. Alone /\ Pending /\ StillPending
  BY <1>1 DEF Init, Alone, Pending, StillPending, InProgress, Saving
<1> QED BY <1>4, <1>5 DEF FinalInv

(* What a step does to a thread that is not its own, in a few words.        *)
Else(r) == \A q \in Thread \ {r} : pc'[q] = pc[q] /\ copy'[q] = copy[q] /\ todo'[q] = todo[q]

(* A thread whose rows are saved, or that has none to save.                 *)
LEMMA FinalRest ==
  ASSUME TypeOK, FinalInv, NEW r \in Thread, Else(r), pc[r] # "idle",
         pc'[r] \in {"replay", "execute", "log", "done"}, UNCHANGED <<rows, overlapped>>,
         todo'[r] = {} \/ (todo'[r] = todo[r] /\ copy'[r] = copy[r])
  PROVE  FinalInv'
<1> USE DEF Else, rows
<1>1. Gate \in Thread /\ Request \subseteq Thread
  BY DEF Thread
<1>2. GateFirst'
  <2>1. \A s \in todo'[Gate] : copy'[Gate].state[s] = "PENDING" /\ state'[s] = "none"
    BY <1>1 DEF FinalInv, GateFirst
  <2>2. status = "none" => \A q \in Request : pc'[q] = "idle"
    BY <1>1 DEF FinalInv, GateFirst
  <2> QED BY <1>1, <2>1, <2>2 DEF FinalInv, GateFirst
<1>3. Alone => Alone'
  BY <1>1 DEF Alone, InProgress
<1>4. Pending => Pending'
  BY DEF Pending, Undecided
<1>5. StillPending => StillPending'
  BY <1>1 DEF StillPending, Saving, Undecided
<1> QED BY <1>2, <1>3, <1>4, <1>5 DEF FinalInv

LEMMA FinalLoad ==
  ASSUME TypeOK, FinalInv, NEW r \in Request, LoadChain(r)
  PROVE  FinalInv'
<1>1. /\ status # "none" /\ pc'[r] = "steps" /\ copy'[r].status = status /\ r \in Thread /\ r # Gate
      /\ Gate \in Thread /\ Request \subseteq Thread /\ Else(r) /\ UNCHANGED <<rows, todo>>
      /\ overlapped' = (overlapped \/ \E q \in Request \ {r} : InProgress(q))
  BY GateAssumption DEF LoadChain, Goto, Else, TypeOK, Thread
<1> USE DEF Else, rows
<1>2. GateFirst'
  BY <1>1 DEF FinalInv, GateFirst
<1>3. Alone /\ ~overlapped' => Alone'
  BY <1>1 DEF Alone, InProgress
<1>4. Pending => Pending'
  BY <1>1 DEF Pending, Undecided
<1>5. StillPending => StillPending'
  BY <1>1 DEF StillPending, Saving, Undecided
<1> QED BY <1>1, <1>2, <1>3, <1>4, <1>5 DEF FinalInv

LEMMA FinalDecision ==
  ASSUME TypeOK, FinalInv, NEW r \in Request, NEW st, NEW chain, NEW next, Decision(r, st, chain, next)
  PROVE  FinalInv'
<1>1. /\ pc[r] = "steps" /\ pc'[r] = "chain" /\ copy[r].status = "IN_PROGRESS" /\ todo'[r] = Rows(state)
      /\ copy'[r].status = st /\ copy'[r].state = chain /\ r \in Thread /\ r # Gate /\ Gate \in Thread
      /\ Request \subseteq Thread /\ Else(r) /\ UNCHANGED <<rows, overlapped>>
  BY GateAssumption DEF Decision, Decide, Goto, Else, TypeOK, Thread
<1> USE DEF Else, rows
<1>2. /\ st # "none"
      /\ \A u \in Step : chain[u] = "REJECTED" => state[u] = "REJECTED" \/ st = "REJECTED"
      /\ st = "IN_PROGRESS" => chain = state \/ \E u \in Step : Undecided(state, u) /\ Undecided(chain, u)
  BY DEF Decision
<1>3. GateFirst'
  BY <1>1, <1>2 DEF FinalInv, GateFirst
<1>4. Alone => Alone' /\ status = "IN_PROGRESS"
  BY <1>1 DEF Alone, InProgress
<1>5. Pending => Pending'
  BY <1>1 DEF Pending, Undecided
<1>6. ASSUME Alone, Pending, StillPending PROVE StillPending'
  <2> SUFFICES ASSUME NEW q \in Request, Saving(q)', copy'[q].status = "IN_PROGRESS"
               PROVE  /\ \A u \in Step : copy'[q].state[u] # "REJECTED"
                      /\ todo'[q] = {} \/ \E u \in Step : Undecided(state', u) /\ Undecided(copy'[q].state, u)
    BY DEF StillPending, Undecided
  <2>1. CASE q # r
    BY <2>1, <1>1, <1>6 DEF StillPending, Saving, Undecided
  <2>2. CASE q = r
    <3>1. \A u \in Step : chain[u] # "REJECTED"
      BY <2>2, <1>1, <1>2, <1>4, <1>6 DEF Pending
    <3>2. Rows(state) = {} \/ \E u \in Step : Undecided(state, u)
      BY <1>4, <1>6 DEF Pending, Rows
    <3> QED BY <2>2, <3>1, <3>2, <1>1, <1>2
  <2> QED BY <2>1, <2>2
<1> QED BY <1>1, <1>3, <1>4, <1>5, <1>6 DEF FinalInv

(* A command that saves the chain row finds it in progress, the gate finds  *)
(* none.                                                                    *)
LEMMA FinalSaveChain ==
  ASSUME TypeOK, OrderInv, FinalInv, NEW r \in Thread, SaveChain(r)
  PROVE  FinalInv'
<1> USE DEF Else, rows
<1>1. /\ pc[r] = "chain" /\ status' = copy[r].status /\ status' # "none" /\ UNCHANGED <<state, overlapped>>
      /\ Else(r) /\ pc'[r] \in {"rows", "replay", "log", "done"} /\ Gate \in Thread /\ Request \subseteq Thread
      /\ pc'[r] = "rows" => copy'[r] = copy[r] /\ todo'[r] = todo[r]
      /\ todo'[r] = {} \/ (todo'[r] = todo[r] /\ copy'[r] = copy[r])
  <2>1. after[r] \in {"replay", "log", "done"}
    BY DEF TypeOK
  <2>2. /\ pc[r] = "chain" /\ status' = copy[r].status /\ status' # "none" /\ UNCHANGED <<state, overlapped>>
        /\ Gate \in Thread /\ Request \subseteq Thread
    BY DEF SaveChain, FinalInv, GateFirst, history, Thread
  <2>3. CASE AllSaved(r)
    BY <2>1, <2>2, <2>3 DEF AllSaved, Quit, Goto, TypeOK
  <2>4. CASE Goto(r, "rows") /\ UNCHANGED <<copy, todo, after>>
    BY <2>2, <2>4 DEF Goto, TypeOK
  <2> QED BY <2>3, <2>4 DEF SaveChain
<1>2. GateFirst'
  <2>1. \A s \in todo'[Gate] : copy'[Gate].state[s] = "PENDING" /\ state'[s] = "none"
    BY <1>1 DEF FinalInv, GateFirst
  <2>2. pc'[Gate] # "chain"
    <3>1. CASE r = Gate
      BY <3>1, <1>1
    <3>2. CASE r # Gate
      BY <3>2, <1>1 DEF FinalInv, GateFirst, Thread
    <3> QED BY <3>1, <3>2
  <2>3. \A q \in Thread : pc'[q] = "chain" => copy'[q].status # "none"
    BY <1>1 DEF FinalInv, GateFirst
  <2> QED BY <2>1, <2>2, <2>3, <1>1 DEF GateFirst
<1>3. CASE r = Gate
  <2>1. status = "none" /\ status' = "IN_PROGRESS" /\ \A q \in Request : pc'[q] = "idle"
    BY <1>1, <1>3, GateAssumption DEF FinalInv, GateFirst
  <2>2. Alone' /\ StillPending'
    BY <2>1 DEF Alone, StillPending, InProgress, Saving
  <2>3. Pending'
    BY <2>1, <1>1 DEF Pending, FinalInv, GateFirst
  <2> QED BY <1>2, <2>2, <2>3 DEF FinalInv
<1>4. CASE r \in Request
  <2> SUFFICES ASSUME Alone, Pending, StillPending PROVE Alone' /\ Pending' /\ StillPending'
    BY <1>1, <1>2 DEF FinalInv
  <2>1. status = "IN_PROGRESS" /\ \A q \in Request \ {r} : ~InProgress(q) /\ ~InProgress(q)'
    BY <1>1, <1>4 DEF Alone, InProgress
  <2>2. Alone'
    BY <1>1, <2>1 DEF Alone, InProgress
  <2>3. Pending'
    BY <1>1, <2>1 DEF Pending, Undecided
  <2>4. StillPending'
    <3> SUFFICES ASSUME NEW q \in Request, Saving(q)', copy'[q].status = "IN_PROGRESS"
                 PROVE  /\ \A u \in Step : copy'[q].state[u] # "REJECTED"
                        /\ todo'[q] = {} \/ \E u \in Step : Undecided(state', u) /\ Undecided(copy'[q].state, u)
      BY DEF StillPending, Undecided
    <3>1. q = r /\ pc'[r] = "rows"
      BY <1>1, <2>1 DEF InProgress, Saving
    <3> QED BY <3>1, <1>1, <1>4 DEF StillPending, Saving, Undecided
  <2> QED BY <2>2, <2>3, <2>4
<1> QED BY <1>3, <1>4 DEF Thread

LEMMA FinalSaveStep ==
  ASSUME TypeOK, OrderInv, FinalInv, NEW r \in Thread, SaveStep(r)
  PROVE  FinalInv'
<1> USE DEF Else
<1>1. PICK s \in todo[r] :
         /\ state' = [state EXCEPT ![s] = copy[r].state[s]]
         /\ \/ todo[r] = {s} /\ AllSaved(r)
            \/ /\ todo[r] # {s}
               /\ todo' = [todo EXCEPT ![r] = @ \ {s}]
               /\ UNCHANGED <<pc, copy, after>>
  BY DEF SaveStep
<1>2. /\ pc[r] = "rows" /\ s \in Step /\ UNCHANGED <<status, overlapped>>
      /\ Gate \in Thread /\ Request \subseteq Thread /\ after[r] \in {"replay", "log", "done"}
  BY <1>1 DEF SaveStep, TypeOK, Thread
<1>3. /\ Else(r) /\ pc'[r] \in {"rows", "replay", "log", "done"} /\ todo'[r] \subseteq todo[r] \ {s}
      /\ pc'[r] = "rows" => copy'[r] = copy[r]
      /\ todo'[r] = {} \/ copy'[r] = copy[r]
  BY <1>1, <1>2 DEF AllSaved, Quit, Goto, TypeOK
<1>4. /\ state'[s] = copy[r].state[s] /\ state'[s] # "none"
      /\ \A u \in Step \ {s} : state'[u] = state[u]
  BY <1>1, <1>2 DEF OrderInv, FoundRows, TypeOK
<1>5. status # "none"
  <2>1. CASE r = Gate
    BY <2>1, <1>1, <1>2, <1>4 DEF FinalInv, GateFirst
  <2>2. CASE r \in Request
    BY <2>2, <1>2 DEF FinalInv, GateFirst
  <2> QED BY <2>1, <2>2 DEF Thread
<1>6. r = Gate => copy[r].state[s] = "PENDING" /\ state[s] = "none"
  BY DEF FinalInv, GateFirst
<1>7. r \in Request => state[s] # "none"
  BY DEF OrderInv, FoundRows
<1>8. GateFirst'
  <2>1. ASSUME NEW u \in todo'[Gate] PROVE copy'[Gate].state[u] = "PENDING" /\ state'[u] = "none"
    <3>1. u \in todo[Gate] /\ u \in Step /\ copy'[Gate] = copy[Gate] /\ (r = Gate => u # s)
      BY <2>1, <1>2, <1>3 DEF TypeOK
    <3>2. copy[Gate].state[u] = "PENDING" /\ state[u] = "none"
      BY <3>1 DEF FinalInv, GateFirst
    <3>3. u # s
      BY <3>1, <3>2, <1>7 DEF Thread
    <3> QED BY <3>1, <3>2, <3>3, <1>4
  <2>2. pc'[Gate] # "chain"
    BY <1>2, <1>3, <1>5 DEF FinalInv, GateFirst
  <2>3. \A q \in Thread : pc'[q] = "chain" => copy'[q].status # "none"
    BY <1>2, <1>3 DEF FinalInv, GateFirst
  <2> QED BY <2>1, <2>2, <2>3, <1>2, <1>5 DEF GateFirst
<1>9. Alone => Alone'
  BY <1>2, <1>3 DEF Alone, InProgress
<1>10. CASE r = Gate
  <2>1. \A q \in Request : pc'[q] = pc[q] /\ copy'[q] = copy[q] /\ todo'[q] = todo[q]
    BY <1>2, <1>3, <1>10, GateAssumption
  <2>2. Pending => Pending'
    BY <1>2, <1>4, <1>6, <1>10 DEF Pending, Undecided
  <2>3. StillPending => StillPending'
    <3> SUFFICES ASSUME StillPending, NEW q \in Request, Saving(q)', copy'[q].status = "IN_PROGRESS"
                 PROVE  /\ \A u \in Step : copy'[q].state[u] # "REJECTED"
                        /\ todo'[q] = {} \/ \E u \in Step : Undecided(state', u) /\ Undecided(copy'[q].state, u)
      BY DEF StillPending, Undecided
    <3>1. /\ \A u \in Step : copy[q].state[u] # "REJECTED"
          /\ todo[q] = {} \/ \E u \in Step : Undecided(state, u) /\ Undecided(copy[q].state, u)
      BY <2>1 DEF StillPending, Saving
    <3>2. \A u \in Step : Undecided(state, u) => Undecided(state', u)
      BY <1>4, <1>6, <1>10 DEF Undecided
    <3> QED BY <2>1, <3>1, <3>2
  <2> QED BY <2>2, <2>3, <1>2, <1>8, <1>9 DEF FinalInv
<1>11. CASE r \in Request
  <2> SUFFICES ASSUME Alone, Pending, StillPending PROVE Pending' /\ StillPending'
    BY <1>2, <1>8, <1>9 DEF FinalInv
  <2>1. copy[r].status = status /\ \A q \in Request \ {r} : ~Saving(q)'
    BY <1>2, <1>3, <1>11 DEF Alone, InProgress, Saving
  <2>2. ASSUME status = "IN_PROGRESS"
        PROVE  /\ \A u \in Step : copy[r].state[u] # "REJECTED"
               /\ \E u \in Step : Undecided(state, u) /\ Undecided(copy[r].state, u)
    BY <2>1, <2>2, <1>2, <1>11 DEF StillPending, Saving
  <2>3. \A u \in Step : Undecided(state, u) /\ Undecided(copy[r].state, u) => Undecided(state', u)
    BY <1>4 DEF Undecided
  <2>4. Pending'
    BY <2>2, <2>3, <1>2, <1>4 DEF Pending, Undecided
  <2>5. StillPending'
    <3> SUFFICES ASSUME NEW q \in Request, Saving(q)', copy'[q].status = "IN_PROGRESS"
                 PROVE  /\ \A u \in Step : copy'[q].state[u] # "REJECTED"
                        /\ todo'[q] = {} \/ \E u \in Step : Undecided(state', u) /\ Undecided(copy'[q].state, u)
      BY DEF StillPending, Undecided
    <3>1. q = r /\ pc'[r] = "rows"
      BY <2>1, <1>3 DEF Saving
    <3>2. copy'[q] = copy[r] /\ status = "IN_PROGRESS"
      BY <3>1, <2>1, <1>3
    <3> QED BY <3>1, <3>2, <2>2, <2>3
  <2> QED BY <2>4, <2>5
<1> QED BY <1>10, <1>11 DEF Thread

LEMMA FinalNext == TypeOK /\ OrderInv /\ FinalInv /\ [Next]_vars => FinalInv'
<1> SUFFICES ASSUME TypeOK, OrderInv, FinalInv, [Next]_vars PROVE FinalInv'
  OBVIOUS
<1>1. ASSUME NEW r \in Request, LoadChain(r) PROVE FinalInv'
  BY <1>1, FinalLoad
<1>2. ASSUME NEW r \in Request, NEW st, NEW chain, NEW next, Decision(r, st, chain, next) PROVE FinalInv'
  BY <1>2, FinalDecision
<1>3. ASSUME NEW r \in Thread, Quit(r), pc[r] # "idle", UNCHANGED <<rows, overlapped>> PROVE FinalInv'
  <2>1. Else(r) /\ pc'[r] = "done" /\ todo'[r] = {}
    BY <1>3 DEF Quit, Goto, Else, TypeOK
  <2> QED BY <1>3, <2>1, FinalRest
<1>4. ASSUME NEW r \in Request, Refuse(r) \/ Log(r) \/ Execute(r) PROVE FinalInv'
  BY <1>3, <1>4 DEF Refuse, Log, Execute, history, Thread
<1>5. ASSUME NEW r \in Request, ReplayApprovedCommand(r) PROVE FinalInv'
  <2>1. CASE Quit(r)
    BY <1>3, <1>5, <2>1 DEF ReplayApprovedCommand, history, Thread
  <2>2. CASE Goto(r, "execute") /\ UNCHANGED <<copy, todo, after>>
    <3>1. /\ Else(r) /\ pc'[r] = "execute" /\ pc[r] # "idle" /\ UNCHANGED <<rows, overlapped>> /\ r \in Thread
          /\ todo'[r] = todo[r] /\ copy'[r] = copy[r]
      BY <1>5, <2>2 DEF ReplayApprovedCommand, Goto, Else, history, TypeOK, Thread
    <3> QED BY <3>1, FinalRest
  <2> QED BY <1>5, <2>1, <2>2 DEF ReplayApprovedCommand
<1>6. ASSUME NEW r \in Thread, SaveChain(r) PROVE FinalInv'
  BY <1>6, FinalSaveChain
<1>7. ASSUME NEW r \in Thread, SaveStep(r) PROVE FinalInv'
  BY <1>7, FinalSaveStep
<1>8. ASSUME NEW r \in Thread, Fail(r) PROVE FinalInv'
  <2>1. Quit(r) /\ pc[r] # "idle" /\ UNCHANGED <<rows, overlapped>>
    BY <1>8 DEF Fail, history, rows
  <2> QED BY <1>3, <2>1
<1>9. CASE UNCHANGED vars
  <2>1. UNCHANGED <<rows, pc, copy, todo, overlapped>>
    BY <1>9 DEF vars, history
  <2>2. GateFirst' /\ (Alone => Alone')
    BY <2>1 DEF rows, FinalInv, GateFirst, Alone, InProgress
  <2>3. (Pending => Pending') /\ (StillPending => StillPending')
    BY <2>1 DEF rows, Pending, StillPending, Saving, Undecided
  <2> QED BY <2>1, <2>2, <2>3 DEF FinalInv
<1> QED BY <1>1, <1>2, <1>4, <1>5, <1>6, <1>7, <1>8, <1>9, Steps

(* The three invariants, together.                                          *)
LEMMA FinalCorrect == Spec => [](TypeOK /\ OrderInv /\ FinalInv)
<1>1. Init => TypeOK /\ OrderInv /\ FinalInv
  BY TypeInit, OrderInit, FinalInit
<1>2. TypeOK /\ OrderInv /\ FinalInv /\ [Next]_vars => (TypeOK /\ OrderInv /\ FinalInv)'
  BY TypeNext, OrderNext, FinalNext
<1> QED BY <1>1, <1>2, PTL DEF Spec

(* While commands on the chain do not overlap, a decision is final, even if *)
(* whoever decided died before the step rows were saved.                    *)
THEOREM FinalDecisions == Spec => DecisionIsFinal
<1>1. ASSUME TypeOK, OrderInv, FinalInv, [Next]_vars
      PROVE  overlapped \/ status = "IN_PROGRESS" \/ status = "none" \/ status' = status
  <2> SUFFICES ASSUME ~overlapped PROVE status = "IN_PROGRESS" \/ status = "none" \/ status' = status
    OBVIOUS
  <2>1. ASSUME NEW r \in Thread, SaveChain(r) PROVE status = "IN_PROGRESS" \/ status = "none"
    <3>1. CASE r = Gate
      BY <1>1, <2>1, <3>1 DEF SaveChain, FinalInv, GateFirst
    <3>2. CASE r \in Request
      BY <1>1, <2>1, <3>2 DEF SaveChain, FinalInv, Alone
    <3> QED BY <3>1, <3>2 DEF Thread
  <2>2. ASSUME NEW r \in Request, NEW st, NEW chain, NEW next, Decision(r, st, chain, next) PROVE status' = status
    BY <2>2 DEF Decision, Decide, rows
  <2> QED
    BY <1>1, <2>1, <2>2, Steps
    DEF LoadChain, Refuse, Log, ReplayApprovedCommand, Execute, SaveStep, Fail, rows, vars
<1> QED BY <1>1, FinalCorrect, PTL DEF Spec, DecisionIsFinal

-----------------------------------------------------------------------------
(* A chain in progress can be decided *)

LEMMA Smallest ==
  ASSUME NEW T \in SUBSET Nat, T # {}
  PROVE  \E n \in T : \A m \in T : n <= m
<1>1. PICK n \in T : \A m \in T : <<m, n>> \notin OpToRel(<, Nat)
  BY NatLessThanWellFounded, WFMin
<1>2. ASSUME NEW m \in T, m < n PROVE FALSE
  <2>1. <<m, n>> \in OpToRel(<, Nat)
    BY <1>2 DEF OpToRel
  <2> QED BY <1>1, <2>1
<1>3. \A m \in T : m \in Nat /\ n \in Nat /\ ~(m < n)
  BY <1>2
<1>4. \A m \in T : n <= m
  BY <1>3
<1> QED BY <1>4

(* While commands on the chain do not overlap, a chain in progress has an   *)
(* open step whose turn has come: the first sequential one that is not      *)
(* approved, if no parallel one is open.                                    *)
THEOREM CanBeDecided == Spec => []NeverStuck
<1>1. ASSUME TypeOK, FinalInv PROVE NeverStuck
  <2> SUFFICES ASSUME ~overlapped, status = "IN_PROGRESS", Rows(state) # {}
               PROVE  \E s \in Step : state[s] \in Open /\ Actionable(state, s)
    BY DEF NeverStuck
  <2>1. \A u \in Step : Undecided(state, u) => state[u] \in Open
    BY <1>1 DEF FinalInv, Pending, Undecided, Open, TypeOK, StepState
  <2>2. PICK v \in Step : Undecided(state, v)
    BY <1>1 DEF FinalInv, Pending, Rows
  <2>3. CASE v \in Parallel
    BY <2>1, <2>2, <2>3 DEF Actionable
  <2>4. CASE v \notin Parallel
    <3> DEFINE Left == {u \in Step \ Parallel : Undecided(state, u)}
    <3>1. v \in Left
      BY <2>2, <2>4
    <3>2. PICK s \in Left : \A u \in Left : Order[s] <= Order[u]
      <4>1. {Order[u] : u \in Left} \in SUBSET Nat /\ {Order[u] : u \in Left} # {}
        BY <3>1, StepAssumption
      <4>2. PICK n \in {Order[u] : u \in Left} : \A m \in {Order[u] : u \in Left} : n <= m
        BY <4>1, Smallest
      <4> QED BY <4>2
    <3>3. ASSUME NEW t \in Rows(state) \ Parallel, Order[t] < Order[s] PROVE state[t] = "APPROVED"
      <4>1. t \in Step \ Parallel /\ state[t] # "none" /\ Order[t] \in Nat /\ Order[s] \in Nat
        BY <3>3, StepAssumption DEF Rows
      <4>2. t \notin Left
        BY <3>2, <3>3, <4>1
      <4> QED BY <4>1, <4>2 DEF Undecided
    <3>4. s \in Step /\ state[s] \in Open
      BY <2>1
    <3> HIDE DEF Left
    <3> QED BY <3>3, <3>4 DEF Actionable
  <2> QED BY <2>3, <2>4
<1> QED BY <1>1, FinalCorrect, PTL
-----------------------------------------------------------------------------
(* The refinement of StagedApproval *)

(* A command whose chain is decided and who is to replay the gated one.     *)
Replaying(r) == (pc[r] = "rows" /\ after[r] = "replay") \/ Holding(r)

(* What a decided copy says of the steps it will save as approved.          *)
CopyDecides ==
    \A r \in Thread : Saving(r) =>
        /\ after[r] = "replay" => copy[r].status = "APPROVED"
        /\ copy[r].status = "REJECTED" => \A u \in Step : copy[r].state[u] = "APPROVED" => u \in approved
        /\ pc[r] = "chain" /\ copy[r].status = "APPROVED" => early \/ \E s \in Step : Step \ {s} \subseteq approved

(* While commands do not overlap one of them replays, and nobody has before. *)
OneReplay ==
    /\ \A r, q \in Thread : Replaying(r) /\ Replaying(q) => r = q
    /\ \A r \in Thread : Replaying(r) => status = "APPROVED" /\ cached = "none"
    /\ cached # "none" => status = "APPROVED"

OnceInv == CopyDecides /\ (overlapped \/ OneReplay)

LEMMA OnceInit == Init => OnceInv
<1> SUFFICES ASSUME Init PROVE OnceInv
  OBVIOUS
<1>1. \A r \in Thread : Saving(r) => copy[r] = New /\ after[r] = "done" /\ ~Replaying(r)
  BY DEF Init, Saving, Replaying, Holding
<1>2. \A r \in Thread : ~Replaying(r)
  BY DEF Init, Replaying, Holding
<1> QED BY <1>1, <1>2 DEF Init, OnceInv, CopyDecides, OneReplay, New

(* What a step does to a thread that is not its own, once more.             *)
Others(r) == \A q \in Thread \ {r} : pc'[q] = pc[q] /\ copy'[q] = copy[q] /\ after'[q] = after[q]

(* A command that decides nothing: it may go on saving, or end a replay.    *)
LEMMA OnceRest ==
  ASSUME OnceInv, NEW r \in Thread, Others(r), UNCHANGED status,
         approved \subseteq approved', early => early', overlapped => overlapped',
         ~Saving(r)' \/ (Saving(r) /\ pc'[r] = "rows" /\ copy'[r] = copy[r] /\ after'[r] = after[r]),
         Replaying(r)' => Replaying(r),
         cached' = cached \/ (Replaying(r) /\ ~Replaying(r)')
  PROVE  OnceInv'
<1>1. CopyDecides'
  <2> SUFFICES ASSUME NEW q \in Thread, Saving(q)'
               PROVE  /\ after'[q] = "replay" => copy'[q].status = "APPROVED"
                      /\ copy'[q].status = "REJECTED" =>
                            \A u \in Step : copy'[q].state[u] = "APPROVED" => u \in approved'
                      /\ pc'[q] = "chain" /\ copy'[q].status = "APPROVED" =>
                            early' \/ \E s \in Step : Step \ {s} \subseteq approved'
    BY DEF CopyDecides
  <2>1. /\ Saving(q) /\ copy'[q] = copy[q] /\ after'[q] = after[q]
        /\ pc'[q] = "chain" => pc[q] = "chain"
    BY DEF Others, Saving
  <2> QED BY <2>1 DEF OnceInv, CopyDecides
<1>2. \A q \in Thread : Replaying(q)' => Replaying(q)
  BY DEF Others, Replaying, Holding
<1>3. OneReplay => OneReplay'
  <2> SUFFICES ASSUME OneReplay PROVE OneReplay'
    OBVIOUS
  <2>1. CASE cached' = cached
    BY <1>2, <2>1 DEF OneReplay
  <2>2. CASE Replaying(r) /\ ~Replaying(r)'
    BY <1>2, <2>2 DEF OneReplay
  <2> QED BY <2>1, <2>2
<1> QED BY <1>1, <1>3 DEF OnceInv

LEMMA OnceQuit ==
  ASSUME TypeOK, OnceInv, NEW r \in Thread, Quit(r), UNCHANGED <<status, approved, early, overlapped>>,
         cached' = cached \/ Replaying(r)
  PROVE  OnceInv'
<1>1. Others(r) /\ pc'[r] = "done"
  BY DEF Quit, Goto, Others, TypeOK
<1>2. ~Saving(r)' /\ ~Replaying(r)'
  BY <1>1 DEF Saving, Replaying, Holding
<1> QED BY <1>1, <1>2, OnceRest

(* The copy that decides: what it saves as approved has been, but for the   *)
(* step it is about.                                                        *)
LEMMA OnceDecision ==
  ASSUME TypeOK, OrderInv, OnceInv, NEW r \in Request,
         NEW st, NEW chain, NEW next, Decision(r, st, chain, next)
  PROVE  OnceInv'
<1>1. /\ copy'[r] = [status |-> st, state |-> chain] /\ pc[r] = "steps" /\ pc'[r] = "chain"
      /\ after'[r] = next /\ Others(r) /\ r \in Thread
      /\ UNCHANGED <<status, approved, cached, overlapped>> /\ early' = (early \/ Rows(state) # Step)
  BY DEF Decision, Decide, Goto, Others, TypeOK, rows, Thread
<1>2. \A u \in Step : state[u] = "APPROVED" => u \in approved
  BY DEF OrderInv, TrueRows
<1>3. st = "REJECTED" => \A u \in Step : chain[u] = "APPROVED" => u \in approved
  BY <1>2 DEF Decision
<1>4. ASSUME st = "APPROVED", ~early' PROVE \E s \in Step : Step \ {s} \subseteq approved
  <2>1. PICK s \in Step : \A u \in Step \ {s} : chain[u] = state[u]
    BY <1>4 DEF Decision
  <2>2. \A u \in Step : state[u] # "none" /\ (chain[u] = "none" \/ chain[u] = "APPROVED")
    BY <1>1, <1>4 DEF Decision, Rows
  <2> QED BY <1>2, <2>1, <2>2
<1>5. CopyDecides'
  <2>1. /\ after'[r] = "replay" => copy'[r].status = "APPROVED"
        /\ copy'[r].status = "REJECTED" => \A u \in Step : copy'[r].state[u] = "APPROVED" => u \in approved'
        /\ copy'[r].status = "APPROVED" => early' \/ \E s \in Step : Step \ {s} \subseteq approved'
    BY <1>1, <1>3, <1>4 DEF Decision
  <2>2. ASSUME NEW q \in Thread \ {r}, Saving(q)'
        PROVE  /\ after'[q] = "replay" => copy'[q].status = "APPROVED"
               /\ copy'[q].status = "REJECTED" =>
                     \A u \in Step : copy'[q].state[u] = "APPROVED" => u \in approved'
               /\ pc'[q] = "chain" /\ copy'[q].status = "APPROVED" =>
                     early' \/ \E s \in Step : Step \ {s} \subseteq approved'
    <3>1. Saving(q) /\ pc'[q] = pc[q] /\ copy'[q] = copy[q] /\ after'[q] = after[q]
      BY <1>1, <2>2 DEF Others, Saving
    <3> QED BY <1>1, <3>1 DEF OnceInv, CopyDecides
  <2> QED BY <2>1, <2>2 DEF CopyDecides
<1>6. OneReplay => OneReplay'
  <2>1. \A q \in Thread : Replaying(q)' => Replaying(q)
    BY <1>1 DEF Others, Replaying, Holding
  <2> QED BY <1>1, <2>1 DEF OneReplay
<1> QED BY <1>1, <1>5, <1>6 DEF OnceInv

(* Whoever saves the chain row while commands do not overlap finds it       *)
(* undecided, hence nobody replaying.                                       *)
LEMMA OnceSaveChain ==
  ASSUME TypeOK, FinalInv, OnceInv, NEW r \in Thread, SaveChain(r)
  PROVE  OnceInv'
<1>1. /\ pc[r] = "chain" /\ Saving(r) /\ status' = copy[r].status
      /\ UNCHANGED <<approved, cached, early, overlapped>> /\ after[r] \in {"replay", "log", "done"}
  BY DEF SaveChain, Saving, history, TypeOK
<1>2. /\ Others(r)
      /\ \/ pc'[r] = "done"
         \/ pc'[r] = after[r] /\ after[r] # "done"
         \/ pc'[r] = "rows" /\ copy'[r] = copy[r] /\ after'[r] = after[r]
  BY <1>1 DEF SaveChain, AllSaved, Quit, Goto, Others, TypeOK
<1>3. CopyDecides'
  <2>1. \A q \in Thread : Saving(q)' =>
           /\ Saving(q) /\ copy'[q] = copy[q] /\ after'[q] = after[q]
           /\ pc'[q] = "chain" => pc[q] = "chain"
    BY <1>1, <1>2 DEF Others, Saving
  <2> QED BY <1>1, <2>1 DEF OnceInv, CopyDecides
<1>4. ASSUME ~overlapped, OneReplay PROVE OneReplay'
  <2>1. status # "APPROVED"
    <3>1. CASE r = Gate
      BY <1>1, <3>1 DEF FinalInv, GateFirst
    <3>2. CASE r \in Request
      BY <1>1, <1>4, <3>2 DEF FinalInv, Alone
    <3> QED BY <3>1, <3>2 DEF Thread
  <2>2. cached = "none" /\ \A q \in Thread : ~Replaying(q)
    BY <1>4, <2>1 DEF OneReplay
  <2>3. \A q \in Thread \ {r} : ~Replaying(q)'
    BY <1>2, <2>2 DEF Others, Replaying, Holding
  <2>4. Replaying(r)' => after[r] = "replay"
    BY <1>1, <1>2 DEF Replaying, Holding
  <2>5. Replaying(r)' => status' = "APPROVED"
    BY <1>1, <2>4 DEF OnceInv, CopyDecides
  <2> QED BY <1>1, <2>2, <2>3, <2>5 DEF OneReplay
<1> QED BY <1>1, <1>3, <1>4 DEF OnceInv

LEMMA OnceNext == TypeOK /\ OrderInv /\ FinalInv /\ OnceInv /\ [Next]_vars => OnceInv'
<1> SUFFICES ASSUME TypeOK, OrderInv, FinalInv, OnceInv, [Next]_vars PROVE OnceInv'
  OBVIOUS
<1> USE DEF rows, history
<1>1. ASSUME NEW r \in Request, LoadChain(r) PROVE OnceInv'
  <2>1. /\ Others(r) /\ pc'[r] = "steps" /\ r \in Thread
        /\ UNCHANGED <<status, approved, early, cached>> /\ (overlapped => overlapped')
    BY <1>1 DEF LoadChain, Goto, Others, TypeOK, Thread
  <2>2. ~Saving(r)' /\ ~Replaying(r)'
    BY <2>1 DEF Saving, Replaying, Holding
  <2> QED BY <2>1, <2>2, OnceRest
<1>2. ASSUME NEW r \in Request, NEW st, NEW chain, NEW next, Decision(r, st, chain, next) PROVE OnceInv'
  BY <1>2, OnceDecision
<1>3. ASSUME NEW r \in Request, Refuse(r) \/ Log(r) PROVE OnceInv'
  BY <1>3, OnceQuit DEF Refuse, Log, Thread
<1>4. ASSUME NEW r \in Request, ReplayApprovedCommand(r) PROVE OnceInv'
  <2>1. CASE Quit(r)
    BY <1>4, <2>1, OnceQuit DEF ReplayApprovedCommand, Thread
  <2>2. CASE Goto(r, "execute") /\ UNCHANGED <<copy, todo, after>>
    <3>1. /\ Others(r) /\ pc'[r] = "execute" /\ Replaying(r) /\ r \in Thread
          /\ UNCHANGED <<status, approved, early, cached, overlapped>>
      BY <1>4, <2>2 DEF ReplayApprovedCommand, Goto, Others, Replaying, Holding, TypeOK, Thread
    <3>2. ~Saving(r)'
      BY <3>1 DEF Saving
    <3> QED BY <3>1, <3>2, OnceRest
  <2> QED BY <1>4, <2>1, <2>2 DEF ReplayApprovedCommand
<1>5. ASSUME NEW r \in Request, Execute(r) PROVE OnceInv'
  <2>1. Replaying(r)
    BY <1>5 DEF Execute, Replaying, Holding
  <2> QED BY <1>5, <2>1, OnceQuit DEF Execute, Thread
<1>6. ASSUME NEW r \in Thread, SaveChain(r) PROVE OnceInv'
  BY <1>6, OnceSaveChain
<1>7. ASSUME NEW r \in Thread, SaveStep(r) PROVE OnceInv'
  <2>1. PICK s \in todo[r] :
           /\ approved' = IF copy[r].state[s] = "APPROVED" THEN approved \union {s} ELSE approved
           /\ AllSaved(r) \/ UNCHANGED <<pc, copy, after>>
    BY <1>7 DEF SaveStep
  <2>2. /\ approved \subseteq approved' /\ UNCHANGED <<status, early, cached, overlapped>>
        /\ pc[r] = "rows" /\ Saving(r) /\ after[r] \in {"replay", "log", "done"}
    BY <1>7, <2>1 DEF SaveStep, Saving, TypeOK
  <2>3. CASE AllSaved(r)
    <3>1. Others(r) /\ (pc'[r] = "done" \/ (pc'[r] = after[r] /\ after[r] # "done"))
      BY <2>3 DEF AllSaved, Quit, Goto, Others, TypeOK
    <3>2. ~Saving(r)' /\ (Replaying(r)' => Replaying(r))
      BY <2>2, <3>1 DEF Saving, Replaying, Holding
    <3> QED BY <2>2, <3>1, <3>2, OnceRest
  <2>4. CASE UNCHANGED <<pc, copy, after>>
    <3>1. Others(r) /\ (Replaying(r)' => Replaying(r))
      BY <2>4 DEF Others, Replaying, Holding
    <3> QED BY <2>2, <2>4, <3>1, OnceRest
  <2> QED BY <2>1, <2>3, <2>4
<1>8. ASSUME NEW r \in Thread, Fail(r) PROVE OnceInv'
  BY <1>8, OnceQuit DEF Fail
<1>9. CASE UNCHANGED vars
  <2>1. UNCHANGED <<status, pc, copy, after, cached, approved, early, overlapped>>
    BY <1>9 DEF vars
  <2>2. CopyDecides'
    BY <2>1 DEF OnceInv, CopyDecides, Saving
  <2>3. OneReplay => OneReplay'
    BY <2>1 DEF OneReplay, Replaying, Holding
  <2> QED BY <2>1, <2>2, <2>3 DEF OnceInv
<1> QED BY <1>1, <1>2, <1>3, <1>4, <1>5, <1>6, <1>7, <1>8, <1>9, Steps

(* The chain row: the verdict. *)
LEMMA PromiseDecide ==
  ASSUME TypeOK, FinalInv, OnceInv, NEW r \in Thread, SaveChain(r)
  PROVE  Promise!Next
<1> DEFINE Of(st) == CASE st = "APPROVED" -> "approved" [] st = "REJECTED" -> "rejected" [] OTHER -> "open"
<1>1. /\ pc[r] = "chain" /\ Saving(r) /\ status' = copy[r].status
      /\ UNCHANGED <<approved, cached, applied, early, overlapped>>
  BY DEF SaveChain, Saving, history
<1>2. overlapped \/ Of(status) = "open"
  <2>1. CASE r = Gate
    BY <1>1, <2>1 DEF FinalInv, GateFirst
  <2>2. CASE r \in Request
    BY <1>1, <2>2 DEF FinalInv, Alone
  <2> QED BY <2>1, <2>2 DEF Thread
<1>3. Of(status') = "approved" => early \/ \E s \in Step : Step \ {s} \subseteq approved
  BY <1>1 DEF OnceInv, CopyDecides
<1>4. Of(status') \in {"open", "approved", "rejected"}
  OBVIOUS
<1>5. Promise!Decide(Of(status'))
  BY <1>1, <1>2, <1>3 DEF Promise!Decide, Promise!LastMissing
<1> QED BY <1>4, <1>5 DEF Promise!Next, Promise!Verdict

(* A step row: what it saves as approved was in its turn, and is not new if *)
(* the chain is rejected.                                                   *)
LEMMA PromiseGrant ==
  ASSUME TypeOK, OrderInv, FinalInv, OnceInv, NEW r \in Thread, SaveStep(r)
  PROVE  Promise!Next \/ UNCHANGED Promise!vars
<1>1. PICK s \in todo[r] :
         approved' = IF copy[r].state[s] = "APPROVED" THEN approved \union {s} ELSE approved
  BY DEF SaveStep
<1>2. /\ pc[r] = "rows" /\ Saving(r) /\ s \in Step
      /\ UNCHANGED <<status, cached, applied, early, overlapped>>
  BY DEF SaveStep, Saving, TypeOK
<1>3. CASE copy[r].state[s] # "APPROVED" \/ s \in approved
  <2>1. approved' = approved
    BY <1>1, <1>3
  <2> QED BY <1>2, <2>1 DEF Promise!vars
<1>4. CASE copy[r].state[s] = "APPROVED" /\ s \notin approved
  <2>1. approved' = approved \union {s}
    BY <1>1, <1>4
  <2>2. InTurn(s)
    BY <1>2, <1>4 DEF OrderInv, CopyInTurn
  <2>3. r # Gate
    BY <1>4 DEF FinalInv, GateFirst
  <2>4. overlapped \/ status # "REJECTED"
    BY <1>2, <1>4, <2>3 DEF FinalInv, Alone, OnceInv, CopyDecides, Thread
  <2>5. Promise!Grant(s)
    BY <1>2, <2>1, <2>2, <2>4 DEF Promise!Grant, Promise!InTurn, InTurn
  <2> QED BY <1>2, <2>5 DEF Promise!Next
<1> QED BY <1>3, <1>4

LEMMA PromiseRun ==
  ASSUME TypeOK, ReplayInv, OnceInv, NEW r \in Request, Execute(r)
  PROVE  Promise!Next
<1>1. /\ pc[r] = "execute" /\ Holding(r) /\ Replaying(r) /\ r \in Thread
      /\ \/ applied' = applied + 1 /\ cached' = "ok"
         \/ applied' = applied /\ cached' = "error"
      /\ UNCHANGED <<status, approved, early, overlapped>>
  BY DEF Execute, Holding, Replaying, Thread, rows, history
<1>2. early \/ approved = Step
  BY <1>1 DEF ReplayInv
<1>3. overlapped \/ (status = "APPROVED" /\ cached = "none")
  BY <1>1 DEF OnceInv, OneReplay
<1>4. Promise!Run
  BY <1>1, <1>2, <1>3 DEF Promise!Run
<1> QED BY <1>4 DEF Promise!Next

LEMMA PromiseNext ==
  TypeOK /\ OrderInv /\ ReplayInv /\ FinalInv /\ OnceInv /\ [Next]_vars => [Promise!Next]_(Promise!vars)
<1> SUFFICES ASSUME TypeOK, OrderInv, ReplayInv, FinalInv, OnceInv, [Next]_vars
             PROVE  Promise!Next \/ UNCHANGED Promise!vars
  OBVIOUS
<1> USE DEF rows, history
<1>1. ASSUME NEW r \in Request, LoadChain(r) PROVE Promise!Race \/ UNCHANGED Promise!vars
  <2>1. UNCHANGED <<status, approved, cached, applied, early>> /\ (overlapped' = overlapped \/ overlapped' = TRUE)
    BY <1>1 DEF LoadChain, TypeOK
  <2> QED BY <2>1 DEF Promise!Race, Promise!vars
<1>2. ASSUME NEW r \in Request, NEW st, NEW chain, NEW next, Decision(r, st, chain, next)
      PROVE  Promise!ComeEarly \/ UNCHANGED Promise!vars
  <2>1. UNCHANGED <<status, approved, cached, applied, overlapped>> /\ (early' = early \/ early' = TRUE)
    BY <1>2 DEF Decision, Decide, TypeOK
  <2> QED BY <2>1 DEF Promise!ComeEarly, Promise!vars
<1>3. ASSUME NEW r \in Thread, Refuse(r) \/ Log(r) \/ ReplayApprovedCommand(r) \/ Fail(r)
      PROVE  UNCHANGED Promise!vars
  BY <1>3 DEF Refuse, Log, ReplayApprovedCommand, Fail, Promise!vars
<1>4. ASSUME UNCHANGED vars PROVE UNCHANGED Promise!vars
  BY <1>4 DEF vars, Promise!vars
<1>5. Promise!Race \/ Promise!ComeEarly => Promise!Next
  BY DEF Promise!Next
<1>6. Request \subseteq Thread
  BY DEF Thread
<1> QED BY <1>1, <1>2, <1>3, <1>4, <1>5, <1>6, PromiseDecide, PromiseGrant, PromiseRun, Steps

LEMMA PromiseInit == Init => Promise!Init
  BY DEF Init, Promise!Init

(* The workflow is a StagedApproval, for any steps, orders and modes and    *)
(* any number of commands and failures: approvals in turn, a final verdict, *)
(* and one run of the gated command after it, but for overlapping commands  *)
(* and a chain that was half saved.                                         *)
THEOREM ImplementsStagedApproval == Spec => KeepsItsPromise
<1> DEFINE PInv == TypeOK /\ OrderInv /\ ReplayInv /\ FinalInv /\ OnceInv
<1>1. Init => PInv
  BY TypeInit, OrderInit, ReplayInit, FinalInit, OnceInit
<1>2. PInv /\ [Next]_vars => PInv'
  BY TypeNext, OrderNext, ReplayNext, FinalNext, OnceNext
<1>3. Init => Promise!Init
  BY PromiseInit
<1>4. PInv /\ [Next]_vars => [Promise!Next]_(Promise!vars)
  BY PromiseNext
<1> HIDE DEF PInv
<1> QED BY <1>1, <1>2, <1>3, <1>4, PTL DEF Spec, KeepsItsPromise, Promise!Spec
=============================================================================
