-------------------------- MODULE CommandBus_proofs --------------------------
(***************************************************************************)
(* Theorems about CommandBus for every number of requests, keys, pooled    *)
(* connections, refusals and faults: type correctness, no lost update, one *)
(* meaning per key, that a committed change has its records, that a        *)
(* success answered to a request is committed, and that all of it          *)
(* implements AtomicCommands.                                              *)
(***************************************************************************)
EXTENDS CommandBus, FiniteSetTheorems, TLAPS

-----------------------------------------------------------------------------
(* Type correctness *)

LEMMA EndType ==
  ASSUME TypeOK, NEW r \in Request, NEW a \in {"none", "ok", "error", "lost"}, End(r, a)
  PROVE  /\ pc' \in [Request -> Label]
         /\ tx' \in [Request -> Tx]
         /\ answer' \in [Request -> {"none", "ok", "error", "lost"}]
  BY DEF End, Goto, TypeOK, Label, Tx, NewTx

LEMMA PersistType ==
  ASSUME TypeOK, NEW r \in Request, Persist(r)
  PROVE  /\ idem' \in [Key -> Hash \union {NoRow}]
         /\ version' \in Nat
         /\ did' \in SUBSET Request
         /\ events' \in SUBSET Request
<1>1. tx[r].base \in Nat /\ KeyOf[r] \in Key /\ HashOf[r] \in Hash
  BY RequestAssumption DEF TypeOK, Tx
<1> QED BY <1>1 DEF Persist, TypeOK

LEMMA FlagType ==
  ASSUME NEW t \in Tx, NEW b \in BOOLEAN
  PROVE  /\ [t EXCEPT !.inserted = b] \in Tx
         /\ [t EXCEPT !.marked = b] \in Tx
         /\ [t EXCEPT !.wrote = b] \in Tx
         /\ [t EXCEPT !.recorded = b] \in Tx
         /\ [t EXCEPT !.doomed = b] \in Tx
  BY DEF Tx

LEMMA TxFlagType ==
  ASSUME TypeOK, NEW r \in Request, NEW b \in BOOLEAN
  PROVE  /\ [tx EXCEPT ![r].inserted = b] \in [Request -> Tx]
         /\ [tx EXCEPT ![r].marked = b] \in [Request -> Tx]
         /\ [tx EXCEPT ![r].wrote = b] \in [Request -> Tx]
         /\ [tx EXCEPT ![r].recorded = b] \in [Request -> Tx]
         /\ [tx EXCEPT ![r].doomed = b] \in [Request -> Tx]
<1>1. tx[r] \in Tx
  BY DEF TypeOK
<1> QED BY <1>1, FlagType DEF TypeOK

LEMMA SeesRowType ==
  ASSUME TypeOK, NEW r \in Request
  PROVE  SeesRow(r) \in BOOLEAN /\ (~SeesRow(r)) \in BOOLEAN
<1>1. tx[r].inserted \in BOOLEAN
  BY DEF TypeOK, Tx
<1>2. (idem[KeyOf[r]] # NoRow) \in BOOLEAN
  OBVIOUS
<1> QED BY <1>1, <1>2 DEF SeesRow

(* The program counter moves, and the transaction's record with it. *)
LEMMA PipelineType ==
  ASSUME TypeOK, NEW r \in Request, Step(r)
  PROVE  TypeOK'
<1> USE DEF TypeOK, stored, counters
<1>1. CASE Begin(r)
  BY <1>1, EndType DEF Begin, Goto, Label
<1>2. CASE Validate(r)
  BY <1>2 DEF Validate, Goto, Label
<1>3. CASE FastLookup(r)
  <2>1. KeyOf[r] \in Key
    BY RequestAssumption
  <2>2. CASE cache[KeyOf[r]] # NoRow
    <3>1. cache[KeyOf[r]] \in {"none", "ok", "error", "lost"}
      BY <2>1, <2>2
    <3> QED BY <1>3, <2>2, <3>1, EndType DEF FastLookup
  <2>3. CASE cache[KeyOf[r]] = NoRow
    BY <1>3, <2>3 DEF FastLookup, Goto, Label
  <2> QED BY <2>2, <2>3
<1>4. CASE ReserveKey(r)
  BY <1>4, TxFlagType, SeesRowType DEF ReserveKey, Goto, Label
<1>5. CASE RejectHashMismatch(r)
  BY <1>5 DEF RejectHashMismatch, Goto, Label
<1>6. CASE LoadAndCheck(r)
  BY <1>6 DEF LoadAndCheck, Goto, Label
<1>7. CASE Gates(r)
  BY <1>7 DEF Gates, Goto, Label
<1>8. CASE Handle(r)
  BY <1>8 DEF Handle, Goto, Label, Tx
<1>9. CASE Save(r)
  <2>1. [tx EXCEPT ![r].wrote = TRUE] \in [Request -> Tx]
    BY TxFlagType
  <2> QED BY <1>9, <2>1 DEF Save, Goto, Label
<1>10. CASE WriteLedger(r)
  BY <1>10 DEF WriteLedger, Goto, Label
<1>11. CASE WriteRecords(r)
  BY <1>11, TxFlagType DEF WriteRecords, Goto, Label
<1>12. CASE StoreResult(r)
  BY <1>12, TxFlagType, SeesRowType DEF StoreResult, Goto, Label
<1>13. CASE CacheResult(r)
  BY <1>13 DEF CacheResult, Goto, Label
<1>14. CASE Commit(r)
  BY <1>14, EndType, PersistType DEF Commit
<1>15. CASE NoConnection(r)
  BY <1>15 DEF NoConnection, FailOutside, Goto, Label
<1>16. CASE StoreError(r)
  <2>1. [tx EXCEPT ![r].marked = SeesRow(r)] \in [Request -> Tx]
    BY TxFlagType, SeesRowType
  <2>2. CASE tx[r].doomed
    BY <1>16, <2>2, EndType DEF StoreError
  <2>3. CASE ~tx[r].doomed
    BY <1>16, <2>1, <2>3 DEF StoreError, Goto, Label
  <2> QED BY <2>2, <2>3
<1>17. CASE AnswerError(r)
  BY <1>17, EndType, PersistType DEF AnswerError
<1> QED
  BY <1>1, <1>2, <1>3, <1>4, <1>5, <1>6, <1>7, <1>8, <1>9, <1>10, <1>11, <1>12, <1>13, <1>14,
     <1>15, <1>16, <1>17 DEF Step

LEMMA TypeInit == Init => TypeOK
<1>1. NewTx \in Tx
  BY DEF NewTx, Tx
<1> QED BY <1>1 DEF Init, TypeOK, Label

LEMMA TypeNext == TypeOK /\ [Next]_vars => TypeOK'
<1> SUFFICES ASSUME TypeOK, [Next]_vars PROVE TypeOK'
  OBVIOUS
<1>1. ASSUME NEW r \in Request, Step(r) PROVE TypeOK'
  BY <1>1, PipelineType
<1>2. ASSUME NEW r \in Request, Reject(r) PROVE TypeOK'
  BY <1>2 DEF Reject, Goto, Label, TypeOK, stored
<1>3. ASSUME NEW r \in Request, StatementFails(r) PROVE TypeOK'
  <2>1. [tx EXCEPT ![r].doomed = TRUE] \in [Request -> Tx]
    BY TxFlagType
  <2> QED BY <1>3, <2>1 DEF StatementFails, Goto, Label, TypeOK, stored
<1>4. ASSUME NEW r \in Request, OutsideFails(r) PROVE TypeOK'
  BY <1>4 DEF OutsideFails, FailOutside, Goto, Label, TypeOK, stored
<1>5. ASSUME NEW r \in Request, Lose(r) PROVE TypeOK'
  BY <1>5, EndType DEF Lose, TypeOK, stored
<1>6. ASSUME NEW k \in Key, Evict(k) PROVE TypeOK'
  BY <1>6 DEF Evict, TypeOK, stored
<1>7. CASE UNCHANGED vars
  BY <1>7 DEF vars, stored, counters, TypeOK
<1> QED BY <1>1, <1>2, <1>3, <1>4, <1>5, <1>6, <1>7 DEF Next

(* Every variable of the pipeline keeps its type: the rows, the cache, the  *)
(* aggregate and the transactions of CommandBus.execute.                    *)
THEOREM TypeCorrect == Spec => []TypeOK
<1> QED BY TypeInit, TypeNext, PTL DEF Spec

-----------------------------------------------------------------------------
(* No lost update *)

(* Where a request stands once it has updated the aggregate. *)
Written == {"ledger", "record", "result", "cache", "commit", "error", "errcache"}

(* An update under way holds the aggregate's lock, so it is the only one,   *)
(* and is based on the committed version; a committed one has ended.        *)
WroteOK   == \A r \in Request : tx[r].wrote => pc[r] \in Written /\ tx[r].base = version
OneWriter == \A r, q \in Request : tx[r].wrote /\ tx[q].wrote => r = q
DoneOK    == \A r \in did : pc[r] = "done"

WriteInv == TypeOK /\ WroteOK /\ OneWriter /\ DoneOK /\ NoLostUpdate

LEMMA WriteInit == Init => WriteInv
<1>1. Cardinality({}) = 0
  BY FS_EmptySet
<1> QED
  BY <1>1, TypeInit DEF Init, WriteInv, WroteOK, OneWriter, DoneOK, NoLostUpdate, NewTx

(* A request that has not ended commits or drops its transaction. *)
LEMMA WritePersist ==
  ASSUME WriteInv, NEW r \in Request, pc[r] \notin {"start", "done"},
         NEW a, Persist(r), End(r, a)
  PROVE  WroteOK' /\ OneWriter' /\ DoneOK' /\ NoLostUpdate'
<1> USE DEF WriteInv
<1>1. r \notin did
  BY DEF DoneOK
<1>2. /\ \A q \in Request : q # r => tx'[q] = tx[q] /\ pc'[q] = pc[q]
      /\ ~tx'[r].wrote /\ pc'[r] = "done"
  BY DEF End, Goto, TypeOK, NewTx
<1>3. OneWriter'
  BY <1>2 DEF OneWriter
<1>4. DoneOK'
  BY <1>2 DEF DoneOK, Persist, TypeOK
<1>5. CASE tx[r].wrote
  <2>1. version' = version + 1 /\ did' = did \union {r}
    BY <1>5 DEF Persist, WroteOK
  <2>2. \A q \in Request : ~tx'[q].wrote
    BY <1>2, <1>5 DEF OneWriter
  <2>3. IsFiniteSet(did)
    BY RequestAssumption, FS_Subset DEF TypeOK
  <2>4. Cardinality(did \union {r}) = Cardinality(did) + 1
    BY <1>1, <2>3, FS_AddElement
  <2> QED BY <1>3, <1>4, <2>1, <2>2, <2>4 DEF WroteOK, NoLostUpdate
<1>6. CASE ~tx[r].wrote
  <2>1. version' = version /\ did' = did
    BY <1>6 DEF Persist
  <2>2. WroteOK'
    BY <1>2, <2>1 DEF WroteOK
  <2> QED BY <1>3, <1>4, <2>1, <2>2 DEF NoLostUpdate
<1> QED BY <1>5, <1>6

(* A request moves on, or drops its transaction, and commits nothing. *)
LEMMA WriteMove ==
  ASSUME WriteInv, NEW r \in Request, pc[r] # "done", UNCHANGED <<version, did>>,
         \A q \in Request \ {r} : tx'[q] = tx[q] /\ pc'[q] = pc[q],
         tx'[r].wrote => tx[r].wrote /\ tx'[r].base = tx[r].base /\ pc'[r] \in Written
  PROVE  WroteOK' /\ OneWriter' /\ DoneOK' /\ NoLostUpdate'
<1>1. WroteOK'
  BY DEF WriteInv, WroteOK
<1>2. OneWriter'
  BY DEF WriteInv, OneWriter
<1>3. DoneOK'
  BY DEF WriteInv, DoneOK, TypeOK
<1> QED BY <1>1, <1>2, <1>3 DEF WriteInv, NoLostUpdate

LEMMA WriteSave ==
  ASSUME WriteInv, NEW r \in Request, Save(r)
  PROVE  WroteOK' /\ OneWriter' /\ DoneOK' /\ NoLostUpdate'
<1> USE DEF WriteInv
<1>1. CASE version = tx[r].base /\ tx' = [tx EXCEPT ![r].wrote = TRUE] /\ Goto(r, "ledger")
  <2>1. \A q \in Request \ {r} : tx'[q] = tx[q] /\ pc'[q] = pc[q] /\ ~tx[q].wrote
    BY <1>1 DEF Save, Goto, AggLocked, TypeOK
  <2>2. tx'[r].base = version /\ pc'[r] = "ledger"
    BY <1>1 DEF Goto, TypeOK, Tx
  <2>3. pc[r] = "write" /\ version' = version /\ did' = did
    BY DEF Save, stored
  <2>4. WroteOK' /\ OneWriter'
    BY <2>1, <2>2, <2>3 DEF WroteOK, OneWriter, Written
  <2>5. DoneOK'
    BY <2>1, <2>3 DEF DoneOK, TypeOK
  <2> QED BY <2>3, <2>4, <2>5 DEF NoLostUpdate
<1>2. CASE Goto(r, "error") /\ UNCHANGED tx
  BY <1>2, WriteMove DEF Save, Goto, TypeOK, stored, WroteOK, Written
<1> QED BY <1>1, <1>2 DEF Save

LEMMA WriteStep ==
  ASSUME WriteInv, NEW r \in Request, Step(r)
  PROVE  WroteOK' /\ OneWriter' /\ DoneOK' /\ NoLostUpdate'
<1> USE DEF WriteInv, TypeOK, Goto, stored, Written, WroteOK
<1>1. CASE Begin(r)
  BY <1>1, WriteMove DEF Begin, End, NewTx
<1>2. CASE Validate(r)
  BY <1>2, WriteMove DEF Validate
<1>3. CASE FastLookup(r)
  BY <1>3, WriteMove DEF FastLookup, End, NewTx
<1>4. CASE ReserveKey(r)
  BY <1>4, WriteMove DEF ReserveKey, Tx
<1>5. CASE RejectHashMismatch(r)
  BY <1>5, WriteMove DEF RejectHashMismatch
<1>6. CASE LoadAndCheck(r)
  BY <1>6, WriteMove DEF LoadAndCheck
<1>7. CASE Gates(r)
  BY <1>7, WriteMove DEF Gates
<1>8. CASE Handle(r)
  BY <1>8, WriteMove DEF Handle, Tx
<1>9. CASE Save(r)
  BY <1>9, WriteSave
<1>10. CASE WriteLedger(r)
  BY <1>10, WriteMove DEF WriteLedger
<1>11. CASE WriteRecords(r)
  BY <1>11, WriteMove DEF WriteRecords, Tx
<1>12. CASE StoreResult(r)
  BY <1>12, WriteMove DEF StoreResult, Tx
<1>13. CASE CacheResult(r)
  BY <1>13, WriteMove DEF CacheResult
<1>14. CASE Commit(r)
  BY <1>14, WritePersist DEF Commit
<1>15. CASE NoConnection(r)
  BY <1>15, WriteMove DEF NoConnection, FailOutside
<1>16. CASE StoreError(r)
  BY <1>16, WriteMove DEF StoreError, End, NewTx, Tx
<1>17. CASE AnswerError(r)
  BY <1>17, WritePersist DEF AnswerError
<1> QED
  BY <1>1, <1>2, <1>3, <1>4, <1>5, <1>6, <1>7, <1>8, <1>9, <1>10, <1>11, <1>12, <1>13, <1>14,
     <1>15, <1>16, <1>17 DEF Step

LEMMA WriteNext == WriteInv /\ [Next]_vars => WriteInv'
<1> SUFFICES ASSUME WriteInv, [Next]_vars PROVE WroteOK' /\ OneWriter' /\ DoneOK' /\ NoLostUpdate'
  BY TypeNext DEF WriteInv
<1> USE DEF WriteInv, TypeOK, Goto, stored, Written, WroteOK
<1>1. ASSUME NEW r \in Request, Step(r) PROVE WroteOK' /\ OneWriter' /\ DoneOK' /\ NoLostUpdate'
  BY <1>1, WriteStep
<1>2. ASSUME NEW r \in Request, Reject(r) PROVE WroteOK' /\ OneWriter' /\ DoneOK' /\ NoLostUpdate'
  BY <1>2, WriteMove DEF Reject
<1>3. ASSUME NEW r \in Request, StatementFails(r) PROVE WroteOK' /\ OneWriter' /\ DoneOK' /\ NoLostUpdate'
  BY <1>3, WriteMove DEF StatementFails, Tx
<1>4. ASSUME NEW r \in Request, OutsideFails(r) PROVE WroteOK' /\ OneWriter' /\ DoneOK' /\ NoLostUpdate'
  BY <1>4, WriteMove DEF OutsideFails, FailOutside
<1>5. ASSUME NEW r \in Request, Lose(r) PROVE WroteOK' /\ OneWriter' /\ DoneOK' /\ NoLostUpdate'
  BY <1>5, WriteMove DEF Lose, End, NewTx
<1>6. CASE \E k \in Key : Evict(k)
  BY <1>6 DEF Evict, OneWriter, DoneOK, NoLostUpdate
<1>7. CASE UNCHANGED vars
  BY <1>7 DEF vars, OneWriter, DoneOK, NoLostUpdate
<1> QED BY <1>1, <1>2, <1>3, <1>4, <1>5, <1>6, <1>7 DEF Next

(* However requests interleave and fail, each committed state change is     *)
(* based on the version before it: BaseRepository.update compares under the *)
(* row's lock what the handler read without one.                            *)
THEOREM UpdatesAreKept == Spec => []NoLostUpdate
<1>1. WriteInv => NoLostUpdate
  BY DEF WriteInv
<1> QED BY <1>1, WriteInit, WriteNext, PTL DEF Spec
-----------------------------------------------------------------------------
(* One meaning per key *)

(* A new idempotency row is the only one of its key. *)
InsertOK    == \A r \in Request : tx[r].inserted => idem[KeyOf[r]] = NoRow
OneInserter == \A r, q \in Request : tx[r].inserted /\ tx[q].inserted /\ KeyOf[r] = KeyOf[q] => r = q

(* The row a request found or made carries the request's hash. *)
OwnHash(r) == tx[r].inserted \/ idem[KeyOf[r]] = HashOf[r]

Checked == {"load", "gates", "handle", "write"}
HashOK  == \A r \in Request : pc[r] \in Checked \/ tx[r].wrote => OwnHash(r)
DidOK   == \A r \in did : idem[KeyOf[r]] = HashOf[r]

KeyInv == InsertOK /\ OneInserter /\ HashOK /\ DidOK

LEMMA KeyInit == Init => KeyInv
  BY DEF Init, KeyInv, InsertOK, OneInserter, HashOK, DidOK, NewTx, Checked

LEMMA KeyPersist ==
  ASSUME WriteInv, KeyInv, NEW r \in Request, pc[r] \notin {"start", "done"},
         NEW a, Persist(r), End(r, a)
  PROVE  KeyInv'
<1> USE DEF WriteInv, KeyInv
<1>1. /\ \A q \in Request : q # r => tx'[q] = tx[q] /\ pc'[q] = pc[q]
      /\ ~tx'[r].wrote /\ ~tx'[r].inserted /\ pc'[r] = "done"
  BY DEF End, Goto, TypeOK, NewTx
<1>2. KeyOf[r] \in Key /\ HashOf[r] # NoRow
  BY RequestAssumption, NoRowAssumption
<1>3. idem'[KeyOf[r]] = IF tx[r].inserted THEN HashOf[r] ELSE idem[KeyOf[r]]
  BY <1>2 DEF Persist, TypeOK
<1>4. \A k \in Key : k # KeyOf[r] \/ ~tx[r].inserted => idem'[k] = idem[k]
  BY DEF Persist, TypeOK
<1>5. \A q \in Request : KeyOf[q] \in Key /\ HashOf[q] \in Hash /\ HashOf[q] # NoRow
  BY RequestAssumption, NoRowAssumption
<1>6. InsertOK'
  BY <1>1, <1>4, <1>5 DEF InsertOK, OneInserter
<1>7. OneInserter'
  BY <1>1 DEF OneInserter
<1>8. ASSUME NEW q \in Request, idem[KeyOf[q]] = HashOf[q] PROVE idem'[KeyOf[q]] = HashOf[q]
  BY <1>4, <1>5, <1>8 DEF InsertOK
<1>9. HashOK'
  <2> SUFFICES ASSUME NEW q \in Request, (pc[q] \in Checked \/ tx[q].wrote)', q # r PROVE OwnHash(q)'
    BY <1>1 DEF HashOK, Checked
  <2>1. tx[q].inserted \/ idem[KeyOf[q]] = HashOf[q]
    BY <1>1 DEF HashOK, OwnHash
  <2> QED BY <1>1, <1>8, <2>1 DEF OwnHash
<1>10. DidOK'
  <2> SUFFICES ASSUME NEW q \in did' PROVE idem'[KeyOf[q]] = HashOf[q]
    BY DEF DidOK
  <2>1. CASE q \in did
    BY <1>8, <2>1 DEF DidOK, TypeOK
  <2>2. CASE q \notin did
    <3>1. q = r /\ tx[r].wrote
      BY <2>2 DEF Persist
    <3> QED BY <1>3, <3>1 DEF HashOK, OwnHash
  <2> QED BY <2>1, <2>2
<1> QED BY <1>6, <1>7, <1>9, <1>10

LEMMA KeyMove ==
  ASSUME WriteInv, KeyInv, NEW r \in Request, UNCHANGED <<idem, did>>,
         \A q \in Request \ {r} : tx'[q] = tx[q] /\ pc'[q] = pc[q],
         tx'[r].inserted => tx[r].inserted,
         pc'[r] \in Checked \/ tx'[r].wrote => OwnHash(r)'
  PROVE  KeyInv'
<1>1. InsertOK' /\ OneInserter'
  BY DEF KeyInv, InsertOK, OneInserter
<1>2. HashOK' /\ DidOK'
  BY DEF KeyInv, HashOK, DidOK, OwnHash
<1> QED BY <1>1, <1>2 DEF KeyInv

LEMMA KeyReserve ==
  ASSUME WriteInv, KeyInv, NEW r \in Request, ReserveKey(r)
  PROVE  KeyInv'
<1> USE DEF WriteInv, KeyInv
<1>1. /\ \A q \in Request : q # r => tx'[q] = tx[q] /\ pc'[q] = pc[q]
      /\ pc'[r] = "hash" /\ tx'[r].wrote = tx[r].wrote
      /\ idem' = idem /\ did' = did
  BY DEF ReserveKey, Goto, TypeOK, Tx, stored
<1>2. ~tx[r].wrote
  BY DEF ReserveKey, WroteOK, Written
<1>3. SeesRow(r) \in BOOLEAN /\ (~SeesRow(r)) \in BOOLEAN
  BY SeesRowType
<1>4. tx'[r].inserted = ~SeesRow(r)
  BY <1>3 DEF ReserveKey, TypeOK, Tx
<1>5. tx'[r].inserted => idem[KeyOf[r]] = NoRow
  BY <1>4 DEF SeesRow
<1>6. \A q \in Request : q # r /\ KeyOf[q] = KeyOf[r] => ~tx[q].inserted
  BY DEF ReserveKey, RowInserting, Others
<1>7. InsertOK' /\ OneInserter'
  BY <1>1, <1>5, <1>6 DEF InsertOK, OneInserter
<1>8. HashOK' /\ DidOK'
  BY <1>1, <1>2 DEF HashOK, DidOK, OwnHash, Checked
<1> QED BY <1>7, <1>8

LEMMA KeyStep ==
  ASSUME WriteInv, KeyInv, NEW r \in Request, Step(r)
  PROVE  KeyInv'
<1> USE DEF TypeOK, Goto, stored, WriteInv, KeyInv, HashOK, OwnHash, Checked
<1>1. CASE Begin(r)
  BY <1>1, KeyMove DEF Begin, End, NewTx
<1>2. CASE Validate(r)
  BY <1>2, KeyMove DEF Validate
<1>3. CASE FastLookup(r)
  BY <1>3, KeyMove DEF FastLookup, End, NewTx
<1>4. CASE ReserveKey(r)
  BY <1>4, KeyReserve
<1>5. CASE RejectHashMismatch(r)
  BY <1>5, KeyMove DEF RejectHashMismatch
<1>6. CASE LoadAndCheck(r)
  BY <1>6, KeyMove DEF LoadAndCheck
<1>7. CASE Gates(r)
  BY <1>7, KeyMove DEF Gates
<1>8. CASE Handle(r)
  BY <1>8, KeyMove DEF Handle, Tx
<1>9. CASE Save(r)
  BY <1>9, KeyMove DEF Save, Tx
<1>10. CASE WriteLedger(r)
  BY <1>10, KeyMove DEF WriteLedger
<1>11. CASE WriteRecords(r)
  BY <1>11, KeyMove DEF WriteRecords, Tx
<1>12. CASE StoreResult(r)
  BY <1>12, KeyMove DEF StoreResult, Tx
<1>13. CASE CacheResult(r)
  BY <1>13, KeyMove DEF CacheResult
<1>14. CASE Commit(r)
  BY <1>14, KeyPersist DEF Commit
<1>15. CASE NoConnection(r)
  BY <1>15, KeyMove DEF NoConnection, FailOutside
<1>16. CASE StoreError(r)
  BY <1>16, KeyMove DEF StoreError, End, NewTx, Tx
<1>17. CASE AnswerError(r)
  BY <1>17, KeyPersist DEF AnswerError
<1> QED
  BY <1>1, <1>2, <1>3, <1>4, <1>5, <1>6, <1>7, <1>8, <1>9, <1>10, <1>11, <1>12, <1>13, <1>14,
     <1>15, <1>16, <1>17 DEF Step

LEMMA KeyNext == WriteInv /\ KeyInv /\ [Next]_vars => KeyInv'
<1> SUFFICES ASSUME WriteInv, KeyInv, [Next]_vars PROVE KeyInv'
  OBVIOUS
<1> USE DEF TypeOK, Goto, stored, WriteInv, KeyInv, HashOK, OwnHash, Checked
<1>1. ASSUME NEW r \in Request, Step(r) PROVE KeyInv'
  BY <1>1, KeyStep
<1>2. ASSUME NEW r \in Request, Reject(r) PROVE KeyInv'
  BY <1>2, KeyMove DEF Reject
<1>3. ASSUME NEW r \in Request, StatementFails(r) PROVE KeyInv'
  BY <1>3, KeyMove DEF StatementFails, Tx
<1>4. ASSUME NEW r \in Request, OutsideFails(r) PROVE KeyInv'
  BY <1>4, KeyMove DEF OutsideFails, FailOutside
<1>5. ASSUME NEW r \in Request, Lose(r) PROVE KeyInv'
  BY <1>5, KeyMove DEF Lose, End, NewTx
<1>6. CASE \E k \in Key : Evict(k)
  BY <1>6 DEF Evict, InsertOK, OneInserter, DidOK
<1>7. CASE UNCHANGED vars
  BY <1>7 DEF vars, InsertOK, OneInserter, DidOK
<1> QED BY <1>1, <1>2, <1>3, <1>4, <1>5, <1>6, <1>7 DEF Next

(* Two requests with the same idempotency key and different payloads never  *)
(* both take effect: the UNIQUE row and the comparison of hashes.           *)
THEOREM KeysMeanOnePayload == Spec => []OneMeaningPerKey
<1>1. WriteInv /\ KeyInv => OneMeaningPerKey
  BY DEF WriteInv, TypeOK, KeyInv, DidOK, OneMeaningPerKey
<1>2. WriteInv /\ KeyInv /\ [Next]_vars => (WriteInv /\ KeyInv)'
  BY WriteNext, KeyNext
<1> QED BY <1>1, <1>2, WriteInit, KeyInit, PTL DEF Spec

-----------------------------------------------------------------------------
(* All or nothing *)

(* What a request has done by the time it stands at each label, and why one *)
(* that has written its state is on the error path.                         *)
StageOK(r) ==
    /\ pc[r] \in {"ledger", "record", "result", "cache", "commit"} => tx[r].wrote
    /\ pc[r] \in {"record", "result", "cache", "commit"} => r \in ledger
    /\ pc[r] \in {"result", "cache", "commit"} => tx[r].recorded
    /\ pc[r] \in {"error", "errcache"} /\ tx[r].wrote => r \in late \/ tx[r].doomed
    /\ tx[r].doomed => pc[r] = "error"
    /\ tx[r].recorded => tx[r].wrote

RecordInv == (\A r \in Request : StageOK(r)) /\ EventsHaveState /\ AllOrNothing

LEMMA RecordInit == Init => RecordInv
  BY DEF Init, RecordInv, StageOK, EventsHaveState, AllOrNothing, NewTx

LEMMA RecordPersist ==
  ASSUME WriteInv, RecordInv, NEW r \in Request,
         NEW a, Persist(r), End(r, a), ledger' = ledger, late' = late,
         (pc[r] = "commit" /\ a = "ok") \/ pc[r] = "errcache"
  PROVE  RecordInv'
<1> USE DEF WriteInv, RecordInv
<1>1. /\ \A q \in Request : q # r => tx'[q] = tx[q] /\ pc'[q] = pc[q] /\ answer'[q] = answer[q]
      /\ ~tx'[r].wrote /\ ~tx'[r].recorded /\ ~tx'[r].doomed /\ pc'[r] = "done" /\ answer'[r] = a
  BY DEF End, Goto, TypeOK, NewTx
<1>2. r \notin did
  BY DEF DoneOK
<1>3. \A q \in Request : StageOK(q)'
  BY <1>1 DEF StageOK
<1>4. EventsHaveState'
  BY DEF Persist, EventsHaveState, StageOK
<1>5. AllOrNothing'
  BY <1>1, <1>2 DEF Persist, AllOrNothing, StageOK, TypeOK
<1> QED BY <1>3, <1>4, <1>5

LEMMA RecordMove ==
  ASSUME WriteInv, RecordInv, NEW r \in Request, r \notin did, UNCHANGED <<did, events>>,
         ledger \subseteq ledger', late \subseteq late',
         \A q \in Request \ {r} : tx'[q] = tx[q] /\ pc'[q] = pc[q] /\ answer'[q] = answer[q],
         StageOK(r)'
  PROVE  RecordInv'
<1>1. \A q \in Request : StageOK(q)'
  BY DEF RecordInv, StageOK
<1>2. EventsHaveState' /\ AllOrNothing'
  BY DEF RecordInv, WriteInv, TypeOK, EventsHaveState, AllOrNothing
<1> QED BY <1>1, <1>2 DEF RecordInv

LEMMA RecordStep ==
  ASSUME WriteInv, RecordInv, NEW r \in Request, Step(r)
  PROVE  RecordInv'
<1> USE DEF TypeOK, Goto, stored, WriteInv, RecordInv, StageOK, DoneOK, WroteOK, Written
<1>1. CASE Begin(r)
  BY <1>1, RecordMove DEF Begin, End, NewTx
<1>2. CASE Validate(r)
  BY <1>2, RecordMove DEF Validate
<1>3. CASE FastLookup(r)
  BY <1>3, RecordMove DEF FastLookup, End, NewTx
<1>4. CASE ReserveKey(r)
  BY <1>4, RecordMove DEF ReserveKey, Tx
<1>5. CASE RejectHashMismatch(r)
  BY <1>5, RecordMove DEF RejectHashMismatch
<1>6. CASE LoadAndCheck(r)
  BY <1>6, RecordMove DEF LoadAndCheck
<1>7. CASE Gates(r)
  BY <1>7, RecordMove DEF Gates
<1>8. CASE Handle(r)
  BY <1>8, RecordMove DEF Handle, Tx
<1>9. CASE Save(r)
  BY <1>9, RecordMove DEF Save, Tx
<1>10. CASE WriteLedger(r)
  BY <1>10, RecordMove DEF WriteLedger
<1>11. CASE WriteRecords(r)
  BY <1>11, RecordMove DEF WriteRecords, Tx
<1>12. CASE StoreResult(r)
  BY <1>12, RecordMove DEF StoreResult, Tx
<1>13. CASE CacheResult(r)
  BY <1>13, RecordMove DEF CacheResult
<1>14. CASE Commit(r)
  BY <1>14, RecordPersist DEF Commit
<1>15. CASE NoConnection(r)
  BY <1>15, RecordMove DEF NoConnection, FailOutside
<1>16. CASE StoreError(r)
  BY <1>16, RecordMove DEF StoreError, End, NewTx, Tx
<1>17. CASE AnswerError(r)
  BY <1>17, RecordPersist DEF AnswerError
<1> QED
  BY <1>1, <1>2, <1>3, <1>4, <1>5, <1>6, <1>7, <1>8, <1>9, <1>10, <1>11, <1>12, <1>13, <1>14,
     <1>15, <1>16, <1>17 DEF Step

LEMMA RecordNext == WriteInv /\ RecordInv /\ [Next]_vars => RecordInv'
<1> SUFFICES ASSUME WriteInv, RecordInv, [Next]_vars PROVE RecordInv'
  OBVIOUS
<1> USE DEF TypeOK, Goto, stored, WriteInv, RecordInv, StageOK, DoneOK, WroteOK, Written
<1>1. ASSUME NEW r \in Request, Step(r) PROVE RecordInv'
  BY <1>1, RecordStep
<1>2. ASSUME NEW r \in Request, Reject(r) PROVE RecordInv'
  BY <1>2, RecordMove DEF Reject
<1>3. ASSUME NEW r \in Request, StatementFails(r) PROVE RecordInv'
  BY <1>3, RecordMove DEF StatementFails, Tx
<1>4. ASSUME NEW r \in Request, OutsideFails(r) PROVE RecordInv'
  BY <1>4, RecordMove DEF OutsideFails, FailOutside
<1>5. ASSUME NEW r \in Request, Lose(r) PROVE RecordInv'
  BY <1>5, RecordMove DEF Lose, End, NewTx
<1>6. CASE \E k \in Key : Evict(k)
  BY <1>6 DEF Evict, EventsHaveState, AllOrNothing
<1>7. CASE UNCHANGED vars
  BY <1>7 DEF vars, EventsHaveState, AllOrNothing
<1> QED BY <1>1, <1>2, <1>3, <1>4, <1>5, <1>6, <1>7 DEF Next

LEMMA RecordAlways == Spec => [](WriteInv /\ RecordInv)
<1>1. WriteInv /\ RecordInv /\ [Next]_vars => (WriteInv /\ RecordInv)'
  BY WriteNext, RecordNext
<1> QED BY <1>1, WriteInit, RecordInit, PTL DEF Spec

(* The transactional outbox: a committed state change has its audit record, *)
(* its events and its ledger row and was answered as a success, unless      *)
(* Redis, the ledger's connection or the pool failed it after its write.    *)
THEOREM ChangesAreRecorded == Spec => []AllOrNothing
<1>1. RecordInv => AllOrNothing
  BY DEF RecordInv
<1> QED BY <1>1, RecordAlways, PTL

(* Audit and outbox rows are committed only with the change they report.    *)
THEOREM RecordsAreTrue == Spec => []EventsHaveState
<1>1. RecordInv => EventsHaveState
  BY DEF RecordInv
<1> QED BY <1>1, RecordAlways, PTL

-----------------------------------------------------------------------------
(* A caller is told of success only if the command is, or will be, done     *)

(* Some request with key k has committed, is committing, or was lost.       *)
Settled(k) == \E q \in Request : KeyOf[q] = k /\ (q \in did \/ pc[q] = "commit" \/ answer[q] = "lost")

AnsweredOK == \A r \in Request : answer[r] # "none" => pc[r] = "done"
CacheOK    == \A k \in Key : cache[k] = "ok" => Settled(k)
ToldOK     == \A r \in Request : answer[r] = "ok" => Settled(KeyOf[r])

OkInv == AnsweredOK /\ CacheOK /\ ToldOK

LEMMA OkInit == Init => OkInv
  BY NoRowAssumption DEF Init, OkInv, AnsweredOK, CacheOK, ToldOK

(* What a step of r tells its caller, caches and commits. *)
Moves(r) ==
    /\ \A q \in Request \ {r} : pc'[q] = pc[q] /\ answer'[q] = answer[q]
    /\ did \subseteq did'
    /\ pc[r] # "done"
    /\ pc[r] = "commit" => r \in did' \/ answer'[r] = "lost"
    /\ answer'[r] # "none" => pc'[r] = "done"
    /\ answer'[r] = "ok" => cache[KeyOf[r]] = "ok" \/ r \in did'
    /\ \A k \in Key : cache'[k] = "ok" => cache[k] = "ok" \/ (k = KeyOf[r] /\ pc'[r] = "commit")

LEMMA OkMoves ==
  ASSUME WriteInv, RecordInv, AnsweredOK, NEW r \in Request,
         Step(r) \/ Reject(r) \/ StatementFails(r) \/ OutsideFails(r) \/ Lose(r)
  PROVE  Moves(r)
<1> USE DEF WriteInv, TypeOK, AnsweredOK, Moves, Goto, stored
<1>0. KeyOf[r] \in Key
  BY RequestAssumption
<1>1. CASE Begin(r)
  BY <1>1 DEF Begin, End
<1>2. CASE Validate(r) \/ ReserveKey(r) \/ RejectHashMismatch(r) \/ LoadAndCheck(r) \/ Gates(r)
  BY <1>2 DEF Validate, ReserveKey, RejectHashMismatch, LoadAndCheck, Gates
<1>3. CASE FastLookup(r)
  BY <1>0, <1>3 DEF FastLookup, End
<1>4. CASE Handle(r) \/ Save(r) \/ WriteLedger(r) \/ WriteRecords(r) \/ StoreResult(r)
  BY <1>4 DEF Handle, Save, WriteLedger, WriteRecords, StoreResult
<1>5. CASE CacheResult(r)
  BY <1>0, <1>5 DEF CacheResult
<1>6. CASE Commit(r)
  <2>1. tx[r].wrote
    BY <1>6 DEF Commit, RecordInv, StageOK
  <2>2. r \in did' /\ did \subseteq did'
    BY <1>6, <2>1 DEF Commit, Persist
  <2> QED BY <1>6, <2>2 DEF Commit, End
<1>7. CASE Reject(r) \/ StatementFails(r)
  BY <1>7 DEF Reject, StatementFails
<1>8. CASE OutsideFails(r) \/ NoConnection(r)
  BY <1>8 DEF OutsideFails, NoConnection, FailOutside
<1>9. CASE StoreError(r)
  BY <1>9 DEF StoreError, End
<1>10. CASE AnswerError(r)
  <2>1. did \subseteq did'
    BY <1>10 DEF AnswerError, Persist
  <2>2. \A k \in Key : cache'[k] = "ok" => cache[k] = "ok"
    BY <1>0, <1>10 DEF AnswerError
  <2> QED BY <1>10, <2>1, <2>2 DEF AnswerError, End
<1>11. CASE Lose(r)
  BY <1>11 DEF Lose, End
<1> QED
  BY <1>1, <1>2, <1>3, <1>4, <1>5, <1>6, <1>7, <1>8, <1>9, <1>10, <1>11 DEF Step

LEMMA OkNext == WriteInv /\ RecordInv /\ OkInv /\ [Next]_vars => OkInv'
<1> SUFFICES ASSUME WriteInv, RecordInv, OkInv, [Next]_vars PROVE OkInv'
  OBVIOUS
<1>1. CASE UNCHANGED vars
  BY <1>1 DEF vars, stored, OkInv, AnsweredOK, CacheOK, ToldOK, Settled
<1>2. ASSUME NEW k \in Key, Evict(k) PROVE OkInv'
  <2>1. UNCHANGED <<did, pc, answer>> /\ \A i \in Key : cache'[i] = "ok" => cache[i] = "ok"
    BY <1>2, NoRowAssumption DEF Evict, stored, WriteInv, TypeOK
  <2> QED BY <2>1 DEF OkInv, AnsweredOK, CacheOK, ToldOK, Settled
<1>3. ASSUME NEW r \in Request, Step(r) \/ Reject(r) \/ StatementFails(r) \/ OutsideFails(r) \/ Lose(r)
      PROVE  OkInv'
  <2>0. Moves(r)
    BY <1>3, OkMoves DEF OkInv
  <2>1. ASSUME NEW k \in Key, Settled(k) PROVE Settled(k)'
    <3>1. PICK q \in Request : KeyOf[q] = k /\ (q \in did \/ pc[q] = "commit" \/ answer[q] = "lost")
      BY <2>1 DEF Settled
    <3>2. q \in did' \/ pc'[q] = "commit" \/ answer'[q] = "lost"
      BY <2>0, <3>1 DEF Moves, OkInv, AnsweredOK
    <3> QED BY <3>1, <3>2 DEF Settled
  <2>2. AnsweredOK'
    BY <2>0 DEF Moves, OkInv, AnsweredOK
  <2>3. CacheOK'
    <3> SUFFICES ASSUME NEW k \in Key, cache'[k] = "ok" PROVE Settled(k)'
      BY DEF CacheOK
    <3>1. CASE cache[k] = "ok"
      BY <2>1, <3>1 DEF OkInv, CacheOK
    <3>2. CASE k = KeyOf[r] /\ pc'[r] = "commit"
      BY <3>2 DEF Settled
    <3> QED BY <2>0, <3>1, <3>2 DEF Moves
  <2>4. ToldOK'
    <3> SUFFICES ASSUME NEW q \in Request, answer'[q] = "ok" PROVE Settled(KeyOf[q])'
      BY DEF ToldOK
    <3>0. KeyOf[q] \in Key
      BY RequestAssumption
    <3>1. CASE q # r
      BY <2>0, <2>1, <3>0, <3>1 DEF Moves, OkInv, ToldOK
    <3>2. CASE q = r /\ cache[KeyOf[r]] = "ok"
      BY <2>1, <3>0, <3>2 DEF OkInv, CacheOK
    <3>3. CASE q = r /\ r \in did'
      BY <3>3 DEF Settled
    <3> QED BY <2>0, <3>1, <3>2, <3>3 DEF Moves
  <2> QED BY <2>2, <2>3, <2>4 DEF OkInv
<1> QED BY <1>1, <1>2, <1>3 DEF Next

(* A caller is told of success, from the cache or by its own request, only  *)
(* if a request with its key has committed, is about to, or was lost        *)
(* between caching its result and its commit.                               *)
THEOREM SuccessIsCommitted == Spec => []OkIsCommitted
<1>1. Spec => [](WriteInv /\ RecordInv /\ OkInv)
  BY WriteInit, WriteNext, RecordInit, RecordNext, OkInit, OkNext, PTL DEF Spec
<1>2. OkInv => OkIsCommitted
  BY DEF OkInv, ToldOK, Settled, OkIsCommitted, Others
<1> QED BY <1>1, <1>2, PTL
-----------------------------------------------------------------------------
(* The pipeline implements AtomicCommands: what its steps do to the state,  *)
(* the records and the answers is one of its steps or nothing.              *)
BusInv == WriteInv /\ KeyInv /\ RecordInv /\ OkInv

Deciding == {q \in Request : pc[q] = "commit"}

LEMMA PromiseVars ==
  ASSUME UNCHANGED <<version, did, events, Deciding, late, answer>>
  PROVE  UNCHANGED Promise!vars
BY DEF Deciding, Promise!vars

LEMMA DecidingMoves ==
  ASSUME TypeOK, NEW r \in Request, NEW l, Goto(r, l)
  PROVE  /\ l = "commit" => Deciding' = Deciding \union {r}
         /\ l # "commit" => Deciding' = Deciding \ {r}
         /\ l # "commit" /\ pc[r] # "commit" => Deciding' = Deciding
BY DEF TypeOK, Goto, Deciding

(* Steps that go on with the pipeline, or leave it for the error path.      *)
LEMMA QuietStep ==
  ASSUME TypeOK, NEW r \in Request, NEW l, Goto(r, l), l # "commit", pc[r] # "commit",
         UNCHANGED <<version, did, events, late, answer>>
  PROVE  [Promise!Next]_Promise!vars
BY DecidingMoves, PromiseVars

(* The caller is answered, and the transaction holds nothing or is dropped. *)
LEMMA AnswerStep ==
  ASSUME BusInv, NEW r \in Request, NEW a \in {"ok", "error", "lost"}, End(r, a),
         pc[r] # "done", pc[r] = "commit" => a = "lost", a = "ok" => cache[KeyOf[r]] = "ok",
         UNCHANGED <<version, did, events, late>>
  PROVE  [Promise!Next]_Promise!vars
<1> USE DEF BusInv, WriteInv, OkInv
<1>1. answer[r] = "none" /\ r \notin did
  BY DEF TypeOK, AnsweredOK, DoneOK
<1>2. Deciding' = Deciding \ {r}
  BY DecidingMoves DEF End
<1>3. ASSUME a = "ok" PROVE Promise!Known(r)
  <2>1. KeyOf[r] \in Key
    BY RequestAssumption
  <2>2. PICK q \in Request : KeyOf[q] = KeyOf[r] /\ (q \in did \/ pc[q] = "commit" \/ answer[q] = "lost")
    BY <1>3, <2>1 DEF CacheOK, Settled
  <2>3. q # r
    BY <1>1, <1>3, <2>2
  <2> QED BY <2>2, <2>3 DEF Promise!Known
<1>4. Promise!Answer(r, a)
  BY <1>1, <1>2, <1>3 DEF Promise!Answer, Promise!Tell, End, Deciding
<1> QED BY <1>4 DEF Promise!Next

(* A failure outside the database: the request slips if it has written.     *)
LEMMA SlipStep ==
  ASSUME BusInv, NEW r \in Request, FailOutside(r), pc[r] \notin {"commit", "done"}
  PROVE  [Promise!Next]_Promise!vars
<1> USE DEF BusInv, WriteInv, OkInv
<1>1. UNCHANGED <<version, did, events, answer>> /\ Goto(r, "error")
  BY DEF FailOutside, stored
<1>2. CASE tx[r].wrote
  <2>1. answer[r] = "none" /\ late' = late \union {r}
    BY <1>2 DEF TypeOK, AnsweredOK, FailOutside
  <2>2. Deciding' = Deciding /\ r \notin Deciding
    BY <1>1, DecidingMoves DEF Deciding
  <2>3. Promise!Slip(r)
    BY <1>1, <2>1, <2>2 DEF Promise!Slip, Deciding
  <2> QED BY <2>3 DEF Promise!Next
<1>3. CASE ~tx[r].wrote
  BY <1>1, <1>3, QuietStep DEF FailOutside
<1> QED BY <1>2, <1>3

(* What a request commits, it commits on the version that is in force, and  *)
(* for the payload its key stands for.                                      *)
LEMMA EffectStep ==
  ASSUME BusInv, BusInv', NEW r \in Request, Persist(r), tx[r].wrote, pc[r] # "done"
  PROVE  Promise!TakeEffect(r) /\ events' = IF tx[r].recorded THEN events \union {r} ELSE events
<1> USE DEF BusInv, WriteInv
<1>1. answer[r] = "none" /\ r \notin did
  BY DEF TypeOK, OkInv, AnsweredOK, DoneOK
<1>2. version' = version + 1 /\ did' = did \union {r}
  BY DEF Persist, WroteOK
<1>3. ASSUME NEW q \in did, KeyOf[q] = KeyOf[r] PROVE HashOf[q] = HashOf[r]
  <2>1. did' \subseteq Request
    BY DEF TypeOK
  <2>2. \A p \in did' : idem'[KeyOf[p]] = HashOf[p]
    BY DEF KeyInv, DidOK
  <2> QED BY <1>2, <1>3, <2>2
<1>4. Promise!TakeEffect(r)
  BY <1>1, <1>2, <1>3 DEF Promise!TakeEffect
<1> QED BY <1>4 DEF Persist

LEMMA CommitStep ==
  ASSUME BusInv, BusInv', NEW r \in Request, Commit(r)
  PROVE  [Promise!Next]_Promise!vars
<1> USE DEF BusInv, WriteInv
<1>1. pc[r] = "commit" /\ tx[r].wrote /\ tx[r].recorded /\ Persist(r) /\ End(r, "ok") /\ UNCHANGED late
  BY DEF Commit, RecordInv, StageOK
<1>2. Promise!TakeEffect(r) /\ events' = events \union {r}
  BY <1>1, EffectStep
<1>3. Deciding' = Deciding \ {r} /\ r \in Deciding
  BY <1>1, DecidingMoves DEF End, Deciding
<1>4. Promise!Apply(r)
  BY <1>1, <1>2, <1>3 DEF Promise!Apply, Promise!Tell, End, Deciding
<1> QED BY <1>4 DEF Promise!Next

LEMMA ErrorStep ==
  ASSUME BusInv, BusInv', NEW r \in Request, AnswerError(r)
  PROVE  [Promise!Next]_Promise!vars
<1> USE DEF BusInv, WriteInv
<1>1. pc[r] = "errcache" /\ Persist(r) /\ End(r, "error") /\ UNCHANGED late
  BY DEF AnswerError
<1>2. CASE tx[r].wrote
  <2>1. Promise!TakeEffect(r) /\ events' = IF tx[r].recorded THEN events \union {r} ELSE events
    BY <1>1, <1>2, EffectStep
  <2>2. r \in late
    BY <1>1, <1>2 DEF RecordInv, StageOK
  <2>3. Deciding' = Deciding
    BY <1>1, DecidingMoves DEF End
  <2>4. Promise!ApplySlipped(r)
    BY <1>1, <2>1, <2>2, <2>3 DEF Promise!ApplySlipped, Promise!Tell, End, Deciding
  <2> QED BY <2>4 DEF Promise!Next
<1>3. CASE ~tx[r].wrote
  <2>1. UNCHANGED <<version, did, events>>
    BY <1>1, <1>3 DEF Persist, RecordInv, StageOK
  <2> QED BY <1>1, <2>1, AnswerStep
<1> QED BY <1>2, <1>3

LEMMA RequestStep ==
  ASSUME BusInv, BusInv', NEW r \in Request,
         Step(r) \/ Reject(r) \/ StatementFails(r) \/ OutsideFails(r) \/ Lose(r)
  PROVE  [Promise!Next]_Promise!vars
<1>t. TypeOK
  BY DEF BusInv, WriteInv
<1>1. CASE Begin(r)
  BY <1>1, <1>t, QuietStep, AnswerStep DEF Begin, stored
<1>2. CASE Validate(r) \/ ReserveKey(r) \/ RejectHashMismatch(r) \/ LoadAndCheck(r) \/ Gates(r)
  BY <1>2, <1>t, QuietStep DEF Validate, ReserveKey, RejectHashMismatch, LoadAndCheck, Gates, stored
<1>3. CASE FastLookup(r)
  <2>1. cache[KeyOf[r]] \in {"ok", "error", NoRow} /\ pc[r] = "lookup" /\ UNCHANGED <<version, did, events, late>>
    BY <1>3, <1>t, RequestAssumption DEF FastLookup, TypeOK, stored
  <2>2. CASE cache[KeyOf[r]] # NoRow /\ End(r, cache[KeyOf[r]])
    BY <2>1, <2>2, AnswerStep
  <2>3. CASE Goto(r, "reserve") /\ UNCHANGED answer
    BY <1>t, <2>1, <2>3, QuietStep
  <2> QED BY <1>3, <2>2, <2>3 DEF FastLookup
<1>4. CASE Handle(r) \/ Save(r) \/ WriteLedger(r) \/ WriteRecords(r) \/ StoreResult(r)
  BY <1>4, <1>t, QuietStep DEF Handle, Save, WriteLedger, WriteRecords, StoreResult, stored
<1>5. CASE CacheResult(r)
  <2>1. answer[r] = "none" /\ Deciding' = Deciding \union {r} /\ UNCHANGED <<version, did, events, late, answer>>
    BY <1>5, <1>t, DecidingMoves DEF CacheResult, BusInv, OkInv, AnsweredOK, TypeOK, stored
  <2>2. Promise!Decide(r)
    BY <2>1 DEF Promise!Decide, Deciding
  <2> QED BY <2>2 DEF Promise!Next
<1>6. CASE Commit(r)
  BY <1>6, CommitStep
<1>7. CASE Reject(r) \/ StatementFails(r)
  BY <1>7, <1>t, QuietStep DEF Reject, StatementFails, stored
<1>8. CASE OutsideFails(r) \/ NoConnection(r)
  BY <1>8, SlipStep DEF OutsideFails, NoConnection
<1>9. CASE StoreError(r)
  <2>1. pc[r] = "error" /\ UNCHANGED <<version, did, events, late>>
    BY <1>9 DEF StoreError, stored
  <2>2. CASE Goto(r, "errcache") /\ UNCHANGED answer
    BY <1>t, <2>1, <2>2, QuietStep
  <2>3. CASE End(r, "error")
    BY <2>1, <2>3, AnswerStep
  <2> QED BY <1>9, <2>2, <2>3 DEF StoreError
<1>10. CASE AnswerError(r)
  BY <1>10, ErrorStep
<1>11. CASE Lose(r)
  BY <1>11, AnswerStep DEF Lose, stored
<1> QED
  BY <1>1, <1>2, <1>3, <1>4, <1>5, <1>6, <1>7, <1>8, <1>9, <1>10, <1>11 DEF Step

LEMMA PromiseNext == BusInv /\ BusInv' /\ [Next]_vars => [Promise!Next]_Promise!vars
<1> SUFFICES ASSUME BusInv, BusInv', [Next]_vars PROVE [Promise!Next]_Promise!vars
  OBVIOUS
<1>1. ASSUME NEW k \in Key, Evict(k) PROVE [Promise!Next]_Promise!vars
  BY <1>1, PromiseVars DEF Evict, stored, Deciding
<1>2. CASE UNCHANGED vars
  BY <1>2, PromiseVars DEF vars, stored, Deciding
<1> QED BY <1>1, <1>2, RequestStep DEF Next

LEMMA PromiseInit == Init => Promise!Init
BY DEF Init, Promise!Init

(* Commands are atomic, except those that slip, for any requests, keys and  *)
(* pool, and any number of refusals, failures and losses.                   *)
THEOREM ImplementsAtomicCommands == Spec => KeepsItsPromise
<1>1. Spec => []BusInv
  BY WriteInit, WriteNext, KeyInit, KeyNext, RecordInit, RecordNext, OkInit, OkNext, PTL DEF Spec, BusInv
<1>2. Spec => Promise!Init
  BY PromiseInit DEF Spec
<1>3. [][Next]_vars /\ []BusInv => [][Promise!Next]_(Promise!vars)
  BY PromiseNext, PTL
<1> QED BY <1>1, <1>2, <1>3, PTL DEF Spec, KeepsItsPromise, Promise!Spec
=============================================================================
