------------------------------ MODULE CommandBus ------------------------------
(***************************************************************************)
(* CommandBus.execute for commands on one aggregate whose repository joins *)
(* the bus's transaction. Every request runs the pipeline in a PostgreSQL  *)
(* transaction (read committed) of its own, beside the idempotency cache   *)
(* in Redis and the transition ledger, which belong to no transaction. A   *)
(* failure is answered, not thrown: the transaction then commits whatever  *)
(* it holds, unless a failing statement has doomed it. The requests are of *)
(* one process: each holds a connection of its pool for its transaction,   *)
(* and takes another one for the queries made outside it.                  *)
(***************************************************************************)
EXTENDS Naturals, FiniteSets

CONSTANTS
    Request,     \* calls of execute, retries of a command included
    Key,         \* idempotency keys
    Hash,        \* request hashes
    KeyOf,       \* the key of a request
    HashOf,      \* the hash of its payload
    Versioned,   \* requests with expectedState and expectedVersion, its first one
    PoolSize,    \* DB_POOL_MAX: connections of the process
    NoRow,       \* no idempotency_keys row, no cache entry
    MaxRejects,  \* bound: requests refused by a validation, a guard or the handler
    MaxFaults,   \* bound: failing statements and Redis calls
    MaxLost,     \* bound: connections or processes lost within a transaction
    MaxEvict     \* bound: cache entries that expire

ASSUME RequestAssumption ==
    /\ IsFiniteSet(Request) /\ Versioned \subseteq Request
    /\ KeyOf \in [Request -> Key] /\ HashOf \in [Request -> Hash]
ASSUME NoRowAssumption == NoRow \notin Hash /\ NoRow \notin {"ok", "error"}
ASSUME PoolAssumption  == PoolSize \in Nat \ {0}
ASSUME BoundAssumption == {MaxRejects, MaxFaults, MaxLost, MaxEvict} \subseteq Nat

VARIABLES
    idem,      \* idem[k]: the hash of the committed idempotency_keys row of k
    cache,     \* cache[k]: the outcome Redis holds for k
    version,   \* the aggregate's committed version
    did,       \* requests whose state change is committed
    events,    \* requests whose audit record and outbox rows are committed
    ledger,    \* requests with a transition ledger row
    pc,        \* where each request stands
    tx,        \* what its open transaction holds
    answer,    \* what its caller was told
    late,      \* requests that failed outside the database after their state change
    rejects, faults, lost, evicted   \* bounded counts

stored   == <<idem, version, did, events>>
counters == <<rejects, faults, lost, evicted>>
vars     == <<stored, cache, ledger, pc, tx, answer, late, counters>>

Label == {"start", "validate", "lookup", "reserve", "hash", "load", "gates", "handle", "write",
          "ledger", "record", "result", "cache", "commit", "error", "errcache", "done"}

(* inserted: its idempotency row is new; marked: it has updated that row;   *)
(* base: the version its handler read; wrote: it has updated the aggregate; *)
(* recorded: audit and outbox rows written; doomed: a statement has failed. *)
Tx == [inserted : BOOLEAN, marked : BOOLEAN, base : Nat, wrote : BOOLEAN,
       recorded : BOOLEAN, doomed : BOOLEAN]

NewTx == [inserted |-> FALSE, marked |-> FALSE, base |-> 0, wrote |-> FALSE,
          recorded |-> FALSE, doomed |-> FALSE]

TypeOK ==
    /\ idem \in [Key -> Hash \union {NoRow}]
    /\ cache \in [Key -> {"ok", "error", NoRow}]
    /\ version \in Nat
    /\ did \in SUBSET Request /\ events \in SUBSET Request
    /\ ledger \in SUBSET Request /\ late \in SUBSET Request
    /\ pc \in [Request -> Label]
    /\ tx \in [Request -> Tx]
    /\ answer \in [Request -> {"none", "ok", "error", "lost"}]
    /\ rejects \in Nat /\ faults \in Nat /\ lost \in Nat /\ evicted \in Nat

Init ==
    /\ idem = [k \in Key |-> NoRow]
    /\ cache = [k \in Key |-> NoRow]
    /\ version = 0
    /\ did = {} /\ events = {} /\ ledger = {} /\ late = {}
    /\ pc = [r \in Request |-> "start"]
    /\ tx = [r \in Request |-> NewTx]
    /\ answer = [r \in Request |-> "none"]
    /\ rejects = 0 /\ faults = 0 /\ lost = 0 /\ evicted = 0

-----------------------------------------------------------------------------
(* Helpers *)

Goto(r, l) == pc' = [pc EXCEPT ![r] = l]

Others(r) == {q \in Request \ {r} : KeyOf[q] = KeyOf[r]}

(* A transaction sees committed rows and its own. *)
SeesRow(r) == tx[r].inserted \/ idem[KeyOf[r]] # NoRow

(* Row locks last until the transaction that took them ends. *)
RowInserting(r) == \E q \in Others(r) : tx[q].inserted
RowMarked(r)    == \E q \in Others(r) : tx[q].marked
AggLocked(r)    == \E q \in Request \ {r} : tx[q].wrote

(* A connection of the pool is free: none is held between two actions but   *)
(* those of open transactions.                                              *)
FreeConnection == Cardinality({q \in Request : pc[q] \notin {"start", "done"}}) < PoolSize

(* Mutant: the transaction is left open when the caller is told. *)
MutEnd(r, a) ==
    /\ Goto(r, "done")
    /\ answer' = [answer EXCEPT ![r] = a]
    /\ UNCHANGED tx

(* The transaction ends, with its writes or without, and the caller is told. *)
End(r, a) ==
    /\ Goto(r, "done")
    /\ answer' = [answer EXCEPT ![r] = a]
    /\ tx' = [tx EXCEPT ![r] = NewTx]

Persist(r) ==
    /\ idem' = IF tx[r].inserted THEN [idem EXCEPT ![KeyOf[r]] = HashOf[r]] ELSE idem
    /\ version' = IF tx[r].wrote THEN tx[r].base + 1 ELSE version
    /\ did' = IF tx[r].wrote THEN did \union {r} ELSE did
    /\ events' = IF tx[r].recorded THEN events \union {r} ELSE events

-----------------------------------------------------------------------------
(* The pipeline *)

(* The transaction's connection is awaited for five seconds. *)
Begin(r) ==
    /\ pc[r] = "start"
    /\ \/ /\ FreeConnection
          /\ Goto(r, "validate")
          /\ UNCHANGED <<tx, answer>>
       \/ /\ ~FreeConnection
          /\ End(r, "lost")
    /\ UNCHANGED <<stored, cache, ledger, late, counters>>

(* Actor, tenant, module and schema are validated before the cache is read. *)
Validate(r) ==
    /\ pc[r] = "validate"
    /\ FreeConnection
    /\ Goto(r, "lookup")
    /\ UNCHANGED <<stored, cache, ledger, tx, answer, late, counters>>

(* Mutant: a miss is answered like a hit. *)
MutFastLookup(r) ==
    /\ pc[r] = "lookup"
    /\ End(r, cache[KeyOf[r]])
    /\ UNCHANGED <<stored, cache, ledger, late, counters>>

(* fastLookup: a cached outcome is the answer, whatever the request's hash. *)
FastLookup(r) ==
    /\ pc[r] = "lookup"
    /\ \/ /\ cache[KeyOf[r]] # NoRow
          /\ End(r, cache[KeyOf[r]])
       \/ /\ cache[KeyOf[r]] = NoRow
          /\ Goto(r, "reserve")
          /\ UNCHANGED <<tx, answer>>
    /\ UNCHANGED <<stored, cache, ledger, late, counters>>

(* Mutant: the insert does not wait for a concurrent insert of the key. *)
MutReserveKey(r) ==
    /\ pc[r] = "reserve"
    /\ tx' = [tx EXCEPT ![r].inserted = ~SeesRow(r)]
    /\ Goto(r, "hash")
    /\ UNCHANGED <<stored, cache, ledger, answer, late, counters>>

(* INSERT ... ON CONFLICT DO NOTHING waits for a concurrent insert of the   *)
(* key to commit or roll back.                                              *)
ReserveKey(r) ==
    /\ pc[r] = "reserve"
    /\ ~RowInserting(r)
    /\ tx' = [tx EXCEPT ![r].inserted = ~SeesRow(r)]
    /\ Goto(r, "hash")
    /\ UNCHANGED <<stored, cache, ledger, answer, late, counters>>

RejectHashMismatch(r) ==
    /\ pc[r] = "hash"
    /\ Goto(r, IF tx[r].inserted \/ idem[KeyOf[r]] = HashOf[r] THEN "load" ELSE "error")
    /\ UNCHANGED <<stored, cache, ledger, tx, answer, late, counters>>

(* The command expects the version it was made for, and finds another.      *)
VersionConflict(r) == r \in Versioned /\ version # 0

(* The aggregate is read, without a lock, and an expected version compared. *)
LoadAndCheck(r) ==
    /\ pc[r] = "load"
    /\ Goto(r, IF VersionConflict(r) THEN "error" ELSE "gates")
    /\ UNCHANGED <<stored, cache, ledger, tx, answer, late, counters>>

(* Access, privacy, governance, legal hold, separation of duties, approval. *)
Gates(r) ==
    /\ pc[r] = "gates"
    /\ FreeConnection
    /\ Goto(r, "handle")
    /\ UNCHANGED <<stored, cache, ledger, tx, answer, late, counters>>

(* The handler loads the aggregate ... *)
Handle(r) ==
    /\ pc[r] = "handle"
    /\ tx' = [tx EXCEPT ![r].base = version]
    /\ Goto(r, "write")
    /\ UNCHANGED <<stored, cache, ledger, answer, late, counters>>

(* Mutant: the update is not guarded by the version that was read. *)
MutSave(r) ==
    /\ pc[r] = "write"
    /\ ~AggLocked(r)
    /\ tx' = [tx EXCEPT ![r].wrote = TRUE]
    /\ Goto(r, "ledger")
    /\ UNCHANGED <<stored, cache, ledger, answer, late, counters>>

(* ... and saves it: the UPDATE waits for a concurrent writer, then matches *)
(* the version the handler read or fails with a ConflictError.              *)
Save(r) ==
    /\ pc[r] = "write"
    /\ ~AggLocked(r)
    /\ \/ /\ version = tx[r].base
          /\ tx' = [tx EXCEPT ![r].wrote = TRUE]
          /\ Goto(r, "ledger")
       \/ /\ version # tx[r].base
          /\ Goto(r, "error")
          /\ UNCHANGED tx
    /\ UNCHANGED <<stored, cache, ledger, answer, late, counters>>

(* The ledger service looks for an ambient transaction, which only the      *)
(* handler was run in: its row is committed at once.                        *)
WriteLedger(r) ==
    /\ pc[r] = "ledger"
    /\ FreeConnection
    /\ ledger' = ledger \union {r}
    /\ Goto(r, "record")
    /\ UNCHANGED <<stored, cache, tx, answer, late, counters>>

(* Audit record, outbox rows, policy evidence. *)
WriteRecords(r) ==
    /\ pc[r] = "record"
    /\ tx' = [tx EXCEPT ![r].recorded = TRUE]
    /\ Goto(r, "result")
    /\ UNCHANGED <<stored, cache, ledger, answer, late, counters>>

(* storeResult: the row's UPDATE waits for a concurrent one ... *)
StoreResult(r) ==
    /\ pc[r] = "result"
    /\ ~RowMarked(r)
    /\ tx' = [tx EXCEPT ![r].marked = SeesRow(r)]
    /\ Goto(r, "cache")
    /\ UNCHANGED <<stored, cache, ledger, answer, late, counters>>

(* ... then the result is cached, before the transaction commits. *)
CacheResult(r) ==
    /\ pc[r] = "cache"
    /\ cache' = [cache EXCEPT ![KeyOf[r]] = "ok"]
    /\ Goto(r, "commit")
    /\ UNCHANGED <<stored, ledger, tx, answer, late, counters>>

Commit(r) ==
    /\ pc[r] = "commit"
    /\ Persist(r)
    /\ End(r, "ok")
    /\ UNCHANGED <<cache, ledger, late, counters>>

-----------------------------------------------------------------------------
(* The error path *)

(* A validation, a guard or the handler's domain logic refuses the command. *)
Reject(r) ==
    /\ rejects < MaxRejects
    /\ rejects' = rejects + 1
    /\ pc[r] \in {"validate", "load", "gates", "handle"}
    /\ Goto(r, "error")
    /\ UNCHANGED <<stored, cache, ledger, tx, answer, late, faults, lost, evicted>>

(* Mutant: the transaction survives the failed statement. *)
MutStatementFails(r) ==
    /\ faults < MaxFaults
    /\ faults' = faults + 1
    /\ pc[r] \in {"reserve", "hash", "load", "handle", "write", "record", "result"}
    /\ Goto(r, "error")
    /\ UNCHANGED <<stored, cache, ledger, tx, answer, late, rejects, lost, evicted>>

(* A statement of the transaction fails, which dooms it. *)
StatementFails(r) ==
    /\ faults < MaxFaults
    /\ faults' = faults + 1
    /\ pc[r] \in {"reserve", "hash", "load", "handle", "write", "record", "result"}
    /\ tx' = [tx EXCEPT ![r].doomed = TRUE]
    /\ Goto(r, "error")
    /\ UNCHANGED <<stored, cache, ledger, answer, late, rejects, lost, evicted>>

(* What is done outside the transaction fails, and that lives on. *)
FailOutside(r) ==
    /\ late' = IF tx[r].wrote THEN late \union {r} ELSE late
    /\ Goto(r, "error")
    /\ UNCHANGED <<stored, cache, ledger, tx, answer>>

(* Redis fails, or a query on a connection of its own. *)
OutsideFails(r) ==
    /\ faults < MaxFaults
    /\ faults' = faults + 1
    /\ pc[r] \in {"validate", "lookup", "gates", "ledger", "cache"}
    /\ FailOutside(r)
    /\ UNCHANGED <<rejects, lost, evicted>>

(* No second connection comes free for five seconds. *)
NoConnection(r) ==
    /\ pc[r] \in {"validate", "gates", "ledger"}
    /\ ~FreeConnection
    /\ FailOutside(r)
    /\ UNCHANGED counters

(* storeError: the row's UPDATE, which fails in a doomed transaction; that  *)
(* failure is logged.                                                       *)
StoreError(r) ==
    /\ pc[r] = "error"
    /\ \/ /\ ~tx[r].doomed /\ ~RowMarked(r)
          /\ tx' = [tx EXCEPT ![r].marked = SeesRow(r)]
          /\ Goto(r, "errcache")
          /\ UNCHANGED answer
       \/ /\ tx[r].doomed
          /\ End(r, "error")
    /\ UNCHANGED <<stored, cache, ledger, late, counters>>

(* Mutant: the failed command's result is cached as a success. *)
MutAnswerError(r) ==
    /\ pc[r] = "errcache"
    /\ cache' = [cache EXCEPT ![KeyOf[r]] = "ok"]
    /\ Persist(r)
    /\ End(r, "error")
    /\ UNCHANGED <<ledger, late, counters>>

(* The error is cached for the key, unless Redis fails, and the transaction *)
(* commits.                                                                 *)
AnswerError(r) ==
    /\ pc[r] = "errcache"
    /\ \/ /\ cache' = [cache EXCEPT ![KeyOf[r]] = "error"]
          /\ UNCHANGED faults
       \/ /\ faults < MaxFaults
          /\ faults' = faults + 1
          /\ UNCHANGED cache
    /\ Persist(r)
    /\ End(r, "error")
    /\ UNCHANGED <<ledger, late, rejects, lost, evicted>>

(* The connection is lost, or its client: the transaction rolls back. *)
Lose(r) ==
    /\ lost < MaxLost
    /\ lost' = lost + 1
    /\ pc[r] \notin {"start", "done"}
    /\ End(r, "lost")
    /\ UNCHANGED <<stored, cache, ledger, late, rejects, faults, evicted>>

(* A cache entry expires or is lost with its Redis. *)
Evict(k) ==
    /\ evicted < MaxEvict
    /\ evicted' = evicted + 1
    /\ cache[k] # NoRow
    /\ cache' = [cache EXCEPT ![k] = NoRow]
    /\ UNCHANGED <<stored, ledger, pc, tx, answer, late, rejects, faults, lost>>

Step(r) ==
    \/ Begin(r) \/ Validate(r) \/ FastLookup(r) \/ ReserveKey(r) \/ RejectHashMismatch(r)
    \/ LoadAndCheck(r) \/ Gates(r) \/ Handle(r) \/ Save(r) \/ WriteLedger(r) \/ WriteRecords(r)
    \/ StoreResult(r) \/ CacheResult(r) \/ Commit(r)
    \/ NoConnection(r) \/ StoreError(r) \/ AnswerError(r)

Next ==
    \/ \E r \in Request : Step(r) \/ Reject(r) \/ StatementFails(r) \/ OutsideFails(r) \/ Lose(r)
    \/ \E k \in Key : Evict(k)

Spec == Init /\ [][Next]_vars

(* A request's calls return; the database grants locks as they come free,   *)
(* and the pool its connections or a timeout.                               *)
FairSpec == Spec /\ \A r \in Request : WF_vars(Step(r))

-----------------------------------------------------------------------------
(* Every committed state change moved the version on by one: none was based *)
(* on a version another request had replaced.                               *)
NoLostUpdate == version = Cardinality(did)

(* A key stands for one payload: two requests with the same key and         *)
(* different hashes never both take effect.                                 *)
OneMeaningPerKey ==
    \A r, q \in did : KeyOf[r] = KeyOf[q] => HashOf[r] = HashOf[q]

(* A caller is told of success only if a request with its key has committed *)
(* its state, is committing, or was lost on its way to the commit.          *)
OkIsCommitted ==
    \A r \in Request : answer[r] = "ok" =>
        \E q \in Others(r) \union {r} : q \in did \/ pc[q] = "commit" \/ answer[q] = "lost"

(* The transactional outbox: a committed state change has its audit record, *)
(* events and ledger row and was answered as a success, unless Redis or the *)
(* ledger's own connection failed the request after its write.              *)
AllOrNothing ==
    \A r \in did : r \in late \/ (r \in events /\ r \in ledger /\ answer[r] = "ok")

Promise == INSTANCE AtomicCommands WITH
               applied  <- did,
               recorded <- events,
               deciding <- {r \in Request : pc[r] = "commit"},
               slipped  <- late,
               told     <- answer

(* Commands are atomic, except those that slip: locks, versions, keys and   *)
(* the transaction make the pipeline's many steps one effect or none, on    *)
(* top of all earlier effects, with its records and an answer that fits.    *)
KeepsItsPromise == Promise!Spec

(* Records never stand alone: audit and outbox rows are committed only with *)
(* the state change they report.                                            *)
EventsHaveState == events \subseteq did

(* Row locks and connections are always given back: although requests wait  *)
(* for each other's, every request is answered.                             *)
EveryRequestAnswered ==
    \A r \in Request : <>(answer[r] # "none")

(* What the comment on the state write step promises: if a later write of   *)
(* the pipeline fails, the state change is rolled back with it, so that a   *)
(* committed change has its records and its caller was told so.             *)
WritesAreAtomic ==
    \A r \in did : r \in events /\ answer[r] = "ok"
=============================================================================
