---------------------------- MODULE AtomicCommands ----------------------------
(***************************************************************************)
(* What the command bus promises its callers: a command on an aggregate    *)
(* takes effect at one instant, on top of every effect before it, together *)
(* with its records, and its caller learns of it; or it has no effect. A   *)
(* command that slipped, because Redis, the ledger or the pool failed it   *)
(* after its write, is the exception: it may take effect without records,  *)
(* and its caller is told that it failed.                                  *)
(***************************************************************************)
EXTENDS Naturals

CONSTANTS
    Request,        \* commands that callers send, retries included
    KeyOf, HashOf   \* their idempotency keys and what they ask for

VARIABLES
    version,   \* how many effects the aggregate has seen
    applied,   \* commands that have taken effect
    recorded,  \* commands whose records are kept
    deciding,  \* commands whose success is known to other callers, not yet in force
    slipped,   \* commands that failed after their write
    told       \* what each caller knows

vars == <<version, applied, recorded, deciding, slipped, told>>

Init ==
    /\ version = 0
    /\ applied = {} /\ recorded = {} /\ deciding = {} /\ slipped = {}
    /\ told = [r \in Request |-> "none"]

(* An effect follows all earlier ones, and a key stands for one payload.    *)
TakeEffect(r) ==
    /\ told[r] = "none" /\ r \notin applied
    /\ \A q \in applied : KeyOf[q] = KeyOf[r] => HashOf[q] = HashOf[r]
    /\ version' = version + 1
    /\ applied' = applied \union {r}

Tell(r, a) == told' = [told EXCEPT ![r] = a]

Decide(r) ==
    /\ told[r] = "none"
    /\ deciding' = deciding \union {r}
    /\ UNCHANGED <<version, applied, recorded, slipped, told>>

Apply(r) ==
    /\ r \in deciding
    /\ TakeEffect(r) /\ Tell(r, "ok")
    /\ recorded' = recorded \union {r}
    /\ deciding' = deciding \ {r}
    /\ UNCHANGED slipped

Slip(r) ==
    /\ told[r] = "none" /\ r \notin deciding
    /\ slipped' = slipped \union {r}
    /\ UNCHANGED <<version, applied, recorded, deciding, told>>

ApplySlipped(r) ==
    /\ r \in slipped
    /\ TakeEffect(r) /\ Tell(r, "error")
    /\ recorded' \in {recorded, recorded \union {r}}
    /\ UNCHANGED <<deciding, slipped>>

(* Another command with the key has succeeded, is about to, or was lost on  *)
(* its way.                                                                 *)
Known(r) ==
    \E q \in Request \ {r} : KeyOf[q] = KeyOf[r] /\ (q \in applied \union deciding \/ told[q] = "lost")

(* An answer without an effect. *)
Answer(r, a) ==
    /\ told[r] = "none"
    /\ a = "ok" => Known(r)
    /\ r \in deciding => a = "lost"
    /\ Tell(r, a)
    /\ deciding' = deciding \ {r}
    /\ UNCHANGED <<version, applied, recorded, slipped>>

Next ==
    \E r \in Request :
        \/ Decide(r) \/ Apply(r) \/ Slip(r) \/ ApplySlipped(r)
        \/ \E a \in {"ok", "error", "lost"} : Answer(r, a)

Spec == Init /\ [][Next]_vars
=============================================================================
