----------------------------- MODULE ApiPromise -----------------------------
(***************************************************************************)
(* What apiRequest promises its callers, whatever carries the request: a   *)
(* call settles once; a write takes effect at most once, and has taken     *)
(* effect when it is reported as done; a read answers with data no older   *)
(* than the moment its request was collected.                              *)
(***************************************************************************)
EXTENDS Naturals

CONSTANTS
    Calls,      \* the calls of apiRequest under way at one time
    Kinds       \* "read", "write", and "form": a write that HTTP must carry

VARIABLES
    status,     \* status[c]: "idle", "pending", "ok" or "error"
    kind,       \* kind[c]: what the call asks for
    effect,     \* effect[c]: how often the server applied the call
    floor,      \* floor[c]: the data version the answer may not fall behind
    got,        \* got[c]: the data version the answer carries
    db          \* the version of the server's data

vars == <<status, kind, effect, floor, got, db>>

TypeOK ==
    /\ status \in [Calls -> {"idle", "pending", "ok", "error"}]
    /\ kind \in [Calls -> Kinds]
    /\ effect \in [Calls -> 0..1]
    /\ floor \in [Calls -> Nat]
    /\ got \in [Calls -> Nat]
    /\ db \in Nat

Init ==
    /\ status = [c \in Calls |-> "idle"]
    /\ kind \in [Calls -> {"read"}]
    /\ effect = [c \in Calls |-> 0]
    /\ floor = [c \in Calls |-> 0]
    /\ got = [c \in Calls |-> 0]
    /\ db = 0

\* A call begins; a read may be collected into one that is still pending.
Start(c) ==
    /\ status[c] = "idle"
    /\ status' = [status EXCEPT ![c] = "pending"]
    /\ \E k \in Kinds : kind' = [kind EXCEPT ![c] = k]
    /\ \E f \in {db} \cup {floor[d] : d \in {e \in Calls : status[e] = "pending"}} :
          floor' = [floor EXCEPT ![c] = f]
    /\ UNCHANGED <<effect, got, db>>

\* The server applies a write, possibly after the caller was told it failed.
Apply(c) ==
    /\ status[c] \in {"pending", "error"}
    /\ kind[c] # "read"
    /\ effect[c] = 0
    /\ effect' = [effect EXCEPT ![c] = 1]
    /\ db' = db + 1
    /\ UNCHANGED <<status, kind, floor, got>>

\* The calls S, which share a promise, are answered with version v.
Resolve(S, v) ==
    /\ \A c \in S : /\ status[c] = "pending"
                    /\ kind[c] = "read" => floor[c] <= v
                    /\ kind[c] # "read" => effect[c] = 1
    /\ status' = [c \in Calls |-> IF c \in S THEN "ok" ELSE status[c]]
    /\ got' = [c \in Calls |-> IF c \in S THEN v ELSE got[c]]
    /\ floor' = [c \in Calls |-> IF c \in S THEN 0 ELSE floor[c]]
    /\ UNCHANGED <<kind, effect, db>>

Reject(S) ==
    /\ \A c \in S : status[c] = "pending"
    /\ status' = [c \in Calls |-> IF c \in S THEN "error" ELSE status[c]]
    /\ floor' = [c \in Calls |-> IF c \in S THEN 0 ELSE floor[c]]
    /\ UNCHANGED <<kind, effect, got, db>>

\* The caller has consumed the result; the slot stands for its next call.
Consume(c) ==
    /\ status[c] \in {"ok", "error"}
    /\ status' = [status EXCEPT ![c] = "idle"]
    /\ kind' = [kind EXCEPT ![c] = "read"]
    /\ effect' = [effect EXCEPT ![c] = 0]
    /\ floor' = [floor EXCEPT ![c] = 0]
    /\ got' = [got EXCEPT ![c] = 0]
    /\ UNCHANGED db

Next ==
    \/ \E c \in Calls : Start(c) \/ Apply(c) \/ Consume(c)
    \/ \E S \in SUBSET Calls : Reject(S) \/ \E v \in 0..db : Resolve(S, v)

Spec == Init /\ [][Next]_vars
=============================================================================
