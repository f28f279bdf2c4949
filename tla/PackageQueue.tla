---------------------------- MODULE PackageQueue ----------------------------
(***************************************************************************)
(* What encoding work distribution promises, without leases, handlers or   *)
(* files: a package is held by at most one encoder, only its holder can    *)
(* finish it, unfinished work is offered again while the retry budget      *)
(* lasts, and finished work is touched only to be repaired or removed.     *)
(***************************************************************************)
EXTENDS Naturals

CONSTANTS
    Packages, Encoders,
    NoEncoder,   \* the holder of a package nobody works on
    Budget       \* claims a package may use up before a failure is final; 0 is no limit

VARIABLES
    status,   \* status[p]
    spent,    \* spent[p]: claims since the operator last queued p
    holder,   \* holder[p]: who works on p
    member    \* member[e]: whether e may take and finish work

vars == <<status, spent, holder, member>>

Init ==
    /\ status = [p \in Packages |-> "missing"]
    /\ spent = [p \in Packages |-> 0]
    /\ holder = [p \in Packages |-> NoEncoder]
    /\ member = [e \in Encoders |-> "unregistered"]

-----------------------------------------------------------------------------
\* p gets a status and, unless it is being taken, loses its holder.
Put(p, s) ==
    /\ status' = [status EXCEPT ![p] = s]
    /\ holder' = [holder EXCEPT ![p] = NoEncoder]

\* The operator queues new packages and retries failed ones from a full budget.
Enqueue(S) ==
    /\ S # {}
    /\ \A p \in S : status[p] \in {"missing", "failed"}
    /\ status' = [p \in Packages |-> IF p \in S THEN "pending" ELSE status[p]]
    /\ spent' = [p \in Packages |-> IF p \in S THEN 0 ELSE spent[p]]
    /\ UNCHANGED <<holder, member>>

Withdraw(S) ==
    /\ S # {}
    /\ \A p \in S : status[p] \in {"pending", "processing"}
    /\ status' = [p \in Packages |-> IF p \in S THEN "failed" ELSE status[p]]
    /\ holder' = [p \in Packages |-> IF p \in S THEN NoEncoder ELSE holder[p]]
    /\ UNCHANGED <<spent, member>>

Take(p, e) ==
    /\ member[e] = "active"
    /\ status[p] \in {"missing", "pending", "failed"}
    /\ status' = [status EXCEPT ![p] = "processing"]
    /\ spent' = [spent EXCEPT ![p] = @ + 1]
    /\ holder' = [holder EXCEPT ![p] = e]
    /\ UNCHANGED member

\* Only an encoder in good standing that still holds the package.
Finish(p) ==
    /\ status[p] = "processing"
    /\ holder[p] # NoEncoder /\ member[holder[p]] = "active"
    /\ Put(p, "ready")
    /\ UNCHANGED <<spent, member>>

Retry(p) ==
    /\ status[p] = "processing"
    /\ Budget = 0 \/ spent[p] < Budget
    /\ Put(p, "pending")
    /\ UNCHANGED <<spent, member>>

GiveUp(p) ==
    /\ status[p] = "processing"
    /\ Put(p, "failed")
    /\ UNCHANGED <<spent, member>>

Repair(p) ==
    /\ status[p] = "ready"
    /\ Put(p, "pending")
    /\ UNCHANGED <<spent, member>>

Remove(p) ==
    /\ status[p] # "missing"
    /\ Put(p, "missing")
    /\ spent' = [spent EXCEPT ![p] = 0]
    /\ UNCHANGED member

Join(e) ==
    /\ member[e] = "unregistered"
    /\ member' = [member EXCEPT ![e] = "active"]
    /\ UNCHANGED <<status, spent, holder>>

Bar(e) ==
    /\ member[e] = "active"
    /\ member' = [member EXCEPT ![e] = "revoked"]
    /\ UNCHANGED <<status, spent, holder>>

\* What the encoder held is offered to the others, whatever it has spent.
Leave(e) ==
    /\ member[e] \in {"active", "revoked"}
    /\ member' = [member EXCEPT ![e] = "deleted"]
    /\ status' = [p \in Packages |-> IF holder[p] = e THEN "pending" ELSE status[p]]
    /\ holder' = [p \in Packages |-> IF holder[p] = e THEN NoEncoder ELSE holder[p]]
    /\ UNCHANGED spent

Next ==
    \/ \E S \in SUBSET Packages : Enqueue(S) \/ Withdraw(S)
    \/ \E p \in Packages :
         \/ \E e \in Encoders : Take(p, e)
         \/ Finish(p) \/ Retry(p) \/ GiveUp(p) \/ Repair(p) \/ Remove(p)
    \/ \E e \in Encoders : Join(e) \/ Bar(e) \/ Leave(e)

Spec == Init /\ [][Next]_vars

=============================================================================
