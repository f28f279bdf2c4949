---------------------------- MODULE PackageStore ----------------------------
(***************************************************************************)
(* The SQLite tables through which linearcast coordinates encoding work,   *)
(* and the transactions of internal/db that change them.                   *)
(*                                                                         *)
(* Every action below is ONE database transaction: the processes that call *)
(* them (EncodePipeline) interleave between transactions, never inside one.*)
(*                                                                         *)
(* A package id is layout.ID(media, profile), a function of the pair, so a *)
(* row that is deleted and queued again keeps its id: Packages is the set  *)
(* of those ids and an absent row has the status "missing", the word the   *)
(* admin API uses for it.                                                  *)
(*                                                                         *)
(* Wall-clock columns are kept as the comparisons the code makes on them:  *)
(* a lease has `lapsed' when lease_expires_ms < now, and a row is `aged'   *)
(* when updated_at_ms < now - StaleProcessingTimeout.                      *)
(***************************************************************************)
EXTENDS Naturals, FiniteSets

CONSTANTS
    Packages,        \* ids of media_packages rows
    Encoders,        \* ids of encoders rows, registered or not yet
    Policies,        \* Policies[p]: the blocking encoder_policy values of the channels of p's media
    Builds,          \* who can have produced a package directory
    NoBuild,         \* no directory / no segment rows
    NoLease,         \* no encoder_jobs row
    MaxConcurrency,  \* bound: largest encoders.concurrency considered
    AttemptBound     \* bound: no claim is modelled past this many attempts

ASSUME StoreAssumption ==
    /\ Policies \in [Packages -> SUBSET {"remote_only", "local_only"}]
    /\ NoBuild \notin Builds
    /\ NoLease \notin [owner: Encoders, lapsed: BOOLEAN]
    /\ MaxConcurrency \in Nat \ {0}
    /\ AttemptBound \in Nat \ {0}
    /\ IsFiniteSet(Packages)

VARIABLES
    packages,   \* media_packages: status, attempts, and whether updated_at_ms is old
    jobs,       \* encoder_jobs: at most one lease per package (package_id is the key)
    encoders,   \* encoders: registration state and concurrency cap
    segments    \* packaged_segments: the build whose manifest the rows describe

storeVars == <<packages, jobs, encoders, segments>>

Statuses == {"missing", "pending", "processing", "ready", "failed"}
Row == [status: Statuses, attempts: 0..AttemptBound, aged: BOOLEAN]
Lease == [owner: Encoders, lapsed: BOOLEAN]
Encoder == [state: {"unregistered", "active", "revoked", "deleted"},
            concurrency: 0..MaxConcurrency]

StoreTypeOK ==
    /\ packages \in [Packages -> Row]
    /\ jobs \in [Packages -> Lease \cup {NoLease}]
    /\ encoders \in [Encoders -> Encoder]
    /\ segments \in [Packages -> Builds \cup {NoBuild}]

NoRow == [status |-> "missing", attempts |-> 0, aged |-> FALSE]

StoreInit ==
    /\ packages = [p \in Packages |-> NoRow]
    /\ jobs = [p \in Packages |-> NoLease]
    /\ encoders = [e \in Encoders |-> [state |-> "unregistered", concurrency |-> 1]]
    /\ segments = [p \in Packages |-> NoBuild]

-----------------------------------------------------------------------------
(* What a transaction reads.                                               *)

Exists(p) == packages[p].status # "missing"
Processing(p) == packages[p].status = "processing"
Leased(p) == jobs[p] # NoLease
Active(e) == encoders[e].state = "active"                \* requireActiveEncoder
Registered(e) == encoders[e].state \in {"active", "revoked"}
OwnsJob(p, e) == Leased(p) /\ jobs[p].owner = e           \* requireJobOwnership
HeldJobs(e) == {p \in Packages : OwnsJob(p, e)}

\* The precondition HeartbeatEncoderJob, CompleteEncoderJob and FailEncoderJob share.
HoldsClaim(p, e) == Active(e) /\ OwnsJob(p, e) /\ Processing(p)

\* policyAllowsClaim: one forbidding channel is enough to refuse the claim.
PolicyAllows(p, local) ==
    IF local THEN "remote_only" \notin Policies[p] ELSE "local_only" \notin Policies[p]

\* A zero cap refuses only the local worker; the check for remotes is at registration.
CapAllows(e, local) ==
    IF encoders[e].concurrency > 0
    THEN Cardinality(HeldJobs(e)) < encoders[e].concurrency
    ELSE ~local

FailureKinds == {"transient", "terminal"}

\* Slip: the last attempt within the cap is offered again.
FailureStatusOffByOne(kind, attempts, cap) ==
    IF kind = "terminal" \/ (cap > 0 /\ attempts > cap) THEN "failed" ELSE "pending"

\* resolveFailureStatus: a cap of 0 never promotes a transient failure.
FailureStatus(kind, attempts, cap) ==
    IF kind = "terminal" \/ (cap > 0 /\ attempts >= cap) THEN "failed" ELSE "pending"

-----------------------------------------------------------------------------
(* Building blocks: every status update refreshes updated_at_ms.           *)

SetStatus(p, s) ==
    packages' = [packages EXCEPT ![p].status = s, ![p].aged = FALSE]

DropLease(p) == jobs' = [jobs EXCEPT ![p] = NoLease]

FailProcessing(p, kind, cap) == SetStatus(p, FailureStatus(kind, packages[p].attempts, cap))

-----------------------------------------------------------------------------
(* Operator requests.                                                      *)

\* RequestMediaPackages: queue a missing row, or retry a failed one from zero attempts.
RequestMediaPackages(S) ==
    /\ \E p \in S : packages[p].status \in {"missing", "failed"}
    /\ packages' = [p \in Packages |->
            IF p \in S /\ packages[p].status \in {"missing", "failed"}
            THEN [NoRow EXCEPT !.status = "pending"]
            ELSE packages[p]]
    /\ UNCHANGED <<jobs, encoders, segments>>

\* CancelMediaPackages and CancelAllMediaPackagesForProfile. The lease row stays.
CancelMediaPackages(S) ==
    /\ \E p \in S : packages[p].status \in {"pending", "processing"}
    /\ packages' = [p \in Packages |->
            IF p \in S /\ packages[p].status \in {"pending", "processing"}
            THEN [packages[p] EXCEPT !.status = "failed", !.aged = FALSE]
            ELSE packages[p]]
    /\ UNCHANGED <<jobs, encoders, segments>>

\* DeleteMediaPackage: ON DELETE CASCADE takes the lease and the segment rows along.
DeleteMediaPackage(p) ==
    /\ Exists(p)
    /\ packages' = [packages EXCEPT ![p] = NoRow]
    /\ DropLease(p)
    /\ segments' = [segments EXCEPT ![p] = NoBuild]
    /\ UNCHANGED encoders

-----------------------------------------------------------------------------
(* Encoder registration.                                                   *)

\* A new id each time: a deleted id never comes back. The cap defaults to 1.
RegisterEncoder(e) ==
    /\ encoders[e].state = "unregistered"
    /\ encoders' = [encoders EXCEPT ![e] = [state |-> "active", concurrency |-> 1]]
    /\ UNCHANGED <<packages, jobs, segments>>

\* The encoder's leases stay until they lapse.
RevokeEncoder(e) ==
    /\ Active(e)
    /\ encoders' = [encoders EXCEPT ![e].state = "revoked"]
    /\ UNCHANGED <<packages, jobs, segments>>

\* Slip: the rows are released and the leases forgotten.
DeleteEncoderKeepsLeases(e) ==
    /\ Registered(e)
    /\ packages' = [p \in Packages |->
            IF OwnsJob(p, e) /\ Processing(p)
            THEN [packages[p] EXCEPT !.status = "pending", !.aged = FALSE]
            ELSE packages[p]]
    /\ encoders' = [encoders EXCEPT ![e].state = "deleted"]
    /\ UNCHANGED <<jobs, segments>>

\* Releases the encoder's processing rows to pending whatever their attempts.
DeleteEncoder(e) ==
    /\ Registered(e)
    /\ packages' = [p \in Packages |->
            IF OwnsJob(p, e) /\ Processing(p)
            THEN [packages[p] EXCEPT !.status = "pending", !.aged = FALSE]
            ELSE packages[p]]
    /\ jobs' = [p \in Packages |-> IF OwnsJob(p, e) THEN NoLease ELSE jobs[p]]
    /\ encoders' = [encoders EXCEPT ![e].state = "deleted"]
    /\ UNCHANGED segments

UpdateEncoderConcurrency(e, n) ==
    /\ Registered(e)
    /\ n # encoders[e].concurrency
    /\ encoders' = [encoders EXCEPT ![e].concurrency = n]
    /\ UNCHANGED <<packages, jobs, segments>>

-----------------------------------------------------------------------------
(* Claims and their leases.                                                *)

\* The INSERT into encoder_jobs fails on a leftover lease and rolls the claim back.
CanClaim(p, e, local) ==
    /\ Active(e)
    /\ PolicyAllows(p, local)
    /\ CapAllows(e, local)
    /\ packages[p].status \in {"missing", "pending", "failed"}
    /\ ~Leased(p)
    /\ packages[p].attempts < AttemptBound

ClaimPackage(p, e, local) ==
    /\ CanClaim(p, e, local)
    /\ packages' = [packages EXCEPT ![p] =
            [status |-> "processing", attempts |-> @.attempts + 1, aged |-> FALSE]]
    /\ jobs' = [jobs EXCEPT ![p] = [owner |-> e, lapsed |-> FALSE]]
    /\ UNCHANGED <<encoders, segments>>

HeartbeatEncoderJob(p, e) ==
    /\ HoldsClaim(p, e)
    /\ jobs' = [jobs EXCEPT ![p].lapsed = FALSE]
    /\ UNCHANGED <<packages, encoders, segments>>

\* Slip: the lease outlives the completion.
CompleteEncoderJobKeepsLease(p, e) ==
    HoldsClaim(p, e) /\ SetStatus(p, "ready") /\ UNCHANGED <<jobs, encoders, segments>>

CompleteEncoderJob(p, e) ==
    /\ HoldsClaim(p, e)
    /\ SetStatus(p, "ready")
    /\ DropLease(p)
    /\ UNCHANGED <<encoders, segments>>

FailEncoderJob(p, e, kind, cap) ==
    /\ HoldsClaim(p, e)
    /\ FailProcessing(p, kind, cap)
    /\ DropLease(p)
    /\ UNCHANGED <<encoders, segments>>

\* Slip: nothing to expire once the package has left processing.
ExpireOneLeaseIfProcessing(p, cap) ==
    /\ IF Processing(p) THEN FailProcessing(p, "transient", cap) /\ DropLease(p)
                        ELSE UNCHANGED <<packages, jobs>>
    /\ UNCHANGED <<encoders, segments>>

\* expireOneLease: looks at the package's status, not at the lease it was called for.
ExpireOneLease(p, cap) ==
    /\ IF Processing(p) THEN FailProcessing(p, "transient", cap) ELSE UNCHANGED packages
    /\ DropLease(p)
    /\ UNCHANGED <<encoders, segments>>

\* ClearEncoderLease deletes whoever's lease is there.
ClearEncoderLease(p) ==
    /\ DropLease(p)
    /\ UNCHANGED <<packages, encoders, segments>>

-----------------------------------------------------------------------------
(* Status updates that do not look at the lease.                           *)

\* UpsertMediaPackage by id: whatever the row's status was, and also when it is gone.
MarkPackageProcessing(p) ==
    /\ SetStatus(p, "processing")
    /\ UNCHANGED <<jobs, encoders, segments>>

MarkPackageReady(p) ==
    /\ Processing(p)
    /\ SetStatus(p, "ready")
    /\ UNCHANGED <<jobs, encoders, segments>>

MarkPackageFailedWithKind(p, kind, cap) ==
    /\ Processing(p)
    /\ FailProcessing(p, kind, cap)
    /\ UNCHANGED <<jobs, encoders, segments>>

\* attempts is kept: the retry budget of a repaired package is what is left of it.
MarkReadyPackagePendingForReencode(p) ==
    /\ packages[p].status = "ready"
    /\ SetStatus(p, "pending")
    /\ segments' = [segments EXCEPT ![p] = NoBuild]
    /\ UNCHANGED <<jobs, encoders>>

-----------------------------------------------------------------------------
(* Segment metadata.                                                       *)

\* Slip: the insert does not mind that the package is gone.
ReplacePackagedSegmentsUnchecked(p, build) ==
    segments' = [segments EXCEPT ![p] = build] /\ UNCHANGED <<packages, jobs, encoders>>

\* The rows reference media_packages(id): the insert fails when the row is gone.
ReplacePackagedSegments(p, build) ==
    /\ Exists(p)
    /\ segments' = [segments EXCEPT ![p] = build]
    /\ UNCHANGED <<packages, jobs, encoders>>

DeletePackagedSegments(p) ==
    /\ segments' = [segments EXCEPT ![p] = NoBuild]
    /\ UNCHANGED <<packages, jobs, encoders>>

-----------------------------------------------------------------------------
(* The passing of time.                                                    *)

LapseLease(p) ==
    /\ Leased(p) /\ ~jobs[p].lapsed
    /\ jobs' = [jobs EXCEPT ![p].lapsed = TRUE]
    /\ UNCHANGED <<packages, encoders, segments>>

\* Only leaseless rows are ever compared with the cutoff.
AgeRow(p) ==
    /\ Processing(p) /\ ~Leased(p) /\ ~packages[p].aged
    /\ packages' = [packages EXCEPT ![p].aged = TRUE]
    /\ UNCHANGED <<jobs, encoders, segments>>

-----------------------------------------------------------------------------
(* What the tables promise.                                                *)

\* The foreign keys' promise, across every interleaving of deletions with slots that
\* still work on what was deleted: a lease belongs to an existing package and a
\* registered encoder, and segment rows belong to an existing package.
ReferencesResolve ==
    \A p \in Packages :
        /\ Leased(p) => Exists(p) /\ Registered(jobs[p].owner)
        /\ segments[p] # NoBuild => Exists(p)

\* When only remote encoders work, a package in processing always has a lease, so the
\* sweeper can always recover it; a ready one never has; and what a cancellation leaves
\* behind is on a failed or requeued package.  (schema.sql: "1:1 with media_packages
\* while status='processing'".)
LeaseDiscipline ==
    \A p \in Packages :
        /\ Processing(p) => Leased(p)
        /\ packages[p].status = "ready" => ~Leased(p)

=============================================================================
