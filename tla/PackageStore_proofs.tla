------------------------ MODULE PackageStore_proofs ------------------------
(***************************************************************************)
(* What every transaction of PackageStore preserves, whoever runs it and   *)
(* in whatever order.                                                      *)
(*                                                                         *)
(* The transactions fall in two groups.  Those of LeaseStep either look at *)
(* the lease before they change a status or drop it when they do.  Those   *)
(* of LeaselessStep, which only the local worker runs, do not.  caps are   *)
(* the attempt caps in use: the server's, and the local worker's.          *)
(***************************************************************************)
EXTENDS PackageStore, TLAPS

RowStep(p, caps) ==
    \/ DeleteMediaPackage(p) \/ MarkReadyPackagePendingForReencode(p)
    \/ \E cap \in caps : ExpireOneLease(p, cap)
    \/ \E kind \in FailureKinds, cap \in caps : MarkPackageFailedWithKind(p, kind, cap)
    \/ LapseLease(p) \/ AgeRow(p)

SegmentStep(p) ==
    \/ \E b \in Builds \cup {NoBuild} : ReplacePackagedSegments(p, b)
    \/ DeletePackagedSegments(p)

ClaimStep(p, e, caps) ==
    \/ \E isLocal \in BOOLEAN : ClaimPackage(p, e, isLocal)
    \/ HeartbeatEncoderJob(p, e) \/ CompleteEncoderJob(p, e)
    \/ \E kind \in FailureKinds, cap \in caps : FailEncoderJob(p, e, kind, cap)

EncoderStep(e) ==
    \/ RegisterEncoder(e) \/ RevokeEncoder(e) \/ DeleteEncoder(e)
    \/ \E n \in 0..MaxConcurrency : UpdateEncoderConcurrency(e, n)

RequestStep == \E S \in SUBSET Packages : RequestMediaPackages(S) \/ CancelMediaPackages(S)

LeaseStep(caps) ==
    \/ RequestStep
    \/ \E p \in Packages : RowStep(p, caps) \/ SegmentStep(p)
    \/ \E p \in Packages, e \in Encoders : ClaimStep(p, e, caps)
    \/ \E e \in Encoders : EncoderStep(e)

LeaselessStep ==
    \E p \in Packages : MarkPackageProcessing(p) \/ MarkPackageReady(p) \/ ClearEncoderLease(p)

StoreStep(caps) == LeaseStep(caps) \/ LeaselessStep \/ UNCHANGED storeVars

-----------------------------------------------------------------------------
(* Lemmas about what the transactions are built from.                      *)

\* A failed attempt leaves the package queued or stopped, never in progress.
LEMMA FailureStatusRange ==
    ASSUME NEW kind, NEW attempts, NEW cap
    PROVE  FailureStatus(kind, attempts, cap) \in {"pending", "failed"}
BY DEF FailureStatus

\* A failure is final exactly when it is terminal or a positive cap is used up.
LEMMA FailureStatusFinal ==
    ASSUME NEW kind, NEW attempts \in Nat, NEW cap \in Nat
    PROVE  FailureStatus(kind, attempts, cap) = "pending"
              <=> kind # "terminal" /\ (cap = 0 \/ attempts < cap)
BY DEF FailureStatus

\* The lease of a package that has one is a record with an owner.
LEMMA LeaseRecord ==
    ASSUME StoreTypeOK, NEW p \in Packages, Leased(p)
    PROVE  jobs[p] \in Lease /\ jobs[p].owner \in Encoders
BY DEF StoreTypeOK, Leased, Lease

LEMMA NoLeaseNotLease == NoLease \notin Lease
BY StoreAssumption DEF Lease

LEMMA NoRowTyped == NoRow \in Row
BY StoreAssumption DEF NoRow, Row, Statuses

\* A status update leaves a well-formed row.
LEMMA SetStatusTyped ==
    ASSUME StoreTypeOK, NEW p \in Packages, NEW s \in Statuses, SetStatus(p, s)
    PROVE  packages' \in [Packages -> Row]
BY DEF StoreTypeOK, SetStatus, Row

LEMMA DropLeaseTyped ==
    ASSUME StoreTypeOK, NEW p \in Packages, DropLease(p)
    PROVE  jobs' \in [Packages -> Lease \cup {NoLease}]
BY DEF StoreTypeOK, DropLease

-----------------------------------------------------------------------------
(* Typing.                                                                 *)

LEMMA RowStepTyped ==
    ASSUME StoreTypeOK, NEW p \in Packages, NEW caps, RowStep(p, caps)
    PROVE  StoreTypeOK'
<1> USE DEF StoreTypeOK
<1>1. CASE DeleteMediaPackage(p)
  BY <1>1, DropLeaseTyped, NoRowTyped DEF DeleteMediaPackage
<1>2. CASE MarkReadyPackagePendingForReencode(p)
  BY <1>2, SetStatusTyped DEF MarkReadyPackagePendingForReencode, Statuses
<1>3. ASSUME NEW kind, NEW cap, FailProcessing(p, kind, cap)
      PROVE  packages' \in [Packages -> Row]
  BY <1>3, SetStatusTyped, FailureStatusRange DEF FailProcessing, Statuses
<1>4. CASE \E cap \in caps : ExpireOneLease(p, cap)
  BY <1>4, <1>3, DropLeaseTyped DEF ExpireOneLease
<1>5. CASE \E kind \in FailureKinds, cap \in caps : MarkPackageFailedWithKind(p, kind, cap)
  BY <1>5, <1>3 DEF MarkPackageFailedWithKind
<1>6. CASE LapseLease(p)
  BY <1>6, LeaseRecord DEF LapseLease, Lease
<1>7. CASE AgeRow(p)
  BY <1>7 DEF AgeRow, Row
<1> QED
  BY <1>1, <1>2, <1>4, <1>5, <1>6, <1>7 DEF RowStep

LEMMA SegmentStepTyped ==
    ASSUME StoreTypeOK, NEW p \in Packages, SegmentStep(p)
    PROVE  StoreTypeOK'
BY DEF SegmentStep, ReplacePackagedSegments, DeletePackagedSegments, StoreTypeOK

LEMMA ClaimStepTyped ==
    ASSUME StoreTypeOK, NEW p \in Packages, NEW e \in Encoders, NEW caps, ClaimStep(p, e, caps)
    PROVE  StoreTypeOK'
<1> USE DEF StoreTypeOK
<1>1. ASSUME NEW isLocal \in BOOLEAN, ClaimPackage(p, e, isLocal)
      PROVE  StoreTypeOK'
  <2>1. packages[p].attempts + 1 \in 0..AttemptBound
    BY <1>1, StoreAssumption DEF ClaimPackage, CanClaim, Row
  <2>2. packages' \in [Packages -> Row]
    BY <1>1, <2>1 DEF ClaimPackage, Row, Statuses
  <2>3. jobs' \in [Packages -> Lease \cup {NoLease}]
    <3>1. [owner |-> e, lapsed |-> FALSE] \in Lease
      BY DEF Lease
    <3> QED
      BY <1>1, <3>1 DEF ClaimPackage
  <2> QED
    BY <1>1, <2>2, <2>3 DEF ClaimPackage
<1>2. CASE HeartbeatEncoderJob(p, e)
  <2>1. Leased(p)
    BY <1>2 DEF HeartbeatEncoderJob, HoldsClaim, OwnsJob
  <2> QED
    BY <1>2, <2>1, LeaseRecord DEF HeartbeatEncoderJob, Lease
<1>3. CASE CompleteEncoderJob(p, e)
  BY <1>3, SetStatusTyped, DropLeaseTyped DEF CompleteEncoderJob, Statuses
<1>4. CASE \E kind \in FailureKinds, cap \in caps : FailEncoderJob(p, e, kind, cap)
  BY <1>4, SetStatusTyped, DropLeaseTyped, FailureStatusRange
     DEF FailEncoderJob, FailProcessing, Statuses
<1> QED
  BY <1>1, <1>2, <1>3, <1>4 DEF ClaimStep

LEMMA EncoderStepTyped ==
    ASSUME StoreTypeOK, NEW e \in Encoders, EncoderStep(e)
    PROVE  StoreTypeOK'
<1> USE StoreAssumption DEF StoreTypeOK, Encoder
<1>1. CASE RegisterEncoder(e)
  BY <1>1 DEF RegisterEncoder
<1>2. CASE RevokeEncoder(e)
  BY <1>2 DEF RevokeEncoder
<1>3. CASE DeleteEncoder(e)
  <2>1. packages' \in [Packages -> Row]
    <3>1. \A p \in Packages :
             [packages[p] EXCEPT !.status = "pending", !.aged = FALSE] \in Row
      BY DEF Row, Statuses
    <3> QED
      BY <1>3, <3>1 DEF DeleteEncoder
  <2>2. jobs' \in [Packages -> Lease \cup {NoLease}]
    BY <1>3 DEF DeleteEncoder
  <2> QED
    BY <1>3, <2>1, <2>2 DEF DeleteEncoder
<1>4. CASE \E n \in 0..MaxConcurrency : UpdateEncoderConcurrency(e, n)
  BY <1>4 DEF UpdateEncoderConcurrency
<1> QED
  BY <1>1, <1>2, <1>3, <1>4 DEF EncoderStep

LEMMA RequestStepTyped ==
    ASSUME StoreTypeOK, RequestStep
    PROVE  StoreTypeOK'
<1>1. packages' \in [Packages -> Row]
  <2>1. [NoRow EXCEPT !.status = "pending"] \in Row
    BY NoRowTyped DEF Row, Statuses
  <2>2. \A p \in Packages : [packages[p] EXCEPT !.status = "failed", !.aged = FALSE] \in Row
    BY DEF Row, Statuses, StoreTypeOK
  <2> QED
    BY <2>1, <2>2 DEF RequestStep, RequestMediaPackages, CancelMediaPackages, StoreTypeOK
<1> QED
  BY <1>1 DEF RequestStep, RequestMediaPackages, CancelMediaPackages, StoreTypeOK

LEMMA LeaselessStepTyped ==
    ASSUME StoreTypeOK, LeaselessStep
    PROVE  StoreTypeOK'
BY SetStatusTyped, DropLeaseTyped
   DEF LeaselessStep, MarkPackageProcessing, MarkPackageReady, ClearEncoderLease, Statuses,
       StoreTypeOK

\* No transaction leaves a malformed table.
LEMMA StoreStepTyped ==
    ASSUME StoreTypeOK, NEW caps, StoreStep(caps)
    PROVE  StoreTypeOK'
<1>1. CASE LeaseStep(caps)
  BY <1>1, RequestStepTyped, RowStepTyped, SegmentStepTyped, ClaimStepTyped, EncoderStepTyped
     DEF LeaseStep
<1>2. CASE UNCHANGED storeVars
  BY <1>2 DEF storeVars, StoreTypeOK
<1> QED
  BY <1>1, <1>2, LeaselessStepTyped DEF StoreStep

-----------------------------------------------------------------------------
(* The foreign keys.  Each lemma is about one package or encoder row: what *)
(* a transaction does to the others is nothing, or the same.               *)

\* Deleting a package takes along what refers to it; nothing else makes a row go away.
LEMMA RowStepRefs ==
    ASSUME StoreTypeOK, ReferencesResolve, NEW p \in Packages, NEW caps, RowStep(p, caps)
    PROVE  ReferencesResolve'
<1> USE DEF StoreTypeOK, ReferencesResolve, Leased, Exists, Registered
<1>1. CASE DeleteMediaPackage(p)
  BY <1>1 DEF DeleteMediaPackage, DropLease, NoRow
<1>2. CASE MarkReadyPackagePendingForReencode(p)
  BY <1>2 DEF MarkReadyPackagePendingForReencode, SetStatus, Row
<1>3. CASE \E cap \in caps : ExpireOneLease(p, cap)
  <2>1. PICK cap : ExpireOneLease(p, cap)
    BY <1>3
  <2>2. \A q \in Packages : q # p => packages'[q] = packages[q] /\ jobs'[q] = jobs[q]
    BY <2>1 DEF ExpireOneLease, FailProcessing, SetStatus, DropLease
  <2>3. jobs'[p] = NoLease /\ UNCHANGED <<encoders, segments>>
    BY <2>1 DEF ExpireOneLease, DropLease
  <2>4. Exists(p) => packages'[p].status # "missing"
    BY <2>1, FailureStatusRange DEF ExpireOneLease, FailProcessing, SetStatus, Row
  <2> QED
    BY <2>2, <2>3, <2>4
<1>4. CASE \E kind \in FailureKinds, cap \in caps : MarkPackageFailedWithKind(p, kind, cap)
  BY <1>4, FailureStatusRange DEF MarkPackageFailedWithKind, FailProcessing, SetStatus, Row
<1>5. CASE LapseLease(p)
  BY <1>5, LeaseRecord, NoLeaseNotLease DEF LapseLease, Lease
<1>6. CASE AgeRow(p)
  BY <1>6 DEF AgeRow, Row
<1> QED
  BY <1>1, <1>2, <1>3, <1>4, <1>5, <1>6 DEF RowStep

LEMMA SegmentStepRefs ==
    ASSUME StoreTypeOK, ReferencesResolve, NEW p \in Packages, SegmentStep(p)
    PROVE  ReferencesResolve'
BY DEF SegmentStep, ReplacePackagedSegments, DeletePackagedSegments, StoreTypeOK,
       ReferencesResolve, Leased, Exists, Registered

LEMMA ClaimStepRefs ==
    ASSUME StoreTypeOK, ReferencesResolve, NEW p \in Packages, NEW e \in Encoders,
           NEW caps, ClaimStep(p, e, caps)
    PROVE  ReferencesResolve'
<1> USE DEF StoreTypeOK, ReferencesResolve, Leased, Exists, Registered
<1>1. CASE \E isLocal \in BOOLEAN : ClaimPackage(p, e, isLocal)
  BY <1>1 DEF ClaimPackage, CanClaim, Active
<1>2. CASE HeartbeatEncoderJob(p, e)
  BY <1>2 DEF HeartbeatEncoderJob, HoldsClaim, OwnsJob, Lease
<1>3. CASE CompleteEncoderJob(p, e)
  BY <1>3 DEF CompleteEncoderJob, SetStatus, DropLease, Row
<1>4. CASE \E kind \in FailureKinds, cap \in caps : FailEncoderJob(p, e, kind, cap)
  BY <1>4, FailureStatusRange DEF FailEncoderJob, FailProcessing, SetStatus, DropLease, Row
<1> QED
  BY <1>1, <1>2, <1>3, <1>4 DEF ClaimStep

\* A revoked encoder is still registered, and a deleted one takes its leases along.
LEMMA EncoderStepRefs ==
    ASSUME StoreTypeOK, ReferencesResolve, NEW e \in Encoders, EncoderStep(e)
    PROVE  ReferencesResolve'
<1> USE DEF StoreTypeOK, ReferencesResolve, Leased, Exists, Registered
<1>1. CASE RegisterEncoder(e)
  BY <1>1 DEF RegisterEncoder, Encoder
<1>2. CASE RevokeEncoder(e)
  BY <1>2 DEF RevokeEncoder, Encoder
<1>3. CASE DeleteEncoder(e)
  <2>1. ASSUME NEW p \in Packages
        PROVE  /\ packages'[p].status # "missing" <=> Exists(p)
               /\ jobs'[p] # NoLease => jobs[p] # NoLease /\ jobs'[p] = jobs[p]
                                          /\ jobs[p].owner # e
    BY <1>3 DEF DeleteEncoder, OwnsJob, Row
  <2>2. \A f \in Encoders : f # e => encoders'[f] = encoders[f]
    BY <1>3 DEF DeleteEncoder
  <2>3. \A p \in Packages : Leased(p) => jobs[p].owner \in Encoders
    BY LeaseRecord
  <2> QED
    BY <1>3, <2>1, <2>2, <2>3 DEF DeleteEncoder
<1>4. CASE \E n \in 0..MaxConcurrency : UpdateEncoderConcurrency(e, n)
  BY <1>4 DEF UpdateEncoderConcurrency, Encoder
<1> QED
  BY <1>1, <1>2, <1>3, <1>4 DEF EncoderStep

LEMMA RequestStepRefs ==
    ASSUME StoreTypeOK, ReferencesResolve, RequestStep
    PROVE  ReferencesResolve'
<1>1. ASSUME NEW p \in Packages, Exists(p)
      PROVE  packages'[p].status # "missing"
  <2>1. PICK S \in SUBSET Packages : RequestMediaPackages(S) \/ CancelMediaPackages(S)
    BY DEF RequestStep
  <2>2. packages'[p] \in { packages[p], [NoRow EXCEPT !.status = "pending"],
                           [packages[p] EXCEPT !.status = "failed", !.aged = FALSE] }
    BY <2>1 DEF RequestMediaPackages, CancelMediaPackages
  <2> QED
    BY <1>1, <2>2 DEF NoRow, Row, Exists, StoreTypeOK
<1>2. UNCHANGED <<jobs, encoders, segments>>
  BY DEF RequestStep, RequestMediaPackages, CancelMediaPackages
<1> QED
  BY <1>1, <1>2 DEF ReferencesResolve, Leased, Exists, Registered

LEMMA LeaselessStepRefs ==
    ASSUME StoreTypeOK, ReferencesResolve, LeaselessStep
    PROVE  ReferencesResolve'
BY DEF LeaselessStep, MarkPackageProcessing, MarkPackageReady, ClearEncoderLease, SetStatus,
       DropLease, Row, StoreTypeOK, ReferencesResolve, Leased, Exists, Registered

\* No transaction leaves a dangling reference.
LEMMA StoreStepRefs ==
    ASSUME StoreTypeOK, ReferencesResolve, NEW caps, StoreStep(caps)
    PROVE  ReferencesResolve'
<1>1. CASE LeaseStep(caps)
  BY <1>1, RequestStepRefs, RowStepRefs, SegmentStepRefs, ClaimStepRefs, EncoderStepRefs
     DEF LeaseStep
<1>2. CASE UNCHANGED storeVars
  BY <1>2 DEF storeVars, ReferencesResolve, Leased, Exists, Registered
<1> QED
  BY <1>1, <1>2, LeaselessStepRefs DEF StoreStep

-----------------------------------------------------------------------------
(* Leases and statuses.  LeaseDiscipline survives every transaction that   *)
(* looks at the lease.                                                     *)

LEMMA RowStepLeases ==
    ASSUME StoreTypeOK, LeaseDiscipline, NEW p \in Packages, NEW caps, RowStep(p, caps)
    PROVE  LeaseDiscipline'
<1> USE DEF StoreTypeOK, LeaseDiscipline, Leased, Processing
<1>1. CASE DeleteMediaPackage(p)
  BY <1>1 DEF DeleteMediaPackage, DropLease, NoRow
<1>2. CASE MarkReadyPackagePendingForReencode(p)
  BY <1>2 DEF MarkReadyPackagePendingForReencode, SetStatus, Row
<1>3. CASE \E cap \in caps : ExpireOneLease(p, cap)
  <2>1. PICK cap : ExpireOneLease(p, cap)
    BY <1>3
  <2>2. \A q \in Packages : q # p => packages'[q] = packages[q] /\ jobs'[q] = jobs[q]
    BY <2>1 DEF ExpireOneLease, FailProcessing, SetStatus, DropLease
  <2>3. jobs'[p] = NoLease /\ packages'[p].status # "processing"
    BY <2>1, FailureStatusRange DEF ExpireOneLease, FailProcessing, SetStatus, DropLease, Row
  <2> QED
    BY <2>2, <2>3
<1>4. CASE \E kind \in FailureKinds, cap \in caps : MarkPackageFailedWithKind(p, kind, cap)
  BY <1>4, FailureStatusRange DEF MarkPackageFailedWithKind, FailProcessing, SetStatus, Row
<1>5. CASE LapseLease(p)
  BY <1>5, LeaseRecord, NoLeaseNotLease DEF LapseLease, Lease
<1>6. CASE AgeRow(p)
  BY <1>6 DEF AgeRow, Row
<1> QED
  BY <1>1, <1>2, <1>3, <1>4, <1>5, <1>6 DEF RowStep

\* A claim creates the lease it needs; completion and failure drop it with the status.
LEMMA ClaimStepLeases ==
    ASSUME StoreTypeOK, LeaseDiscipline, NEW p \in Packages, NEW e \in Encoders,
           NEW caps, ClaimStep(p, e, caps)
    PROVE  LeaseDiscipline'
<1> USE DEF StoreTypeOK, LeaseDiscipline, Leased, Processing
<1>1. CASE \E isLocal \in BOOLEAN : ClaimPackage(p, e, isLocal)
  <2>1. [owner |-> e, lapsed |-> FALSE] # NoLease
    <3>1. [owner |-> e, lapsed |-> FALSE] \in Lease
      BY DEF Lease
    <3> QED
      BY <3>1, NoLeaseNotLease
  <2> QED
    BY <1>1, <2>1 DEF ClaimPackage
<1>2. CASE HeartbeatEncoderJob(p, e)
  <2>1. [jobs[p] EXCEPT !.lapsed = FALSE] # NoLease
    BY <1>2, LeaseRecord, NoLeaseNotLease DEF HeartbeatEncoderJob, HoldsClaim, OwnsJob, Lease
  <2> QED
    BY <1>2, <2>1 DEF HeartbeatEncoderJob, HoldsClaim
<1>3. CASE CompleteEncoderJob(p, e)
  BY <1>3 DEF CompleteEncoderJob, SetStatus, DropLease, Row
<1>4. CASE \E kind \in FailureKinds, cap \in caps : FailEncoderJob(p, e, kind, cap)
  BY <1>4, FailureStatusRange DEF FailEncoderJob, FailProcessing, SetStatus, DropLease, Row
<1> QED
  BY <1>1, <1>2, <1>3, <1>4 DEF ClaimStep

\* Deleting an encoder is the one step that drops several leases at once.
LEMMA EncoderStepLeases ==
    ASSUME StoreTypeOK, LeaseDiscipline, NEW e \in Encoders, EncoderStep(e)
    PROVE  LeaseDiscipline'
<1> USE DEF StoreTypeOK, LeaseDiscipline, Leased, Processing
<1>1. CASE DeleteEncoder(e)
  <2>1. ASSUME NEW p \in Packages
        PROVE  /\ packages'[p].status = "processing" => jobs'[p] # NoLease
               /\ packages'[p].status = "ready" => jobs'[p] = NoLease
    BY <1>1 DEF DeleteEncoder, OwnsJob, Row
  <2> QED
    BY <2>1
<1>2. CASE ~DeleteEncoder(e)
  BY <1>2 DEF EncoderStep, RegisterEncoder, RevokeEncoder, UpdateEncoderConcurrency
<1> QED
  BY <1>1, <1>2

LEMMA RequestStepLeases ==
    ASSUME StoreTypeOK, LeaseDiscipline, RequestStep
    PROVE  LeaseDiscipline'
<1>1. PICK S \in SUBSET Packages : RequestMediaPackages(S) \/ CancelMediaPackages(S)
  BY DEF RequestStep
<1>2. \A p \in Packages :
        packages'[p] \in { packages[p], [NoRow EXCEPT !.status = "pending"],
                           [packages[p] EXCEPT !.status = "failed", !.aged = FALSE] }
  BY <1>1 DEF RequestMediaPackages, CancelMediaPackages
<1>3. \A p \in Packages :
        packages'[p].status \in {"processing", "ready"} => packages'[p] = packages[p]
  BY <1>2 DEF NoRow, Row, StoreTypeOK
<1>4. UNCHANGED jobs
  BY <1>1 DEF RequestMediaPackages, CancelMediaPackages
<1> QED
  BY <1>3, <1>4 DEF LeaseDiscipline, Leased, Processing

LEMMA LeaseStepLeases ==
    ASSUME StoreTypeOK, LeaseDiscipline, NEW caps, LeaseStep(caps)
    PROVE  LeaseDiscipline'
<1>1. ASSUME NEW p \in Packages, SegmentStep(p)
      PROVE  LeaseDiscipline'
  BY <1>1 DEF SegmentStep, ReplacePackagedSegments, DeletePackagedSegments, LeaseDiscipline,
              Leased, Processing
<1> QED
  BY <1>1, RequestStepLeases, RowStepLeases, ClaimStepLeases, EncoderStepLeases DEF LeaseStep

=============================================================================
