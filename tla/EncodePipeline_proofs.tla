----------------------- MODULE EncodePipeline_proofs -----------------------
(***************************************************************************)
(* Theorems about EncodePipeline for any number of packages, encoders and  *)
(* slots, and whichever faults occur.                                      *)
(*                                                                         *)
(* Every step of the pipeline is at most one transaction of PackageStore   *)
(* (StoreStepOfNext); what a transaction preserves is proved once, in      *)
(* PackageStore_proofs, and carried over here.                             *)
(***************************************************************************)
EXTENDS EncodePipeline, PackageStore_proofs

LEMMA SlotPackage ==
    ASSUME TypeOK, NEW t \in Threads, ~At(t, "idle")
    PROVE  job[t].pkg \in Packages /\ job[t].parsed \in Builds \cup {NoBuild}
BY DEF TypeOK, JobsTypeOK, Job, At

LEMMA OwnerEncoder == \A t \in Threads : Owner[t] \in Encoders
BY PipelineAssumption

-----------------------------------------------------------------------------
(* Every step is at most one transaction.                                  *)

\* What everybody but the local worker does to the tables, and what anybody does.
Lawful == LeaseStep({MaxAttempts}) \/ UNCHANGED storeVars
AnyStoreStep == StoreStep({MaxAttempts, LocalMaxAttempts})

LEMMA LawfulRow ==
    ASSUME NEW p \in Packages, RowStep(p, {MaxAttempts}) \/ SegmentStep(p)
    PROVE  Lawful
BY DEF Lawful, LeaseStep

LEMMA LawfulClaim ==
    ASSUME NEW p \in Packages, NEW e \in Encoders, ClaimStep(p, e, {MaxAttempts})
    PROVE  Lawful
BY DEF Lawful, LeaseStep

LEMMA LawfulAny == Lawful => AnyStoreStep
<1> DEFINE caps == {MaxAttempts, LocalMaxAttempts}
<1>1. \A p \in Packages : RowStep(p, {MaxAttempts}) => RowStep(p, caps)
  BY DEF RowStep
<1>2. \A p \in Packages, e \in Encoders :
         ClaimStep(p, e, {MaxAttempts}) => ClaimStep(p, e, caps)
  BY DEF ClaimStep
<1> HIDE DEF caps
<1>3. LeaseStep({MaxAttempts}) => LeaseStep(caps)
  BY <1>1, <1>2 DEF LeaseStep
<1> QED
  BY <1>3 DEF Lawful, AnyStoreStep, StoreStep, caps

LEMMA AnyRow ==
    ASSUME NEW p \in Packages, RowStep(p, {MaxAttempts, LocalMaxAttempts})
    PROVE  AnyStoreStep
BY DEF AnyStoreStep, StoreStep, LeaseStep

LEMMA RemoteWorkStore ==
    ASSUME TypeOK, NEW t \in RemoteThreads, RemoteWork(t)
    PROVE  Lawful
<1>0. t \in Threads /\ Owner[t] \in Encoders
  BY OwnerEncoder DEF Threads
<1>1. ASSUME NEW kind \in FailureKinds, RemoteFail(t, kind)
      PROVE  Lawful
  <2>1. job[t].pkg \in Packages
    BY <1>0, <1>1, SlotPackage DEF RemoteFail, At
  <2> QED
    BY <1>0, <1>1, <2>1, LawfulClaim, PipelineAssumption DEF RemoteFail, ClaimStep, Lawful
<1>2. CASE RemoteComplete(t) \/ UploadFails(t) \/ HandlerFails(t) \/ CleanupRoot(t)
  BY <1>2 DEF RemoteComplete, UploadFails, HandlerFails, CleanupRoot, SlotOnly, DiskOnly, Lawful
<1>3. CASE CompleteJob(t)
  <2>1. job[t].pkg \in Packages
    BY <1>0, <1>3, SlotPackage DEF CompleteJob, At
  <2> QED
    BY <1>0, <1>3, <2>1, LawfulClaim DEF CompleteJob, ClaimStep
<1>4. CASE CleanupSegments(t)
  <2>1. job[t].pkg \in Packages
    BY <1>0, <1>4, SlotPackage DEF CleanupSegments, At
  <2> QED
    BY <1>4, <2>1, LawfulRow DEF CleanupSegments, SegmentStep
<1>5. CASE CleanupRequeue(t)
  <2>1. job[t].pkg \in Packages
    BY <1>0, <1>5, SlotPackage DEF CleanupRequeue, At
  <2> QED
    BY <1>5, <2>1, LawfulRow, PipelineAssumption
       DEF CleanupRequeue, RowStep, FailureKinds, Lawful
<1> QED
  BY <1>1, <1>2, <1>3, <1>4, <1>5 DEF RemoteWork

LEMMA PublishStore ==
    ASSUME TypeOK, NEW t \in Threads, Publish(t)
    PROVE  Lawful
<1>1. CASE ClearRoot(t) \/ PublishRoot(t) \/ ParseManifest(t)
  BY <1>1 DEF ClearRoot, PublishRoot, ParseManifest, SlotOnly, DiskOnly, Lawful
<1>2. CASE WriteSegments(t)
  <2>1. job[t].pkg \in Packages /\ job[t].parsed \in Builds \cup {NoBuild}
    BY <1>2, SlotPackage DEF WriteSegments, At
  <2> QED
    BY <1>2, <2>1, LawfulRow DEF WriteSegments, SegmentStep
<1> QED
  BY <1>1, <1>2 DEF Publish

LEMMA ClaimingStore ==
    ASSUME TypeOK, NEW t \in Threads, Claiming(t) \/ Heartbeat(t) \/ RemoteClaimLost(t)
    PROVE  Lawful
<1>1. CASE ClaimRefused(t)
  BY <1>1 DEF ClaimRefused, SlotOnly, Lawful
<1>2. CASE Claim(t) \/ RemoteClaimLost(t)
  <2>1. job[t].pkg \in Packages
    BY <1>2, SlotPackage DEF Claim, RemoteClaimLost, At
  <2>2. Local(t) \in BOOLEAN
    BY DEF Local
  <2> QED
    BY <1>2, <2>1, <2>2, OwnerEncoder, LawfulClaim DEF Claim, RemoteClaimLost, ClaimStep
<1>3. CASE Heartbeat(t)
  <2>1. job[t].pkg \in Packages
    BY <1>3, SlotPackage DEF Heartbeat, Beats, At
  <2> QED
    BY <1>3, <2>1, OwnerEncoder, LawfulClaim DEF Heartbeat, ClaimStep
<1> QED
  BY <1>1, <1>2, <1>3 DEF Claiming

LEMMA SweepStore ==
    ASSUME TypeOK, Sweep
    PROVE  Lawful
<1>1. CASE SweepStart \/ SweepLeases \/ SweepDone
  BY <1>1 DEF SweepStart, SweepLeases, SweepDone, Lawful
<1>2. ASSUME NEW p \in Packages, SweepStale(p) \/ SweepExpire(p)
      PROVE  Lawful
  BY <1>2, LawfulRow DEF SweepStale, SweepExpire, RowStep, FailureKinds, Lawful
<1> QED
  BY <1>1, <1>2 DEF Sweep

LEMMA WorkerStore ==
    ASSUME TypeOK, Worker
    PROVE  AnyStoreStep /\ (Lawful \/ local.phase = "recovering")
<1>1. CASE WorkerReady
  BY <1>1, LawfulAny DEF WorkerReady, Lawful
<1>2. CASE WorkerStart
  BY <1>2, LawfulAny, PipelineAssumption DEF WorkerStart, Lawful, LeaseStep, EncoderStep
<1>3. ASSUME NEW p \in Packages, WorkerRecover(p)
      PROVE  AnyStoreStep /\ local.phase = "recovering"
  BY <1>3, AnyRow DEF WorkerRecover, RowStep
<1> QED
  BY <1>1, <1>2, <1>3 DEF Worker

LEMMA OperatorStore ==
    ASSUME TypeOK, Operator
    PROVE  Lawful
<1>1. ASSUME NEW S \in SUBSET Packages, Request(S) \/ Cancel(S)
      PROVE  Lawful
  BY <1>1 DEF Request, Cancel, Lawful, LeaseStep, RequestStep
<1>2. ASSUME NEW p \in Packages, Requeue(p) \/ ReclaimFiles(p) \/ ReclaimRow(p)
      PROVE  Lawful
  BY <1>2, LawfulRow DEF Requeue, ReclaimFiles, ReclaimRow, RowStep, Lawful
<1>3. ASSUME NEW e \in Encoders,
             \/ Register(e) \/ Revoke(e) \/ Delete(e)
             \/ \E n \in 0..MaxConcurrency : SetConcurrency(e, n)
      PROVE  Lawful
  BY <1>3 DEF Register, Revoke, Delete, SetConcurrency, EncoderStep, LeaseStep, Lawful
<1> QED
  BY <1>1, <1>2, <1>3 DEF Operator

LEMMA FaultStore ==
    ASSUME TypeOK, Fault
    PROVE  Lawful
<1>1. CASE \E t \in RemoteThreads : RemoteFailLost(t)
  BY <1>1 DEF RemoteFailLost, SlotOnly, Lawful
<1>2. CASE \E t \in RemoteThreads : RemoteClaimLost(t)
  BY <1>2, ClaimingStore DEF Threads
<1>3. CASE \E e \in Encoders : RemoteCrash(e)
  BY <1>3 DEF RemoteCrash, SlotOnly, Lawful
<1>4. CASE ServerCrash \/ WorkerCrash \/ \E p \in Packages : FilesVanish(p)
  BY <1>4 DEF ServerCrash, WorkerCrash, FilesVanish, Lawful
<1> QED
  BY <1>1, <1>2, <1>3, <1>4 DEF Fault

LEMMA UpkeepStore ==
    ASSUME TypeOK, NEW p \in Packages, Repair(p) \/ Lapse(p) \/ Age(p)
    PROVE  Lawful
<1>1. CASE Repair(p)
  BY <1>1, LawfulRow DEF Repair, ListReady, ValidateFiles, RequeueBroken, RowStep, Lawful
<1>2. CASE Lapse(p) \/ Age(p)
  BY <1>2, LawfulRow DEF Lapse, Age, RowStep
<1> QED
  BY <1>1, <1>2

LEMMA LocalWorkStore ==
    ASSUME TypeOK, NEW t \in LocalThreads, LocalWork(t)
    PROVE  AnyStoreStep
<1>0. t \in Threads
  BY DEF Threads
<1>1. CASE LocalEarlyError(t) \/ LocalNotice(t) \/ LocalReadyFails(t)
  BY <1>1 DEF LocalEarlyError, LocalNotice, LocalReadyFails, SlotOnly, AnyStoreStep, StoreStep
<1>2. CASE LocalClaimDropped(t) \/ \E kind \in FailureKinds : LocalFails(t, kind)
  <2>1. job[t].pkg \in Packages
    BY <1>0, <1>2, SlotPackage DEF LocalClaimDropped, LocalFails, At
  <2>2. UNCHANGED storeVars \/ RowStep(job[t].pkg, {MaxAttempts, LocalMaxAttempts})
    BY <1>2 DEF LocalClaimDropped, LocalFails, RowStep, FailureKinds
  <2> QED
    BY <2>1, <2>2, AnyRow DEF AnyStoreStep, StoreStep
<1>3. CASE LocalMarkProcessing(t) \/ LocalMarkReady(t) \/ LocalClearLease(t)
  <2>1. job[t].pkg \in Packages
    BY <1>0, <1>3, SlotPackage DEF LocalMarkProcessing, LocalMarkReady, LocalClearLease, At
  <2> QED
    BY <1>3, <2>1
       DEF LocalMarkProcessing, LocalMarkReady, LocalClearLease, LeaselessStep, AnyStoreStep,
           StoreStep
<1> QED
  BY <1>1, <1>2, <1>3 DEF LocalWork

\* Whoever acts, the tables change by one transaction, and by one that looks at the
\* lease and uses the server's cap unless it is the local worker that acts.
LEMMA StoreStepOfNext ==
    ASSUME TypeOK, Next
    PROVE  AnyStoreStep /\ (Lawful \/ LocalThreads # {} \/ local.phase = "recovering")
<1>1. ASSUME NEW t \in Threads, NEW p \in Packages, Discover(t, p)
      PROVE  Lawful
  BY <1>1 DEF Discover, SlotOnly, Lawful
<1> QED
  BY <1>1, LawfulAny, RemoteWorkStore, LocalWorkStore, PublishStore, ClaimingStore, SweepStore,
     WorkerStore, OperatorStore, FaultStore, UpkeepStore DEF Next

-----------------------------------------------------------------------------
(* Typing of the slots.                                                    *)

Busy(t) == (IF t \in RemoteThreads THEN RemotePcs ELSE LocalPcs) \ {"idle"}

LEMMA StartTyped ==
    ASSUME TypeOK, NEW t \in Threads, NEW p \in Packages, NEW pc \in Busy(t), Start(t, p, pc)
    PROVE  JobsTypeOK'
<1>1. p # NoPackage
  BY PipelineAssumption
<1>2. [Idle EXCEPT !.pkg = p, !.pc = pc] \in Job
  BY DEF Idle, Job, Busy
<1> QED
  BY <1>1, <1>2 DEF Start, TypeOK, JobsTypeOK, Idle, Busy

LEMMA StopTyped ==
    ASSUME TypeOK, NEW t \in Threads, Stop(t)
    PROVE  JobsTypeOK'
BY DEF Stop, TypeOK, JobsTypeOK, Idle, Job, RemotePcs, LocalPcs

LEMMA GotoTyped ==
    ASSUME TypeOK, NEW t \in Threads, NEW pc \in Busy(t), ~At(t, "idle"), Goto(t, pc)
    PROVE  JobsTypeOK'
BY DEF Goto, At, TypeOK, JobsTypeOK, Job, Busy

\* A slot that only notes something down stays where it is.
LEMMA NoteTyped ==
    ASSUME TypeOK, NEW t \in Threads, NEW r \in Job, r.pc = job[t].pc, r.pkg = job[t].pkg,
           job' = [job EXCEPT ![t] = r]
    PROVE  JobsTypeOK'
BY DEF TypeOK, JobsTypeOK

\* A crash leaves every slot as it was, idle, or, if it had a package, somewhere else
\* with the same package.
LEMMA CrashTyped ==
    ASSUME TypeOK, NEW next \in [Threads -> Job], job' = next,
           \A t \in Threads :
              \/ next[t] = job[t]
              \/ next[t] = Idle
              \/ ~At(t, "idle") /\ next[t].pc \in Busy(t) /\ next[t].pkg = job[t].pkg
    PROVE  JobsTypeOK'
BY DEF TypeOK, JobsTypeOK, Idle, Busy, At, RemotePcs, LocalPcs

LEMMA RemoteWorkTyped ==
    ASSUME TypeOK, NEW t \in RemoteThreads, RemoteWork(t)
    PROVE  JobsTypeOK'
<1>0. t \in Threads /\ {"refused", "uploading", "cleanRoot", "cleanSegments", "cleanRequeue"}
                         \subseteq Busy(t)
  BY DEF Threads, Busy, RemotePcs, HandlerPcs
<1>1. CASE \E kind \in FailureKinds : RemoteFail(t, kind)
  BY <1>0, <1>1, StopTyped DEF RemoteFail
<1>2. CASE RemoteComplete(t)
  BY <1>0, <1>2, GotoTyped DEF RemoteComplete, At
<1>3. CASE UploadFails(t) \/ HandlerFails(t)
  BY <1>0, <1>3, GotoTyped DEF UploadFails, HandlerFails, At
<1>4. CASE CompleteJob(t)
  BY <1>0, <1>4, GotoTyped, StopTyped DEF CompleteJob, At
<1>5. CASE CleanupRoot(t) \/ CleanupSegments(t) \/ CleanupRequeue(t)
  BY <1>0, <1>5, GotoTyped DEF CleanupRoot, CleanupSegments, CleanupRequeue, At
<1> QED
  BY <1>1, <1>2, <1>3, <1>4, <1>5 DEF RemoteWork

LEMMA PublishTyped ==
    ASSUME TypeOK, NEW t \in Threads, Publish(t)
    PROVE  JobsTypeOK' /\ root' \in [Packages -> Builds \cup {NoBuild}]
<1>0. {"publishing", "published", "parsed", "finalized"} \subseteq Busy(t)
  BY DEF Busy, RemotePcs, LocalPcs, HandlerPcs
<1>1. CASE ClearRoot(t)
  <2>1. ~At(t, "idle")
    BY <1>1 DEF ClearRoot, At
  <2> QED
    BY <1>0, <1>1, <2>1, GotoTyped DEF ClearRoot, TypeOK
<1>2. CASE PublishRoot(t)
  <2>1. t \in Builds /\ ~At(t, "idle")
    BY <1>2, PipelineAssumption DEF PublishRoot, At
  <2> QED
    BY <1>0, <1>2, <2>1, GotoTyped DEF PublishRoot, TypeOK
<1>3. CASE ParseManifest(t)
  <2>1. root[job[t].pkg] \in Builds \cup {NoBuild}
    BY <1>3, SlotPackage DEF ParseManifest, At, TypeOK
  <2>2. job' = [job EXCEPT ![t] = [job[t] EXCEPT !.pc = "parsed", !.parsed = root[job[t].pkg]]]
    BY <1>3 DEF ParseManifest, TypeOK, JobsTypeOK
  <2>3. [job[t] EXCEPT !.pc = "parsed", !.parsed = root[job[t].pkg]] \in Job
    <3>1. job[t] \in Job /\ "parsed" \in RemotePcs
      BY DEF TypeOK, JobsTypeOK, RemotePcs, HandlerPcs
    <3> QED
      BY <2>1, <3>1 DEF Job
  <2>4. JobsTypeOK'
    BY <1>0, <1>3, <2>2, <2>3 DEF ParseManifest, At, TypeOK, JobsTypeOK, Job, Busy
  <2> QED
    BY <1>3, <2>4 DEF ParseManifest, SlotOnly, TypeOK
<1>4. CASE WriteSegments(t)
  BY <1>0, <1>4, GotoTyped DEF WriteSegments, At, TablesOnly, TypeOK
<1> QED
  BY <1>1, <1>2, <1>3, <1>4 DEF Publish

LEMMA LocalWorkTyped ==
    ASSUME TypeOK, NEW t \in LocalThreads, LocalWork(t)
    PROVE  JobsTypeOK'
<1>0. t \in Threads /\ {"encoding", "clearing"} \subseteq Busy(t)
  BY PipelineAssumption DEF Threads, Busy, LocalPcs
<1>1. CASE LocalClaimDropped(t) \/ LocalClearLease(t)
  BY <1>0, <1>1, StopTyped DEF LocalClaimDropped, LocalClearLease
<1>2. CASE LocalEarlyError(t) \/ LocalMarkProcessing(t) \/ LocalMarkReady(t)
           \/ LocalReadyFails(t)
  BY <1>0, <1>2, GotoTyped
     DEF LocalEarlyError, LocalMarkProcessing, LocalMarkReady, LocalReadyFails, At
<1>3. CASE \E kind \in FailureKinds : LocalFails(t, kind)
  BY <1>0, <1>3, GotoTyped DEF LocalFails, At
<1>4. CASE LocalNotice(t)
  <2> DEFINE r == [job[t] EXCEPT !.lost = TRUE]
  <2>1. r \in Job /\ r.pc = job[t].pc /\ r.pkg = job[t].pkg
    BY <1>0 DEF TypeOK, JobsTypeOK, Job
  <2>2. job' = [job EXCEPT ![t] = r]
    BY <1>0, <1>4 DEF LocalNotice, TypeOK, JobsTypeOK
  <2> HIDE DEF r
  <2> QED
    BY <1>0, <2>1, <2>2, NoteTyped
<1> QED
  BY <1>1, <1>2, <1>3, <1>4 DEF LocalWork

LEMMA ClaimingTyped ==
    ASSUME TypeOK, NEW t \in Threads, Claiming(t)
    PROVE  JobsTypeOK'
<1>1. (IF Local(t) THEN "claimed" ELSE "encoding") \in Busy(t)
  BY PipelineAssumption DEF Local, Threads, Busy, LocalPcs, RemotePcs
<1>2. CASE Claim(t)
  BY <1>1, <1>2, GotoTyped DEF Claim, At
<1>3. CASE ClaimRefused(t)
  BY <1>3, StopTyped DEF ClaimRefused
<1> QED
  BY <1>2, <1>3 DEF Claiming

LEMMA DiscoverTyped ==
    ASSUME TypeOK, NEW t \in Threads, NEW p \in Packages, Discover(t, p)
    PROVE  JobsTypeOK'
<1>1. "candidate" \in Busy(t)
  BY DEF Busy, LocalPcs, RemotePcs
<1> QED
  BY <1>1, StartTyped DEF Discover

\* TypeOK without the tables.
PipeTypeOK ==
    /\ JobsTypeOK
    /\ root \in [Packages -> Builds \cup {NoBuild}]
    /\ sweep \in [phase: {"idle", "stale", "lease"}, todo: SUBSET Packages]
    /\ local \in [phase: {"down", "recovering", "up"}, todo: SUBSET Packages]
    /\ inspect \in [Packages -> {"none", "listed", "broken"}]
    /\ reclaiming \in SUBSET Packages
    /\ crashes \in 0..MaxCrashes

LEMMA FaultTyped ==
    ASSUME TypeOK, Fault
    PROVE  PipeTypeOK'
<1>0. Idle \in Job /\ RemoteThreads \subseteq Threads
  BY DEF Idle, Job, RemotePcs, LocalPcs, Threads
<1>1. ASSUME NEW t \in RemoteThreads, RemoteFailLost(t) \/ RemoteClaimLost(t)
      PROVE  JobsTypeOK' /\ UNCHANGED <<root, sweep, local, inspect, reclaiming, crashes>>
  BY <1>0, <1>1, StopTyped DEF RemoteFailLost, RemoteClaimLost, SlotOnly, TablesOnly
<1>2. ASSUME NEW e \in Encoders, RemoteCrash(e)
      PROVE  JobsTypeOK' /\ UNCHANGED <<root, sweep, local, inspect, reclaiming, crashes>>
  <2> DEFINE next == [t \in Threads |->
          IF t \in RemoteThreads /\ Owner[t] = e /\ job[t].pc \in {"encoding", "refused"}
          THEN Idle ELSE job[t]]
  <2>1. next \in [Threads -> Job] /\ \A t \in Threads : next[t] = job[t] \/ next[t] = Idle
    BY <1>0 DEF TypeOK, JobsTypeOK
  <2>2. job' = next
    BY <1>2 DEF RemoteCrash
  <2> HIDE DEF next
  <2> QED
    BY <1>2, <2>1, <2>2, CrashTyped DEF RemoteCrash, SlotOnly
<1>3. ASSUME ServerCrash
      PROVE  JobsTypeOK'
  <2> DEFINE next == [t \in Threads |->
          IF t \in RemoteThreads /\ job[t].pc \in HandlerPcs
          THEN [job[t] EXCEPT !.pc = "refused", !.parsed = NoBuild]
          ELSE IF t \in RemoteThreads /\ At(t, "candidate") THEN Idle ELSE job[t]]
  <2>1. ASSUME NEW t \in Threads
        PROVE  /\ next[t] \in Job
               /\ \/ next[t] = job[t]
                  \/ next[t] = Idle
                  \/ ~At(t, "idle") /\ next[t].pc \in Busy(t) /\ next[t].pkg = job[t].pkg
    <3>1. job[t] \in Job /\ "refused" \in RemotePcs
      BY DEF TypeOK, JobsTypeOK, RemotePcs
    <3>2. CASE t \in RemoteThreads /\ job[t].pc \in HandlerPcs
      <4>1. next[t] = [job[t] EXCEPT !.pc = "refused", !.parsed = NoBuild]
        BY <3>2
      <4>2. next[t] \in Job /\ next[t].pc = "refused" /\ next[t].pkg = job[t].pkg
        BY <3>1, <4>1 DEF Job
      <4> QED
        BY <3>1, <3>2, <4>2 DEF HandlerPcs, At, Busy
    <3>3. CASE ~(t \in RemoteThreads /\ job[t].pc \in HandlerPcs)
      BY <1>0, <3>1, <3>3
    <3> QED
      BY <3>2, <3>3
  <2>2. job' = next /\ next \in [Threads -> Job]
    BY <1>3, <2>1 DEF ServerCrash
  <2> HIDE DEF next
  <2> QED
    BY <2>1, <2>2, CrashTyped
<1>4. ASSUME WorkerCrash
      PROVE  JobsTypeOK'
  <2> DEFINE next == [t \in Threads |-> IF t \in LocalThreads THEN Idle ELSE job[t]]
  <2>1. next \in [Threads -> Job] /\ \A t \in Threads : next[t] = job[t] \/ next[t] = Idle
    BY <1>0 DEF TypeOK, JobsTypeOK
  <2>2. job' = next
    BY <1>4 DEF WorkerCrash
  <2> HIDE DEF next
  <2> QED
    BY <2>1, <2>2, CrashTyped
<1>5. ASSUME NEW kind, Crash(kind)
      PROVE  crashes' \in 0..MaxCrashes
  BY <1>5, PipelineAssumption DEF Crash, TypeOK
<1>6. CASE \E t \in RemoteThreads : RemoteFailLost(t) \/ RemoteClaimLost(t)
  BY <1>1, <1>6 DEF TypeOK, PipeTypeOK
<1>7. CASE \E e \in Encoders : RemoteCrash(e)
  BY <1>2, <1>7 DEF TypeOK, PipeTypeOK
<1>8. CASE ServerCrash
  BY <1>3, <1>5, <1>8 DEF ServerCrash, TypeOK, PipeTypeOK
<1>9. CASE WorkerCrash
  BY <1>4, <1>5, <1>9 DEF WorkerCrash, TypeOK, PipeTypeOK
<1>10. CASE \E p \in Packages : FilesVanish(p)
  BY <1>10 DEF FilesVanish, TypeOK, PipeTypeOK, JobsTypeOK
<1> QED
  BY <1>6, <1>7, <1>8, <1>9, <1>10 DEF Fault

LEMMA SweepTyped ==
    ASSUME TypeOK, Sweep \/ Worker
    PROVE  PipeTypeOK'
<1> USE DEF TypeOK, PipeTypeOK, JobsTypeOK
<1>1. CASE SweepStart \/ SweepLeases \/ SweepDone
  BY <1>1 DEF SweepStart, SweepLeases, SweepDone, SweepOnly
<1>2. CASE \E p \in Packages : SweepStale(p) \/ SweepExpire(p)
  BY <1>2 DEF SweepStale, SweepExpire, SweepOnly
<1>3. CASE WorkerStart \/ WorkerReady
  BY <1>3 DEF WorkerStart, WorkerReady, HeldJobs
<1>4. CASE \E p \in Packages : WorkerRecover(p)
  BY <1>4 DEF WorkerRecover
<1> QED
  BY <1>1, <1>2, <1>3, <1>4 DEF Sweep, Worker

LEMMA OperatorTyped ==
    ASSUME TypeOK, Operator
    PROVE  PipeTypeOK'
<1> USE DEF TypeOK, PipeTypeOK, JobsTypeOK
<1>1. CASE UNCHANGED pipeVars
  BY <1>1 DEF pipeVars
<1>2. CASE \E p \in Packages : ReclaimFiles(p) \/ ReclaimRow(p)
  BY <1>2 DEF ReclaimFiles, ReclaimRow
<1> QED
  BY <1>1, <1>2 DEF Operator, Request, Cancel, Requeue, Register, Revoke, Delete, SetConcurrency

LEMMA UpkeepTyped ==
    ASSUME TypeOK, NEW p \in Packages, Repair(p) \/ Lapse(p) \/ Age(p)
    PROVE  PipeTypeOK'
<1> USE DEF TypeOK, PipeTypeOK, JobsTypeOK
<1>1. CASE Repair(p)
  BY <1>1 DEF Repair, ListReady, ValidateFiles, RequeueBroken, RepairOnly
<1>2. CASE Lapse(p) \/ Age(p)
  BY <1>2 DEF Lapse, Age, pipeVars
<1> QED
  BY <1>1, <1>2

LEMMA NextTyped ==
    ASSUME TypeOK, [Next]_vars
    PROVE  TypeOK'
<1> USE DEF TypeOK, PipeTypeOK
<1>1. CASE UNCHANGED vars
  BY <1>1 DEF vars, JobsTypeOK, StoreTypeOK
<1>2. CASE Next
  <2>1. StoreTypeOK'
    <3>1. AnyStoreStep
      BY <1>2, StoreStepOfNext
    <3> QED
      BY <3>1, StoreStepTyped DEF AnyStoreStep
  <2>2. ASSUME JobsTypeOK', UNCHANGED <<root, sweep, local, inspect, reclaiming, crashes>>
        PROVE  PipeTypeOK'
    BY <2>2
  <2>3. ASSUME NEW t \in Threads,
               \/ t \in RemoteThreads /\ RemoteWork(t)
               \/ t \in LocalThreads /\ LocalWork(t)
               \/ Claiming(t) \/ Publish(t) \/ Heartbeat(t)
               \/ \E p \in Packages : Discover(t, p)
        PROVE  PipeTypeOK'
    <3>1. CASE t \in RemoteThreads /\ RemoteWork(t)
      <4>1. UNCHANGED <<sweep, local, inspect, reclaiming, crashes>>
        BY <3>1 DEF RemoteWork, RemoteFail, RemoteComplete, UploadFails, HandlerFails,
                    CompleteJob, CleanupRoot, CleanupSegments, CleanupRequeue,
                    TablesOnly, DiskOnly, SlotOnly
      <4>2. root' \in [Packages -> Builds \cup {NoBuild}]
        BY <3>1 DEF RemoteWork, RemoteFail, RemoteComplete, UploadFails, HandlerFails,
                    CompleteJob, CleanupRoot, CleanupSegments, CleanupRequeue,
                    TablesOnly, DiskOnly, SlotOnly
      <4> QED
        BY <3>1, <4>1, <4>2, RemoteWorkTyped
    <3>2. CASE t \in LocalThreads /\ LocalWork(t)
      BY <2>2, <3>2, LocalWorkTyped
         DEF LocalWork, LocalClaimDropped, LocalEarlyError, LocalMarkProcessing, LocalNotice,
             LocalFails, LocalMarkReady, LocalReadyFails, LocalClearLease, TablesOnly, SlotOnly
    <3>3. CASE Publish(t)
      BY <3>3, PublishTyped
         DEF Publish, ClearRoot, PublishRoot, ParseManifest, WriteSegments,
             TablesOnly, DiskOnly, SlotOnly
    <3>4. CASE Claiming(t)
      BY <2>2, <3>4, ClaimingTyped DEF Claiming, Claim, ClaimRefused, TablesOnly, SlotOnly
    <3>5. CASE \E p \in Packages : Discover(t, p)
      BY <2>2, <3>5, DiscoverTyped DEF Discover, SlotOnly
    <3>6. CASE Heartbeat(t)
      BY <2>2, <3>6 DEF Heartbeat, pipeVars, JobsTypeOK
    <3> QED
      BY <2>3, <3>1, <3>2, <3>3, <3>4, <3>5, <3>6
  <2>4. PipeTypeOK'
    BY <1>2, <2>3, SweepTyped, OperatorTyped, FaultTyped, UpkeepTyped DEF Next, Threads
  <2> QED
    BY <2>1, <2>4
<1> QED
  BY <1>1, <1>2

LEMMA InitTyped == Init => TypeOK
<1> SUFFICES ASSUME Init PROVE TypeOK
  OBVIOUS
<1>1. StoreTypeOK
  BY NoRowTyped, StoreAssumption DEF Init, StoreInit, StoreTypeOK, Encoder
<1>2. JobsTypeOK
  BY DEF Init, JobsTypeOK, Idle, Job, RemotePcs, LocalPcs
<1> QED
  BY <1>1, <1>2, PipelineAssumption DEF Init, TypeOK

-----------------------------------------------------------------------------
(* The theorems.                                                           *)

\* Whatever the slots, the sweeper, the operator and the faults do, every table row,
\* lease and slot stays well formed.
THEOREM TypeCorrect == Spec => []TypeOK
BY InitTyped, NextTyped, PTL DEF Spec

\* The database never holds a lease of a package or an encoder that is gone, nor segment
\* rows of a deleted package, although slots keep working on what was deleted.
THEOREM ReferencesCorrect == Spec => []ReferencesResolve
<1>1. Init => ReferencesResolve
  BY DEF Init, StoreInit, ReferencesResolve, Leased
<1>2. TypeOK /\ ReferencesResolve /\ [Next]_vars => ReferencesResolve'
  <2> SUFFICES ASSUME TypeOK, ReferencesResolve, [Next]_vars
               PROVE  ReferencesResolve'
    OBVIOUS
  <2>1. AnyStoreStep
    BY StoreStepOfNext DEF AnyStoreStep, StoreStep, vars, storeVars
  <2> QED
    BY <2>1, StoreStepRefs DEF TypeOK, AnyStoreStep
<1> QED
  BY <1>1, <1>2, TypeCorrect, PTL DEF Spec

\* Without local slots there is no local worker process.
WorkerDown == local.phase = "down"

LEMMA WorkerStaysDown ==
    ASSUME LocalThreads = {}
    PROVE  Spec => []WorkerDown
<1>1. Init => WorkerDown
  BY DEF Init, WorkerDown
<1>2. WorkerDown /\ [Next]_vars => WorkerDown'
  <2> SUFFICES ASSUME WorkerDown, [Next]_vars PROVE local' = local
    BY DEF WorkerDown
  <2>1. ASSUME NEW t \in Threads,
               \/ RemoteWork(t) \/ Claiming(t) \/ Publish(t) \/ Heartbeat(t)
               \/ \E p \in Packages : Discover(t, p)
        PROVE  local' = local
    BY <2>1 DEF RemoteWork, RemoteFail, RemoteComplete, UploadFails, HandlerFails, CompleteJob,
                CleanupRoot, CleanupSegments, CleanupRequeue, Publish, ClearRoot, PublishRoot,
                ParseManifest, WriteSegments, Claiming, Claim, ClaimRefused, Heartbeat, Discover,
                TablesOnly, DiskOnly, SlotOnly, pipeVars
  <2>2. CASE Sweep \/ Worker
    BY <2>2 DEF Sweep, SweepStart, SweepStale, SweepLeases, SweepExpire, SweepDone, SweepOnly,
                Worker, WorkerStart, WorkerRecover, WorkerReady, WorkerDown
  <2>3. CASE Operator
    BY <2>3 DEF Operator, Request, Cancel, Requeue, Register, Revoke, Delete, SetConcurrency,
                ReclaimFiles, ReclaimRow, pipeVars
  <2>4. CASE Fault
    BY <2>4 DEF Fault, RemoteFailLost, RemoteClaimLost, RemoteCrash, ServerCrash, WorkerCrash,
                FilesVanish, TablesOnly, SlotOnly, WorkerDown
  <2>5. ASSUME NEW p \in Packages, Repair(p) \/ Lapse(p) \/ Age(p)
        PROVE  local' = local
    BY <2>5 DEF Repair, ListReady, ValidateFiles, RequeueBroken, RepairOnly, Lapse, Age, pipeVars
  <2>6. CASE UNCHANGED vars
    BY <2>6 DEF vars
  <2> QED
    BY <2>1, <2>2, <2>3, <2>4, <2>5, <2>6 DEF Next, Threads
<1> QED
  BY <1>1, <1>2, PTL DEF Spec

\* Where only remote encoders work, a package is in processing only under a lease, and a
\* ready package has none, whichever handlers were overtaken or died half-way.
THEOREM LeasesCorrect ==
    ASSUME LocalThreads = {}
    PROVE  Spec => []LeaseDiscipline
<1>1. Init => LeaseDiscipline
  BY DEF Init, StoreInit, NoRow, LeaseDiscipline, Leased, Processing
<1>2. TypeOK /\ WorkerDown /\ LeaseDiscipline /\ [Next]_vars => LeaseDiscipline'
  <2> SUFFICES ASSUME TypeOK, WorkerDown, LeaseDiscipline, [Next]_vars
               PROVE  LeaseDiscipline'
    OBVIOUS
  <2>1. Lawful
    BY StoreStepOfNext DEF Lawful, vars, storeVars, WorkerDown
  <2>2. CASE UNCHANGED storeVars
    BY <2>2 DEF storeVars, LeaseDiscipline, Leased, Processing
  <2> QED
    BY <2>1, <2>2, LeaseStepLeases DEF TypeOK, Lawful
<1> QED
  BY <1>1, <1>2, TypeCorrect, WorkerStaysDown, PTL DEF Spec

-----------------------------------------------------------------------------
(* One builder at a time, and what it leaves is intact.                    *)

\* No slot is held up for a lease, the operator neither cancels nor reclaims nor removes
\* encoders, the local worker does not die and no files vanish.
Timely == Faults \subseteq {"network", "remoteCrash", "serverCrash", "requeue", "caps"}

\* An encoder is one slot when responses get lost: a late failure report names the package
\* and the encoder only, so it would hit whatever another slot of that encoder now does.
OneSlot ==
    "network" \in Faults => \A t, u \in RemoteThreads : Owner[t] = Owner[u] => t = u

\* The slot works on its package under the package's lease, or reports a failure to it.
Attached(t) ==
    IF t \in RemoteThreads
    THEN \/ job[t].pc \in HandlerPcs \cup {"encoding"}
         \/ job[t].pc = "refused" /\ OwnsJob(job[t].pkg, Owner[t])
    ELSE job[t].pc \notin {"idle", "candidate"}

\* Its lease is good, and so is its claim until it has given the package up.
Good(t) ==
    /\ OwnsJob(job[t].pkg, Owner[t]) /\ ~jobs[job[t].pkg].lapsed
    /\ job[t].pc # "clearing" => Processing(job[t].pkg) /\ Active(Owner[t])

Sound(t) ==
    /\ Attached(t) => Good(t)
    /\ "network" \notin Faults /\ t \in RemoteThreads /\ At(t, "refused") => Attached(t)
    /\ ~job[t].lost

\* What the slot has published, read back and recorded is its own.
Own(t) ==
    /\ job[t].pc \in {"published", "parsed", "finalized"} => root[job[t].pkg] = t
    /\ job[t].pc \in {"parsed", "finalized"} => job[t].parsed = t
    /\ job[t].pc = "finalized" => segments[job[t].pkg] = t

Intact(p) == packages[p].status = "ready" => root[p] # NoBuild /\ segments[p] = root[p]

Alone ==
    \A t, u \in Threads : Attached(t) /\ Attached(u) /\ job[t].pkg = job[u].pkg => t = u

\* What the sweeper is about to take is nobody's.
SweptIsLeft ==
    \A p \in sweep.todo :
        /\ sweep.phase = "stale" => Processing(p) /\ ~Leased(p)
        /\ sweep.phase = "lease" => Leased(p) /\ jobs[p].lapsed

\* The worker starts once, before its encoder exists, and finds no lease to recover.
StartsOnce ==
    /\ local.todo = {}
    /\ local.phase = "down" => encoders[LocalEncoder].state = "unregistered"

BuildInv ==
    /\ \A t \in Threads : Sound(t) /\ Own(t)
    /\ \A p \in Packages : Intact(p)
    /\ Alone
    /\ SweptIsLeft
    /\ StartsOnce

LEMMA BuildInit == Init => BuildInv
<1> SUFFICES ASSUME Init PROVE BuildInv
  OBVIOUS
<1>1. \A t \in Threads : job[t] = Idle
  BY DEF Init
<1>2. \A t \in Threads : ~Attached(t) /\ Sound(t) /\ Own(t)
  BY <1>1 DEF Attached, Sound, Own, Idle, HandlerPcs, At
<1>3. \A p \in Packages : Intact(p)
  BY DEF Init, StoreInit, NoRow, Intact
<1> QED
  BY <1>2, <1>3, PipelineAssumption DEF Init, StoreInit, BuildInv, Alone, SweptIsLeft, StartsOnce

\* BuildInv says what the two properties say: a slot that publishes is attached.
LEMMA BuildSays ==
    ASSUME TypeOK, BuildInv
    PROVE  OneBuilder /\ ReadyIntact
<1>1. \A t \in Threads : Publishing(t) => Attached(t)
  BY DEF Publishing, Attached, HandlerPcs
<1>2. OneBuilder
  BY <1>1 DEF OneBuilder, BuildInv, Alone
<1>3. ReadyIntact
  BY DEF ReadyIntact, BuildInv, Intact
<1> QED
  BY <1>2, <1>3

-----------------------------------------------------------------------------
(* Three kinds of steps.                                                   *)

\* Only slot t moves, and of the tables and the disk only package p is touched.
Confined(t, p) ==
    /\ \A u \in Threads : u # t => job'[u] = job[u]
    /\ \A q \in Packages : q # p =>
         /\ packages'[q].status = packages[q].status
         /\ jobs'[q] = jobs[q] /\ root'[q] = root[q] /\ segments'[q] = segments[q]
    /\ UNCHANGED <<encoders, sweep, local>>

\* An attached slot that leaves itself and its package in order disturbs nobody: there is
\* no other slot attached to the package, and the lease stays its own or goes.
LEMMA WorkKeeps ==
    ASSUME TypeOK, TypeOK', BuildInv, NEW t \in Threads, NEW p \in Packages,
           Attached(t), job[t].pkg = p, Confined(t, p),
           Leased(p)' => jobs'[p].owner = Owner[t],
           job'[t].pkg = p \/ ~Attached(t)',
           Sound(t)', Own(t)', Intact(p)'
    PROVE  BuildInv'
<1>1. Good(t)
  BY DEF BuildInv, Sound
<1>2. ASSUME NEW u \in Threads, u # t
      PROVE  /\ Attached(u)' => Attached(u) /\ job[u].pkg # p
             /\ job'[u] = job[u]
             /\ Sound(u)' /\ Own(u)'
  <2>1. job'[u] = job[u] /\ Sound(u) /\ Own(u)
    BY <1>2 DEF Confined, BuildInv
  <2>2. CASE job[u].pkg = p
    <3>1. ~Attached(u)
      BY <1>2, <2>2 DEF BuildInv, Alone
    <3>2. ~Attached(u)'
      BY <1>1, <2>1, <2>2, <3>1 DEF Attached, Good, OwnsJob
    <3>3. job[u].pc \notin {"published", "parsed", "finalized"}
      BY <3>1 DEF Attached, HandlerPcs
    <3> QED
      BY <2>1, <3>1, <3>2, <3>3 DEF Sound, Own, At
  <2>3. CASE job[u].pkg # p /\ job[u].pkg \in Packages
    <3>1. Attached(u)' <=> Attached(u)
      BY <2>1, <2>3 DEF Attached, OwnsJob, Leased, Confined
    <3>2. Attached(u) => Good(u)'
      BY <2>1, <2>3 DEF Sound, Good, OwnsJob, Leased, Processing, Active, Confined
    <3> QED
      BY <2>1, <2>3, <3>1, <3>2 DEF Sound, Own, At, Confined
  <2>4. CASE job[u].pkg \notin Packages
    <3>1. job[u].pc = "idle"
      BY <2>4, SlotPackage DEF At
    <3> QED
      BY <2>1, <2>2, <3>1 DEF Attached, HandlerPcs, Sound, Own, At
  <2> QED
    BY <2>2, <2>3, <2>4
<1>3. \A u \in Threads : Sound(u)' /\ Own(u)'
  BY <1>2
<1>4. Alone'
  BY <1>2 DEF Alone, BuildInv
<1>5. \A q \in Packages : Intact(q)'
  BY DEF BuildInv, Intact, Confined
<1>6. SweptIsLeft'
  <2>1. p \notin sweep.todo \/ sweep.phase = "idle"
    BY <1>1 DEF BuildInv, SweptIsLeft, Good, OwnsJob, TypeOK
  <2> QED
    BY <2>1 DEF BuildInv, SweptIsLeft, Leased, Processing, Confined, TypeOK
<1>7. StartsOnce'
  BY DEF BuildInv, StartsOnce, Confined
<1> QED
  BY <1>3, <1>4, <1>5, <1>6, <1>7 DEF BuildInv

\* A slot without a claim that stays without one touches nothing else.
LEMMA StandKeeps ==
    ASSUME TypeOK, TypeOK', BuildInv, NEW t \in Threads,
           \A u \in Threads : u # t => job'[u] = job[u],
           job'[t].pc \in {"idle", "candidate"}, ~job'[t].lost,
           UNCHANGED <<packages, jobs, encoders, segments, root, sweep, local>>
    PROVE  BuildInv'
<1>1. ~Attached(t)' /\ Sound(t)' /\ Own(t)'
  BY DEF Attached, Sound, Own, HandlerPcs, At
<1>2. \A u \in Threads : u # t =>
         /\ Attached(u)' <=> Attached(u)
         /\ Sound(u)' /\ Own(u)'
  BY DEF BuildInv, Attached, Sound, Good, OwnsJob, Leased, Processing, Active, Own, At
<1>3. \A u \in Threads : Sound(u)' /\ Own(u)'
  BY <1>1, <1>2
<1>4. Alone'
  BY <1>1, <1>2 DEF Alone, BuildInv
<1> QED
  BY <1>3, <1>4
     DEF BuildInv, Intact, SweptIsLeft, StartsOnce, Leased, Processing

\* A step of nobody's: a slot stays as it is, or gives up, or falls from the handler back
\* to its report.  A package some slot is attached to keeps its lease and, in processing,
\* its status.
Falls(t) ==
    \/ job'[t] = job[t]
    \/ job'[t] = Idle
    \/ /\ t \in RemoteThreads /\ job[t].pc \in HandlerPcs
       /\ job'[t].pc = "refused" /\ job'[t].pkg = job[t].pkg /\ ~job'[t].lost

Spares(q) ==
    /\ \/ jobs'[q] = jobs[q] /\ (Processing(q) => Processing(q)')
       \/ /\ \A t \in Threads : job[t].pkg = q => ~Attached(t)
          /\ Leased(q)' => Leased(q) /\ jobs'[q].owner = jobs[q].owner
    /\ packages'[q].status = "ready" => packages[q].status = "ready"
    /\ \/ segments'[q] = segments[q]
       \/ packages[q].status = "ready" /\ packages'[q].status # "ready"

LEMMA SystemKeeps ==
    ASSUME TypeOK, TypeOK', BuildInv,
           \A t \in Threads : Falls(t),
           \A q \in Packages : Spares(q),
           \A e \in Encoders : Active(e) => Active(e)',
           root' = root, SweptIsLeft', StartsOnce'
    PROVE  BuildInv'
<1>1. ASSUME NEW u \in Threads
      PROVE  /\ Attached(u)' => Attached(u) /\ job'[u].pkg = job[u].pkg
             /\ Sound(u)' /\ Own(u)'
  <2>1. Sound(u) /\ Own(u) /\ Falls(u) /\ Owner[u] \in Encoders
    BY OwnerEncoder DEF BuildInv
  <2>2. CASE job'[u].pc = "idle"
    <3>1. ~Attached(u)'
      BY <2>2 DEF Attached, HandlerPcs
    <3> QED
      BY <2>1, <2>2, <3>1 DEF Sound, Own, At, Falls, Idle
  <2>3. CASE job'[u].pc # "idle" /\ ~Attached(u)
    <3>1. job'[u] = job[u] /\ ~At(u, "idle")
      BY <2>1, <2>3 DEF Falls, Idle, Attached, At
    <3>2. job[u].pkg \in Packages
      BY <3>1, SlotPackage
    <3>3. ~Attached(u)'
      <4>1. Spares(job[u].pkg)
        BY <3>2
      <4> QED
        BY <2>3, <3>1, <4>1 DEF Attached, OwnsJob, Leased, Spares
    <3>4. job[u].pc \notin {"published", "parsed", "finalized"}
      BY <2>3 DEF Attached, HandlerPcs
    <3> QED
      BY <2>1, <2>3, <3>1, <3>3, <3>4 DEF Sound, Own, At
  <2>4. CASE job'[u].pc # "idle" /\ Attached(u)
    <3> DEFINE q == job[u].pkg
    <3>1. job'[u].pkg = q /\ q \in Packages
      <4>1. ~At(u, "idle")
        BY <2>4 DEF Attached, HandlerPcs, At
      <4> QED
        BY <2>1, <2>4, <4>1, SlotPackage DEF Falls, Idle
    <3>2. Good(u) /\ jobs'[q] = jobs[q] /\ (Processing(q) => Processing(q)')
      BY <2>1, <2>4, <3>1 DEF Sound, Spares
    <3>3. Good(u)'
      BY <2>1, <2>4, <3>1, <3>2 DEF Good, OwnsJob, Leased, Falls, Idle, HandlerPcs, Processing
    <3>4. Attached(u)'
      BY <2>1, <2>4, <3>1, <3>2 DEF Attached, Good, OwnsJob, Leased, Falls, Idle
    <3>5. Own(u)'
      <4>1. CASE job'[u].pc = "refused"
        BY <4>1 DEF Own
      <4>2. CASE job'[u] = job[u]
        <5>1. job[u].pc \in {"published", "parsed", "finalized"} => segments'[q] = segments[q]
          BY <3>1, <3>2 DEF Good, Processing, Spares
        <5> QED
          BY <2>1, <3>1, <4>2, <5>1 DEF Own
      <4> QED
        BY <2>1, <2>4, <4>1, <4>2 DEF Falls, Idle
    <3>6. Sound(u)'
      BY <2>1, <3>3, <3>4, <2>4 DEF Sound, Falls, Idle
    <3> QED
      BY <2>4, <3>1, <3>5, <3>6
  <2> QED
    BY <2>2, <2>3, <2>4
<1>2. Alone'
  BY <1>1 DEF Alone, BuildInv
<1>3. \A q \in Packages : Intact(q)'
  BY DEF BuildInv, Intact, Spares
<1> QED
  BY <1>1, <1>2, <1>3 DEF BuildInv

\* A claim takes a lease where there was none, so nobody was attached to the package; nor
\* becomes attached to it a refused slot of the same encoder, when there is none.
LEMMA ClaimKeeps ==
    ASSUME OneSlot, TypeOK, TypeOK', BuildInv, NEW t \in Threads, NEW p \in Packages,
           At(t, "candidate"), job[t].pkg = p, Confined(t, p),
           ~Leased(p), ~Processing(p), Leased(p)', Processing(p)', Active(Owner[t])',
           jobs'[p].owner = Owner[t], ~jobs'[p].lapsed,
           ~job'[t].lost,
           \/ /\ job'[t].pkg = p
              /\ job'[t].pc = IF t \in RemoteThreads THEN "encoding" ELSE "claimed"
           \/ "network" \in Faults /\ t \in RemoteThreads /\ job'[t].pc = "idle",
           UNCHANGED <<root, segments>>
    PROVE  BuildInv'
<1>1. Sound(t)' /\ Own(t)'
  BY DEF Sound, Own, Attached, Good, OwnsJob, HandlerPcs, At
<1>2. ASSUME NEW u \in Threads, u # t
      PROVE  /\ Attached(u)' => Attached(u) /\ job[u].pkg # p
             /\ job'[u] = job[u]
             /\ Sound(u)' /\ Own(u)'
  <2>1. job'[u] = job[u] /\ Sound(u) /\ Own(u)
    BY <1>2 DEF Confined, BuildInv
  <2>2. CASE job[u].pkg = p
    <3>1. ~Attached(u)
      BY <2>1, <2>2 DEF Sound, Good, OwnsJob
    <3>2. ~Attached(u)'
      <4>1. CASE At(u, "refused") /\ u \in RemoteThreads
        <5>1. "network" \in Faults
          BY <2>1, <3>1, <4>1 DEF Sound
        <5>2. t \in RemoteThreads => Owner[u] # Owner[t]
          BY <1>2, <4>1, <5>1 DEF OneSlot
        <5>3. t \notin RemoteThreads => Owner[u] # Owner[t]
          BY <4>1, PipelineAssumption DEF Threads
        <5> QED
          BY <2>1, <2>2, <4>1, <5>2, <5>3 DEF Attached, OwnsJob, At, HandlerPcs
      <4>2. CASE ~(At(u, "refused") /\ u \in RemoteThreads)
        BY <2>1, <3>1, <4>2 DEF Attached, At
      <4> QED
        BY <4>1, <4>2
    <3>3. job[u].pc \notin {"published", "parsed", "finalized"}
      BY <3>1 DEF Attached, HandlerPcs
    <3>4. "network" \notin Faults => ~(u \in RemoteThreads /\ At(u, "refused"))
      BY <2>1, <3>1 DEF Sound
    <3> QED
      BY <2>1, <3>1, <3>2, <3>3, <3>4 DEF Sound, Own, At
  <2>3. CASE job[u].pkg # p /\ job[u].pkg \in Packages
    <3>1. Attached(u)' <=> Attached(u)
      BY <2>1, <2>3 DEF Attached, OwnsJob, Leased, Confined
    <3>2. Attached(u) => Good(u)'
      BY <2>1, <2>3 DEF Sound, Good, OwnsJob, Leased, Processing, Active, Confined
    <3> QED
      BY <2>1, <2>3, <3>1, <3>2 DEF Sound, Own, At, Confined
  <2>4. CASE job[u].pkg \notin Packages
    <3>1. job[u].pc = "idle"
      BY <2>4, SlotPackage DEF At
    <3> QED
      BY <2>1, <2>2, <3>1 DEF Attached, HandlerPcs, Sound, Own, At
  <2> QED
    BY <2>2, <2>3, <2>4
<1>3. \A u \in Threads : Sound(u)' /\ Own(u)'
  BY <1>1, <1>2
<1>4. Attached(t)' => job'[t].pkg = p
  BY DEF Attached, HandlerPcs
<1>5. Alone'
  BY <1>2, <1>4 DEF Alone, BuildInv
<1>6. \A q \in Packages : Intact(q)'
  BY DEF BuildInv, Intact, Confined, Processing
<1>7. SweptIsLeft'
  <2>1. p \notin sweep.todo \/ sweep.phase = "idle"
    BY DEF BuildInv, SweptIsLeft, TypeOK
  <2> QED
    BY <2>1 DEF BuildInv, SweptIsLeft, Leased, Processing, Confined, TypeOK
<1>8. StartsOnce'
  BY DEF BuildInv, StartsOnce, Confined
<1> QED
  BY <1>3, <1>5, <1>6, <1>7, <1>8 DEF BuildInv

-----------------------------------------------------------------------------
(* The steps.                                                              *)

LEMMA GotoJob ==
    ASSUME TypeOK, NEW t \in Threads, NEW pc, Goto(t, pc)
    PROVE  /\ job'[t].pc = pc /\ job'[t].pkg = job[t].pkg
           /\ job'[t].parsed = job[t].parsed /\ job'[t].lost = job[t].lost
           /\ \A u \in Threads : u # t => job'[u] = job[u]
BY DEF Goto, TypeOK, JobsTypeOK, Job

LEMMA StopJob ==
    ASSUME TypeOK, NEW t \in Threads, Stop(t)
    PROVE  /\ job'[t] = Idle
           /\ \A u \in Threads : u # t => job'[u] = job[u]
BY DEF Stop, TypeOK, JobsTypeOK

\* An idle slot is in order.
LEMMA IdleSound ==
    ASSUME NEW t \in Threads, job'[t] = Idle
    PROVE  ~Attached(t)' /\ Sound(t)' /\ Own(t)'
BY DEF Idle, Attached, Sound, Own, HandlerPcs, At

\* What an attached slot knows of its package.
LEMMA AttachedKnows ==
    ASSUME TypeOK, BuildInv, NEW t \in Threads, Attached(t)
    PROVE  /\ job[t].pkg \in Packages
           /\ Leased(job[t].pkg) /\ jobs[job[t].pkg].owner = Owner[t]
           /\ ~jobs[job[t].pkg].lapsed
           /\ ~At(t, "clearing") => Processing(job[t].pkg) /\ Active(Owner[t]) /\ Holds(t)
           /\ ~job[t].lost /\ Own(t) /\ Intact(job[t].pkg)
<1>1. ~At(t, "idle")
  BY DEF Attached, At, HandlerPcs
<1>2. job[t].pkg \in Packages
  BY <1>1, SlotPackage
<1> QED
  BY <1>2 DEF BuildInv, Sound, Good, OwnsJob, Holds, HoldsClaim, At

\* A step that only moves an attached slot on, without a promise of what it has built.
LEMMA MoveKeeps ==
    ASSUME TypeOK, TypeOK', BuildInv, NEW t \in Threads, Attached(t), ~At(t, "clearing"),
           NEW pc \in {"encoding", "claimed", "uploading", "publishing", "refused", "cleanRoot",
                       "cleanSegments", "cleanRequeue", "clearing"},
           pc \in IF t \in RemoteThreads THEN RemotePcs ELSE LocalPcs,
           Goto(t, pc),
           UNCHANGED <<encoders, sweep, local, jobs>>,
           \A q \in Packages : packages'[q].status = packages[q].status,
           \A q \in Packages : q # job[t].pkg => root'[q] = root[q] /\ segments'[q] = segments[q]
    PROVE  BuildInv'
<1>1. PICK p \in Packages : p = job[t].pkg
  BY AttachedKnows
<1>2. Leased(p) /\ jobs[p].owner = Owner[t] /\ ~jobs[p].lapsed /\ ~job[t].lost
      /\ Processing(p) /\ Active(Owner[t])
  BY <1>1, AttachedKnows
<1>3. /\ job'[t].pc = pc /\ job'[t].pkg = p /\ ~job'[t].lost
      /\ \A u \in Threads : u # t => job'[u] = job[u]
  BY <1>1, <1>2, GotoJob
<1>4. Confined(t, p)
  BY <1>1, <1>3 DEF Confined
<1>5. Good(t)'
  BY <1>2, <1>3 DEF Good, OwnsJob, Leased, Processing, Active
<1>6. Sound(t)' /\ Own(t)'
  <2>1. At(t, "refused")' /\ t \in RemoteThreads => Attached(t)'
    BY <1>5 DEF Attached, Good, At
  <2> QED
    BY <1>3, <1>5, <2>1 DEF Sound, Own
<1>7. Intact(p)'
  BY <1>2 DEF Intact, Processing
<1>8. (Leased(p)' => jobs'[p].owner = Owner[t]) /\ (job'[t].pkg = p)
  BY <1>2, <1>3
<1> HIDE DEF Confined
<1> QED
  BY <1>1, <1>4, <1>6, <1>7, <1>8, WorkKeeps

\* A slot that gives its attached package up, whatever becomes of a claim that was its own.
LEMMA LeaveKeeps ==
    ASSUME TypeOK, TypeOK', BuildInv, NEW t \in Threads, Attached(t),
           NEW p \in Packages, p = job[t].pkg, Confined(t, p),
           Leased(p)' => jobs'[p].owner = Owner[t],
           job'[t] = Idle,
           Intact(p)'
    PROVE  BuildInv'
<1>1. ~Attached(t)' /\ Sound(t)' /\ Own(t)'
  BY IdleSound
<1> QED
  BY <1>1, WorkKeeps

LEMMA RemoteWorkKeeps ==
    ASSUME Timely, TypeOK, TypeOK', BuildInv, NEW t \in RemoteThreads, RemoteWork(t)
    PROVE  BuildInv'
<1>0. t \in Threads /\ t \in RemoteThreads
  BY DEF Threads
<1>1. PICK p : p = job[t].pkg
  OBVIOUS
<1>2. CASE ~Attached(t)
  <2>1. \E kind \in FailureKinds : RemoteFail(t, kind)
    BY <1>2 DEF RemoteWork, RemoteComplete, UploadFails, HandlerFails, CompleteJob, CleanupRoot,
                CleanupSegments, CleanupRequeue, Attached, HandlerPcs, At
  <2>2. ~Holds(t)
    BY <1>2, <2>1 DEF RemoteFail, Attached, Holds, HoldsClaim
  <2>3. Stop(t) /\ UNCHANGED <<packages, jobs, encoders, segments, root, sweep, local>>
    BY <2>1, <2>2 DEF RemoteFail, TablesOnly, storeVars
  <2>4. job'[t] = Idle /\ \A u \in Threads : u # t => job'[u] = job[u]
    BY <1>0, <2>3, StopJob
  <2>5. job'[t].pc = "idle" /\ ~job'[t].lost
    BY <2>4 DEF Idle
  <2> QED
    BY <1>0, <2>3, <2>4, <2>5, StandKeeps
<1>3. CASE Attached(t)
  <2>0. /\ p \in Packages /\ Leased(p) /\ jobs[p].owner = Owner[t] /\ ~At(t, "clearing")
        /\ Processing(p) /\ Active(Owner[t]) /\ Holds(t) /\ Own(t) /\ Intact(p)
    <3>1. ~At(t, "clearing")
      BY <1>3 DEF Attached, At, HandlerPcs
    <3> QED
      BY <1>0, <1>1, <1>3, <3>1, AttachedKnows
  <2>1. CASE \E kind \in FailureKinds : RemoteFail(t, kind)
    <3>1. PICK kind \in FailureKinds : FailEncoderJob(p, Owner[t], kind, MaxAttempts)
                                       /\ Stop(t) /\ TablesOnly
      BY <1>1, <2>0, <2>1 DEF RemoteFail
    <3>2. job'[t] = Idle /\ \A u \in Threads : u # t => job'[u] = job[u]
      BY <1>0, <3>1, StopJob
    <3>3. /\ packages'[p].status \in {"failed", "pending"} /\ ~Leased(p)'
          /\ Confined(t, p)
      BY <2>0, <3>1, <3>2
         DEF FailEncoderJob, FailProcessing, FailureStatus, SetStatus, DropLease, Leased, TypeOK,
             StoreTypeOK, Row, TablesOnly, Confined
    <3>4. Intact(p)'
      BY <3>3 DEF Intact
    <3> QED
      BY <1>0, <1>1, <1>3, <2>0, <3>2, <3>3, <3>4, LeaveKeeps
  <2>2. CASE RemoteComplete(t) \/ UploadFails(t) \/ HandlerFails(t)
    <3>1. /\ \E pc \in {"uploading", "refused", "cleanRoot"} : Goto(t, pc)
          /\ UNCHANGED <<packages, jobs, encoders, segments, root, sweep, local>>
      BY <2>0, <2>2 DEF RemoteComplete, UploadFails, HandlerFails, SlotOnly, storeVars
    <3> QED
      BY <1>0, <1>3, <2>0, <3>1, MoveKeeps DEF RemotePcs, HandlerPcs
  <2>3. CASE CompleteJob(t)
    <3>1. /\ At(t, "finalized") /\ CompleteEncoderJob(p, Owner[t]) /\ TablesOnly
          /\ Stop(t) \/ ("network" \in Faults /\ Goto(t, "refused"))
      BY <1>1, <2>3 DEF CompleteJob
    <3>2. \A u \in Threads : u # t => job'[u] = job[u]
      BY <1>0, <3>1, StopJob, GotoJob
    <3>3. ~Leased(p)' /\ Confined(t, p)
      BY <2>0, <3>1, <3>2
         DEF CompleteEncoderJob, SetStatus, DropLease, Leased, TypeOK, StoreTypeOK, Row,
             TablesOnly, Confined
    <3>4. Intact(p)'
      <4>1. root[p] = t /\ segments[p] = t
        BY <1>1, <2>0, <3>1 DEF Own, At
      <4>2. t # NoBuild
        BY <1>0, PipelineAssumption, StoreAssumption
      <4> QED
        BY <3>1, <4>1, <4>2 DEF CompleteEncoderJob, TablesOnly, Intact
    <3>5. ~Attached(t)' /\ Sound(t)' /\ Own(t)'
      <4>1. CASE Stop(t)
        BY <1>0, <4>1, StopJob, IdleSound
      <4>2. CASE "network" \in Faults /\ Goto(t, "refused")
        <5>1. job'[t].pc = "refused" /\ job'[t].pkg = p /\ ~job'[t].lost
          BY <1>0, <1>1, <1>3, <4>2, GotoJob, AttachedKnows
        <5> QED
          BY <3>3, <4>2, <5>1 DEF Attached, Sound, Own, OwnsJob, HandlerPcs
      <4> QED
        BY <3>1, <4>1, <4>2
    <3> QED
      BY <1>0, <1>1, <1>3, <2>0, <3>3, <3>4, <3>5, WorkKeeps
  <2>4. CASE CleanupRoot(t) \/ CleanupSegments(t) \/ CleanupRequeue(t)
    <3>1. /\ \E pc \in {"cleanSegments", "cleanRequeue", "refused"} : Goto(t, pc)
          /\ UNCHANGED <<packages, jobs, encoders, sweep, local>>
      BY <1>1, <2>0, <2>4 DEF CleanupRoot, CleanupSegments, CleanupRequeue, DeletePackagedSegments,
              DiskOnly, TablesOnly, storeVars
    <3>2. \A q \in Packages : q # p => root'[q] = root[q] /\ segments'[q] = segments[q]
      BY <1>1, <2>0, <2>4 DEF CleanupRoot, CleanupSegments, CleanupRequeue, DeletePackagedSegments,
              DiskOnly, TablesOnly, storeVars, TypeOK, StoreTypeOK
    <3> QED
      BY <1>0, <1>1, <1>3, <2>0, <3>1, <3>2, MoveKeeps DEF RemotePcs, HandlerPcs
  <2> QED
    BY <2>1, <2>2, <2>3, <2>4 DEF RemoteWork
<1> QED
  BY <1>2, <1>3

LEMMA PublishKeeps ==
    ASSUME Timely, TypeOK, TypeOK', BuildInv, NEW t \in Threads, Publish(t)
    PROVE  BuildInv'
<1>1. PICK p : p = job[t].pkg
  OBVIOUS
<1>2. Attached(t) /\ ~At(t, "clearing")
  BY DEF Publish, ClearRoot, PublishRoot, ParseManifest, WriteSegments, Attached, At, HandlerPcs
<1>3. /\ p \in Packages /\ Leased(p) /\ jobs[p].owner = Owner[t] /\ ~jobs[p].lapsed
      /\ Processing(p) /\ Active(Owner[t]) /\ Own(t) /\ ~job[t].lost
  BY <1>1, <1>2, AttachedKnows
<1>4. "publishing" \in IF t \in RemoteThreads THEN RemotePcs ELSE LocalPcs
  BY DEF RemotePcs, LocalPcs, HandlerPcs
<1>5. CASE ClearRoot(t)
  <2>1. Goto(t, "publishing") /\ UNCHANGED <<packages, jobs, encoders, segments, sweep, local>>
    BY <1>5 DEF ClearRoot, DiskOnly, storeVars
  <2>2. \A q \in Packages : q # job[t].pkg => root'[q] = root[q]
    BY <1>5 DEF ClearRoot, TypeOK
  <2> QED
    BY <1>2, <1>4, <2>1, <2>2, MoveKeeps
<1>6. CASE PublishRoot(t) \/ ParseManifest(t) \/ WriteSegments(t)
  <2>1. /\ \A u \in Threads : u # t => job'[u] = job[u]
        /\ job'[t].pkg = p /\ ~job'[t].lost
        /\ job'[t].pc \in {"published", "parsed", "finalized"}
    <3>1. CASE PublishRoot(t) \/ WriteSegments(t)
      BY <1>1, <1>3, <3>1, GotoJob DEF PublishRoot, WriteSegments
    <3>2. CASE ParseManifest(t)
      BY <1>1, <1>3, <3>2 DEF ParseManifest, TypeOK, JobsTypeOK, Job
    <3> QED
      BY <1>6, <3>1, <3>2
  <2>2. UNCHANGED <<packages, jobs, encoders, sweep, local>>
    BY <1>6 DEF PublishRoot, ParseManifest, WriteSegments, ReplacePackagedSegments, DiskOnly,
                SlotOnly, TablesOnly, storeVars
  <2>3. \A q \in Packages : q # p => root'[q] = root[q] /\ segments'[q] = segments[q]
    BY <1>1, <1>6 DEF PublishRoot, ParseManifest, WriteSegments, ReplacePackagedSegments, DiskOnly,
                SlotOnly, TablesOnly, storeVars, TypeOK, StoreTypeOK
  <2>4. Confined(t, p)
    BY <2>1, <2>2, <2>3 DEF Confined
  <2>5. Sound(t)'
    <3>1. Good(t)'
      BY <1>3, <2>1, <2>2 DEF Good, OwnsJob, Leased, Processing, Active
    <3> QED
      BY <2>1, <3>1 DEF Sound, At
  <2>6. Own(t)'
    <3>1. CASE PublishRoot(t)
      <4>1. job'[t].pc = "published" /\ root'[p] = t
        BY <1>1, <1>3, <3>1, GotoJob DEF PublishRoot, TypeOK
      <4> QED
        BY <2>1, <4>1 DEF Own
    <3>2. CASE ParseManifest(t)
      <4>1. root[p] = t /\ root' = root
        BY <1>1, <1>3, <3>2 DEF ParseManifest, SlotOnly, Own, At
      <4>2. job'[t].pc = "parsed" /\ job'[t].parsed = t
        BY <1>1, <3>2, <4>1 DEF ParseManifest, TypeOK, JobsTypeOK, Job
      <4> QED
        BY <2>1, <4>1, <4>2 DEF Own
    <3>3. CASE WriteSegments(t)
      <4>1. root[p] = t /\ root' = root /\ job[t].parsed = t
        BY <1>1, <1>3, <3>3 DEF WriteSegments, TablesOnly, Own, At
      <4>2. job'[t].pc = "finalized" /\ job'[t].parsed = t
        BY <3>3, <4>1, GotoJob DEF WriteSegments
      <4>3. segments'[p] = t
        BY <1>1, <1>3, <3>3, <4>1 DEF WriteSegments, ReplacePackagedSegments, TypeOK, StoreTypeOK
      <4> QED
        BY <2>1, <4>1, <4>2, <4>3 DEF Own
    <3> QED
      BY <1>6, <3>1, <3>2, <3>3
  <2>7. Intact(p)'
    BY <1>3, <2>2 DEF Intact, Processing
  <2> QED
    BY <1>1, <1>2, <1>3, <2>1, <2>2, <2>4, <2>5, <2>6, <2>7, WorkKeeps
<1> QED
  BY <1>5, <1>6 DEF Publish

LEMMA LocalWorkKeeps ==
    ASSUME Timely, TypeOK, TypeOK', BuildInv, NEW t \in LocalThreads, LocalWork(t)
    PROVE  BuildInv'
<1>0. t \in Threads /\ t \notin RemoteThreads
  BY PipelineAssumption DEF Threads
<1>1. PICK p : p = job[t].pkg
  OBVIOUS
<1>2. Attached(t)
  BY <1>0
     DEF LocalWork, LocalClaimDropped, LocalEarlyError, LocalMarkProcessing, LocalNotice, Beats,
         LocalFails, LocalMarkReady, LocalReadyFails, LocalClearLease, Attached, At
<1>3. /\ p \in Packages /\ Leased(p) /\ jobs[p].owner = Owner[t] /\ ~jobs[p].lapsed
      /\ ~At(t, "clearing") => Processing(p) /\ Active(Owner[t]) /\ Holds(t)
      /\ Own(t) /\ ~job[t].lost /\ Intact(p)
  BY <1>0, <1>1, <1>2, AttachedKnows
<1>4. CASE LocalClaimDropped(t) \/ LocalClearLease(t)
  <2>1. Stop(t) /\ TablesOnly
    BY <1>4 DEF LocalClaimDropped, LocalClearLease
  <2>2. job'[t] = Idle /\ \A u \in Threads : u # t => job'[u] = job[u]
    BY <1>0, <2>1, StopJob
  <2>3. /\ Leased(p)' => jobs'[p].owner = Owner[t]
        /\ \A q \in Packages : q # p =>
             packages'[q].status = packages[q].status /\ jobs'[q] = jobs[q]
        /\ UNCHANGED <<encoders, segments>>
        /\ packages'[p].status = "ready" => packages[p].status = "ready"
    <3>1. CASE LocalClaimDropped(t)
      BY <1>1, <1>3, <3>1
         DEF LocalClaimDropped, MarkPackageFailedWithKind, FailProcessing, FailureStatus, SetStatus,
             storeVars, TypeOK, StoreTypeOK, Row, Leased
    <3>2. CASE LocalClearLease(t)
      BY <1>1, <1>3, <3>2
         DEF LocalClearLease, ClearEncoderLease, DropLease, TypeOK, StoreTypeOK, Leased
    <3> QED
      BY <1>4, <3>1, <3>2
  <2>4. Confined(t, p) /\ Intact(p)'
    BY <1>3, <2>1, <2>2, <2>3 DEF Confined, TablesOnly, Intact
  <2> QED
    BY <1>0, <1>1, <1>2, <1>3, <2>2, <2>3, <2>4, LeaveKeeps
<1>5. CASE LocalEarlyError(t) \/ LocalMarkProcessing(t) \/ LocalReadyFails(t)
  <2>1. ~At(t, "clearing") /\ Processing(p)
    BY <1>3, <1>5 DEF LocalEarlyError, LocalMarkProcessing, LocalReadyFails, At
  <2>2. /\ \E pc \in {"clearing", "encoding"} : Goto(t, pc)
        /\ UNCHANGED <<encoders, jobs, sweep, local, root, segments>>
    BY <1>5 DEF LocalEarlyError, LocalMarkProcessing, LocalReadyFails, MarkPackageProcessing,
                SlotOnly, TablesOnly, storeVars
  <2>3. \A q \in Packages : packages'[q].status = packages[q].status
    BY <1>1, <1>5, <2>1
       DEF LocalEarlyError, LocalMarkProcessing, LocalReadyFails, MarkPackageProcessing, SetStatus,
           Processing, SlotOnly, storeVars, TypeOK, StoreTypeOK, Row
  <2> QED
    BY <1>0, <1>2, <2>1, <2>2, <2>3, MoveKeeps DEF LocalPcs
<1>6. CASE LocalNotice(t)
  <2>1. Holds(t) /\ "stall" \notin Faults
    BY <1>0, <1>3, <1>6 DEF LocalNotice, Beats, At, Timely
  <2> QED
    BY <1>6, <2>1 DEF LocalNotice
<1>7. CASE LocalMarkReady(t) \/ \E kind \in FailureKinds : LocalFails(t, kind)
  <2>1. /\ Goto(t, "clearing") /\ TablesOnly /\ ~At(t, "clearing") /\ Processing(p)
    BY <1>3, <1>7 DEF LocalMarkReady, LocalFails, At
  <2>2. /\ job'[t].pc = "clearing" /\ job'[t].pkg = p /\ ~job'[t].lost
        /\ \A u \in Threads : u # t => job'[u] = job[u]
    BY <1>0, <1>1, <1>3, <2>1, GotoJob
  <2>3. /\ \A q \in Packages : q # p => packages'[q].status = packages[q].status
        /\ UNCHANGED <<jobs, encoders, segments>>
        /\ packages'[p].status = "ready" => At(t, "finalized")
    <3>1. CASE LocalMarkReady(t)
      BY <1>1, <3>1 DEF LocalMarkReady, MarkPackageReady, SetStatus, TypeOK, StoreTypeOK, Row
    <3>2. CASE \E kind \in FailureKinds : LocalFails(t, kind)
      BY <1>1, <1>3, <2>1, <3>2
         DEF LocalFails, MarkPackageFailedWithKind, FailProcessing, FailureStatus, SetStatus,
             TypeOK, StoreTypeOK, Row
    <3> QED
      BY <1>7, <3>1, <3>2
  <2>4. Confined(t, p)
    BY <2>1, <2>2, <2>3 DEF Confined, TablesOnly
  <2>5. Sound(t)' /\ Own(t)'
    BY <1>0, <1>3, <2>2, <2>3 DEF Sound, Own, Good, OwnsJob, Leased, At
  <2>6. Intact(p)'
    <3>1. At(t, "finalized") => root[p] = t /\ segments[p] = t
      BY <1>1, <1>3 DEF Own, At
    <3>2. t # NoBuild
      BY <1>0, PipelineAssumption, StoreAssumption
    <3> QED
      BY <2>1, <2>3, <3>1, <3>2 DEF Intact, TablesOnly
  <2>7. Leased(p)' => jobs'[p].owner = Owner[t]
    BY <1>3, <2>3
  <2> QED
    BY <1>0, <1>1, <1>2, <1>3, <2>2, <2>4, <2>5, <2>6, <2>7, WorkKeeps
<1> QED
  BY <1>4, <1>5, <1>6, <1>7 DEF LocalWork

LEMMA ClaimingKeeps ==
    ASSUME Timely, OneSlot, TypeOK, TypeOK', BuildInv, NEW t \in Threads,
           Claiming(t) \/ (t \in RemoteThreads /\ RemoteClaimLost(t))
           \/ \E p \in Packages : Discover(t, p)
    PROVE  BuildInv'
<1>1. PICK p : p = job[t].pkg
  OBVIOUS
<1>2. ~job[t].lost
  BY DEF BuildInv, Sound
<1>3. CASE ClaimRefused(t) \/ \E q \in Packages : Discover(t, q)
  <2>1. /\ \A u \in Threads : u # t => job'[u] = job[u]
        /\ job'[t].pc \in {"idle", "candidate"} /\ ~job'[t].lost
    <3>1. CASE ClaimRefused(t)
      BY <3>1, StopJob DEF ClaimRefused, Idle
    <3>2. CASE \E q \in Packages : Discover(t, q)
      <4>1. PICK q : Start(t, q, "candidate")
        BY <3>2 DEF Discover
      <4>2. /\ job'[t] = [Idle EXCEPT !.pkg = q, !.pc = "candidate"]
            /\ \A u \in Threads : u # t => job'[u] = job[u]
        BY <4>1 DEF Start, TypeOK, JobsTypeOK
      <4>3. job'[t].pc = "candidate" /\ job'[t].lost = FALSE
        BY <4>2 DEF Idle
      <4> QED
        BY <4>2, <4>3
    <3> QED
      BY <1>3, <3>1, <3>2
  <2>2. UNCHANGED <<packages, jobs, encoders, segments, root, sweep, local>>
    BY <1>3 DEF ClaimRefused, Discover, SlotOnly, storeVars
  <2> QED
    BY <2>1, <2>2, StandKeeps
<1>4. CASE Claim(t) \/ (t \in RemoteThreads /\ RemoteClaimLost(t))
  <2>1. At(t, "candidate") /\ TablesOnly
    BY <1>4 DEF Claim, RemoteClaimLost
  <2>2. p \in Packages
    BY <1>1, <2>1, SlotPackage DEF At
  <2>3. PICK here \in BOOLEAN : ClaimPackage(p, Owner[t], here)
    <3>1. Local(t) \in BOOLEAN
      BY DEF Local
    <3>2. ClaimPackage(p, Owner[t], Local(t)) \/ ClaimPackage(p, Owner[t], FALSE)
      BY <1>1, <1>4 DEF Claim, RemoteClaimLost
    <3> QED
      BY <3>1, <3>2
  <2>4. /\ ~Leased(p) /\ ~Processing(p) /\ Processing(p)' /\ Active(Owner[t])'
        /\ jobs'[p] = [owner |-> Owner[t], lapsed |-> FALSE]
        /\ UNCHANGED <<encoders, segments>>
        /\ \A q \in Packages : q # p =>
             packages'[q].status = packages[q].status /\ jobs'[q] = jobs[q]
    BY <2>2, <2>3
       DEF ClaimPackage, CanClaim, Processing, Active, TypeOK, StoreTypeOK, Row
  <2>5. Leased(p)' /\ jobs'[p].owner = Owner[t] /\ ~jobs'[p].lapsed
    <3>1. [owner |-> Owner[t], lapsed |-> FALSE] \in Lease
      BY OwnerEncoder DEF Lease
    <3>2. Leased(p)'
      BY <2>4, <3>1, NoLeaseNotLease DEF Leased
    <3>3. jobs'[p].owner = Owner[t] /\ jobs'[p].lapsed = FALSE
      BY <2>4
    <3> QED
      BY <3>2, <3>3
  <2>6. /\ \A u \in Threads : u # t => job'[u] = job[u]
        /\ ~job'[t].lost
        /\ \/ /\ job'[t].pkg = p
              /\ job'[t].pc = IF t \in RemoteThreads THEN "encoding" ELSE "claimed"
           \/ "network" \in Faults /\ t \in RemoteThreads /\ job'[t].pc = "idle"
    <3>1. CASE Claim(t)
      BY <1>1, <1>2, <3>1, GotoJob, PipelineAssumption DEF Claim, Local, Threads
    <3>2. CASE t \in RemoteThreads /\ RemoteClaimLost(t)
      BY <3>2, StopJob DEF RemoteClaimLost, Idle
    <3> QED
      BY <1>4, <3>1, <3>2
  <2>7. Confined(t, p) /\ UNCHANGED <<root, segments>>
    BY <2>1, <2>4, <2>6 DEF Confined, TablesOnly
  <2> QED
    BY <1>1, <2>1, <2>2, <2>4, <2>5, <2>6, <2>7, ClaimKeeps
<1> QED
  BY <1>3, <1>4 DEF Claiming

LEMMA HeartbeatKeeps ==
    ASSUME TypeOK, TypeOK', BuildInv, NEW t \in Threads, Heartbeat(t)
    PROVE  BuildInv'
<1>1. PICK p : p = job[t].pkg
  OBVIOUS
<1>2. Attached(t) /\ ~At(t, "idle")
  BY DEF Heartbeat, Beats, HeartbeatEncoderJob, HoldsClaim, Attached, At, TypeOK, JobsTypeOK,
         RemotePcs
<1>3. p \in Packages /\ Leased(p) /\ jobs[p].owner = Owner[t] /\ Sound(t) /\ Own(t) /\ Intact(p)
  BY <1>1, <1>2, AttachedKnows DEF BuildInv
<1>4. UNCHANGED <<packages, encoders, segments, root, job, sweep, local>>
  BY DEF Heartbeat, HeartbeatEncoderJob, pipeVars
<1>5. /\ jobs'[p] = [jobs[p] EXCEPT !.lapsed = FALSE] /\ jobs[p] \in Lease
      /\ \A q \in Packages : q # p => jobs'[q] = jobs[q]
  BY <1>1, <1>3 DEF Heartbeat, HeartbeatEncoderJob, TypeOK, StoreTypeOK, Leased
<1>6. jobs'[p] \in Lease /\ jobs'[p].owner = jobs[p].owner /\ ~jobs'[p].lapsed
  BY <1>5 DEF Lease
<1>7. Leased(p)'
  BY <1>6, NoLeaseNotLease DEF Leased
<1>8. Confined(t, p) /\ Intact(p)' /\ Own(t)'
  BY <1>3, <1>4, <1>5 DEF Confined, Intact, Own
<1>9. Sound(t)'
  BY <1>1, <1>2, <1>3, <1>4, <1>6, <1>7
     DEF Sound, Good, Attached, OwnsJob, Processing, Active, At
<1> QED
  BY <1>1, <1>2, <1>3, <1>4, <1>6, <1>8, <1>9, WorkKeeps

\* A lapsed lease is nobody's, since an attached slot renews its own.
LEMMA LapsedIsLeft ==
    ASSUME TypeOK, BuildInv, NEW t \in Threads, Attached(t)
    PROVE  /\ ~(job[t].pkg \in sweep.todo /\ sweep.phase # "idle")
           /\ Attended(job[t].pkg)
<1>1. /\ job[t].pkg \in Packages /\ Leased(job[t].pkg) /\ jobs[job[t].pkg].owner = Owner[t]
      /\ ~jobs[job[t].pkg].lapsed /\ ~job[t].lost
      /\ ~At(t, "clearing") => Holds(t)
  BY AttachedKnows
<1>2. sweep.phase \in {"idle", "stale", "lease"}
  BY DEF TypeOK
<1>3. ~(job[t].pkg \in sweep.todo /\ sweep.phase # "idle")
  BY <1>1, <1>2 DEF BuildInv, SweptIsLeft
<1>4. ~At(t, "clearing") => Beats(t)
  BY <1>1 DEF Attached, Beats, At, HandlerPcs
<1>5. Attended(job[t].pkg)
  BY <1>1, <1>4 DEF Attended, OwnsJob
<1> QED
  BY <1>3, <1>5

LEMMA SweepKeeps ==
    ASSUME Timely, TypeOK, TypeOK', BuildInv, Sweep
    PROVE  BuildInv'
<1>1. UNCHANGED <<root, job, local>>
  BY DEF Sweep, SweepStart, SweepLeases, SweepDone, SweepStale, SweepExpire, SweepOnly
<1>2. \A t \in Threads : Falls(t)
  BY <1>1 DEF Falls
<1>3. UNCHANGED <<encoders, segments>>
  BY DEF Sweep, SweepStart, SweepLeases, SweepDone, SweepStale, SweepExpire, storeVars,
         MarkPackageFailedWithKind, ExpireOneLease
<1>4. StartsOnce'
  BY <1>1, <1>3 DEF BuildInv, StartsOnce
<1>5. (\A q \in Packages : Spares(q)) /\ SweptIsLeft'
  <2>1. CASE SweepStart \/ SweepLeases \/ SweepDone
    <3>1. UNCHANGED storeVars
      BY <2>1 DEF SweepStart, SweepLeases, SweepDone
    <3>2. SweptIsLeft'
      BY <2>1, <3>1
         DEF SweepStart, SweepLeases, SweepDone, SweptIsLeft, storeVars, Leased, Processing, TypeOK
    <3> QED
      BY <3>1, <3>2 DEF Spares, storeVars, Processing
  <2>2. ASSUME NEW p \in Packages, SweepStale(p) \/ SweepExpire(p)
        PROVE  (\A q \in Packages : Spares(q)) /\ SweptIsLeft'
    <3>1. p \in sweep.todo /\ sweep.phase \in {"stale", "lease"} /\ SweptIsLeft
      BY <2>2 DEF SweepStale, SweepExpire, BuildInv
    <3>2. \A t \in Threads : job[t].pkg = p => ~Attached(t)
      BY <3>1, LapsedIsLeft
    <3>3. /\ \A q \in Packages : q # p =>
               jobs'[q] = jobs[q] /\ packages'[q].status = packages[q].status
          /\ jobs'[p] = jobs[p] \/ jobs'[p] = NoLease
          /\ packages'[p].status = "ready" => packages[p].status = "ready"
      <4>1. CASE SweepStale(p)
        BY <4>1 DEF SweepStale, MarkPackageFailedWithKind, FailProcessing, FailureStatus, SetStatus,
                    storeVars, TypeOK, StoreTypeOK, Row
      <4>2. CASE SweepExpire(p)
        BY <4>2 DEF SweepExpire, ExpireOneLease, FailProcessing, FailureStatus, SetStatus, DropLease,
                    TypeOK, StoreTypeOK, Row
      <4> QED
        BY <2>2, <4>1, <4>2
    <3>4. sweep'.todo = sweep.todo \ {p} /\ sweep'.phase = sweep.phase
      BY <2>2 DEF SweepStale, SweepExpire, TypeOK
    <3>5. SweptIsLeft'
      BY <3>1, <3>3, <3>4 DEF SweptIsLeft, Leased, Processing, TypeOK
    <3>6. \A q \in Packages : Spares(q)
      BY <1>3, <3>2, <3>3 DEF Spares, Leased, Processing
    <3> QED
      BY <3>5, <3>6
  <2> QED
    BY <2>1, <2>2 DEF Sweep
<1> QED
  BY <1>1, <1>2, <1>3, <1>4, <1>5, SystemKeeps DEF Active

LEMMA WorkerKeeps ==
    ASSUME TypeOK, TypeOK', ReferencesResolve, BuildInv, Worker
    PROVE  BuildInv'
<1>1. UNCHANGED <<packages, jobs, segments, root, job, sweep>>
      /\ (\A e \in Encoders : Active(e) => Active(e)') /\ StartsOnce'
  <2>1. CASE WorkerStart
    <3>1. encoders[LocalEncoder].state = "unregistered"
      BY <2>1 DEF WorkerStart, BuildInv, StartsOnce
    <3>2. HeldJobs(LocalEncoder) = {}
      BY <3>1 DEF ReferencesResolve, HeldJobs, OwnsJob, Registered
    <3>3. local' = [phase |-> "recovering", todo |-> {}]
      BY <2>1, <3>2 DEF WorkerStart
    <3>4. RegisterEncoder(LocalEncoder)
      BY <2>1, <3>1 DEF WorkerStart, Active
    <3>5. \A e \in Encoders : Active(e) => Active(e)'
      BY <3>4, PipelineAssumption DEF RegisterEncoder, Active, TypeOK, StoreTypeOK
    <3> QED
      BY <2>1, <3>3, <3>4, <3>5 DEF WorkerStart, RegisterEncoder, StartsOnce
  <2>2. CASE WorkerReady
    BY <2>2 DEF WorkerReady, storeVars, BuildInv, StartsOnce, Active, TypeOK
  <2>3. CASE \E p \in Packages : WorkerRecover(p)
    BY <2>3 DEF WorkerRecover, BuildInv, StartsOnce
  <2> QED
    BY <2>1, <2>2, <2>3 DEF Worker
<1>2. (\A t \in Threads : Falls(t)) /\ (\A q \in Packages : Spares(q)) /\ SweptIsLeft'
  BY <1>1 DEF Falls, Spares, BuildInv, SweptIsLeft, Leased, Processing
<1> QED
  BY <1>1, <1>2, SystemKeeps

\* Requests and requeues leave packages in processing alone; a cap says nothing about who
\* is active.
LEMMA OperatorKeeps ==
    ASSUME Timely, reclaiming = {}, TypeOK, TypeOK', BuildInv, Operator
    PROVE  BuildInv'
<1>1. \/ \E S \in SUBSET Packages : Request(S)
      \/ \E p \in Packages : Requeue(p)
      \/ \E e \in Encoders : Register(e) \/ \E n \in 0..MaxConcurrency : SetConcurrency(e, n)
  BY DEF Operator, Timely, Cancel, ReclaimFiles, ReclaimRow, Revoke, Delete
<1>2. UNCHANGED <<jobs, root, job, sweep, local>>
  BY <1>1 DEF Request, RequestMediaPackages, Requeue, MarkReadyPackagePendingForReencode, Register,
              RegisterEncoder, SetConcurrency, UpdateEncoderConcurrency, pipeVars
<1>3. \A t \in Threads : Falls(t)
  BY <1>2 DEF Falls
<1>4. \A q \in Packages :
         /\ Processing(q) => Processing(q)'
         /\ packages'[q].status = "ready" => packages[q].status = "ready"
         /\ \/ segments'[q] = segments[q]
            \/ packages[q].status = "ready" /\ packages'[q].status # "ready"
  <2>1. CASE \E S \in SUBSET Packages : Request(S)
    BY <2>1 DEF Request, RequestMediaPackages, NoRow, Processing
  <2>2. CASE \E p \in Packages : Requeue(p)
    BY <2>2 DEF Requeue, MarkReadyPackagePendingForReencode, SetStatus, Processing,
                TypeOK, StoreTypeOK, Row
  <2>3. CASE \E e \in Encoders : Register(e) \/ \E n \in 0..MaxConcurrency : SetConcurrency(e, n)
    BY <2>3 DEF Register, RegisterEncoder, SetConcurrency, UpdateEncoderConcurrency, Processing
  <2> QED
    BY <1>1, <2>1, <2>2, <2>3
<1>5. \A q \in Packages : Spares(q)
  BY <1>2, <1>4 DEF Spares
<1>6. \A e \in Encoders :
         /\ Active(e) => Active(e)'
         /\ e = LocalEncoder /\ encoders[e].state = "unregistered"
              => encoders'[e].state = "unregistered"
  <2>1. CASE \E S \in SUBSET Packages : Request(S) \/ \E p \in Packages : Requeue(p)
    BY <2>1 DEF Request, RequestMediaPackages, Requeue, MarkReadyPackagePendingForReencode, Active
  <2>2. CASE \E e \in Encoders : Register(e)
    BY <2>2 DEF Register, RegisterEncoder, Active, TypeOK, StoreTypeOK
  <2>3. CASE \E e \in Encoders : \E n \in 0..MaxConcurrency : SetConcurrency(e, n)
    BY <2>3 DEF SetConcurrency, UpdateEncoderConcurrency, Active, TypeOK, StoreTypeOK, Encoder
  <2> QED
    BY <1>1, <2>1, <2>2, <2>3
    DEF Request, RequestMediaPackages, Requeue, MarkReadyPackagePendingForReencode, Active
<1>7. StartsOnce'
  BY <1>2, <1>6, PipelineAssumption DEF BuildInv, StartsOnce
<1>8. SweptIsLeft'
  BY <1>2, <1>4 DEF BuildInv, SweptIsLeft, Leased, TypeOK
<1> QED
  BY <1>2, <1>3, <1>5, <1>6, <1>7, <1>8, SystemKeeps

\* What a crash takes with it is a slot's hold on its package, never the lease.
LEMMA FaultKeeps ==
    ASSUME Timely, OneSlot, TypeOK, TypeOK', BuildInv, Fault
    PROVE  BuildInv'
<1>1. CASE \E t \in RemoteThreads : RemoteClaimLost(t)
  BY <1>1, ClaimingKeeps DEF Threads
<1>2. CASE \/ \E t \in RemoteThreads : RemoteFailLost(t)
           \/ \E e \in Encoders : RemoteCrash(e)
           \/ ServerCrash
  <2>1. UNCHANGED <<packages, jobs, encoders, segments, root, local>>
        /\ (sweep' = sweep \/ sweep' = [phase |-> "idle", todo |-> {}])
    BY <1>2 DEF RemoteFailLost, RemoteCrash, ServerCrash, SlotOnly, storeVars
  <2>2. \A t \in Threads : Falls(t)
    <3>1. ASSUME NEW t \in RemoteThreads, RemoteFailLost(t)
          PROVE  \A u \in Threads : Falls(u)
      BY <3>1, StopJob DEF RemoteFailLost, Falls, Threads
    <3>2. ASSUME NEW e \in Encoders, RemoteCrash(e)
          PROVE  \A u \in Threads : Falls(u)
      BY <3>2 DEF RemoteCrash, Falls
    <3>3. ASSUME ServerCrash, NEW u \in Threads
          PROVE  Falls(u)
      <4>1. job[u] \in Job /\ ~job[u].lost
        BY DEF TypeOK, JobsTypeOK, BuildInv, Sound
      <4>2. CASE u \in RemoteThreads /\ job[u].pc \in HandlerPcs
        <5>1. job'[u] = [job[u] EXCEPT !.pc = "refused", !.parsed = NoBuild]
          BY <3>3, <4>2 DEF ServerCrash
        <5>2. job'[u].pc = "refused" /\ job'[u].pkg = job[u].pkg /\ job'[u].lost = job[u].lost
          BY <4>1, <5>1 DEF Job
        <5> QED
          BY <4>1, <4>2, <5>2 DEF Falls
      <4>3. CASE ~(u \in RemoteThreads /\ job[u].pc \in HandlerPcs)
        BY <3>3, <4>3 DEF ServerCrash, Falls
      <4> QED
        BY <4>2, <4>3
    <3> QED
      BY <1>2, <3>1, <3>2, <3>3
  <2>3. (\A q \in Packages : Spares(q)) /\ StartsOnce' /\ SweptIsLeft'
    BY <2>1 DEF Spares, Processing, Leased, BuildInv, StartsOnce, SweptIsLeft
  <2> QED
    BY <2>1, <2>2, <2>3, SystemKeeps DEF Active
<1> QED
  BY <1>1, <1>2 DEF Fault, WorkerCrash, Crash, FilesVanish, Timely

LEMMA UpkeepKeeps ==
    ASSUME Timely, TypeOK, TypeOK', BuildInv, NEW p \in Packages, Repair(p) \/ Lapse(p) \/ Age(p)
    PROVE  BuildInv'
<1>1. UNCHANGED <<encoders, root, job, sweep, local>>
  BY DEF Repair, ListReady, ValidateFiles, RequeueBroken, RepairOnly, Lapse, Age, pipeVars,
         storeVars, MarkReadyPackagePendingForReencode, LapseLease, AgeRow
<1>2. \A t \in Threads : Falls(t)
  BY <1>1 DEF Falls
<1>3. StartsOnce'
  BY <1>1 DEF BuildInv, StartsOnce
<1>4. \A q \in Packages : q # p =>
         /\ jobs'[q] = jobs[q] /\ packages'[q].status = packages[q].status
         /\ segments'[q] = segments[q]
  BY DEF Repair, ListReady, ValidateFiles, RequeueBroken, Lapse, Age, storeVars, SetStatus,
         MarkReadyPackagePendingForReencode, LapseLease, AgeRow, TypeOK, StoreTypeOK, Row
<1>5. CASE Repair(p) \/ Age(p)
  <2>1. /\ jobs' = jobs
        /\ \/ packages'[p].status = packages[p].status /\ segments'[p] = segments[p]
           \/ packages[p].status = "ready" /\ packages'[p].status = "pending"
    BY <1>5
       DEF Repair, ListReady, ValidateFiles, RequeueBroken, Age, storeVars, SetStatus,
           MarkReadyPackagePendingForReencode, AgeRow, TypeOK, StoreTypeOK, Row
  <2>2. \A q \in Packages : Spares(q)
    BY <1>4, <2>1 DEF Spares, Processing
  <2>3. SweptIsLeft'
    BY <1>1, <1>4, <2>1 DEF BuildInv, SweptIsLeft, Leased, Processing, TypeOK
  <2> QED
    BY <1>1, <1>2, <1>3, <2>2, <2>3, SystemKeeps DEF Active
<1>6. CASE Lapse(p)
  <2>1. \A t \in Threads : job[t].pkg = p => ~Attached(t)
    <3>1. ~Attended(p)
      BY <1>6 DEF Lapse, Timely
    <3> QED
      BY <3>1, LapsedIsLeft
  <2>2. /\ Leased(p) /\ UNCHANGED <<packages, segments>>
        /\ jobs'[p] = [jobs[p] EXCEPT !.lapsed = TRUE] /\ jobs[p] \in Lease
    BY <1>6 DEF Lapse, LapseLease, Leased, TypeOK, StoreTypeOK
  <2>3. jobs'[p] \in Lease /\ jobs'[p].owner = jobs[p].owner /\ jobs'[p].lapsed
    BY <2>2 DEF Lease
  <2>4. Leased(p)'
    BY <2>3, NoLeaseNotLease DEF Leased
  <2>5. \A q \in Packages : Spares(q)
    BY <1>4, <2>1, <2>2, <2>3 DEF Spares, Processing
  <2>6. SweptIsLeft'
    <3>1. SweptIsLeft /\ sweep.todo \subseteq Packages
      BY DEF BuildInv, TypeOK
    <3>2. \A q \in Packages : (Leased(q) => Leased(q)') /\ Processing(q)' = Processing(q)
      BY <1>4, <2>2, <2>4 DEF Leased, Processing
    <3>3. \A q \in Packages : q # p => jobs'[q] = jobs[q]
      BY <1>4
    <3>4. \A q \in Packages : ~Leased(q) => ~Leased(q)'
      BY <2>2, <3>3 DEF Leased
    <3> QED
      BY <1>1, <2>3, <3>1, <3>2, <3>3, <3>4 DEF SweptIsLeft
  <2> QED
    BY <1>1, <1>2, <1>3, <2>5, <2>6, SystemKeeps DEF Active
<1> QED
  BY <1>5, <1>6

-----------------------------------------------------------------------------
\* Nobody reclaims when the operator does not.
NothingReclaimed == reclaiming = {}

LEMMA ReclaimIdle == Timely => (Spec => []NothingReclaimed)
<1> SUFFICES ASSUME Timely PROVE Spec => []NothingReclaimed
  OBVIOUS
<1>1. Init => NothingReclaimed
  BY DEF Init, NothingReclaimed
<1>2. NothingReclaimed /\ [Next]_vars => NothingReclaimed'
  <2> SUFFICES ASSUME NothingReclaimed, [Next]_vars PROVE reclaiming' = {}
    BY DEF NothingReclaimed
  <2> USE DEF NothingReclaimed
  <2>1. ASSUME NEW t \in Threads,
               \/ RemoteWork(t) \/ Claiming(t) \/ Publish(t) \/ Heartbeat(t)
               \/ LocalWork(t) \/ \E p \in Packages : Discover(t, p)
        PROVE  reclaiming' = {}
    BY <2>1 DEF RemoteWork, RemoteFail, RemoteComplete, UploadFails, HandlerFails, CompleteJob,
                CleanupRoot, CleanupSegments, CleanupRequeue, Publish, ClearRoot, PublishRoot,
                ParseManifest, WriteSegments, Claiming, Claim, ClaimRefused, Heartbeat, Discover,
                LocalWork, LocalClaimDropped, LocalEarlyError, LocalMarkProcessing, LocalNotice,
                LocalFails, LocalMarkReady, LocalReadyFails, LocalClearLease,
                TablesOnly, DiskOnly, SlotOnly, pipeVars
  <2>2. CASE Sweep \/ Worker
    BY <2>2 DEF Sweep, SweepStart, SweepStale, SweepLeases, SweepExpire, SweepDone, SweepOnly,
                Worker, WorkerStart, WorkerRecover, WorkerReady
  <2>3. CASE Operator
    BY <2>3 DEF Operator, Request, Cancel, Requeue, Register, Revoke, Delete, SetConcurrency,
                ReclaimFiles, ReclaimRow, pipeVars, Timely
  <2>4. CASE Fault
    BY <2>4 DEF Fault, RemoteFailLost, RemoteClaimLost, RemoteCrash, ServerCrash, WorkerCrash,
                FilesVanish, TablesOnly, SlotOnly
  <2>5. ASSUME NEW p \in Packages, Repair(p) \/ Lapse(p) \/ Age(p)
        PROVE  reclaiming' = {}
    BY <2>5 DEF Repair, ListReady, ValidateFiles, RequeueBroken, RepairOnly, Lapse, Age, pipeVars
  <2>6. CASE UNCHANGED vars
    BY <2>6 DEF vars
  <2> QED
    BY <2>1, <2>2, <2>3, <2>4, <2>5, <2>6 DEF Next, Threads
<1> QED
  BY <1>1, <1>2, PTL DEF Spec

LEMMA BuildKeeps ==
    ASSUME Timely, OneSlot, TypeOK, TypeOK', ReferencesResolve, NothingReclaimed, BuildInv,
           [Next]_vars
    PROVE  BuildInv'
<1>1. CASE UNCHANGED vars
  <2>1. (\A t \in Threads : Falls(t)) /\ (\A q \in Packages : Spares(q))
        /\ (\A e \in Encoders : Active(e) => Active(e)') /\ root' = root
    BY <1>1 DEF vars, Falls, Spares, Processing, Active
  <2>2. SweptIsLeft' /\ StartsOnce'
    BY <1>1 DEF vars, BuildInv, SweptIsLeft, StartsOnce, Leased, Processing
  <2> QED
    BY <2>1, <2>2, SystemKeeps
<1>2. CASE Next
  <2>1. RemoteThreads \subseteq Threads /\ LocalThreads \subseteq Threads
    BY DEF Threads
  <2>2. CASE \E t \in RemoteThreads : RemoteWork(t)
    BY <2>2, RemoteWorkKeeps
  <2>3. CASE \E t \in LocalThreads : LocalWork(t)
    BY <2>3, LocalWorkKeeps
  <2>4. CASE \E t \in Threads :
               Claiming(t) \/ Publish(t) \/ Heartbeat(t) \/ \E p \in Packages : Discover(t, p)
    BY <2>4, ClaimingKeeps, PublishKeeps, HeartbeatKeeps
  <2>5. CASE Sweep \/ Worker \/ Operator \/ Fault
    BY <2>5, SweepKeeps, WorkerKeeps, OperatorKeeps, FaultKeeps DEF NothingReclaimed
  <2>6. CASE \E p \in Packages : Repair(p) \/ Lapse(p) \/ Age(p)
    BY <2>6, UpkeepKeeps
  <2> QED
    BY <1>2, <2>2, <2>3, <2>4, <2>5, <2>6 DEF Next
<1> QED
  BY <1>1, <1>2

LEMMA BuildCorrect ==
    ASSUME Timely, OneSlot
    PROVE  Spec => []BuildInv
<1>1. Spec => []NothingReclaimed
  BY ReclaimIdle
<1>2. TypeOK /\ TypeOK' /\ ReferencesResolve /\ NothingReclaimed /\ BuildInv /\ [Next]_vars
        => BuildInv'
  BY BuildKeeps
<1> QED
  BY <1>1, <1>2, BuildInit, TypeCorrect, ReferencesCorrect, PTL DEF Spec

\* As long as no slot is held up for a lease and nobody takes packages or encoders away,
\* two slots never publish the same package at once, whichever processes crash and
\* whichever responses are lost.
THEOREM BuildersAlone ==
    ASSUME Timely, OneSlot
    PROVE  Spec => []OneBuilder
<1>1. TypeOK /\ BuildInv => OneBuilder
  BY BuildSays
<1> QED
  BY <1>1, BuildCorrect, TypeCorrect, PTL

\* And under the same conditions a ready package has its files, and segment rows that
\* describe those files, from the moment it is ready.
THEOREM ReadyWhole ==
    ASSUME Timely, OneSlot
    PROVE  Spec => []ReadyIntact
<1>1. TypeOK /\ BuildInv => ReadyIntact
  BY BuildSays
<1> QED
  BY <1>1, BuildCorrect, TypeCorrect, PTL

-----------------------------------------------------------------------------
(***************************************************************************)
(* Where only remote encoders work, the tables implement PackageQueue:     *)
(* every transaction is a step of the abstract queue, or leaves it alone.  *)
(***************************************************************************)

Hold(p) == IF Processing(p) /\ Leased(p) THEN jobs[p].owner ELSE NoEncoder

\* The refinement mapping, as a state function for each variable of the queue.
qStatus == [p \in Packages |-> packages[p].status]
qSpent  == [p \in Packages |-> packages[p].attempts]
qHolder == [p \in Packages |-> Hold(p)]
qMember == [e \in Encoders |-> encoders[e].state]

Invariant == TypeOK /\ LeaseDiscipline

QueueStep == [Queue!Next]_(Queue!vars)

\* In terms of the mapping, without the instance.
LEMMA QueueVars ==
    ASSUME UNCHANGED <<qStatus, qSpent, qHolder, qMember>>
    PROVE  QueueStep
BY DEF QueueStep, Queue!vars, qStatus, qSpent, qHolder, qMember, Hold

LEMMA StoreUnchanged ==
    ASSUME UNCHANGED storeVars
    PROVE  QueueStep
BY QueueVars DEF storeVars, qStatus, qSpent, qHolder, qMember, Hold, Processing, Leased

LEMMA SetStep ==
    ASSUME NEW S \in SUBSET Packages, Queue!Enqueue(S) \/ Queue!Withdraw(S)
    PROVE  QueueStep
BY DEF QueueStep, Queue!Next

LEMMA PackageStep ==
    ASSUME NEW p \in Packages,
           \/ Queue!Finish(p) \/ Queue!Retry(p) \/ Queue!GiveUp(p) \/ Queue!Repair(p)
           \/ Queue!Remove(p) \/ \E e \in Encoders : Queue!Take(p, e)
    PROVE  QueueStep
BY DEF QueueStep, Queue!Next

LEMMA MemberStep ==
    ASSUME NEW e \in Encoders, Queue!Join(e) \/ Queue!Bar(e) \/ Queue!Leave(e)
    PROVE  QueueStep
BY DEF QueueStep, Queue!Next

\* The operator's transactions act on those rows of the request whose status fits.
LEMMA RequestQueue ==
    ASSUME Invariant, RequestStep
    PROVE  QueueStep
<1>1. PICK S \in SUBSET Packages : RequestMediaPackages(S) \/ CancelMediaPackages(S)
  BY DEF RequestStep
<1>2. CASE RequestMediaPackages(S)
  <2>1. PICK T \in SUBSET Packages :
           T = {p \in S : packages[p].status \in {"missing", "failed"}}
    OBVIOUS
  <2>2. Queue!Enqueue(T)
    BY <1>2, <2>1 DEF Queue!Enqueue, RequestMediaPackages, NoRow, Processing, Leased,
                      Invariant, TypeOK, StoreTypeOK, Row
  <2> QED
    BY <2>2, SetStep
<1>3. CASE CancelMediaPackages(S)
  <2>1. PICK T \in SUBSET Packages :
           T = {p \in S : packages[p].status \in {"pending", "processing"}}
    OBVIOUS
  <2>2. ASSUME NEW p \in Packages
        PROVE  /\ p \in T => packages'[p].status = "failed"
               /\ p \notin T => packages'[p] = packages[p]
               /\ packages'[p].attempts = packages[p].attempts
    BY <1>3, <2>1 DEF CancelMediaPackages, Invariant, TypeOK, StoreTypeOK, Row
  <2>3. T # {} /\ UNCHANGED <<jobs, encoders>>
    BY <1>3, <2>1 DEF CancelMediaPackages
  <2>4. Queue!Withdraw(T)
    BY <2>1, <2>2, <2>3 DEF Queue!Withdraw, Processing, Leased
  <2> QED
    BY <2>4, SetStep
<1> QED
  BY <1>1, <1>2, <1>3

\* A failed attempt of a leased package is a Retry while the budget lasts, else a GiveUp.
LEMMA FailureQueue ==
    ASSUME Invariant, NEW p \in Packages, NEW kind, Processing(p),
           FailProcessing(p, kind, MaxAttempts), DropLease(p) \/ UNCHANGED jobs,
           UNCHANGED encoders
    PROVE  QueueStep
<1> DEFINE s == FailureStatus(kind, packages[p].attempts, MaxAttempts)
<1>1. packages' = [packages EXCEPT ![p].status = s, ![p].aged = FALSE]
  BY DEF FailProcessing, SetStatus
<1>2. s \in {"pending", "failed"}
  BY FailureStatusRange
<1>3. s = "pending" => MaxAttempts = 0 \/ packages[p].attempts < MaxAttempts
  BY FailureStatusFinal, PipelineAssumption, StoreAssumption
     DEF Invariant, TypeOK, StoreTypeOK, Row
<1> HIDE DEF s
<1>4. /\ qStatus' = [qStatus EXCEPT ![p] = s]
      /\ UNCHANGED <<qSpent, qMember>>
  BY <1>1 DEF qStatus, qSpent, qMember, Invariant, TypeOK, StoreTypeOK, Row
<1>5. qHolder' = [qHolder EXCEPT ![p] = NoEncoder]
  BY <1>1, <1>2
     DEF qHolder, Hold, Processing, Leased, DropLease, Invariant, TypeOK, StoreTypeOK, Row
<1>6. CASE s = "pending"
  <2>1. Queue!Retry(p)
    BY <1>3, <1>4, <1>5, <1>6
       DEF Queue!Retry, Queue!Put, qStatus, qSpent, qMember, qHolder, Hold, Processing
  <2> QED
    BY <2>1, PackageStep
<1>7. CASE s = "failed"
  <2>1. Queue!GiveUp(p)
    BY <1>4, <1>5, <1>7
       DEF Queue!GiveUp, Queue!Put, qStatus, qSpent, qMember, qHolder, Hold, Processing
  <2> QED
    BY <2>1, PackageStep
<1> QED
  BY <1>2, <1>6, <1>7

LEMMA RowQueue ==
    ASSUME Invariant, NEW p \in Packages, RowStep(p, {MaxAttempts})
    PROVE  QueueStep
<1>1. CASE DeleteMediaPackage(p)
  <2>1. Queue!Remove(p)
    BY <1>1 DEF Queue!Remove, Queue!Put, DeleteMediaPackage, DropLease, NoRow, Exists,
                Processing, Leased, Invariant, TypeOK, StoreTypeOK, Row
  <2> QED
    BY <2>1, PackageStep
<1>2. CASE MarkReadyPackagePendingForReencode(p)
  <2>1. Queue!Repair(p)
    BY <1>2 DEF Queue!Repair, Queue!Put, MarkReadyPackagePendingForReencode, SetStatus,
                Processing, Leased, Invariant, TypeOK, StoreTypeOK, Row
  <2> QED
    BY <2>1, PackageStep
<1>3. CASE ExpireOneLease(p, MaxAttempts)
  <2>1. CASE Processing(p)
    BY <1>3, <2>1, FailureQueue DEF ExpireOneLease
  <2>2. CASE ~Processing(p)
    BY <1>3, <2>2, QueueVars
       DEF ExpireOneLease, DropLease, qStatus, qSpent, qHolder, qMember, Hold, Processing, Leased,
           Invariant, TypeOK, StoreTypeOK
  <2> QED
    BY <2>1, <2>2
<1>4. CASE \E kind \in FailureKinds : MarkPackageFailedWithKind(p, kind, MaxAttempts)
  BY <1>4, FailureQueue DEF MarkPackageFailedWithKind
<1>5. CASE LapseLease(p)
  <2>1. ASSUME NEW q \in Packages
        PROVE  (jobs'[q] = NoLease <=> jobs[q] = NoLease) /\ jobs'[q].owner = jobs[q].owner
    BY <1>5, LeaseRecord, NoLeaseNotLease
       DEF LapseLease, Lease, Invariant, TypeOK, StoreTypeOK, Leased
  <2> QED
    BY <1>5, <2>1, QueueVars
       DEF LapseLease, qStatus, qSpent, qHolder, qMember, Hold, Processing, Leased
<1>6. CASE AgeRow(p)
  <2>1. ASSUME NEW q \in Packages
        PROVE  packages'[q].status = packages[q].status
               /\ packages'[q].attempts = packages[q].attempts
    BY <1>6 DEF AgeRow, Invariant, TypeOK, StoreTypeOK, Row
  <2> QED
    BY <1>6, <2>1, QueueVars
       DEF AgeRow, qStatus, qSpent, qHolder, qMember, Hold, Processing, Leased
<1> QED
  BY <1>1, <1>2, <1>3, <1>4, <1>5, <1>6 DEF RowStep

LEMMA ClaimQueue ==
    ASSUME Invariant, NEW p \in Packages, NEW e \in Encoders, ClaimStep(p, e, {MaxAttempts})
    PROVE  QueueStep
<1>1. CASE \E isLocal \in BOOLEAN : ClaimPackage(p, e, isLocal)
  <2>1. [owner |-> e, lapsed |-> FALSE] # NoLease
    <3>1. [owner |-> e, lapsed |-> FALSE] \in Lease
      BY DEF Lease
    <3> QED
      BY <3>1, NoLeaseNotLease
  <2>2. /\ packages' = [packages EXCEPT ![p] =
                [status |-> "processing", attempts |-> packages[p].attempts + 1, aged |-> FALSE]]
        /\ jobs' = [jobs EXCEPT ![p] = [owner |-> e, lapsed |-> FALSE]]
        /\ UNCHANGED encoders
    BY <1>1 DEF ClaimPackage, Invariant, TypeOK, StoreTypeOK
  <2>3. /\ qStatus' = [qStatus EXCEPT ![p] = "processing"]
        /\ qSpent' = [qSpent EXCEPT ![p] = @ + 1]
        /\ qHolder' = [qHolder EXCEPT ![p] = e]
        /\ UNCHANGED qMember
    <3>1. ASSUME NEW q \in Packages
          PROVE  packages'[q] = IF q = p THEN [status |-> "processing", aged |-> FALSE,
                                               attempts |-> packages[p].attempts + 1]
                                         ELSE packages[q]
      BY <2>2 DEF Invariant, TypeOK, StoreTypeOK
    <3>2. ASSUME NEW q \in Packages
          PROVE  jobs'[q] = IF q = p THEN [owner |-> e, lapsed |-> FALSE] ELSE jobs[q]
      BY <2>2 DEF Invariant, TypeOK, StoreTypeOK
    <3>3. ASSUME NEW q \in Packages
          PROVE  Hold(q)' = IF q = p THEN e ELSE Hold(q)
      BY <2>1, <3>1, <3>2 DEF Hold, Processing, Leased
    <3>4. qStatus' = [qStatus EXCEPT ![p] = "processing"]
      <4>1. \A q \in Packages :
               packages'[q].status = IF q = p THEN "processing" ELSE packages[q].status
        BY <3>1
      <4> QED
        BY <4>1 DEF qStatus
    <3>5. qSpent' = [qSpent EXCEPT ![p] = @ + 1]
      <4>1. \A q \in Packages :
               packages'[q].attempts = IF q = p THEN packages[p].attempts + 1
                                                ELSE packages[q].attempts
        BY <3>1
      <4> QED
        BY <4>1 DEF qSpent
    <3>6. qHolder' = [qHolder EXCEPT ![p] = e]
      BY <3>3 DEF qHolder
    <3> QED
      BY <2>2, <3>4, <3>5, <3>6 DEF qMember
  <2>4. Queue!Take(p, e)
    BY <1>1, <2>3 DEF Queue!Take, ClaimPackage, CanClaim, Active, qStatus, qSpent, qMember,
                            qHolder, Hold
  <2> QED
    BY <2>4, PackageStep
<1>2. CASE HeartbeatEncoderJob(p, e)
  <2>1. ASSUME NEW q \in Packages
        PROVE  (jobs'[q] = NoLease <=> jobs[q] = NoLease) /\ jobs'[q].owner = jobs[q].owner
    BY <1>2, LeaseRecord, NoLeaseNotLease
       DEF HeartbeatEncoderJob, HoldsClaim, OwnsJob, Lease, Invariant, TypeOK, StoreTypeOK, Leased
  <2> QED
    BY <1>2, <2>1, QueueVars
       DEF HeartbeatEncoderJob, qStatus, qSpent, qHolder, qMember, Hold, Processing, Leased
<1>3. CASE CompleteEncoderJob(p, e)
  <2>1. qHolder[p] = e /\ e # NoEncoder /\ qMember[e] = "active" /\ qStatus[p] = "processing"
    BY <1>3, PipelineAssumption DEF CompleteEncoderJob, HoldsClaim, OwnsJob, Active, Processing,
                                    qHolder, qMember, qStatus, Hold
  <2>2. /\ qStatus' = [qStatus EXCEPT ![p] = "ready"]
        /\ qHolder' = [qHolder EXCEPT ![p] = NoEncoder]
        /\ UNCHANGED <<qSpent, qMember>>
    BY <1>3 DEF CompleteEncoderJob, SetStatus, DropLease, qStatus, qSpent, qMember, qHolder, Hold,
                Processing, Leased, Invariant, TypeOK, StoreTypeOK, Row
  <2>3. Queue!Finish(p)
    BY <2>1, <2>2
       DEF Queue!Finish, Queue!Put, qStatus, qSpent, qMember, qHolder, Hold
  <2> QED
    BY <2>3, PackageStep
<1>4. CASE \E kind \in FailureKinds : FailEncoderJob(p, e, kind, MaxAttempts)
  BY <1>4, FailureQueue DEF FailEncoderJob, HoldsClaim
<1> QED
  BY <1>1, <1>2, <1>3, <1>4 DEF ClaimStep

LEMMA EncoderQueue ==
    ASSUME Invariant, NEW e \in Encoders, EncoderStep(e)
    PROVE  QueueStep
<1> USE DEF Invariant, TypeOK, StoreTypeOK, Encoder
<1>1. CASE RegisterEncoder(e)
  <2>1. Queue!Join(e)
    BY <1>1 DEF Queue!Join, RegisterEncoder, Processing, Leased
  <2> QED
    BY <2>1, MemberStep
<1>2. CASE RevokeEncoder(e)
  <2>1. Queue!Bar(e)
    BY <1>2 DEF Queue!Bar, RevokeEncoder, Active, Processing, Leased
  <2> QED
    BY <2>1, MemberStep
<1>3. CASE DeleteEncoder(e)
  <2>1. ASSUME NEW p \in Packages
        PROVE  /\ packages'[p].status = IF Hold(p) = e THEN "pending" ELSE packages[p].status
               /\ packages'[p].attempts = packages[p].attempts
               /\ Hold(p)' = IF Hold(p) = e THEN NoEncoder ELSE Hold(p)
    <3>1. packages'[p] = IF OwnsJob(p, e) /\ Processing(p)
                         THEN [packages[p] EXCEPT !.status = "pending", !.aged = FALSE]
                         ELSE packages[p]
      BY <1>3 DEF DeleteEncoder
    <3>2. jobs'[p] = IF OwnsJob(p, e) THEN NoLease ELSE jobs[p]
      BY <1>3 DEF DeleteEncoder
    <3>3. e # NoEncoder
      BY PipelineAssumption
    <3>4. Hold(p) = e <=> OwnsJob(p, e) /\ Processing(p)
      BY <3>3 DEF OwnsJob, Hold, Leased
    <3>5. packages[p] \in Row
      OBVIOUS
    <3>6. CASE OwnsJob(p, e) /\ Processing(p)
      BY <3>1, <3>2, <3>4, <3>5, <3>6 DEF Row, Hold, Processing, Leased
    <3>7. CASE ~(OwnsJob(p, e) /\ Processing(p))
      BY <3>1, <3>2, <3>4, <3>7 DEF OwnsJob, Hold, Processing, Leased
    <3> QED
      BY <3>6, <3>7
  <2>2. /\ qStatus' = [p \in Packages |-> IF qHolder[p] = e THEN "pending" ELSE qStatus[p]]
        /\ qHolder' = [p \in Packages |-> IF qHolder[p] = e THEN NoEncoder ELSE qHolder[p]]
        /\ UNCHANGED qSpent
    BY <2>1 DEF qStatus, qHolder, qSpent
  <2>3. qMember[e] \in {"active", "revoked"} /\ qMember' = [qMember EXCEPT ![e] = "deleted"]
    BY <1>3 DEF DeleteEncoder, Registered, qMember
  <2>4. Queue!Leave(e)
    BY <2>2, <2>3 DEF Queue!Leave, qStatus, qHolder, qSpent, qMember, Hold
  <2> QED
    BY <2>4, MemberStep
<1>4. CASE \E n \in 0..MaxConcurrency : UpdateEncoderConcurrency(e, n)
  BY <1>4, QueueVars DEF UpdateEncoderConcurrency, qStatus, qSpent, qHolder, qMember, Hold,
                         Processing, Leased
<1> QED
  BY <1>1, <1>2, <1>3, <1>4 DEF EncoderStep

LEMMA SegmentQueue ==
    ASSUME NEW p \in Packages, SegmentStep(p)
    PROVE  QueueStep
BY QueueVars DEF SegmentStep, ReplacePackagedSegments, DeletePackagedSegments,
                 qStatus, qSpent, qHolder, qMember, Hold, Processing, Leased

LEMMA LawfulQueue ==
    ASSUME Invariant, Lawful
    PROVE  QueueStep
BY StoreUnchanged, RequestQueue, RowQueue, SegmentQueue, ClaimQueue, EncoderQueue
   DEF Lawful, LeaseStep

LEMMA InitQueue == Init => Queue!Init
BY DEF Init, StoreInit, NoRow, Queue!Init, Processing

\* Where only remote encoders work, the leases implement the queue: only the encoder that
\* holds a package finishes it, a failed attempt is offered again exactly within the
\* budget, and nothing but repair or removal touches finished work.
THEOREM QueueImplemented ==
    ASSUME LocalThreads = {}
    PROVE  Spec => ImplementsQueue
<1>1. Invariant /\ WorkerDown /\ [Next]_vars => QueueStep
  <2> SUFFICES ASSUME Invariant, WorkerDown, [Next]_vars
               PROVE  QueueStep
    OBVIOUS
  <2>1. Lawful
    BY StoreStepOfNext DEF Invariant, Lawful, vars, storeVars, WorkerDown
  <2> QED
    BY <2>1, LawfulQueue
<1>2. Spec => []Invariant
  BY TypeCorrect, LeasesCorrect, PTL DEF Invariant
<1> QED
  BY <1>1, <1>2, InitQueue, WorkerStaysDown, PTL
     DEF Spec, ImplementsQueue, Queue!Spec, QueueStep

=============================================================================
