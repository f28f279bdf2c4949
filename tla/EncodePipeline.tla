--------------------------- MODULE EncodePipeline ---------------------------
(***************************************************************************)
(* How a media package gets encoded: remote encoders that claim work and   *)
(* upload results over HTTP, the in-process local worker, the admin        *)
(* server's lease sweeper, package repair, and the operator, all acting on *)
(* the tables of PackageStore and on one package directory per package.    *)
(*                                                                         *)
(* A thread is one concurrent job slot.  A remote thread stands for the    *)
(* encoder's job and, while it uploads, for the server's handler of that   *)
(* request.  Each step of a thread is at most one database transaction or  *)
(* one filesystem call, so everything else may happen between two steps.   *)
(*                                                                         *)
(* Faults selects what may go wrong:                                       *)
(*   stall        a slot is held up for a whole lease: its heartbeats are  *)
(*                late while the job keeps running                         *)
(*   cancel       the operator cancels packages                            *)
(*   encoder      the operator revokes and deletes encoders                *)
(*   network      a response is lost after the server acted, or a failure  *)
(*                report never arrives                                     *)
(*   remoteCrash  an encoder process dies                                  *)
(*   serverCrash  the admin server dies and restarts                       *)
(*   workerCrash  the local worker dies and may restart                    *)
(*   caps         the operator changes concurrency caps                    *)
(*   vanish       the files of a package disappear from the disk           *)
(*   requeue      the operator re-encodes a ready package                  *)
(*   reclaim      the operator reclaims a package's disk space             *)
(***************************************************************************)
EXTENDS PackageStore

CONSTANTS
    RemoteThreads,    \* job slots of remote encoders
    LocalThreads,     \* job slots of the local worker
    Owner,            \* Owner[t]: the encoder a slot belongs to
    Demanded,         \* packages an enabled eager channel needs, row or no row
    LocalEncoder,     \* the encoder id EnsureLocalEncoder keeps in the settings
    NoPackage,        \* the package of an idle slot
    NoEncoder,        \* the holder of a package nobody works on, in PackageQueue
    MaxAttempts,      \* the server's cap, EncoderSweeperSettings.MaxAttempts
    LocalMaxAttempts, \* Worker.MaxAttempts: runLocal leaves it 0, Validate keeps 0
    MaxCrashes,       \* bound: how often the server and the worker crash altogether
    Faults

Threads == RemoteThreads \cup LocalThreads

FaultKinds == {"stall", "cancel", "encoder", "network", "remoteCrash", "serverCrash",
               "workerCrash", "vanish", "requeue", "reclaim", "caps"}

ASSUME PipelineAssumption ==
    /\ Builds = Threads
    /\ RemoteThreads \cap LocalThreads = {}
    /\ Owner \in [Threads -> Encoders]
    /\ Demanded \subseteq Packages
    /\ LocalEncoder \in Encoders
    /\ \A t \in Threads : t \in LocalThreads <=> Owner[t] = LocalEncoder
    /\ NoPackage \notin Packages
    /\ NoEncoder \notin Encoders
    /\ MaxAttempts \in Nat
    /\ LocalMaxAttempts \in Nat
    /\ MaxCrashes \in Nat
    /\ Faults \subseteq FaultKinds

VARIABLES
    root,       \* root[p]: the build in p's package directory; NoBuild when it is not there
    job,        \* job[t]: what the slot is doing
    sweep,      \* the sweeper's pass: phase and the candidates its query returned
    local,      \* the local worker process: phase and the leases still to recover
    inspect,    \* inspect[p]: what the readers of p's files have found out
    reclaiming, \* packages whose files are reclaimed and whose row is not yet
    crashes     \* how often the server and the worker have crashed

pipeVars == <<root, job, sweep, local, inspect, reclaiming, crashes>>
vars == <<packages, jobs, encoders, segments,
          root, job, sweep, local, inspect, reclaiming, crashes>>

HandlerPcs == {"uploading", "publishing", "published", "parsed", "finalized",
               "cleanRoot", "cleanSegments", "cleanRequeue"}
RemotePcs == {"idle", "candidate", "encoding", "refused"} \cup HandlerPcs
LocalPcs == {"idle", "candidate", "claimed", "encoding", "publishing", "published", "parsed",
             "finalized", "clearing"}

Job == [pc: RemotePcs \cup LocalPcs, pkg: Packages \cup {NoPackage},
        parsed: Builds \cup {NoBuild}, lost: BOOLEAN]
Idle == [pc |-> "idle", pkg |-> NoPackage, parsed |-> NoBuild, lost |-> FALSE]

JobsTypeOK ==
    /\ job \in [Threads -> Job]
    /\ \A t \in Threads :
         /\ job[t].pc \in IF t \in RemoteThreads THEN RemotePcs ELSE LocalPcs
         /\ job[t].pkg = NoPackage <=> job[t].pc = "idle"

\* Every row, lease and slot is well formed, and only an idle slot has no package.
TypeOK ==
    /\ StoreTypeOK
    /\ JobsTypeOK
    /\ root \in [Packages -> Builds \cup {NoBuild}]
    /\ sweep \in [phase: {"idle", "stale", "lease"}, todo: SUBSET Packages]
    /\ local \in [phase: {"down", "recovering", "up"}, todo: SUBSET Packages]
    /\ inspect \in [Packages -> {"none", "listed", "broken"}]
    /\ reclaiming \in SUBSET Packages
    /\ crashes \in 0..MaxCrashes

Init ==
    /\ StoreInit
    /\ root = [p \in Packages |-> NoBuild]
    /\ job = [t \in Threads |-> Idle]
    /\ sweep = [phase |-> "idle", todo |-> {}]
    /\ local = [phase |-> "down", todo |-> {}]
    /\ inspect = [p \in Packages |-> "none"]
    /\ reclaiming = {}
    /\ crashes = 0

-----------------------------------------------------------------------------
At(t, pc) == job[t].pc = pc
Goto(t, pc) == job' = [job EXCEPT ![t].pc = pc]
Start(t, p, pc) == job' = [job EXCEPT ![t] = [Idle EXCEPT !.pkg = p, !.pc = pc]]
Stop(t) == job' = [job EXCEPT ![t] = Idle]
Holds(t) == HoldsClaim(job[t].pkg, Owner[t])

\* Only the slot and the tables change, only the slot and the disk, only the slot.
TablesOnly == UNCHANGED <<root, sweep, local, inspect, reclaiming, crashes>>
DiskOnly == UNCHANGED <<storeVars, sweep, local, inspect, reclaiming, crashes>>
SlotOnly == UNCHANGED <<storeVars, root, sweep, local, inspect, reclaiming, crashes>>

\* A live slot renews its lease: an encoder for as long as its job runs, response
\* included; the worker until the job's context is cancelled.
Beats(t) ==
    IF t \in RemoteThreads
    THEN job[t].pc \notin {"idle", "candidate"}
    ELSE job[t].pc \notin {"idle", "candidate", "clearing"} /\ ~job[t].lost

\* p's lease is being renewed, or is about to be dropped by the worker's next statement.
Attended(p) ==
    \E t \in Threads :
        /\ job[t].pkg = p
        /\ \/ Beats(t) /\ Holds(t)
           \/ At(t, "clearing") /\ OwnsJob(p, Owner[t])

Heartbeat(t) ==
    /\ Beats(t)
    /\ HeartbeatEncoderJob(job[t].pkg, Owner[t])
    /\ UNCHANGED pipeVars

-----------------------------------------------------------------------------
(* Claims.  DiscoverCandidates lists what needs encoding, failed rows left *)
(* out; each candidate is then claimed in a transaction of its own, which  *)
(* accepts a failed row.                                                   *)

Local(t) == t \in LocalThreads

Discover(t, p) ==
    /\ At(t, "idle")
    /\ Local(t) => local.phase = "up"
    /\ packages[p].status = "pending" \/ (~Exists(p) /\ p \in Demanded)
    /\ Start(t, p, "candidate")
    /\ SlotOnly

Claim(t) ==
    /\ At(t, "candidate")
    /\ ClaimPackage(job[t].pkg, Owner[t], Local(t))
    /\ Goto(t, IF Local(t) THEN "claimed" ELSE "encoding")
    /\ TablesOnly

ClaimRefused(t) ==
    /\ At(t, "candidate")
    /\ ~CanClaim(job[t].pkg, Owner[t], Local(t))
    /\ Stop(t)
    /\ SlotOnly

\* The claim is committed and its response never arrives: a lease nobody works for.
RemoteClaimLost(t) ==
    /\ "network" \in Faults
    /\ At(t, "candidate")
    /\ ClaimPackage(job[t].pkg, Owner[t], FALSE)
    /\ Stop(t)
    /\ TablesOnly

-----------------------------------------------------------------------------
(* Remote encoders: encode or fail.                                        *)

\* POST /fail after a failed download or encode, or after a refused completion.
RemoteFail(t, kind) ==
    /\ job[t].pc \in {"encoding", "refused"}
    /\ IF Holds(t) THEN FailEncoderJob(job[t].pkg, Owner[t], kind, MaxAttempts)
                   ELSE UNCHANGED storeVars
    /\ Stop(t)
    /\ TablesOnly

\* The report is lost; a job that cannot make its directories sends none.
RemoteFailLost(t) ==
    /\ "network" \in Faults
    /\ job[t].pc \in {"encoding", "refused"}
    /\ Stop(t)
    /\ SlotOnly

RemoteCrash(e) ==
    /\ "remoteCrash" \in Faults
    /\ job' = [t \in Threads |->
          IF t \in RemoteThreads /\ Owner[t] = e /\ job[t].pc \in {"encoding", "refused"}
          THEN Idle ELSE job[t]]
    /\ job' # job
    /\ SlotOnly

-----------------------------------------------------------------------------
(* handleEncoderComplete: the only check of the lease before the last step *)
(* is here, before the upload is received.                                 *)

RemoteComplete(t) ==
    /\ t \in RemoteThreads /\ At(t, "encoding")
    /\ Goto(t, IF Holds(t) THEN "uploading" ELSE "refused")
    /\ SlotOnly

\* receivePackageTar fails; the directory may already have been cleared.
UploadFails(t) ==
    /\ t \in RemoteThreads /\ job[t].pc \in {"uploading", "publishing"}
    /\ Goto(t, "refused")
    /\ SlotOnly

\* FinalizePackage or CompleteEncoderJob returns an error.
HandlerFails(t) ==
    /\ t \in RemoteThreads /\ job[t].pc \in {"published", "parsed", "finalized"}
    /\ Goto(t, "cleanRoot")
    /\ SlotOnly

CompleteJob(t) ==
    /\ t \in RemoteThreads /\ At(t, "finalized")
    /\ CompleteEncoderJob(job[t].pkg, Owner[t])
    /\ \/ Stop(t)
       \/ "network" \in Faults /\ Goto(t, "refused")
    /\ TablesOnly

\* cleanupUnpromotedPackageUpload, in its three steps.
CleanupRoot(t) ==
    /\ At(t, "cleanRoot")
    /\ root' = [root EXCEPT ![job[t].pkg] = NoBuild]
    /\ Goto(t, "cleanSegments")
    /\ DiskOnly

CleanupSegments(t) ==
    /\ At(t, "cleanSegments")
    /\ DeletePackagedSegments(job[t].pkg)
    /\ Goto(t, "cleanRequeue")
    /\ TablesOnly

\* requeueLeaselessCompletionFailure
CleanupRequeue(t) ==
    /\ At(t, "cleanRequeue")
    /\ IF Processing(job[t].pkg) /\ ~Leased(job[t].pkg)
       THEN MarkPackageFailedWithKind(job[t].pkg, "transient", MaxAttempts)
       ELSE UNCHANGED storeVars
    /\ Goto(t, "refused")
    /\ TablesOnly

-----------------------------------------------------------------------------
(* Publishing and finalizing, which PackageOne and the handler share: the  *)
(* finished files replace the package directory, and FinalizePackage reads *)
(* the manifest back from there and writes the segment rows.               *)

ClearRoot(t) ==
    /\ IF t \in RemoteThreads THEN At(t, "uploading") ELSE At(t, "encoding") /\ ~job[t].lost
    /\ root' = [root EXCEPT ![job[t].pkg] = NoBuild]
    /\ Goto(t, "publishing")
    /\ DiskOnly

\* The rename fails when somebody else has published in the meantime.
PublishRoot(t) ==
    /\ At(t, "publishing")
    /\ root[job[t].pkg] = NoBuild
    /\ root' = [root EXCEPT ![job[t].pkg] = t]
    /\ Goto(t, "published")
    /\ DiskOnly

ParseManifest(t) ==
    /\ At(t, "published") /\ ~job[t].lost
    /\ root[job[t].pkg] # NoBuild
    /\ job' = [job EXCEPT ![t].pc = "parsed", ![t].parsed = root[job[t].pkg]]
    /\ SlotOnly

WriteSegments(t) ==
    /\ At(t, "parsed") /\ ~job[t].lost
    /\ ReplacePackagedSegments(job[t].pkg, job[t].parsed)
    /\ Goto(t, "finalized")
    /\ TablesOnly

-----------------------------------------------------------------------------
(* The local worker: the rest of claimNext, runOne and PackageOne.         *)

\* claimNext cannot load the claimed media: the lease stays with nobody to renew it,
\* and a media row that is gone also fails the package.
LocalClaimDropped(t) ==
    /\ At(t, "claimed")
    /\ \/ UNCHANGED storeVars
       \/ MarkPackageFailedWithKind(job[t].pkg, "transient", LocalMaxAttempts)
    /\ Stop(t)
    /\ TablesOnly

\* PackageOne returns before it records anything: unknown profile, unreadable media.
LocalEarlyError(t) ==
    /\ At(t, "claimed")
    /\ Goto(t, "clearing")
    /\ SlotOnly

LocalMarkProcessing(t) ==
    /\ At(t, "claimed") /\ ~job[t].lost
    /\ MarkPackageProcessing(job[t].pkg)
    /\ Goto(t, "encoding")
    /\ TablesOnly

\* leaseLost or too many misses in heartbeat; monitorPackageCancellation sees no more
\* than leaseLost does.
LocalNotice(t) ==
    /\ Local(t) /\ Beats(t)
    /\ ~Holds(t) \/ "stall" \in Faults
    /\ job' = [job EXCEPT ![t].lost = TRUE]
    /\ SlotOnly

\* recordFailure, for an error in encoding, promoting or finalizing.
LocalFails(t, kind) ==
    /\ Local(t) /\ job[t].pc \in {"encoding", "publishing", "published", "parsed"}
    /\ kind = "terminal" => At(t, "encoding")
    /\ IF Processing(job[t].pkg)
       THEN MarkPackageFailedWithKind(job[t].pkg, kind, LocalMaxAttempts)
       ELSE UNCHANGED storeVars
    /\ Goto(t, "clearing")
    /\ TablesOnly

\* Slip: ready before the segment rows are written.
LocalMarkReadyEarly(t) ==
    /\ Local(t) /\ At(t, "parsed") /\ ~job[t].lost
    /\ MarkPackageReady(job[t].pkg)
    /\ Goto(t, "clearing")
    /\ TablesOnly

LocalMarkReady(t) ==
    /\ Local(t) /\ At(t, "finalized") /\ ~job[t].lost
    /\ MarkPackageReady(job[t].pkg)
    /\ Goto(t, "clearing")
    /\ TablesOnly

\* packageNoLongerProcessing, or MarkPackageReady fails: nothing is recorded.
LocalReadyFails(t) ==
    /\ Local(t) /\ At(t, "finalized")
    /\ Goto(t, "clearing")
    /\ SlotOnly

\* Slip: the slot is free and still has its package.
LocalClearLeaseKeepsJob(t) ==
    At(t, "clearing") /\ ClearEncoderLease(job[t].pkg) /\ Goto(t, "idle") /\ TablesOnly

LocalClearLease(t) ==
    /\ At(t, "clearing")
    /\ ClearEncoderLease(job[t].pkg)
    /\ Stop(t)
    /\ TablesOnly

Crash(kind) == kind \in Faults /\ crashes < MaxCrashes /\ crashes' = crashes + 1

WorkerCrash ==
    /\ Crash("workerCrash") /\ local.phase # "down"
    /\ local' = [phase |-> "down", todo |-> {}]
    /\ job' = [t \in Threads |-> IF t \in LocalThreads THEN Idle ELSE job[t]]
    /\ UNCHANGED <<storeVars, root, sweep, inspect, reclaiming>>

\* EnsureLocalEncoder, then the query of RequeueEncoderJobs.
WorkerStart ==
    /\ LocalThreads # {} /\ local.phase = "down"
    /\ IF Active(LocalEncoder) THEN UNCHANGED storeVars ELSE RegisterEncoder(LocalEncoder)
    /\ local' = [phase |-> "recovering", todo |-> HeldJobs(LocalEncoder)]
    /\ UNCHANGED <<root, job, sweep, inspect, reclaiming, crashes>>

WorkerRecover(p) ==
    /\ local.phase = "recovering" /\ p \in local.todo
    /\ ExpireOneLease(p, LocalMaxAttempts)
    /\ local' = [local EXCEPT !.todo = @ \ {p}]
    /\ UNCHANGED <<root, job, sweep, inspect, reclaiming, crashes>>

WorkerReady ==
    /\ local.phase = "recovering" /\ local.todo = {}
    /\ local' = [local EXCEPT !.phase = "up"]
    /\ UNCHANGED <<storeVars, root, job, sweep, inspect, reclaiming, crashes>>

-----------------------------------------------------------------------------
(* The sweeper: a query, then one transaction per candidate, twice.        *)

SweepOnly == UNCHANGED <<root, job, local, inspect, reclaiming, crashes>>

\* Slip: the backstop looks for rows that have a lease.
SweepStartLeased ==
    /\ sweep.phase = "idle"
    /\ sweep' = [phase |-> "stale",
                 todo |-> {p \in Packages : Processing(p) /\ packages[p].aged /\ Leased(p)}]
    /\ UNCHANGED storeVars /\ SweepOnly

SweepStart ==
    /\ sweep.phase = "idle"
    /\ sweep' = [phase |-> "stale",
                 todo |-> {p \in Packages : Processing(p) /\ packages[p].aged /\ ~Leased(p)}]
    /\ UNCHANGED storeVars /\ SweepOnly

SweepStale(p) ==
    /\ sweep.phase = "stale" /\ p \in sweep.todo
    /\ IF Processing(p) THEN MarkPackageFailedWithKind(p, "transient", MaxAttempts)
                        ELSE UNCHANGED storeVars
    /\ sweep' = [sweep EXCEPT !.todo = @ \ {p}]
    /\ SweepOnly

\* Slip: the query forgets the expiry.
SweepLeasesAll ==
    /\ sweep.phase = "stale" /\ sweep.todo = {}
    /\ sweep' = [phase |-> "lease", todo |-> {p \in Packages : Leased(p)}]
    /\ UNCHANGED storeVars /\ SweepOnly

\* Slip: only the leases of packages in processing are looked for.
SweepLeasesProcessing ==
    /\ sweep.phase = "stale" /\ sweep.todo = {}
    /\ sweep' = [phase |-> "lease", todo |-> {p \in Packages : Leased(p) /\ jobs[p].lapsed /\ Processing(p)}]
    /\ UNCHANGED storeVars /\ SweepOnly

SweepLeases ==
    /\ sweep.phase = "stale" /\ sweep.todo = {}
    /\ sweep' = [phase |-> "lease", todo |-> {p \in Packages : Leased(p) /\ jobs[p].lapsed}]
    /\ UNCHANGED storeVars /\ SweepOnly

SweepExpire(p) ==
    /\ sweep.phase = "lease" /\ p \in sweep.todo
    /\ ExpireOneLease(p, MaxAttempts)
    /\ sweep' = [sweep EXCEPT !.todo = @ \ {p}]
    /\ SweepOnly

SweepDone ==
    /\ sweep.phase = "lease" /\ sweep.todo = {}
    /\ sweep' = [sweep EXCEPT !.phase = "idle"]
    /\ UNCHANGED storeVars /\ SweepOnly

\* The handlers, the sweep and the reclaim in progress die with the server.
ServerCrash ==
    /\ Crash("serverCrash")
    /\ job' = [t \in Threads |->
          IF t \in RemoteThreads /\ job[t].pc \in HandlerPcs
          THEN [job[t] EXCEPT !.pc = "refused", !.parsed = NoBuild]
          ELSE IF t \in RemoteThreads /\ At(t, "candidate") THEN Idle ELSE job[t]]
    /\ sweep' = [phase |-> "idle", todo |-> {}]
    /\ reclaiming' = {}
    /\ UNCHANGED <<storeVars, root, local, inspect>>

-----------------------------------------------------------------------------
(* Repair: CheckReadyPackageIntegrity and playback read a ready row, look  *)
(* at its files, and requeue the package when they are missing.            *)

RepairOnly == UNCHANGED <<root, job, sweep, local, reclaiming, crashes>>

ListReady(p) ==
    /\ packages[p].status = "ready" /\ inspect[p] = "none"
    /\ inspect' = [inspect EXCEPT ![p] = "listed"]
    /\ UNCHANGED storeVars /\ RepairOnly

\* Slip: the segment rows are taken for the files.
ValidateFilesByRows(p) ==
    /\ inspect[p] = "listed"
    /\ inspect' = [inspect EXCEPT ![p] = IF segments[p] = NoBuild THEN "broken" ELSE "none"]
    /\ UNCHANGED storeVars /\ RepairOnly

ValidateFiles(p) ==
    /\ inspect[p] = "listed"
    /\ inspect' = [inspect EXCEPT ![p] = IF root[p] = NoBuild THEN "broken" ELSE "none"]
    /\ UNCHANGED storeVars /\ RepairOnly

RequeueBroken(p) ==
    /\ inspect[p] = "broken"
    /\ IF packages[p].status = "ready" THEN MarkReadyPackagePendingForReencode(p)
                                       ELSE UNCHANGED storeVars
    /\ inspect' = [inspect EXCEPT ![p] = "none"]
    /\ RepairOnly

-----------------------------------------------------------------------------
(* The operator, the disk and the clock.                                   *)

Request(S) == RequestMediaPackages(S) /\ UNCHANGED pipeVars

Cancel(S) == "cancel" \in Faults /\ CancelMediaPackages(S) /\ UNCHANGED pipeVars

Requeue(p) ==
    "requeue" \in Faults /\ MarkReadyPackagePendingForReencode(p) /\ UNCHANGED pipeVars

Register(e) == e # LocalEncoder /\ RegisterEncoder(e) /\ UNCHANGED pipeVars

Revoke(e) == "encoder" \in Faults /\ RevokeEncoder(e) /\ UNCHANGED pipeVars

Delete(e) == "encoder" \in Faults /\ DeleteEncoder(e) /\ UNCHANGED pipeVars

\* handleEncoderUpdate rejects a cap below 1; handleLocalWorkerUpdate accepts 0.
SetConcurrency(e, n) ==
    /\ "caps" \in Faults
    /\ n > 0 \/ e = LocalEncoder
    /\ UpdateEncoderConcurrency(e, n)
    /\ UNCHANGED pipeVars

\* Disk first, then the row, whatever the package is doing.
ReclaimFiles(p) ==
    /\ "reclaim" \in Faults
    /\ Exists(p) /\ p \notin reclaiming
    /\ root' = [root EXCEPT ![p] = NoBuild]
    /\ reclaiming' = reclaiming \cup {p}
    /\ UNCHANGED <<storeVars, job, sweep, local, inspect, crashes>>

ReclaimRow(p) ==
    /\ p \in reclaiming
    /\ IF Exists(p) THEN DeleteMediaPackage(p) ELSE UNCHANGED storeVars
    /\ reclaiming' = reclaiming \ {p}
    /\ UNCHANGED <<root, job, sweep, local, inspect, crashes>>

FilesVanish(p) ==
    /\ "vanish" \in Faults
    /\ root[p] # NoBuild
    /\ root' = [root EXCEPT ![p] = NoBuild]
    /\ UNCHANGED <<storeVars, job, sweep, local, inspect, reclaiming, crashes>>

\* A lease lapses under a slot that attends to it only when that slot is held up.
Lapse(p) ==
    /\ "stall" \in Faults \/ ~Attended(p)
    /\ LapseLease(p)
    /\ UNCHANGED pipeVars

Age(p) == AgeRow(p) /\ UNCHANGED pipeVars

-----------------------------------------------------------------------------
Claiming(t) == Claim(t) \/ ClaimRefused(t)

RemoteWork(t) ==
    \/ \E kind \in FailureKinds : RemoteFail(t, kind)
    \/ RemoteComplete(t) \/ UploadFails(t) \/ HandlerFails(t) \/ CompleteJob(t)
    \/ CleanupRoot(t) \/ CleanupSegments(t) \/ CleanupRequeue(t)

Publish(t) == ClearRoot(t) \/ PublishRoot(t) \/ ParseManifest(t) \/ WriteSegments(t)

LocalWork(t) ==
    \/ LocalClaimDropped(t) \/ LocalEarlyError(t) \/ LocalMarkProcessing(t)
    \/ LocalNotice(t)
    \/ \E kind \in FailureKinds : LocalFails(t, kind)
    \/ LocalMarkReady(t) \/ LocalReadyFails(t) \/ LocalClearLease(t)

Sweep ==
    \/ SweepStart \/ SweepLeases \/ SweepDone
    \/ \E p \in Packages : SweepStale(p) \/ SweepExpire(p)

Worker == WorkerStart \/ WorkerReady \/ \E p \in Packages : WorkerRecover(p)

Repair(p) == ListReady(p) \/ ValidateFiles(p) \/ RequeueBroken(p)

Operator ==
    \/ \E S \in SUBSET Packages : Request(S) \/ Cancel(S)
    \/ \E p \in Packages : Requeue(p) \/ ReclaimFiles(p) \/ ReclaimRow(p)
    \/ \E e \in Encoders :
         Register(e) \/ Revoke(e) \/ Delete(e) \/ \E n \in 0..MaxConcurrency : SetConcurrency(e, n)

Fault ==
    \/ \E t \in RemoteThreads : RemoteFailLost(t) \/ RemoteClaimLost(t)
    \/ \E e \in Encoders : RemoteCrash(e)
    \/ ServerCrash \/ WorkerCrash
    \/ \E p \in Packages : FilesVanish(p)

Next ==
    \/ \E t \in RemoteThreads : RemoteWork(t)
    \/ \E t \in LocalThreads : LocalWork(t)
    \/ \E t \in Threads :
         Claiming(t) \/ Publish(t) \/ Heartbeat(t) \/ \E p \in Packages : Discover(t, p)
    \/ Sweep \/ Worker \/ Operator \/ Fault
    \/ \E p \in Packages : Repair(p) \/ Lapse(p) \/ Age(p)

Spec == Init /\ [][Next]_vars

\* Every slot, the sweeper, the worker and repair keep running, the clock advances, and
\* free slots keep asking for work.  Operators and faults are under no obligation.
Fairness ==
    /\ \A t \in RemoteThreads : WF_vars(Claiming(t) \/ RemoteWork(t) \/ Publish(t))
    /\ \A t \in LocalThreads : WF_vars(Claiming(t) \/ LocalWork(t) \/ Publish(t))
    /\ \A t \in Threads, p \in Packages : WF_vars(Discover(t, p))
    /\ WF_vars(Sweep) /\ WF_vars(Worker)
    /\ \A p \in Packages : WF_vars(Repair(p)) /\ WF_vars(Lapse(p)) /\ WF_vars(Age(p))

FairSpec == Spec /\ Fairness

-----------------------------------------------------------------------------
(* Properties.                                                             *)

\* When only remote encoders work, the tables behave like the abstract queue: the holder
\* of a package in processing is the owner of its lease.
Queue == INSTANCE PackageQueue WITH
    status <- [p \in Packages |-> packages[p].status],
    spent <- [p \in Packages |-> packages[p].attempts],
    holder <- [p \in Packages |->
                 IF Processing(p) /\ Leased(p) THEN jobs[p].owner ELSE NoEncoder],
    member <- [e \in Encoders |-> encoders[e].state],
    Budget <- MaxAttempts

ImplementsQueue == Queue!Spec

\* What playback needs of a ready package: its files are there and the segment rows
\* describe those files and no other build's.
ReadyIntact ==
    \A p \in Packages :
        packages[p].status = "ready" => root[p] # NoBuild /\ segments[p] = root[p]

\* Two slots are never past the start of publishing for the same package.
Publishing(t) == job[t].pc \in {"publishing", "published", "parsed", "finalized",
                                "cleanRoot", "cleanSegments"}
OneBuilder ==
    \A t, u \in Threads :
        Publishing(t) /\ Publishing(u) /\ job[t].pkg = job[u].pkg => t = u

\* Once nobody is publishing or cleaning up a ready package, it is intact.
\* (docs/database.md: a ready row is "operationally required to have finalized artifact
\* metadata and reachable files".)
ReadyIntactAtRest ==
    \A p \in Packages :
        packages[p].status = "ready" /\ (\A t \in Threads : Publishing(t) => job[t].pkg # p)
          => root[p] # NoBuild /\ segments[p] = root[p]

\* No package stays in processing for ever, whoever crashed, lost a lease or left it
\* without one.
ProcessingEnds == \A p \in Packages : Processing(p) ~> ~Processing(p)

\* A lease that outlives its work is dropped, so a queued or failed package is
\* claimable again: the lease row's key would refuse the claim.
LeaseReleased ==
    \A p \in Packages : Leased(p) /\ ~Processing(p) ~> ~Leased(p) \/ Processing(p)

\* A queued package that an active remote encoder may take does not stay queued for
\* ever, whatever lease an earlier attempt left on it.
Claimable(p) ==
    /\ packages[p].status = "pending" /\ packages[p].attempts < AttemptBound
    /\ PolicyAllows(p, FALSE)
    /\ \E t \in RemoteThreads : Active(Owner[t])
QueuedIsClaimed == \A p \in Packages : []<>~Claimable(p)

\* A ready package whose files are gone is noticed and queued again.
DamageRepaired ==
    \A p \in Packages :
        packages[p].status = "ready" /\ root[p] = NoBuild
          ~> ~(packages[p].status = "ready" /\ root[p] = NoBuild)

=============================================================================
