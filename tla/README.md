# Verification of linearcast

TLA+ models of linearcast, the configurations that model-check them with TLC,
and TLAPS proofs about them. Paths are relative to the repository's `src/`.

linearcast plays self-programmed TV channels. Media files are encoded ahead of
time into packages (a directory of fMP4 segments plus rows in SQLite), a schedule
assigns media to wall-clock time, and playback turns schedule and packages into
HLS playlists. Channels may also be played on demand, from encodings that a manager
starts when somebody watches. This development models the path from a file to a viewer:
the distribution of encoding work, what a package is made of, the order of each channel's
media, the schedules built from it, the on-demand encodings, and the playlists.

## 1. Inventory

One Go process normally runs playback, the admin API, the lease sweeper, the
schedule extender and the local packager worker; remote encoders are separate
processes that talk HTTP to the admin API. All of them share one SQLite database
and one directory tree, `packages/<media>/<profile>/`.

| Component | State | Operations | Hard behaviour | What makes it correct |
|---|---|---|---|---|
| Package store, `internal/db/package_requests.go`, `encoders.go`, `packages.go` | `media_packages`, `encoder_jobs`, `encoders`, `packaged_segments` | request, cancel, claim, heartbeat, complete, fail, expire, mark ready / failed / pending, delete; register, revoke, delete encoders | each transaction is atomic, sequences of them are not; leases are deleted by package id, whoever owns them | foreign keys hold; processing implies a lease; only the holder finishes; the retry budget is respected |
| Remote encoders, `internal/admin/encoder_jobs.go`, `cmd/linearcast-encoder` | job slots, uploads in progress | claim, encode, heartbeat, upload, finalize, complete, fail | the lease is checked before the upload and used after it; responses are lost; encoders die | one publisher per package; ready packages are intact |
| Local worker, `internal/packager/worker.go`, `packager.go` | the claim and context of each job | discover, claim, `PackageOne`, heartbeat, recover orphans | status writes that do not check the lease; restarts | as above; a cancelled package stays cancelled |
| Lease sweeper, `internal/admin/encoder_sweeper.go` | candidates of its two queries | reset stale rows, expire leases | candidates may be out of date when acted on | nothing stays in processing for ever |
| Integrity and repair, `internal/packager/integrity.go`, `internal/playback/segments_packaged.go` | none of its own | list, look at files, requeue | the files are looked at after the list was read | damage is noticed and repaired |
| Package operations, `internal/admin/packages.go`, `maintenance.go`, `cache.go` | none of its own | request, cancel, requeue, reclaim disk space | files and row are removed in two steps | references hold; encoders are not disturbed for ever |
| On-demand encodings, `internal/ondemand/manager.go` | encodings per channel and entry, ids, retained lists, restart counts, cool-downs, high-water marks | ensure, evict, restart, kill, burn language, sweep, prune; three goroutines per encoding | encodings are taken out of the maps under the mutex and stopped outside of it, by several goroutines at once | no ffmpeg is forgotten, capacity is kept, media sequence numbers are used once, what is listed exists |
| Playback, `internal/playback` | channel runtimes; playlists are derived for each request | media and master playlists, artifacts, repair | numbers are counted anew from a schedule and packages that change between polls | what a player knows keeps its number, nothing goes back, a master playlist leads somewhere |
| Subtitles, `internal/playback/subtitles.go`, `subtitles_burn.go` | none of its own | subtitle playlists, clipping of sidecars, choice of the track | playlist, clip and master choose the track and the anchor each on their own | every cue is shown once, where it belongs |
| Scheduler and extender, `internal/scheduler`, `internal/db/schedule.go`, `schedule_chain.go`, `cmd/linearcast-extender` | `schedule_entries`, a time line and a linked list | extend the tail, slot grid with filler, backfill | resuming behind filler, drained stretches and lineups that are only partly ready | no overlap, no hole where there is filler, lineup order kept, always continued |
| Schedule editing, `internal/admin/schedule_service.go`, `channels.go` | none of its own | restart, clear, delete, insert, upsert, fill a gap, save a window, recompose, remove a media | what is read before the transaction is used in it; two edits and the extender meet | readers never refuse the chain, and it is in time order; nothing is cleared without a rebuild |
| Channel lineups, `internal/db/channel_media.go`, `chain_validator.go`, `internal/admin/channel_media.go`, `media_delete.go` | linked list `channel_media` | add, add after, remove, move, reorder, clone; create and delete channels; delete media | every edit rewires anchors under unique indexes; handlers read in one transaction and write in another; deletions cascade | an intact chain stays one chain, edits move only what they are asked to, damage is reported |
| Schedule checks, `internal/schedcheck` | none | report gaps, overlaps, entries out of bounds or not ready | rows are compared with their neighbours only | what it reports is what is on the air |
| Renditions: codec and subtitle policy, profiles, `internal/codec`, `subtitlepolicy`, `packageprofile`, `packager.go` | `package_profiles` | admission, choice of streams, the burn decision, tone mapping; edit, disable and enable profiles | ingest, packager and playback work the same thing out, each from other data and at another time | they agree |
| Media ingest, import, cleanups, `internal/lcingest`, `packager/import.go`, `admin/maintenance.go`, `media_delete.go`, `cmd/linearcast-maint` | the `media` row, package directories | scan, import, delete missing media and orphan packages, audit durations | files change behind their row; what was listed is acted on later | a ready package is whole, and belongs to its row |
| Sessions and authentication, `internal/admin/auth.go` | password hash, sessions | login, logout, change password | sessions that outlive a change | - |
| Media servers, guide, IPTV, web UI, logging, metrics | - | I/O and projections | - | not planned |

Interactions. Remote encoders and the local worker meet in `encoder_jobs`, where
the primary key `package_id` lets at most one lease exist per package. The sweeper
and the recovery of orphans remove leases of slots they cannot see. Playback and
the integrity sweep send ready packages back to the queue. Operators cancel,
delete and reclaim at any time. Playback calls the on-demand manager, which calls nobody
back: its goroutines and playback meet in its maps. Nothing but single SQLite transactions and single
filesystem calls is atomic, and none of the actors waits for another.

## 2. Plan

Modules, in the order they were and are to be written.

1. `PackageStore`: the tables, one action per transaction.
2. `EncodePipeline`: the actors on top of it; composes `PackageStore`.
3. `PackageQueue`: what the pipeline promises, implemented by it.
4. `ChannelLineup`: the linked list of `channel_media.go` with its edits, the handlers
   around them and the deletion of media.
5. `ScheduleBuilder`, `Schedule`: how one channel's entries are extended, as operators,
   everybody who writes them, and the audit of `schedcheck`.
6. `OnDemandManager`, and `EncodingFeed`, what it promises playback and implements.
7. `PlaybackManifest`, and `SubtitlePlaylists` on top of it.
8. `Renditions`, what a file becomes under a profile as three parts of the program see it, and
   `MediaLibrary`, the history of one media id under scans, encodes, imports and cleanups.

These exist. To come, in order of value:

- `EncodePipeline` with channel policies (`remote_only`, `local_only`) and two packages under a cap;
- `Schedule` with block ordering, mode changes, and the deletion of media under a schedule;
- retained encodings in `PlaybackManifest`;
- sessions, if there is room.

## 3. The models

### PackageStore

| Variable | Code |
|---|---|
| `packages[p]` | row of `media_packages`: status, attempts, and whether `updated_at_ms` is older than the stale cutoff |
| `jobs[p]` | row of `encoder_jobs`: owner and whether `lease_expires_ms` has passed |
| `encoders[e]` | row of `encoders`: registration state and concurrency |
| `segments[p]` | rows of `packaged_segments`, named by the build whose manifest they were written from |

Every action is one transaction, named after the Go function, with its guards and
its effect on all four tables. An absent row has status `"missing"`. Clock columns
are kept as the one comparison the code makes on them, and `LapseLease` and `AgeRow`
are the clock. Abstracted: paths, byte counts, error texts, capability and hardware
columns, metrics. `AttemptBound` and `MaxConcurrency` are bounds of the model.

Definitions commented `Slip:` (in the later modules `Mutant:`) are what the neighbouring action
would be with one plausible mistake. No action uses them; each is there so that the properties can be
shown to notice the mistake (section 4).

### EncodePipeline

Threads are job slots. A slot's `pc` is the program counter of the encoder's job
and, during an upload, of the server's handler for it:

- remote: `idle -> candidate -> encoding -> uploading -> publishing -> published ->
  parsed -> finalized -> idle`, which is `claimOnce` and `runEncodeLoop` on the
  encoder and `handleEncoderClaim`, `handleEncoderComplete`, `receivePackageTar`,
  `FinalizePackage` on the server. Errors go through `cleanRoot`, `cleanSegments`,
  `cleanRequeue` (`cleanupUnpromotedPackageUpload`) to `refused`, from where the
  encoder reports a failure.
- local: `idle -> candidate -> claimed -> encoding -> publishing -> published ->
  parsed -> finalized -> clearing -> idle`, which is `claimNext`, `runOne` and
  `PackageOne`. `lost` says that the job's context has been cancelled.

`root[p]` names the build whose files are in the package directory. Replacing the
directory takes two steps, removing the old one (`ClearRoot`) and renaming
(`PublishRoot`), which fails when a directory is there again. `FinalizePackage`
reads the manifest (`ParseManifest`) and then writes the rows (`WriteSegments`).

`sweep`, `local.todo`, `inspect` and `reclaiming` hold what the sweeper, the restarted
worker, the readers of a package's files, and the reclaiming operator have read and not yet acted on.
`Faults` selects what may go wrong; its kinds are listed at the head of the module.

Heartbeats. A slot whose job is alive renews its lease (`Heartbeat`). Without the
fault `stall` a lease lapses only when no live slot renews it (`Attended`): the
default lease is many heartbeat intervals long. With `stall` it may lapse at any time.

Abstracted: ffmpeg is one step that ends or fails; media and profiles are the
package id; download and tar validation are one outcome each; a failure's kind is
transient or terminal; the discovery order is left open.

### PackageQueue

The promise without leases, handlers or files: packages are held by at most one
encoder, only a holder in good standing finishes, a failed attempt is offered
again only while the budget lasts, an encoder that leaves gives back what it
holds. `EncodePipeline!Queue` instantiates it with a refinement mapping whose only
interesting part is the holder: the owner of the lease of a package in processing.

### ChannelLineup

| Variable | Code |
|---|---|
| `catalogue`, `channels` | the ids in `media` and `channels` |
| `anchor[c][m]` | `anchor_media_id` of the row `(c, m)` of `channel_media`: another media, `Null`, or `Absent` when there is no row |
| `request[e]` | what a handler has read and not yet written: the order of a reorder or of a new channel, or the media to delete |

`AddChannelMedia`, `AddChannelMediaAfter`, `RemoveChannelMedia`, `MoveChannelMediaAfter`
and `ReplaceChannelMedia` (`Chained`) are the functions of `channel_media.go`; `Pulled`,
`Opened` and `Placed` are the SQL statements they share. A write that the unique
indexes would refuse is a transaction that is rolled back, so `Indexed` is a guard
where a row is inserted or a slot opened; section 6 proves that the other writes never
meet the indexes. Reorder, channel creation and media deletion are a read
(`Reorder`, `Create`, `DeleteMedia`) and later writes (`InsertChannel`, `Replace`,
`DeleteMediaMetadata`); anything may happen in between, a restart included. Deleting
media cascades (`DeleteRows`).

`Walk` and `Refused` are `ChannelMediaOrdered`, which every reader of a lineup goes
through; `ChainIssues` is `validateChannelChain`, which looks for kinds of damage
instead. Media ids are a hash of the path, so a file that comes back has its old id and
may find a row that was anchored to it. Abstracted: `added_at_ms`, eligibility of
media, packages; schedule entries only as a reason to refuse a deletion.

### ScheduleBuilder and Schedule

Time is counted in units of the 6000 ms grid. A row is found by its id and names its
predecessor by `anchor`; `Walk` and `Intact` are `ScheduleEntriesOrdered`, which the
extender and most readers go through, `Indexed` the unique indexes.

`ScheduleBuilder` has no state. `ExtendChannel` is `extendChannel` of `service.go`: the
low-water check, `ExtendTail` (where to start, what to resume after, which media may be
used, `BackToBack` or `SlotGrid`) and `Backfilled`. `Tile` is `tileFillerGap`, one grid unit
at a time, its cursors seeded by `Cursors` from the rows. Its result is an `Outcome`:
`"failed"` is an error, `"none_ready"` is `ErrNoReadyPackages`, which most edits commit.

| Variable of `Schedule` | Code |
|---|---|
| `rows` | the channel's rows of `schedule_entries` |
| `mode` | `schedule_mode`, and whether the channel needs ready packages |
| `lineup`, `ready` | the eligible `channel_media` in order; media with a ready package |
| `created`, `now` | whether `createChannel` has built the first schedule; the clock |
| `request[e]` | what an edit has read and not yet written |
| `edits` | edits begun, a bound of the model |

A handler that reads before its transaction is a pair `Read...`, `Write...`; the others are
one action. The extender's pass (`Tick`) is one immediate transaction. `SavedInPlace` is
the branch of `saveWindowByMediaIDs` that keeps the tail. Abstracted: one horizon for the extender and the
edits, catalogue and packaged duration are one, codecs are admitted, every enabled filler
asset is attached, `ready` may change for the media in `Unsteady` at any time. A channel's id is
made when it is created, so that edits begin after the creation (`MayEdit`); the extender may
come earlier, and then the schedule that a client composed (`CreateExplicit`) is refused by the
index of the chain's head.

`Audit` is `schedcheck.checkChannel`. `NoScheduleIssue` asks two things of it: that it finds nothing
of what no edit may cause, and that what it calls a gap is where nothing is on. The second is
about the audit: it compares neighbours only, so in a schedule with overlaps it would report gaps
that are covered and miss overlaps with earlier rows.

### OnDemandManager and EncodingFeed

The grain is a critical section of `Manager.mu`. What a section decides and leaves to be done
outside of it is state: `stops` (the goroutines in `stop()`, each with what it has still to stop),
`sweeper` (what it has listed), `restarting`, and in each encoding's record how far its process and
its goroutines are.

| Variable | Code |
|---|---|
| `enc[i]` | `channelEncoding` i from its reservation until its goroutines have ended: entry, burn language, `state`, the process, cancelled, stopped, whether `tailLoop` and `waitLoop` still run, first position, base sequence, segments parsed and pruned, ticks without a new one |
| `encodings`, `byID`, `retained` | the manager's three maps |
| `lastTouch`, `restarts`, `blocked`, `killGate`, `highWater`, `burn`, `seq` | the maps and counters of those names |
| `rows`, `dirs` | the table `on_demand_encodings`; directories below the encoding root |

`ReserveNothing`, `ReserveBlocked`, `ReserveNew`, `ReserveFull` and `ReserveEvict` are the outcomes of
`EnsureEncodingWithOptions`; `StartReserved` and `StartFails`, `TailOnce` and `TailEnd`, and `WaitLoop` are the
goroutines of an encoding; `Sweep` is one pass of the sweeper under the mutex and `SweepStopEnd`
what follows; `NewManager` is the end of the process, by a crash or `Shutdown`, and the next start. Time is relative and
saturates where no comparison can tell: a tick is the sweeper's period. External: ffmpeg, which
writes segments, stalls, ends or fails. Abstracted: hardware choice, log tails, the position
within a segment; pruning behind the playhead is modelled, `ExtraDiscontinuities` is not.

`EncodingFeed` says what playback relies on: entries have at most one encoding that still lists
segments, and a media sequence number of an entry is listed by one encoding only.
`MCOnDemand` instantiates it under the mapping at the end of `OnDemandManager`.

### PlaybackManifest and SubtitlePlaylists

Nothing of a playlist is stored, so the state is what a request reads: `schedule`, `ready`, `encodings`
(as `EncodingFeed` lets them be), `highWater`, `extraDisc` and `now`. `waiting` holds the request for the master
playlist that waits; `heard` is the playlist a player read last, with the rows that its numbers counted. `schedule` is a set of entries, like the table, and a query takes from it what its condition says. `Items(p)` is the loop of `packagedManifestItemsWithOptions`, one entry a step
(`Packaged`, `OnDemand`), with the numbers that `SequenceBase`, `SegmentOffset`, `Discontinuities`,
`OnDemandNumber` and `OnDemandDiscontinuities` count.

Rows come and go under the requests, behind the clock as well as ahead of it. `ScheduleExtends` appends at the tail;
`EntryPlaced` writes a row wherever there is room; `EntryInserted` is `InsertRelative`, which shifts what starts at the place or later;
`RowsDeleted` takes one row or a stretch of them, as the deletions of an entry, a range, a tail or the whole schedule do;
`MediaDeleted` takes every row of a media, past ones included, and its packages. An edit that deletes and rebuilds
in one transaction is a sequence of these without a poll in between. A row that moves keeps its id; one that is laid
gets a new one. `RequeueReadyPackage` is the repair of a package whose file is missing.

`handleManifest` answers at once where the current entry has a package of the channel's profile (`Master`). Otherwise, on an on-demand
channel, it fixes the entry and the time (`HandleManifest`) and tries `ensureOnDemandMasterReady` over and over, each time
with these two (`EnsureOnDemandMasterReady`): the first try starts an encoding, one that finds enough of the entry answers. Clock,
encoding, packages and schedule move on meanwhile. `Patience` is the 15 seconds after which it gives up; `ManifestRefused` is every other error.
One such request waits at a time.

A channel is eager or on demand from the start; segment boundaries are given by `Cuts`, which do not follow the grid. The
player of an eager channel may have any profile of the ladder (`Played`), that of an on-demand channel has the channel's, as
only that one is encoded on demand. An encoding keeps the entry it was reserved for (`of`), whatever has become of the row.
Abstracted: bandwidth and codec attributes, URIs, retained encodings (`EncodingFeed` covers their
numbers), the burn language of a channel, which only makes a package not ready.

`CutsFit` is a condition on the schedule's shapes and the packages' cuts under which an eager channel's numbers leave
nothing out. Where an entry ends within a segment, the loop goes on behind that whole segment, so what overruns the entry must end within the
first segment of the next one. Nothing in the code ensures it (section 5).

`SubtitlePlaylists` adds the sidecars as sets of cues. `Advertised` is what `writeMasterManifest` names: the renditions that the packages in
the window have under the profile of the first variant, in the order of the ladder, without the forced ones whose language that profile burns into
the video (`Burned`). `Referring`, `Reference`, `SubtitleVTT` and
`Clip` are the packaged side; `Anchor` and `SubtitlePlaylist` the on-demand side, where ffmpeg's
segment list is one place per video segment.

### Renditions and MediaLibrary

`Renditions` has no state: the same file and settings go through ingest (`Probe`, `Admit`), the
packager (`Selected`, `Verdict`, `Resolve`, `OutputRanges`, `Wanted`, `Truncated`) and playback
(`NormalizeABRLadder`, `HdrVideoRange`, `ForcedRenditions`), each as that part of the program has it.

| Variable of `MediaLibrary` | Code |
|---|---|
| `disk`, `row` | the files below the paths of one stem; the `media` row with what ingest probed |
| `used` | whether `channel_media` and `schedule_entries` refer to it |
| `settings`, `active`, `serving` | `package_profiles`; the ladder the playback runtime took over at its last refresh |
| `pkg`, `tracks`, `out` | `media_packages`, `package_tracks`, and the package directory with how it was made |
| `job` | the worker's encode |
| `cleanup` | what a maintenance request or `linearcast-maint` has listed and not dealt with |

One worker runs one job, and attempts and leases are left to `PackageStore`. `Retry` is what is left of them: a failure that
was not terminal may go back to pending. `DeleteEncode`, `AuditDuration` and what they have still to do belong to a process of
its own, so that a restart of the server does not end them. Music, and the scores by which audio streams are chosen,
are not modelled.

## 4. Runs

| Run | Instance | Shows |
|---|---|---|
| `pipeline_remote` | two remote encoders; stall, cancel, encoder, network | `ReferencesResolve`, `LeaseDiscipline`, and `ImplementsQueue`: whatever overtakes a slot, its late report changes nothing that belongs to another |
| `pipeline_timely` | one remote encoder and the local worker; network, remoteCrash, serverCrash, requeue, caps | `TypeOK`; `OneBuilder` and `ReadyIntact`: with heartbeats in time one slot at a time publishes, and what is ready is intact; `ProcessingEnds`, `LeaseReleased`, `QueuedIsClaimed` |
| `pipeline_local` | the local worker; stall, cancel, workerCrash, vanish, reclaim | `ReferencesResolve` under reclaiming; `ProcessingEnds` with every way the worker can lose or forget a job; `DamageRepaired` |
| `late_upload` | two remote encoders; cancel | a violation, finding 1 |
| `lineup` | two channels, three media, one request in flight | edits keep an intact chain intact (`EditsKeepChain`) and change the order as asked (`OrderChangesAsAsked`); damage is refused exactly when it is reported (`ReportedIffRefused`); `LineupTypeOK` |
| `schedule` | one channel in each mode, two primaries of 1 and 2 units, filler of 3, slots of 2, two edits of any kind | `ChainFollowsTime` and `NoScheduleIssue` whatever is edited and whatever the extender does in between; `InRotation`; `ExtensionGapFree`; `OnePassFromAir`; `ScheduleTypeOK` |
| `recompose_wipe` | the same, a horizon of 6, one edit | a violation, finding 2 |
| `on_demand` | two channels with an entry each and room for one encoding; one operation, two starts | `MapsAgree`, `NoOrphan`, `WithinCapacity`, `ListedIsOnDisk`, `TypeOK`, and `ImplementsFeed` |
| `on_demand_reclaim` | the same, both entries one tick long | `Reclaimed`: what is detached is stopped and removed |
| `playback` | an eager and an on-demand channel, two media, two profiles, one of which burns English; every edit of the rows | `ItemsNumbered`; `NumbersStable` and `NeverBack` between polls with the same history; `MasterPlayable`, also after a wait; `CuesInPlace`: a forced narrative is burned in or named, and its cues are where they belong; `PlaybackTypeOK` |
| `subtitle_drift` | the same | a violation, finding 3 |
| `library` | three files, two paths, two profiles that begin burning French and tone-mapping, two moves and two changes | `ForcedOnce`, `RangeTold`, `WholeWhenReady`, `UnsupportedAgrees`, `LibraryTypeOK` |

Every property of a passing run has a mutant in `PROJECT.json`: a definition is
replaced by its slip and the property must fail.

### Bounds

The pipeline runs have one package, since the tables of two packages
interact only through the concurrency cap. Up to two remote encoders with a slot
each, or one and the local worker with a slot, are enough for an overtaken slot and the one that
overtakes it. `AttemptBound` and `MaxAttempts` are 2, so that the first failure is
below the cap and the second is at it. One crash is enough to crash in every state
of the others; `MaxConcurrency` 1 lets the local worker be switched off (0) and on.
`LocalMaxAttempts` is 0, the value `runLocal` leaves.

Three media are the least that have a head, a middle and a tail, so that each can be
moved, removed or deleted, and that leave two rows behind for an orphan and a cycle
through a row that returns. Two channels are needed for cloning, and for a deletion
that damages one and leaves the other intact. Requests only store what they read, so two of them
interact through the tables as one request and the direct edits do. The media are symmetric.

In `schedule` a primary of 1 leaves a rest of its slot and one of 2 fills it; the filler is
longer than either, so that its cursor wraps, and it is cut by every gap. The clock runs for one
unit after the creation at an odd time, enough for the schedule to drain, as edits may
empty it. A client composes two schedules, one with a primary and filler from within, one from within a
primary. `MaxEnd` bounds where edits write, not how far the extender reaches. A
second edit is what meets the holes and splices of a first. Four bounds are also limits of the claims,
and TLC finds a violation beyond each:

- `Overlapping = FALSE`: an edit waits for the one in flight. With `TRUE`, a row that `FillGap` or
  an in-place save read as its predecessor can be gone when it is written, and
  `ChainFollowsTime` fails: the new row is anchored to nothing and no reader accepts the schedule.
- `Overlong = FALSE`: a draft saved in place is no longer than its window. With `TRUE` it
  overlaps the entries behind it, and `NoScheduleIssue` fails.
- `Layouts` holds schedules that play within their media. `validateExplicitSchedule` does not compare
  offset and duration with the media's length; with a piece that is too long, `NoScheduleIssue` fails.
- `InRotation` speaks of schedules nobody has edited. `RemoveMedia` resumes after the media
  it removes, which is no longer in the lineup, so the rotation restarts at the top.

`OnePassFromAir` is the safety half of "a channel comes back on the air": what a pass would do is
computed in every state. With the ticker's fairness the liveness follows; the condition
ENABLED of such a pass is too costly for TLC to evaluate.

In `on_demand` one slot for two channels makes every start of the second an eviction of the first or a
refusal; two starts are an encoding and its replacement, so that numbers can collide; one segment is enough
to list something. The channel that operators use has an entry of two ticks, so that it is restarted while
it is on. The idle time and the stall time are one tick and none, the least that tell the sweeper's cases apart.

In `playback` an eager channel gets three rows, which is a row that is counted, one that is listed and one that is laid, inserted,
moved or deleted around them; an on-demand channel gets two, with two encodings, so that one is replaced or each row has one. `Part` and `Long` end
within a segment of their media, `Rest` begins in the middle of its own. Clock horizons of 5 and 4 let rows of 2 and 4 end while somebody polls; the window
(`Ahead` 3) and `Limit` 3 each cut playlists short. `Lag` 1 puts the player behind the clock, which is what lag and warm-up do alike, so that
`Warmup` is 0; at `Coverage` 0 one unit is still asked for, the least the code asks for. `Patience` 1 is enough for a wait to end
after the clock has moved, within the entry or past its end. `Retention` 1 is the least that the assumption allows, so that
encodings are pruned while they are on: `artifactRetentionMs` keeps three segments and ten seconds, and never
less than the configured lookback. The ladder begins with a profile that burns English, which the player of the eager channel has, and the channel's own
is the second; so what is burned, and what is named without being burned, both occur. The cuts fit (`CutsFit`), which the run evaluates as an assumption;
without it `ItemsNumbered` fails. Two conditions are part of the properties, since TLC finds a violation without them and the code
behaves so (section 5): `SameHistory` and `NoneWithdrawn`.

In `library` the files are chosen for what can differ: cover art before the picture, HDR or not, forced
subtitles as text in two languages and as a bitmap, a Dolby Vision profile that is refused. Both profiles start as an SDR transcode that burns French:
it burns the disc's bitmap in, and tone-maps the HDR download. The custom one is edited to an HDR transcode that burns English text, to one
that burns nothing, and to a copy that claims to burn. Two moves replace a file and put it back. Only the channel's
profile is requested by hand (`AskedFor`). One bound is a limit of the claim: `ImportAlone = TRUE` keeps package import and
worker apart. With `FALSE`, `WholeWhenReady` fails: an import marks a directory ready while a restarted worker
encodes the same package again, and the worker promotes a cut output below the ready row.

The passing runs stay within the faults under which their properties hold. For the pipeline the
boundary is informative:

- `stall` breaks `OneBuilder` and `ReadyIntact`: a lapsed lease lets a second slot
  start while the first goes on to publish. So do `cancel` and `encoder`, which take
  a lease away from a running upload (finding 1).
- `workerCrash` next to a remote encoder breaks both as well: the sweeper acts on a
  candidate it read before the restart, after another slot has claimed.
- `network` with several slots of one encoder breaks `OneBuilder`: a slot whose completion was accepted, but whose
  response got lost, reports a failure; by then the package may have been requeued and claimed by another slot of the
  same encoder, and the report, which carries the package and the encoder only, fails that one's claim and drops its lease
  (section 5).
- `LeaseDiscipline` needs `LocalThreads = {}`. The local worker makes a package
  ready and drops the lease in two transactions, and drops it by package id after
  a job that may have recorded nothing; `ProcessingEnds` shows that the stale
  backstop recovers what that leaves.

### Fairness

`FairSpec` makes weakly fair: every slot (a job ends or fails; an HTTP handler
returns), discovery by free slots (both worker loops poll), the sweeper and the
integrity loop (tickers), the worker's restart (the process is supervised; see
`deploy`), and the clock. Operators, faults and heartbeats have no obligation: a heartbeat that
never comes is a lease that lapses. Slots are weakly fair as a whole, so a job may
fail for ever; no property says that packages become ready.
Without crashes beyond the bound, `ProcessingEnds` is about what one attempt
leaves behind.

`on_demand_reclaim` assumes that goroutines which can run do run (`WF(Prompt)`: `Prompt` is every
section that waits for nothing but its goroutine; the Go scheduler is fair to each), that an ffmpeg whose context is cancelled dies (`WF(Dies)`: the context kills
the process after its wait delay), and that time passes (`WF(Tick)`; the clock waits for `Quiet`, so a goroutine that
waited for ever would stop it and show as a counterexample). Viewers and operators have no obligation, and ffmpeg need not
write anything. `on_demand`, `playback`, `library` and `lineup` check safety only.

## 5. Findings

Shown by runs:

1. `late_upload`, code bug. `handleEncoderComplete` checks the lease before the
   upload only. A handler overtaken by a cancellation, a retry and a second encoder removes
   the directory the second one has published, or cleans it up on its own failure, and the package is ready without
   files after every handler has ended. The repair of section 3 notices later; until then playback
   gets 404.
2. `recompose_wipe`, code bug. `RecomposeSlotGridFuture` counts on an error where the rebuild
   lays nothing, but a slot-grid extension with some packages not ready returns none: the
   cleared future is committed, and the extender lays nothing either until all are ready.
3. `subtitle_drift`, code bug. The on-demand subtitle playlist is anchored at the first segment the
   manager still lists, but begins with ffmpeg's first one of all. As soon as played segments are
   pruned, subtitles run ahead of the picture by what was pruned.

Seen while modelling, without a run of their own:

*Packages.* `FailEncoderJob` (`db/encoders.go:654`) and `CompleteEncoderJob` identify a job by package and encoder. A report that comes
late, of an attempt whose outcome the encoder never learned, hits a later attempt of the same package by another slot of that encoder: its lease is
dropped while it encodes, and a third slot may start. `BuildersAlone` of section 6 names the two ways out of it, no lost responses or one
slot per encoder. `PackageOne` begins with an unconditional write of `processing` (`packager.go:202`), which undoes a
cancellation made since the claim. The local worker runs without an attempt cap (`worker.go:88` applies the default
to negative values only), against `docs/database.md`. A failed package is claimable, so that one which fails
between discovery and claim is worked on without a retry request (`package_requests.go:520`). Remote encodes
extract no subtitles (`cmd/linearcast-encoder/job.go`), and an encoder that cannot make its work directory reports no failure: its
lease lapses. `maintDeleteEncode` and `handleMediaDelete` take rows and directories in two steps, in opposite
orders: the first may remove the directory of an encode that was started in between, the second the files of a package
whose deletion is then refused. Maintenance lists missing media and orphans once and deletes by id later.

*Lineups and schedules.* `handleMaintenanceMissingMedia` deletes media rows that
channels still use (`db/media.go:269`); the cascade removes their memberships without closing the
chains, and a channel that loses its first item is refused by every reader. `handleChannelReorderMedia`
compares the requested order with the members it read and replaces the rows later, so
an item added in between is lost and a removed one returns. `handleMediaDelete` looks for channels that use the
media before it deletes; a channel that takes it in between loses its row, although the comment of
`DeleteMediaMetadataByID` expects the delete to fail: `channel_media` cascades, only `schedule_entries` refuses.
A pass of the extender between `InsertChannel` and `writeExplicitSchedule` makes the creation fail
with the channel in place. `QueueChannelProfileMigration` lets a copy profile drop forced bitmaps that the other requests refuse.

*On-demand encodings.* `tailOnce` may write the row of an encoding that `stop` has just deleted (`manager.go:653-719`), and the
row stays. A stall of a channel's only encoding counts a discontinuity and forgets it in the same sweep, so that
EXT-X-DISCONTINUITY-SEQUENCE goes back; the replacement for other options counts none. An operator's kill during the start
counts against the restart budget. While detached encodings stop, more than `MaxConcurrent` processes run
(`WithinCapacity` counts those nobody is stopping). Encoding ids and `highWater` begin anew with the process.

*Playback.* The numbers of an eager channel count the packages that are ready and the rows that are there (`segments_packaged.go:405`): a package
that gets ready or is requeued before the current entry renumbers the playlist (`segments_packaged.go:359`, against its comment at 353), and
so does a row before it that is deleted, moved or inserted. Where what was counted is withdrawn, MEDIA-SEQUENCE and EXT-X-DISCONTINUITY-SEQUENCE
of a playlist that goes on go back; deleting one past entry (`schedule_service.go:192`) or a media with its rows (`db/media.go:266`) is enough. So
`NumbersStable` compares segments whose history is the same, and `NeverBack` polls between which nothing of it is withdrawn. Inserting a row within the window
renumbers the listed segments of the rows that it moves. A master playlist whose wait crosses the end of its entry
names a playlist that may have nothing to list yet (`manifest.go:90`), so the second half of `MasterPlayable` is about entries that are still on. A segment that runs past its entry's end
beyond the first segment of the next entry, or past that entry altogether, makes the loop leave out segments that the
sequence base counts (`segments_packaged.go:263`, 405), and every later segment of that playlist then has another number than in the next one. Packages that copy
their video have cuts at the source's key frames; with cuts at 0, 1 and 4 beside others TLC finds it. Packaged segments on an
on-demand channel are not of the grid's length, and their numbers drift from it. When an encoding is behind, `LatestSegments`
serves its last segments and MEDIA-SEQUENCE may go back; so `NeverBack` speaks of eager channels. The on-demand
subtitle playlist starts at 0 for each encoding without a discontinuity; the master's on-demand
subtitle URI names a stream index of the current media, which the next one need not have.

*Renditions.* The master playlist filters forced subtitles with the first variant's profile and attaches the group to all, so a
variant that burns them shows them twice; `ForcedOnce` therefore speaks of the first variant. A variant with a text burn is tone-mapped, although the profile's tag
advertises HDR (`manifest.go:219`, against its comment); `RangeTold` leaves burned ones out. An edited profile or a replaced source
leaves ready packages that were built from the old one (`Current` is the condition). The profile check of the admin refuses
copies with forced bitmaps, the rungs that a ladder adds are not checked. `codec/policy.go:28` calls a check
not yet consulted that `Admit` does consult.

## 6. Proofs

Eight modules hold the proofs; the theorems below are those about properties that runs check. An assumption
on constants is an `ASSUME` of the module that declares them and is evaluated by TLC in the run of that module.

### The pipeline

For any number of packages, encoders and slots and any caps, from `StoreAssumption` and
`PipelineAssumption`, and but for the last two under any set of faults:

| Theorem | States |
|---|---|
| `TypeCorrect` | `Spec => []TypeOK` |
| `ReferencesCorrect` | `Spec => []ReferencesResolve` |
| `LeasesCorrect` | `Spec => []LeaseDiscipline`, when `LocalThreads = {}` |
| `QueueImplemented` | `Spec => ImplementsQueue`, when `LocalThreads = {}` |
| `BuildersAlone` | `Spec => []OneBuilder`, under `Timely` and `OneSlot` |
| `ReadyWhole` | `Spec => []ReadyIntact`, under `Timely` and `OneSlot` |

The argument has two levels, like the modules. `PackageStore_proofs` classifies
the transactions: `RowStep` (one package, whoever runs it), `ClaimStep` (guarded by
the caller's lease), encoder and request steps; their disjunction is `LeaseStep`,
and with the writes that do not look at the lease it is `StoreStep`. It proves once
per class that types, references and, for `LeaseStep`, the lease discipline are preserved.
`EncodePipeline_proofs` shows that every step of the pipeline is at most one such
transaction (`StoreStepOfNext`), from the shape of a slot: a slot that is not idle
has a package. So the invariant of `ReferencesCorrect` is
`TypeOK /\ ReferencesResolve`.

`LeaseDiscipline` is inductive only together with the fact that the worker stays
down when it has no slots (`WorkerStaysDown`): its recovery uses another cap and
its slots the lease-blind writes. `StoreStepRefs` says that a lease's owner is always
registered, which is why deleting an encoder may forget nobody.

`QueueImplemented` maps each class of transaction to one step of `PackageQueue` or
a stutter under the mapping of section 3; it uses `LeaseDiscipline` for the holder
of a package in processing, `ReferencesResolve` for the membership of a holder, and
the lemma `FailureStatusFinal` for when a failure is offered again.

`BuildersAlone` and `ReadyWhole` are about slots, leases, directories and segment rows at once. `Timely` allows lost
responses, dying encoders and servers, requeues and caps, the faults of `pipeline_timely`; beyond it TLC has
counterexamples (section 4). `OneSlot` is needed where responses get lost, and only there. Neither property is inductive. The invariant
`BuildInv` calls a slot `Attached` from its claim until it lets the lease go; a slot that is about to report a failure is attached as long as
the lease is its encoder's. It says that an attached slot holds a lease that has not lapsed, and a claim that is
good until it gives the package up (`Sound`); that no two are attached to one package (`Alone`); that what a slot has published, read back and recorded is its own
(`Own`); that the sweeper's candidates, read some time ago, are still nobody's (`SweptIsLeft`); and that the worker, which does not die here, starts
before there is anything to recover (`StartsOnce`, from `ReferencesResolve`). TLC checked it on instances with two remote encoders and
the worker, and with two slots of one encoder without lost responses, before it was proved. A step is of one of four kinds, with one lemma each: an attached slot at work touches
its own package only, and nobody else is attached to that (`WorkKeeps`); a slot without a claim touches nothing (`StandKeeps`);
a claim finds no lease, so nobody attached (`ClaimKeeps`); the sweeper, the clock, operators and crashes spare the packages that have
an attached slot, or take the slot and leave the lease (`SystemKeeps`). That a heartbeat is in time enters by `LapsedIsLeft`: an attached slot attends to its lease.

### Lineups

For any channels, requests and any finite set of media, from `LineupAssumption`:

| Theorem | States |
|---|---|
| `LineupTypeCorrect` | `Spec => []LineupTypeOK` |
| `IndexesHold` | `Spec => [](\A c \in Channels : Indexed(anchor[c]))` |
| `ReadersReport` | `Spec => []ReportedIffRefused` |
| `ChainsKept` | `Spec => EditsKeepChain` |
| `OrdersAsAsked` | `Spec => OrderChangesAsAsked` |

The invariant of the first two is their conjunction: that a replacement's rows are indexed needs the
order of a request to have no duplicates, which is part of the types, and that pulling
a row out keeps the indexes needs the anchor it hands on to have been its own. One
lemma per rewiring (`ChainedIndexed`, `PulledIndexed`, `PlacedIndexed`,
`CascadedIndexed`) says so; the step lemma has one case per action.

The other three are about the walk along a chain, a recursive function. It is characterised once (`Led`: the first
item is the head, every other one follows the row it is anchored to), by hand-made inductions that take a least
counterexample. A lineup is accepted exactly when it is `Chained(s)` of an order `s` without repeats (`AcceptedOrder`,
`WalkOfChained`), so `ChainsKept` and `OrdersAsAsked` need only say what an edit does to that order: `PulledOrder` and
`PlacedOrder` take it to the order without a media, and with one at its place; `ChainStep` sorts the actions by which of
these they do. For `ReadersReport` a refused lineup must show damage of a kind the validator looks for: a row anchored to no
row, to itself, or else rows that the walk does not reach; these are then anchored to one another by an injection into
themselves, so that following anchors from one of finitely many closes a cycle (`RefusedHasIssue`).

### Schedules

For any number of editors, any media, durations, filler, slots, horizons, drafts and layouts, from `BuilderAssumption` and
`ScheduleAssumption`:

| Theorem | States | Under |
|---|---|---|
| `ScheduleTyped` | `Spec => []ScheduleTypeOK` | `~Overlapping`, `~Overlong`, `ComposedFit` |
| `ChainInOrder` | `Spec => []ChainFollowsTime` | the same |
| `AuditFindsNothing` | `Spec => []NoScheduleIssue` | the same |
| `GapFree` | `Spec => ExtensionGapFree` | the same |
| `OnePass` | `Spec => []OnePassFromAir` | the same and `Reaches` |
| `RotationKept` | `Spec => []InRotation` | `NoRepeats(InitialLineup)` |

The first three conditions are those of the run, and section 4 says what TLC finds without each: one edit at a time between its
reads and its transaction (the extender runs at any time), drafts that fit their window, composed pieces that play within their
media. `Reaches` says that a media and a slot fit between now and the horizon: a channel whose items are longer than its horizon
never gets an entry. A lineup has no repeats, for `(channel_id, media_id)` is the primary key of `channel_media`.

The invariant is `SchInv`. The rows are `Good`: pairwise apart in time, within their media, and each anchored to the row before
it (`Linked`), which is more than `Intact` and, unlike it, says something of every part of the schedule. That readers accept such
rows is by rank: the row with `k` rows before it is the `k`-th of the walk. For a request between read and write,
`ReadHolds`: what it read as the row before its window is still that row, or somebody, who can only be the extender, has meanwhile
followed it, and then the index on anchors refuses the write (`PrevHolds`); what it read as the row behind is still there. Types
alone are not inductive: an edit that finds a window taken would write rows over rows.

Every writer inserts a batch of entries that are apart from each other and from the rows, and relinks the row behind them: `InsertSound`,
`Appended` and the lemmas about deletions and shifts say that this leaves good rows. What remains are the builders, which are recursive
functions over time and lineup. `Runs` gives the induction along such a function; with it, `BackToBack`, `SlotGrid`, `BestFit` and
`Tile` are shown to lay `Batched` entries. For filler, `Tiled` says after every grid unit what has been laid: the units of the gaps up to
it, and no others, are covered by pieces within their assets, and the cursor is where the last piece ended (`TileStep`: a piece goes on
or a new one begins).

`GapFree` adds that a slot grid with filler leaves no unit between its start and its end uncovered (`Solid`). `OnePass` goes through
what a pass can do (`Passed`: it was above low water, or appended from `NextStart`, and may have healed the leading gap) and needs that
a batch with room for an item is not empty (`BatchFilled`). For `RotationKept`, every primary of a batch is the one after its
predecessor in the lineup (`InTurn`, `TakesTurns`), the first one follows what was scheduled last (`StartsWith`); a ready run is
where the rotation starts, so leaving the rest out does not break the order (`ListTurns`), and filler does not count. The invariant `Unedited` says so
of the rows as long as nobody has edited; it needs none of the other conditions, as it speaks of the extender only.

### On-demand encodings

For any channels, entries, limits and times, from `OnDemandAssumption`: entries and channels are finitely many, `None`
is no entry, and nobody asks for an entry later than the sweeper takes it as over (`Lag <= Trailing`: the player's lag is bounded by the window that
`artifactRetentionMs` is computed from). For the feed, for any entries and ids:

| Theorem | States |
|---|---|
| `ManagerTyped` | `Spec => []TypeOK` |
| `ManagerMapsAgree` | `Spec => []MapsAgree` |
| `ManagerForgetsNothing` | `Spec => []NoOrphan` |
| `ManagerKeepsCapacity` | `Spec => []WithinCapacity` |
| `ManagerKeepsFiles` | `Spec => []ListedIsOnDisk` |
| `FeedUnique` | `EncodingFeed!Spec => []NumbersUnique`: a media sequence number of an entry names segments of one encoding only |
| `FeedImplemented` | `Spec => ImplementsFeed` |
| `ManagerNumbersUnique` | `Spec => [](Feed!OneCurrent /\ Feed!NumbersUnique)`, the manager's form of `FeedUnique` |

The invariant is `ManagerInv`. Next to types it says: what is being stopped is in one stop list and once (`StopLists`), so no
encoding is stopped twice; the index by id is the union of the channels' maps (`Indexed`), with one encoding per entry
(`OnePerEntry`), and none of it is retained or being stopped (`Apart`); what is tracked is alive (`TrackedLive`), what is being stopped has not been yet
(`StoppingLive`); an encoding is done exactly when its process has exited, and nothing is pruned that was not parsed (`RecordsAgree`); whatever runs is tracked or being stopped (`NoOrphan`); and every directory
somebody may still be pointed to exists (`OnDisk`, which also keeps the directories the sweeper is about to remove apart from both maps). Sections of the code are grouped by what they do to the maps: an encoding changes and the maps do not, encodings are
detached and handed to a stop list, and a stop ends. Capacity follows from the maps alone, as a start counts the index under the mutex that admits it.

`ManagerTyped` has bounds that types alone do not keep. The restart budget is within the number of ids because failures are counted once: the restarts counted for an
entry and the encodings that have not failed are together at most the ids given out. An encoding that is only reserved has not stalled and has not failed, and
no age passes the limit that its comparison has.

`FeedImplemented` refines `EncodingFeed` with the current encodings as the index, what playlists may list as the lists of tracked and retained
encodings, and `top` as the least of an entry's high water and the last number its current encoding has listed. Every section opens, extends, closes or prunes one
encoding of the feed, or is a stutter. `FeedUnique`'s own invariant adds that an entry has one current encoding
and that everything listed for an entry is at or below its `top` as long as an encoding of it is current or the entry is not
over; what is over is not opened again.

### The library

For any files, profiles, settings and preferences, from `MediaLibraryAssumption`. It says what the code's types say: a
stream's transfer is PQ, HLG or neither, a subtitle without a language is one in "und" (`lcingest`), and settings are of profiles.

| Theorem | States |
|---|---|
| `LibraryTyped` | `LibrarySpec => []LibraryTypeOK` |
| `LibraryForcedOnce` | `LibrarySpec => []ForcedOnce` |
| `LibraryRangeTold` | `LibrarySpec => []RangeTold`, when every profile is tagged HDR exactly if it copies or encodes HEVC (`HonestTag`), as the shipped ones are |
| `LibraryWhole` | `LibrarySpec => []WholeWhenReady`, when `ImportAlone` |
| `LibraryUnsupported` | `LibrarySpec => []UnsupportedAgrees` |

Three facts about `Renditions` alone carry what its parts agree on: `ForcedSubtitlesOnce` (`Resolve` of the packager and `BurnsForcedLanguage` of playback),
`RangeAdvertised` (the command line and the playlist's tag) and `UnsupportedIsRefused` (the packager's verdict and admission). The invariant `LibraryInv` relates the history to them: a
package directory is what some profile's settings make of some file (`OutputsMade`), recorded tracks are of a file (`TracksTaken`), and a package given up for good is one
that admission refuses (`UnsupportedRefused`). `LibraryWhole` adds `WholeInv`: nobody but the job makes the package of a running job ready, the job has compared its output with the file it started from when it does, and so
an output below a ready row that was compared with the same file is whole. Steps either withdraw something or are the worker's and the import's (`Withdraws`, `Works`).

`LibraryTyped` is about what refers to what: where there is no row, there is no package, no track and no use of the media (`Backed`). Only `RowGone` takes
the row, and it cascades; every other step that adds something finds one (`Keeps`). The ladder that playback takes over is of active profiles, whatever is
stored (`LadderServed`).

### Playback

For any media, cuts, shapes, ladders, packages, sidecars and tracks, from `PlaybackAssumption` (entries on the grid, no longer than their media, retention
covers what a request may go back) and `SubtitleAssumption` (tracks of a package differ in their stream, a sidecar is a finite set of cues):

| Theorem | States | Under |
|---|---|---|
| `PlaybackTyped` | `Spec => []PlaybackTypeOK` | |
| `PlayerCounts` | `Spec => []ItemsNumbered` | `CutsFit` |
| `DemandCounts` | `Spec => [](prefill = "on_demand" => ItemsNumbered)` | |
| `SegmentsKeepNumbers` | `Spec => NumbersStable` | `CutsFit` |
| `BeginningsGoOn` | `Spec => NeverBack` | |
| `MasterLeadsSomewhere` | `Spec => []MasterPlayable` | |
| `CuesAppear` | `Spec => []CuesInPlace` | |

`CutsFit` is of the schedule and the packages, and the checked instance satisfies it; section 5 says what happens without. An on-demand channel that is served by
encodings and the beginning of every eager playlist do not need it.

A playlist is a run of a loop, a recursive function over its passes. `RanKeeps` gives the induction: what every pass keeps holds of the playlist. The
invariants of the loop are `EagerState` and `DemandState`. The first says that every item is what its entry gives with the packages that are
counted (`EagerItem`), that the first one is on the air, and that, where the cuts fit, each item is numbered one after the one before and
the loop enters the next entry at its first segment (`EntersNext`: nothing is skipped). For this the sequence base of an entry is the base of the entry
before it and that entry's segments (`BaseNext`), and its discontinuities one more exactly where the media changes (`DiscNext`). The second says
so of encodings: a list that goes on over an entry's end has ended with it (`AtEncodingEnd`), and numbers that do not follow begin a new list.
The state behind the loop is `SchedInv` (entries are on the grid, apart from each other, and have an id each; `Sound` says that laying, shifting and deleting rows keep that) and `EncInv`
(what an encoding or a waiting request was for still has the shape of its row, wherever the row has moved: `Belongs`, `Kept`). Both hold whatever
rows are edited.

Numbers are functions of the rows counted, not of the schedule: `EagerItem(e, R, n)` is what segment `n` of row `e` is where the rows `R` count. So two polls are
compared without saying what happened in between. `HeardEager` keeps of the first that its items are those of the rows it counted, and that the first one had started; a
playlist needs no row behind its last item (`CountedUpTo`). Where two polls counted the same up to a row, the row's items are the same
(`SameItem`), and every number of a set of good rows names one segment, in the order of the segments (`EagerOrder`, `EagerWithin`): `PollsAgree`. Where the second counts
all that the first one did up to its beginning, and perhaps more, its numbers are no smaller, as the base and the changes of media only grow with the
rows (`BaseMono`, `DiscMono`, `HistoryMono`), and it begins no earlier, as the clock goes forward: `PollsGoOn`. `HeardDemand`: an item by an
encoding has that encoding's number if the encoding is still there, and otherwise a number below the base of any later encoding of the entry (`Numbered`), as a new
base is past the high-water mark.

`MasterLeadsSomewhere` looks at one pass: coverage ahead of the position means a segment to serve, a ready package has one at every position of its entry, and
what has been listed is not taken away (`ListedStays`). A request that has waited found coverage from a time that may be past: then the encoding lists
something (`CoveredEncoded`), and the playlist falls back on the latest segments where none is ahead of the clock (`EncodedServed`), so it is not empty as long as
the entry is on. Only on-demand channels wait (`WaitInv`), and an entry that is waited for keeps its media, offset and length while the row is there
(`Belongs`). `CuesAppear` needs a loop invariant of its own, `PlacedState`, which edits keep for the rows that stay (`RowsKept`): packaged items are
segments of their entries that end no later than the loop has come, so that a passage lists a segment at most once, even with encodings in between. Then exactly one track is
selected where there is any (`SelectedIs`), a reference gives its cues cut to the segment (`FetchedIs`), and a
cut cue is shown at a position of a segment by that segment's part only (`CutShown`). What the master names is what the packages in the window offer under
the first variant's profile, and of that what is not burned in (`Offered`, `BurnedIn`), so a cue on the screen is named or in the picture, and not both.

### What is only model-checked

- Liveness, and whatever speaks of ENABLED: `ProcessingEnds`, `LeaseReleased`, `QueuedIsClaimed`, `DamageRepaired`, `Reclaimed`.
- The violations of section 5 are TLC's counterexamples. The conditions of the theorems (`OneSlot`, `Timely`, `~Overlapping`, `CutsFit`, `ImportAlone` and the like) are
  needed: section 4 says what TLC finds beyond them.

Every invariant and every safety property of a passing run is stated by a theorem of this section.

## 7. Not modelled

- Encoder capabilities, statistics, previews, block ordering, changes of the schedule mode and
  filler administration; section 2 says which of them are planned.
- Sessions, passwords and API keys: each is checked within one request, and nothing else depends on them.
- Music: it shares the pipeline, but has its own ingest and packager, which keep no other state.
- The encoder event log, media-server clients, guide and IPTV pages, the web UI, metrics, logging and deployment:
  projections and I/O.
- Command lines of ffmpeg, beyond what they make of the dynamic range and of subtitles.
- The repair of schedules in `db/schedule_repair.go`, which only test fixtures call.

## 8. Running

    tlc -config pipeline_remote.cfg MCEncodePipeline
    tlc -config lineup.cfg MCChannelLineup
    tlc -config schedule.cfg MCSchedule
    tlc -config on_demand.cfg MCOnDemand
    tlc -config playback.cfg MCPlayback
    tlc -config library.cfg MCLibrary
    tlapm PackageStore_proofs.tla
    tlapm EncodePipeline_proofs.tla
    tlapm ChannelLineup_proofs.tla
    tlapm Schedule_proofs.tla
    tlapm EncodingFeed_proofs.tla
    tlapm OnDemandManager_proofs.tla
    tlapm MediaLibrary_proofs.tla
    tlapm PlaybackManifest_proofs.tla
