------------------------------ MODULE MediaLibrary ------------------------------
(***************************************************************************)
(* The history of one media id: the files that lie under the paths it is   *)
(* derived from, the row that ingest keeps of them, the rungs the packager *)
(* builds of it, the outputs on disk, and everything that changes these    *)
(* behind one another's back: rescans, edited profiles, the integrity      *)
(* check, the cleanups of the maintenance page, the import of outputs that *)
(* a lost database left behind.  What a player is told is worked out from  *)
(* the database, what it gets was decided when the output was written.     *)
(*                                                                         *)
(* The attempts, leases and retries of a package are PackageStore's; here  *)
(* a package whose attempts failed waits for a retry or a request, and one *)
(* worker runs one job.                                                    *)
(***************************************************************************)
EXTENDS Renditions

CONSTANTS
    Files,          \* names of the contents a source file may have
    Content,        \* [Files -> file]: see Renditions
    Paths,          \* paths of the same stem, so of one media id
    FirstPath,      \* the one where a file lies in the beginning
    Profiles,       \* package profiles
    Custom,         \* those of them an operator defined
    Initial,        \* [Profiles -> names of settings]
    Editions,       \* names of the settings an operator may give to a custom one
    Settings,       \* [names -> settings]: see Renditions
    Required,       \* the channel's required profile
    Default,        \* the installation's default profile
    Ladder,         \* the channel's ABR ladder, as stored
    Prefs,          \* preferred subtitle languages, {} for all
    ImportAlone,    \* packages are imported only while no encode runs
    AskedFor,       \* bound: profiles whose packages are requested by hand
    MaxMoves,       \* bound: how often the files of the source change
    MaxChanges      \* bound: how often an operator does something of his own accord

ASSUME MediaLibraryAssumption ==
    /\ None \notin Files /\ Content \in [Files -> SourceFile]
    \* A subtitle without a language is one in "und".
    /\ \A f \in Files : \A i \in OfKind(Content[f], "subtitle") : Content[f].streams[i].lang # None
    /\ None \notin DOMAIN Settings /\ Settings \in [DOMAIN Settings -> ProfileSettings]
    /\ Initial \in [Profiles -> DOMAIN Settings] /\ Editions \subseteq DOMAIN Settings
    /\ AskedFor \subseteq Profiles
    /\ Ladder \in Seq(Range(Ladder))
    /\ FirstPath \in Paths /\ Custom \subseteq Profiles /\ Required \in Profiles /\ Default \in Profiles \ Custom
    /\ ImportAlone \in BOOLEAN /\ MaxMoves \in Nat /\ MaxChanges \in Nat

VARIABLES
    disk,       \* disk[path]: the file there, None for no file
    row,        \* the media row: [path, file], file being what ingest probed
    used,       \* what refers to the row: "pooled", "scheduled"
    settings,   \* settings[profile], None when there is no such profile
    active,     \* the profiles that are not disabled
    serving,    \* the ladder the playback runtime took over at its last refresh
    pkg,        \* pkg[profile]: [status, length, source], the last two of ready ones:
                \* source is the file whose row the length was compared with
    out,        \* out[profile]: the package directory, see NoOut
    tracks,     \* tracks[profile]: [file, done], the file whose streams package_tracks
                \* describe and the streams with a sidecar
    job,        \* the worker's encode, see NoJob
    cleanup,    \* what a maintenance request or command has listed and not dealt with yet
    moves,      \* how often the files and ...
    changes     \* ... how often the operator changed something

libraryVars == <<disk, row, used, settings, active, serving, pkg, out, tracks, job, cleanup, moves, changes>>

NoRow == [path |-> None, file |-> None]
Status(s) == [status |-> s, length |-> 0, source |-> None]
NoPkg == Status(None)
NoOut == [file |-> None, settings |-> None, length |-> 0, range |-> SDR, burned |-> None, sidecars |-> {}]
NoTracks == [file |-> None, done |-> {}]
NoJob == [step |-> None, profile |-> None, path |-> None, file |-> None, settings |-> None,
          packaged |-> 0]
NothingListed == [missing |-> FALSE, orphans |-> {}, deleting |-> FALSE, short |-> {}, dirs |-> {}]
\* What of it a command of linearcast-maint holds, a process of its own.
Commanded == [NothingListed EXCEPT !.short = cleanup.short, !.dirs = cleanup.dirs]

Source == Content[row.file]
SourceLength == Source.length
Admitted == {f \in Files : Probeable(Content[f]) /\ Admit(Probe(Content[f]))}
Passed == row.file \in Admitted
\* The stored ladder under either of the profiles the channel may end up with.
Normal == [p \in {Required, Default} |-> NormalizeABRLadder(p, Ladder)]
Rungs == Range(Normal[Required])
Tracks(p) == IF tracks[p].file = None THEN {} ELSE TracksOf(Content[tracks[p].file], tracks[p].done)

\* validateLadder of the ladder of the profile that resolveChannelProfile settles on
ServedLadder ==
    LET ladder == Normal[IF Required \in active THEN Required ELSE Default]
    IN  ItemsAt(ladder, {k \in DOMAIN ladder : ladder[k] \in active})

LibraryInit ==
    /\ \E first \in Files : disk = [p \in Paths |-> IF p = FirstPath THEN first ELSE None]
    /\ row = NoRow /\ used = {}
    /\ settings = Initial /\ active = Profiles /\ serving = ServedLadder
    /\ pkg = [p \in Profiles |-> NoPkg] /\ out = [p \in Profiles |-> NoOut]
    /\ tracks = [p \in Profiles |-> NoTracks]
    /\ job = NoJob /\ cleanup = NothingListed /\ moves = 0 /\ changes = 0

Moved == moves < MaxMoves /\ moves' = moves + 1
Change == changes < MaxChanges /\ changes' = changes + 1

-------------------------------------------------------------------------------
(* The disk and the row                                                    *)

\* EXTERNAL: the file is replaced or removed, or one is put where there was none.
FileChanges(path, f) ==
    /\ Moved /\ disk[path] # f
    /\ \A other \in Paths \ {path} : disk[other] = None
    /\ disk' = [disk EXCEPT ![path] = f]
    /\ UNCHANGED <<row, used, settings, active, serving, pkg, out, tracks, job, cleanup, changes>>

\* EXTERNAL: it is renamed within its stem.
FileMoves(from, to) ==
    /\ Moved /\ from # to /\ disk[from] # None
    /\ disk' = [disk EXCEPT ![from] = None, ![to] = disk[from]]
    /\ UNCHANGED <<row, used, settings, active, serving, pkg, out, tracks, job, cleanup, changes>>

\* A file that cannot be probed leaves the row as it was; packages are not looked at.
Scan(path) ==
    /\ disk[path] # None /\ Probeable(Content[disk[path]])
    /\ row' = [path |-> path, file |-> disk[path]] /\ row' # row
    /\ UNCHANGED <<disk, used, settings, active, serving, pkg, out, tracks, job, cleanup, moves, changes>>

\* A channel takes the media into its pool or its schedule, or lets it go.
Refer(u) ==
    /\ row # NoRow /\ u \notin used
    /\ u = "scheduled" => "pooled" \in used /\ pkg[Required].status = "ready"
    /\ used' = used \cup {u}
    /\ UNCHANGED <<disk, row, settings, active, serving, pkg, out, tracks, job, cleanup, moves, changes>>
Release(u) ==
    /\ u \in used
    /\ used' = used \ {u}
    /\ UNCHANGED <<disk, row, settings, active, serving, pkg, out, tracks, job, cleanup, moves, changes>>

\* Mutant: the packages do not fall with it.
RowGoneAlone == row' = NoRow /\ used' = {} /\ UNCHANGED <<pkg, tracks>>

\* What falls with the row by the cascades of the schema.
RowGone ==
    /\ row' = NoRow /\ used' = {}
    /\ pkg' = [p \in Profiles |-> NoPkg] /\ tracks' = [p \in Profiles |-> NoTracks]

-------------------------------------------------------------------------------
(* The packager                                                            *)

\* A failed attempt that was not terminal is retried.
Retry(p) ==
    /\ pkg[p].status = "failed"
    /\ pkg' = [pkg EXCEPT ![p] = Status("pending")]
    /\ UNCHANGED <<disk, row, used, settings, active, serving, out, tracks, job, cleanup, moves, changes>>

\* RequestMediaPackages
Queue(p) ==
    /\ p \in active /\ Passed /\ pkg[p].status \in {None, "failed", "unsupported"}
    /\ pkg' = [pkg EXCEPT ![p] = Status("pending")]
    /\ UNCHANGED <<disk, row, used, settings, active, serving, out, tracks, job, cleanup, moves, changes>>

\* handleMediaPackage refuses a copy that drops a forced bitmap of the file there now.
DropsForced(p) ==
    Settings[settings[p]].mode = "copy" /\ disk[row.path] # None /\ ForcedBitmap(Content[disk[row.path]])
Request(p) == Queue(p) /\ ~DropsForced(p)

\* handleChannelProfileMigrationQueue does not.
QueueMigration(p) == "pooled" \in used /\ Queue(p)

\* DiscoverCandidates: what the channel needs in the order of its ladder, and then
\* what else is pending.
Rung(k) == Normal[Required][k]
Needed ==
    {k \in DOMAIN Normal[Required] : Rung(k) \in active /\ pkg[Rung(k)].status \in {None, "pending"}}
Candidates ==
    IF ~Passed THEN {}
    ELSE IF "pooled" \in used /\ Needed # {}
         THEN {Rung(k) : k \in {k \in Needed : \A j \in Needed : k <= j}}
         ELSE {p \in active : pkg[p].status = "pending"}

\* claimNext and the head of PackageOne
StartJob(p) ==
    /\ job = NoJob /\ p \in Candidates
    /\ job' = [NoJob EXCEPT !.step = "encode", !.profile = p, !.path = row.path, !.file = row.file,
                            !.settings = settings[p]]
    /\ pkg' = [pkg EXCEPT ![p] = Status("processing")]
    /\ UNCHANGED <<disk, row, used, settings, active, serving, out, tracks, cleanup, moves, changes>>

\* recordFailureIfStillProcessing
JobFails(new) ==
    pkg' = IF pkg[job.profile].status = "processing" THEN [pkg EXCEPT ![job.profile] = new] ELSE pkg

Unfit(f) == IF f = None THEN "unsuitable" ELSE Verdict(Content[f], Settings[job.settings])

\* The source is gone, or not for this profile, or ffmpeg fails on it.
EncodeFails ==
    /\ job.step = "encode"
    /\ JobFails(IF Unfit(disk[job.path]) = "unsupported"
                THEN [Status("unsupported") EXCEPT !.source = disk[job.path]] ELSE Status("failed"))
    /\ job' = NoJob
    /\ UNCHANGED <<disk, row, used, settings, active, serving, out, tracks, cleanup, moves, changes>>

\* An encode that was killed or ran out of input has written less than the whole.
Encode(cut) ==
    LET f == disk[job.path]
        s == Settings[job.settings]
    IN  /\ job.step = "encode" /\ Unfit(f) = "ok"
        /\ \E range \in OutputRanges(Content[f], s) :
               out' = [out EXCEPT ![job.profile] =
                          [file |-> f, settings |-> job.settings, range |-> range,
                           length |-> IF cut THEN Content[f].length \div 2 ELSE Content[f].length,
                           burned |-> BurnedLanguage(Content[f], s), sidecars |-> {}]]
        /\ job' = [job EXCEPT !.step = "finalize"]
        /\ UNCHANGED <<disk, row, used, settings, active, serving, pkg, tracks, cleanup, moves, changes>>

\* extractSubtitleTracks: of the streams of the file that is there now; a sidecar that
\* is there already stays what it was.  Any one extraction may fail.
Extract(p, path) ==
    IF disk[path] = None
    THEN UNCHANGED <<out, tracks>>
    ELSE LET wanted == Wanted(Content[disk[path]], Prefs)
         IN  \E done \in SUBSET wanted :
                /\ wanted \cap out[p].sidecars \subseteq done
                /\ tracks' = [tracks EXCEPT ![p] = [file |-> disk[path], done |-> done]]
                /\ out' = [out EXCEPT ![p].sidecars = @ \cup done]

FinalizeFails ==
    /\ job.step = "finalize"
    /\ \/ out[job.profile] = NoOut \/ pkg[job.profile] = NoPkg
       \/ Truncated(out[job.profile].length, Content[job.file].length)
    /\ JobFails(Status("failed"))
    /\ job' = NoJob
    /\ UNCHANGED <<disk, row, used, settings, active, serving, out, tracks, cleanup, moves, changes>>

\* Mutant: any length will do.
FinalizeAnyLength ==
    /\ job.step = "finalize" /\ out[job.profile] # NoOut /\ pkg[job.profile] # NoPkg
    /\ Extract(job.profile, job.path)
    /\ job' = [job EXCEPT !.step = "ready", !.packaged = out[job.profile].length]
    /\ UNCHANGED <<disk, row, used, settings, active, serving, pkg, cleanup, moves, changes>>

\* FinalizePackage: the length is compared with the row's at the start of the job.
Finalize ==
    /\ job.step = "finalize" /\ out[job.profile] # NoOut /\ pkg[job.profile] # NoPkg
    /\ ~Truncated(out[job.profile].length, Content[job.file].length)
    /\ Extract(job.profile, job.path)
    /\ job' = [job EXCEPT !.step = "ready", !.packaged = out[job.profile].length]
    /\ UNCHANGED <<disk, row, used, settings, active, serving, pkg, cleanup, moves, changes>>

\* MarkPackageReady
Ready ==
    /\ job.step = "ready"
    /\ pkg' = IF pkg[job.profile].status = "processing"
              THEN [pkg EXCEPT ![job.profile] =
                       [status |-> "ready", length |-> job.packaged, source |-> job.file]]
              ELSE pkg
    /\ job' = NoJob
    /\ UNCHANGED <<disk, row, used, settings, active, serving, out, tracks, cleanup, moves, changes>>

\* monitorPackageCancellation: the row is no longer this job's.
JobCancelled ==
    /\ job # NoJob /\ pkg[job.profile].status # "processing"
    /\ job' = NoJob
    /\ UNCHANGED <<disk, row, used, settings, active, serving, pkg, out, tracks, cleanup, moves, changes>>

Broken(p) ==
    pkg[p].status = "ready" /\ (out[p] = NoOut \/ Truncated(pkg[p].length, SourceLength))

CheckReadyPackageIntegrity(p) ==
    /\ Broken(p)
    /\ pkg' = [pkg EXCEPT ![p] = Status("pending")]
    /\ UNCHANGED <<disk, row, used, settings, active, serving, out, tracks, job, cleanup, moves, changes>>

\* The process stops in an encode and starts again: recoverOrphans, the integrity
\* check of every package, and the ladders are read anew.
Restart ==
    /\ job # NoJob
    /\ pkg' = [p \in Profiles |->
                  IF Broken(p) \/ pkg[p].status = "processing" THEN Status("pending") ELSE pkg[p]]
    /\ job' = NoJob /\ cleanup' = Commanded /\ serving' = ServedLadder
    /\ UNCHANGED <<disk, row, used, settings, active, out, tracks, moves, changes>>

-------------------------------------------------------------------------------
(* The operator                                                            *)

\* Built-in profiles are not edited, disabled ones are read-only, and one that does
\* not exist is created.
UpdateProfile(p, s) ==
    /\ Change /\ p \in Custom /\ (p \in active \/ settings[p] = None) /\ settings[p] # s
    /\ settings' = [settings EXCEPT ![p] = s] /\ active' = active \cup {p}
    /\ UNCHANGED <<disk, row, used, serving, pkg, out, tracks, job, cleanup, moves>>

\* Deleting a profile that is referred to disables it.
DisableProfile(p) ==
    /\ Change /\ p \in active
    /\ active' = active \ {p}
    /\ settings' = IF p \in Custom /\ p \notin Rungs /\ pkg[p].status = None
                   THEN [settings EXCEPT ![p] = None] ELSE settings
    /\ UNCHANGED <<disk, row, used, serving, pkg, out, tracks, job, cleanup, moves>>

EnableProfile(p) ==
    /\ settings[p] # None /\ p \notin active
    /\ active' = active \cup {p}
    /\ UNCHANGED <<disk, row, used, settings, serving, pkg, out, tracks, job, cleanup, moves, changes>>

RefreshChannels ==
    /\ serving # ServedLadder
    /\ serving' = ServedLadder
    /\ UNCHANGED <<disk, row, used, settings, active, pkg, out, tracks, job, cleanup, moves, changes>>

\* handleMaintenanceMissingMedia looks at the disk, and then deletes by id.
ListMissing ==
    /\ Change /\ row # NoRow /\ disk[row.path] = None
    /\ cleanup' = [cleanup EXCEPT !.missing = TRUE]
    /\ UNCHANGED <<disk, row, used, settings, active, serving, pkg, out, tracks, job, moves>>
DeleteMissing ==
    /\ cleanup.missing
    /\ RowGone
    /\ cleanup' = [cleanup EXCEPT !.missing = FALSE]
    /\ UNCHANGED <<disk, settings, active, serving, out, job, moves, changes>>

\* handleMaintenanceOrphanPackages: packages of media in no schedule, and package
\* directories without a package.
ListOrphans ==
    LET orphans == {p \in Profiles : IF pkg[p] = NoPkg THEN out[p] # NoOut ELSE "scheduled" \notin used}
    IN  /\ Change /\ orphans # {}
        /\ cleanup' = [cleanup EXCEPT !.orphans = {[profile |-> p, isRow |-> pkg[p] # NoPkg] : p \in orphans}]
        /\ UNCHANGED <<disk, row, used, settings, active, serving, pkg, out, tracks, job, moves>>
DeleteOrphan(o) ==
    /\ o \in cleanup.orphans
    /\ \/ out' = [out EXCEPT ![o.profile] = NoOut]
       \/ o.isRow /\ UNCHANGED out
    /\ pkg' = IF o.isRow THEN [pkg EXCEPT ![o.profile] = NoPkg] ELSE pkg
    /\ tracks' = IF o.isRow THEN [tracks EXCEPT ![o.profile] = NoTracks] ELSE tracks
    /\ cleanup' = [cleanup EXCEPT !.orphans = @ \ {o}]
    /\ UNCHANGED <<disk, row, used, settings, active, serving, job, moves, changes>>

\* Which of the packages have a directory on record: a pending one may have none yet.
Rooted(S) == {R \in SUBSET S : \A p \in S \ R : pkg[p].status = "pending"}

\* handleMediaDelete: the files go first, and then a channel may refuse the row.
DeleteMediaFiles ==
    /\ Change /\ row # NoRow /\ used = {} /\ ~cleanup.deleting
    /\ \E R \in Rooted({p \in Profiles : pkg[p] # NoPkg}) :
          out' = [p \in Profiles |-> IF p \in R THEN NoOut ELSE out[p]]
    /\ cleanup' = [cleanup EXCEPT !.deleting = TRUE]
    /\ UNCHANGED <<disk, row, used, settings, active, serving, pkg, tracks, job, moves>>
DeleteMediaRow ==
    /\ cleanup.deleting
    /\ IF "scheduled" \in used THEN UNCHANGED <<row, used, pkg, tracks>> ELSE RowGone
    /\ cleanup' = [cleanup EXCEPT !.deleting = FALSE]
    /\ UNCHANGED <<disk, settings, active, serving, out, job, moves, changes>>

\* linearcast-maint audit-duration --fix lists what is too short, and then requeues it.
AuditDuration ==
    LET short == {p \in Profiles : pkg[p].status = "ready" /\ Truncated(pkg[p].length, SourceLength)}
    IN  /\ Change /\ short # {}
        /\ cleanup' = [cleanup EXCEPT !.short = @ \cup short]
        /\ UNCHANGED <<disk, row, used, settings, active, serving, pkg, out, tracks, job, moves>>
RequeueShort(p) ==
    /\ p \in cleanup.short
    /\ pkg' = IF pkg[p].status = "ready" THEN [pkg EXCEPT ![p] = Status("pending")] ELSE pkg
    /\ cleanup' = [cleanup EXCEPT !.short = @ \ {p}]
    /\ UNCHANGED <<disk, row, used, settings, active, serving, out, tracks, job, moves, changes>>

\* linearcast-maint delete-encode --force: the rows go first, and then their directories.
DeleteEncode(S) ==
    /\ Change /\ S # {} /\ \A p \in S : pkg[p] # NoPkg
    /\ pkg' = [p \in Profiles |-> IF p \in S THEN NoPkg ELSE pkg[p]]
    /\ tracks' = [p \in Profiles |-> IF p \in S THEN NoTracks ELSE tracks[p]]
    /\ \E R \in Rooted(S) : cleanup' = [cleanup EXCEPT !.dirs = @ \cup R]
    /\ UNCHANGED <<disk, row, used, settings, active, serving, out, job, moves>>
RemoveDirectory(p) ==
    /\ p \in cleanup.dirs
    /\ out' = [out EXCEPT ![p] = NoOut]
    /\ cleanup' = [cleanup EXCEPT !.dirs = @ \ {p}]
    /\ UNCHANGED <<disk, row, used, settings, active, serving, pkg, tracks, job, moves, changes>>

\* The database is lost; the directories are not.
LoseDatabase ==
    /\ Change /\ row # NoRow
    /\ RowGone
    /\ settings' = [p \in Profiles |-> IF p \in Custom THEN None ELSE Initial[p]]
    /\ active' = Profiles \ Custom
    /\ serving' = ServedLadder'
    /\ job' = NoJob /\ cleanup' = [NothingListed EXCEPT !.dirs = cleanup.dirs]
    /\ UNCHANGED <<disk, out, moves>>

\* ImportPackages: rebuildPackage of one directory
ImportPackage(p) ==
    /\ ImportAlone => job = NoJob
    /\ row # NoRow /\ p \in active /\ pkg[p].status # "ready" /\ out[p] # NoOut
    /\ IF Truncated(out[p].length, SourceLength)
       THEN /\ pkg' = [pkg EXCEPT ![p] = Status("failed")]
            /\ UNCHANGED <<out, tracks>>
       ELSE /\ Extract(p, row.path)
            /\ pkg' = [pkg EXCEPT ![p] = [status |-> "ready", length |-> out[p].length, source |-> row.file]]
    /\ UNCHANGED <<disk, row, used, settings, active, serving, job, cleanup, moves, changes>>

-------------------------------------------------------------------------------
LibraryNext ==
    \/ \E path \in Paths, f \in Files \cup {None} : FileChanges(path, f)
    \/ \E from, to \in Paths : FileMoves(from, to)
    \/ \E path \in Paths : Scan(path)
    \/ \E u \in {"pooled", "scheduled"} : Refer(u) \/ Release(u)
    \/ \E p \in AskedFor : Request(p) \/ QueueMigration(p)
    \/ \E p \in Profiles :
          \/ Retry(p) \/ StartJob(p) \/ CheckReadyPackageIntegrity(p)
          \/ DisableProfile(p) \/ EnableProfile(p) \/ ImportPackage(p)
          \/ RequeueShort(p) \/ RemoveDirectory(p)
    \/ \E p \in Profiles, s \in Editions : UpdateProfile(p, s)
    \/ \E cut \in BOOLEAN : Encode(cut)
    \/ EncodeFails \/ Finalize \/ FinalizeFails \/ Ready \/ JobCancelled \/ Restart
    \/ RefreshChannels \/ ListMissing \/ DeleteMissing
    \/ AuditDuration \/ \E S \in SUBSET Profiles : DeleteEncode(S)
    \/ ListOrphans \/ \E o \in cleanup.orphans : DeleteOrphan(o)
    \/ DeleteMediaFiles \/ DeleteMediaRow \/ LoseDatabase

LibrarySpec == LibraryInit /\ [][LibraryNext]_libraryVars

-------------------------------------------------------------------------------
(* Properties                                                              *)

SettingsNames == Range(Initial) \cup Editions \cup {None}
FileNames == Files \cup {None}
Statuses == {None, "pending", "processing", "ready", "failed", "unsupported"}

\* Every variable has its type, and what hangs on the media row exists only with it.
LibraryTypeOK ==
    /\ disk \in [Paths -> FileNames]
    /\ row = NoRow \/ row \in [path: Paths, file: Files]
    /\ used \subseteq {"pooled", "scheduled"}
    /\ settings \in [Profiles -> SettingsNames]
    /\ active \subseteq Profiles /\ (\A p \in active : settings[p] # None) /\ Range(serving) \subseteq Profiles
    /\ pkg \in [Profiles -> [status: Statuses, length: Nat, source: FileNames]]
    /\ \A p \in Profiles :
          /\ out[p] # NoOut => out[p].file \in Files /\ out[p].settings # None
          /\ tracks[p].file \in FileNames /\ tracks[p].done \subseteq (IF tracks[p].file = None THEN {} ELSE DOMAIN Content[tracks[p].file].streams)
          /\ (pkg[p] # NoPkg \/ tracks[p] # NoTracks \/ used # {}) => row # NoRow
    /\ job.step \in {None, "encode", "finalize", "ready"} /\ (job # NoJob <=> job.step # None)
    /\ moves \in 0..MaxMoves /\ changes \in 0..MaxChanges

\* What the database says of a package is about the output it stands for: the file,
\* the settings and the tracks have not changed since.
Current(p) ==
    /\ pkg[p].status = "ready" /\ p \in active /\ out[p] # NoOut
    /\ out[p].file = row.file /\ out[p].settings = settings[p] /\ tracks[p].file = out[p].file

Variants == SelectSeq(serving, LAMBDA p : pkg[p].status = "ready")

\* A forced subtitle with a sidecar reaches the viewer of the first variant once:
\* burned into the picture or advertised as a forced rendition, never both and never
\* neither, although the packager decides the one from the file's streams and the
\* master playlist the other from the profile and the stored tracks.
ForcedOnce ==
    Variants # <<>> /\ Current(Head(Variants)) =>
        LET p == Head(Variants)
            told == ForcedRenditions(Tracks(p), Settings[settings[p]])
        IN  /\ out[p].burned \notin told
            /\ \A t \in Tracks(p) : t.forced /\ t.path => t.lang \in told \cup {out[p].burned}

\* What VIDEO-RANGE tells of a variant with nothing burned in is the range of its
\* segments: the row's color_transfer, chosen by ingest among the file's streams, with
\* the profile's tag agrees with what ffmpeg was told to write.
RangeOf(p) == HdrVideoRange(Probe(Source), Settings[settings[p]])
RangeTold ==
    \A p \in Range(Variants) : Current(p) /\ out[p].burned = None => RangeOf(p) = out[p].range

\* A ready package whose length was compared with the row of the file it was made of,
\* and whose row is still that file's, is whole, however often the encoder was killed,
\* the output imported and the file replaced and put back.
WholeWhenReady ==
    \A p \in Profiles :
        pkg[p].status = "ready" /\ out[p] # NoOut /\ row.file = out[p].file /\ pkg[p].source = out[p].file
            => ~Truncated(out[p].length, SourceLength)

\* A file the packager gives up for good is one the codec policy, which saw it through
\* ingest, refuses: rescanned, its media is no longer taken for a candidate.
UnsupportedAgrees ==
    \A p \in Profiles : pkg[p].status = "unsupported" /\ pkg[p].source = row.file => ~Passed
================================================================================
