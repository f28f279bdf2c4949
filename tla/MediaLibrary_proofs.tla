------------------------ MODULE MediaLibrary_proofs ------------------------
(***************************************************************************)
(* Theorems about Renditions and MediaLibrary for any files, paths,        *)
(* profiles and settings.                                                  *)
(*                                                                         *)
(* What the packager decides when it writes an output is kept as an        *)
(* invariant of the output (OutputsMade, TracksTaken), so that comparing   *)
(* it with what playback works out later is a fact about Renditions alone. *)
(* Most actions only withdraw something (Withdraws); the few that add to   *)
(* the outputs have a step of their own.                                   *)
(***************************************************************************)
EXTENDS MediaLibrary, WellFoundedInduction, TLAPS

-----------------------------------------------------------------------------
(* The least and the greatest of some stream indexes.                      *)

LEMMA LeastNat ==
    ASSUME NEW S, S \subseteq Nat, S # {}
    PROVE  \E x \in S : \A y \in S : x <= y
<1>1. PICK x \in S : \A y \in S : <<y, x>> \notin OpToRel(<, Nat)
  BY WFMin, NatLessThanWellFounded, Zenon
<1>2. \A y \in S : ~(y < x)
  BY <1>1, Zenon DEF OpToRel
<1>3. \A y \in S : x \in Int /\ y \in Int
  OBVIOUS
<1> QED
  BY <1>2, <1>3

LEMMA MinMember ==
    ASSUME NEW S, S \subseteq Nat, S # {}
    PROVE  Min(S) \in S
BY LeastNat DEF Min

LEMMA MaxMember ==
    ASSUME NEW n \in Nat, NEW S, S \subseteq 1..n, S # {}
    PROVE  Max(S) \in S
<1> DEFINE T == {n - x : x \in S}
<1>1. T \subseteq Nat /\ T # {}
  <2>1. \A x \in S : n - x \in Nat
    OBVIOUS
  <2> QED
    BY <2>1
<1> HIDE DEF T
<1>2. PICK t \in T : \A u \in T : t <= u
  BY <1>1, LeastNat
<1>3. PICK x \in S : t = n - x
  BY <1>2 DEF T
<1>4. \A y \in S : x >= y
  <2> TAKE y \in S
  <2>1. n - y \in T
    BY DEF T
  <2>2. n - x <= n - y
    BY <1>2, <1>3, <2>1
  <2> QED
    BY <2>2
<1> QED
  BY <1>4 DEF Max

-----------------------------------------------------------------------------
(* Renditions.                                                             *)

\* A file that has both a picture and sound has a selected video stream.
LEMMA VideoIsStream ==
    ASSUME NEW f \in SourceFile, HasBoth(f)
    PROVE  Video(f) \in SourceStream
<1> DEFINE S == Videos(f)
           n == Len(f.streams)
<1>1. f.streams \in Seq(SourceStream) /\ n \in Nat /\ DOMAIN f.streams = 1..n
  BY DEF SourceFile
<1>2. S \subseteq 1..n /\ S # {}
  BY <1>1 DEF Videos, OfKind, HasBoth
<1>3. Preferred(f, S) \subseteq S
  BY DEF Preferred
<1> HIDE DEF S, n
<1>4. S \subseteq Nat
  BY <1>1, <1>2
<1>5. Min(S) \in S
  BY <1>2, <1>4, MinMember
<1>6. Preferred(f, S) # {} => Max(Preferred(f, S)) \in Preferred(f, S)
  BY <1>1, <1>2, <1>3, MaxMember
<1>7. Selected(f, S) \in 1..n
  BY <1>2, <1>3, <1>5, <1>6 DEF Selected
<1> QED
  BY <1>1, <1>7 DEF Video, S

\* Resolve finds a stream whenever a forced one of the language exists.
LEMMA ResolveFinds ==
    ASSUME NEW f \in SourceFile, NEW s, s.burns # None, s.mode = "transcode", ForcedIn(f, s.burns) # {}
    PROVE  BurnedLanguage(f, s) = s.burns
<1> DEFINE F == ForcedIn(f, s.burns)
           B == BitmapsOf(f, F)
<1>1. DOMAIN f.streams \subseteq Nat \ {0}
  BY DEF SourceFile
<1>2. F \subseteq Nat \ {0} /\ B \subseteq F /\ F # {}
  BY <1>1 DEF ForcedIn, OfKind, BitmapsOf
<1> HIDE DEF F, B
<1>3. F \subseteq Nat /\ B \subseteq Nat
  BY <1>2
<1>4. Min(F) \in F
  BY <1>2, <1>3, MinMember
<1>5. B # {} => Min(B) \in B
  BY <1>3, MinMember
<1>6. Resolve(f, s) = IF B # {} THEN Min(B) ELSE Min(F)
  BY <1>2 DEF Resolve, F, B
<1>7. Resolve(f, s) # 0
  BY <1>2, <1>4, <1>5, <1>6
<1> QED
  BY <1>7 DEF BurnedLanguage

\* What is burned in is the language of a profile that burns.
LEMMA BurnedByProfile ==
    ASSUME NEW f, NEW s, BurnedLanguage(f, s) # None
    PROVE  BurnedLanguage(f, s) = s.burns /\ s.burns # None /\ s.mode = "transcode"
BY DEF BurnedLanguage, Resolve

\* Every forced sidecar of an output is burned in or advertised, and never both: the
\* packager's Resolve and playback's BurnsForcedLanguage agree on it, whatever subset of
\* the wanted streams was extracted.
THEOREM ForcedSubtitlesOnce ==
    ASSUME NEW f \in SourceFile, NEW s, NEW prefs, NEW done \in SUBSET Wanted(f, prefs),
           \A i \in OfKind(f, "subtitle") : f.streams[i].lang # None
    PROVE  LET told == ForcedRenditions(TracksOf(f, done), s)
           IN  /\ BurnedLanguage(f, s) \notin told
               /\ \A t \in TracksOf(f, done) :
                     t.forced /\ t.path => t.lang \in told \cup {BurnedLanguage(f, s)}
<1> DEFINE T == TracksOf(f, done)
           told == ForcedRenditions(T, s)
           burned == BurnedLanguage(f, s)
<1>1. \A t \in T : t.path => \E i \in done : t = Track(f, i, TRUE)
  BY DEF TracksOf, Track
<1>2. \A i \in done : i \in OfKind(f, "subtitle")
  BY DEF Wanted
<1>3. \A t \in T : t.path => t.lang # None
  BY <1>1, <1>2 DEF Track
<1>4. \A l \in told : /\ \E t \in T : t.path /\ t.lang = l
                      /\ ~BurnsForcedLanguage(s, l)
  BY DEF ForcedRenditions
<1>5. burned \notin told
  <2>1. CASE burned = None
    BY <1>3, <1>4, <2>1
  <2>2. CASE burned # None
    <3>1. BurnsForcedLanguage(s, burned)
      BY <2>2, BurnedByProfile DEF BurnsForcedLanguage
    <3> QED
      BY <1>4, <3>1
  <2> QED
    BY <2>1, <2>2
<1>6. ASSUME NEW t \in T, t.forced, t.path
      PROVE  t.lang \in told \cup {burned}
  <2>1. CASE ~BurnsForcedLanguage(s, t.lang)
    BY <1>6, <2>1 DEF ForcedRenditions
  <2>2. CASE BurnsForcedLanguage(s, t.lang)
    <3>1. PICK i \in done : t = Track(f, i, TRUE)
      BY <1>1, <1>6
    <3>2. i \in ForcedIn(f, t.lang)
      BY <1>2, <1>6, <3>1 DEF Track, ForcedIn
    <3>3. s.burns = t.lang /\ s.mode = "transcode" /\ s.burns # None
      BY <1>3, <1>6, <2>2 DEF BurnsForcedLanguage
    <3>4. ForcedIn(f, s.burns) # {}
      BY <3>2, <3>3
    <3> QED
      BY <3>3, <3>4, ResolveFinds
  <2> QED
    BY <2>1, <2>2
<1> QED
  BY <1>5, <1>6

\* A profile is tagged hdr exactly when its command line keeps the dynamic range, as
\* every profile of packageprofile/profile.go is.
HonestTag(s) == s.hdr <=> s.mode = "copy" \/ IsHEVCEncoder(s.codec)

\* Where nothing is burned in, the advertised range is the one that is written.
THEOREM RangeAdvertised ==
    ASSUME NEW f \in SourceFile, HasBoth(f), NEW s, HonestTag(s),
           BurnedLanguage(f, s) = None, NEW range \in OutputRanges(f, s)
    PROVE  HdrVideoRange(Probe(f), s) = range
<1>1. Video(f).transfer \in {"pq", "hlg", SDR}
  BY VideoIsStream DEF SourceStream
<1>2. Probe(f).transfer = Video(f).transfer
  BY DEF Probe, ProbedVideo, Video
<1>3. Resolve(f, s) = 0
  BY DEF BurnedLanguage, Resolve
<1>4. range = IF s.mode = "copy" \/ IsHEVCEncoder(s.codec) THEN Video(f).transfer ELSE SDR
  BY <1>3 DEF OutputRanges
<1> QED
  BY <1>1, <1>2, <1>4 DEF HdrVideoRange, IsHDRTransfer, HonestTag, SDR

\* What the packager gives up for good, admission refuses.
THEOREM UnsupportedIsRefused ==
    ASSUME NEW f, NEW s, Verdict(f, s) = "unsupported"
    PROVE  ~Admit(Probe(f))
<1>1. IsDolbyVisionProfile5(Video(f).tag)
  BY DEF Verdict
<1>2. Probe(f).tag = Video(f).tag
  BY DEF Probe, ProbedVideo, Video
<1> QED
  BY <1>1, <1>2 DEF Admit

-----------------------------------------------------------------------------
(* The invariant.                                                          *)

Package == [status : Statuses, length : Nat, source : FileNames]
Languages == {Settings[n].burns : n \in DOMAIN Settings} \cup {None}
Output ==
    [file : FileNames, settings : DOMAIN Settings \cup {None}, length : Nat,
     range : {"pq", "hlg", SDR}, burned : Languages, sidecars : SUBSET Nat]
Job ==
    [step : {"encode", "finalize", "ready"}, profile : Profiles, path : Paths, file : Files,
     settings : DOMAIN Settings, packaged : Nat]

LibraryTypes ==
    /\ disk \in [Paths -> FileNames]
    /\ row = NoRow \/ row \in [path : Paths, file : Files]
    /\ settings \in [Profiles -> DOMAIN Settings \cup {None}]
    /\ active \subseteq Profiles /\ \A p \in active : settings[p] # None
    /\ pkg \in [Profiles -> Package]
    /\ out \in [Profiles -> Output]
    /\ tracks \in [Profiles -> [file : FileNames, done : SUBSET Nat]]
    /\ job = NoJob \/ job \in Job

\* What the packager decided when it wrote an output.
OutputsMade ==
    \A p \in Profiles : out[p] # NoOut =>
        /\ out[p].file \in Files /\ out[p].settings \in DOMAIN Settings
        /\ HasBoth(Content[out[p].file])
        /\ out[p].burned = BurnedLanguage(Content[out[p].file], Settings[out[p].settings])
        /\ out[p].range \in OutputRanges(Content[out[p].file], Settings[out[p].settings])

TracksTaken ==
    \A p \in Profiles : tracks[p].file # None =>
        tracks[p].file \in Files /\ tracks[p].done \subseteq Wanted(Content[tracks[p].file], Prefs)

UnsupportedRefused ==
    \A p \in Profiles : pkg[p].status = "unsupported" => pkg[p].source \notin Admitted

LibraryInv == LibraryTypes /\ OutputsMade /\ TracksTaken /\ UnsupportedRefused

\* Most steps add nothing: what changes is emptied, queued again or failed.
Withdraws ==
    /\ \A p \in Profiles :
          /\ pkg'[p] = pkg[p] \/ pkg'[p].status \in {None, "pending", "failed"}
          /\ out'[p] \in {out[p], NoOut}
          /\ tracks'[p] \in {tracks[p], NoTracks}
    /\ job' \in {job, NoJob}

\* The others work on a package.
Works ==
    \/ \E p \in Profiles : StartJob(p) \/ ImportPackage(p)
    \/ \E cut \in BOOLEAN : Encode(cut)
    \/ EncodeFails \/ Finalize \/ Ready

-----------------------------------------------------------------------------
(* Types.                                                                  *)

LEMMA EmptyTyped ==
    /\ NoPkg \in Package /\ NoOut \in Output
    /\ NoTracks \in [file : FileNames, done : SUBSET Nat]
    /\ \A s \in Statuses : Status(s) \in Package
<1>1. \A s \in Statuses : Status(s) \in Package
  BY DEF Status, Package, FileNames
<1>2. None \in Statuses /\ None \in Languages
  BY DEF Statuses, Languages
<1>3. NoPkg \in Package
  BY <1>1, <1>2 DEF NoPkg
<1>4. NoOut \in Output
  BY <1>2 DEF NoOut, Output, FileNames
<1>5. NoTracks \in [file : FileNames, done : SUBSET Nat]
  BY DEF NoTracks, FileNames
<1> QED
  BY <1>1, <1>3, <1>4, <1>5

LEMMA ContentTyped ==
    ASSUME NEW f \in Files
    PROVE  Content[f] \in SourceFile /\ f # None
BY MediaLibraryAssumption

LEMMA WantedTyped ==
    ASSUME NEW f \in Files, NEW prefs
    PROVE  Wanted(Content[f], prefs) \in SUBSET Nat
<1>1. DOMAIN Content[f].streams \subseteq Nat
  BY ContentTyped DEF SourceFile
<1> QED
  BY <1>1 DEF Wanted, OfKind

LEMMA OutputTyped ==
    ASSUME NEW f \in Files, HasBoth(Content[f]), NEW n \in DOMAIN Settings
    PROVE  /\ BurnedLanguage(Content[f], Settings[n]) \in Languages
           /\ OutputRanges(Content[f], Settings[n]) \subseteq {"pq", "hlg", SDR}
<1>1. Video(Content[f]).transfer \in {"pq", "hlg", SDR}
  BY ContentTyped, VideoIsStream DEF SourceStream
<1>3. BurnedLanguage(Content[f], Settings[n]) \in Languages
  BY DEF BurnedLanguage, Languages
<1>2. \A i : BurnRanges(Content[f], i) \subseteq {"pq", "hlg", SDR}
  BY <1>1 DEF BurnRanges
<1>4. OutputRanges(Content[f], Settings[n]) \subseteq {"pq", "hlg", SDR}
  BY <1>1, <1>2 DEF OutputRanges
<1> QED
  BY <1>3, <1>4

\* The extraction of subtitles leaves an output what it was, but for the sidecars.
LEMMA ExtractKeeps ==
    ASSUME LibraryTypes, TracksTaken, NEW p \in Profiles, NEW path \in Paths, Extract(p, path)
    PROVE  /\ out' \in [Profiles -> Output]
           /\ tracks' \in [Profiles -> [file : FileNames, done : SUBSET Nat]]
           /\ TracksTaken'
           /\ \E sidecars : out' = [out EXCEPT ![p].sidecars = sidecars]
<1>1. CASE disk[path] = None
  <2>1. out' = out /\ tracks' = tracks
    BY <1>1 DEF Extract
  <2>2. out = [out EXCEPT ![p].sidecars = out[p].sidecars]
    BY DEF LibraryTypes, Output
  <2> QED
    BY <2>1, <2>2 DEF LibraryTypes, TracksTaken
<1>2. CASE disk[path] # None
  <2> DEFINE f == disk[path]
  <2>1. f \in Files
    BY <1>2 DEF LibraryTypes, FileNames
  <2>2. PICK done \in SUBSET Wanted(Content[f], Prefs) :
           /\ tracks' = [tracks EXCEPT ![p] = [file |-> f, done |-> done]]
           /\ out' = [out EXCEPT ![p].sidecars = out[p].sidecars \cup done]
    BY <1>2 DEF Extract
  <2> HIDE DEF f
  <2>3. done \in SUBSET Nat
    BY <2>1, <2>2, WantedTyped
  <2>4. out' \in [Profiles -> Output]
    BY <2>2, <2>3 DEF LibraryTypes, Output
  <2>5. tracks' \in [Profiles -> [file : FileNames, done : SUBSET Nat]]
    BY <2>1, <2>2, <2>3 DEF LibraryTypes, FileNames
  <2>6. TracksTaken'
    BY <2>1, <2>2 DEF TracksTaken, LibraryTypes
  <2> QED
    BY <2>2, <2>4, <2>5, <2>6
<1> QED
  BY <1>1, <1>2

-----------------------------------------------------------------------------
(* The steps that withdraw.                                                *)

LEMMA SourceWithdraws ==
    ASSUME LibraryTypes,
           \/ \E path \in Paths, f \in Files \cup {None} : FileChanges(path, f)
           \/ \E from, to \in Paths : FileMoves(from, to)
           \/ \E path \in Paths : Scan(path)
           \/ \E u \in {"pooled", "scheduled"} : Refer(u) \/ Release(u)
    PROVE  LibraryTypes' /\ Withdraws
<1>1. CASE \E path \in Paths, f \in Files \cup {None} : FileChanges(path, f)
  BY <1>1 DEF FileChanges, LibraryTypes, Withdraws, FileNames
<1>2. CASE \E from, to \in Paths : FileMoves(from, to)
  BY <1>2 DEF FileMoves, LibraryTypes, Withdraws, FileNames
<1>3. CASE \E path \in Paths : Scan(path)
  <2>1. PICK path \in Paths : Scan(path)
    BY <1>3
  <2>2. row' \in [path : Paths, file : Files]
    BY <2>1 DEF Scan, LibraryTypes, FileNames
  <2> QED
    BY <2>1, <2>2 DEF Scan, LibraryTypes, Withdraws
<1>4. CASE \E u \in {"pooled", "scheduled"} : Refer(u) \/ Release(u)
  BY <1>4 DEF Refer, Release, LibraryTypes, Withdraws
<1> QED
  BY <1>1, <1>2, <1>3, <1>4

LEMMA PackagerWithdraws ==
    ASSUME LibraryTypes, NEW p \in Profiles,
           \/ Request(p) \/ QueueMigration(p) \/ Retry(p) \/ CheckReadyPackageIntegrity(p)
           \/ FinalizeFails \/ JobCancelled \/ Restart
    PROVE  LibraryTypes' /\ Withdraws
<1>1. \A s \in {"pending", "failed"} :
         /\ Status(s) \in Package /\ Status(s).status = s
         /\ [pkg EXCEPT ![p] = Status(s)] \in [Profiles -> Package]
  BY EmptyTyped DEF LibraryTypes, Statuses, Status
<1>2. CASE Request(p) \/ QueueMigration(p) \/ Retry(p) \/ CheckReadyPackageIntegrity(p)
  <2>1. /\ pkg' = [pkg EXCEPT ![p] = Status("pending")]
        /\ UNCHANGED <<disk, row, settings, active, out, tracks, job>>
    BY <1>2 DEF Request, QueueMigration, Queue, Retry, CheckReadyPackageIntegrity
  <2> QED
    BY <1>1, <2>1 DEF LibraryTypes, Withdraws
<1>3. CASE FinalizeFails
  <2>1. job.profile \in Profiles
    BY <1>3 DEF FinalizeFails, LibraryTypes, Job, NoJob, None
  <2>2. /\ pkg' = pkg \/ pkg' = [pkg EXCEPT ![job.profile] = Status("failed")]
        /\ job' = NoJob /\ UNCHANGED <<disk, row, settings, active, out, tracks>>
    BY <1>3 DEF FinalizeFails, JobFails
  <2> QED
    BY <1>1, <2>1, <2>2 DEF LibraryTypes, Withdraws
<1>4. CASE JobCancelled
  BY <1>4 DEF JobCancelled, LibraryTypes, Withdraws
<1>5. CASE Restart
  <2>1. /\ pkg' \in [Profiles -> Package]
        /\ \A q \in Profiles : pkg'[q] = pkg[q] \/ pkg'[q] = Status("pending")
    BY <1>1, <1>5 DEF Restart, LibraryTypes
  <2>2. job' = NoJob /\ UNCHANGED <<disk, row, settings, active, out, tracks>>
    BY <1>5 DEF Restart
  <2> QED
    BY <1>1, <2>1, <2>2 DEF LibraryTypes, Withdraws
<1> QED
  BY <1>2, <1>3, <1>4, <1>5

LEMMA ProfileWithdraws ==
    ASSUME LibraryTypes, NEW p \in Profiles,
           \/ \E s \in Editions : UpdateProfile(p, s)
           \/ DisableProfile(p) \/ EnableProfile(p) \/ RefreshChannels
    PROVE  LibraryTypes' /\ Withdraws
<1>1. CASE \E s \in Editions : UpdateProfile(p, s)
  <2>1. PICK s \in Editions : UpdateProfile(p, s)
    BY <1>1
  <2>2. s \in DOMAIN Settings /\ s # None
    BY MediaLibraryAssumption
  <2> QED
    BY <2>1, <2>2 DEF UpdateProfile, LibraryTypes, Withdraws
<1>2. CASE DisableProfile(p)
  BY <1>2 DEF DisableProfile, LibraryTypes, Withdraws
<1>3. CASE EnableProfile(p)
  BY <1>3 DEF EnableProfile, LibraryTypes, Withdraws
<1>4. CASE RefreshChannels
  BY <1>4 DEF RefreshChannels, LibraryTypes, Withdraws
<1> QED
  BY <1>1, <1>2, <1>3, <1>4

\* What goes with the media row.
LEMMA RowGoneWithdraws ==
    ASSUME LibraryTypes, RowGone
    PROVE  /\ row' = NoRow
           /\ pkg' \in [Profiles -> Package]
           /\ tracks' \in [Profiles -> [file : FileNames, done : SUBSET Nat]]
           /\ \A p \in Profiles : pkg'[p].status = None /\ tracks'[p] = NoTracks
BY EmptyTyped DEF RowGone, NoPkg, Status

LEMMA CleanupWithdraws ==
    ASSUME LibraryTypes,
           \/ ListMissing \/ DeleteMissing \/ ListOrphans \/ AuditDuration
           \/ \E o \in cleanup.orphans : DeleteOrphan(o)
           \/ DeleteMediaFiles \/ DeleteMediaRow
           \/ \E S \in SUBSET Profiles : DeleteEncode(S)
           \/ \E p \in Profiles : RequeueShort(p) \/ RemoveDirectory(p)
           \/ LoseDatabase
    PROVE  LibraryTypes' /\ Withdraws
<1>1. /\ NoPkg \in Package /\ NoPkg.status = None
      /\ Status("pending") \in Package /\ Status("pending").status = "pending"
      /\ NoOut \in Output /\ NoTracks \in [file : FileNames, done : SUBSET Nat]
  BY EmptyTyped DEF NoPkg, Status, Statuses
<1>2. CASE ListMissing \/ ListOrphans \/ AuditDuration
  BY <1>2 DEF ListMissing, ListOrphans, AuditDuration, LibraryTypes, Withdraws
<1>3. CASE DeleteMissing
  BY <1>3, RowGoneWithdraws DEF DeleteMissing, LibraryTypes, Withdraws
<1>4. CASE \E o \in cleanup.orphans : DeleteOrphan(o)
  <2>1. PICK o : DeleteOrphan(o)
    BY <1>4
  <2>2. out' = out \/ out' = [out EXCEPT ![o.profile] = NoOut]
    BY <2>1 DEF DeleteOrphan
  <2>3. pkg' = pkg \/ pkg' = [pkg EXCEPT ![o.profile] = NoPkg]
    BY <2>1 DEF DeleteOrphan
  <2>4. tracks' = tracks \/ tracks' = [tracks EXCEPT ![o.profile] = NoTracks]
    BY <2>1 DEF DeleteOrphan
  <2>5. UNCHANGED <<disk, row, settings, active, job>>
    BY <2>1 DEF DeleteOrphan
  <2>6. out' \in [Profiles -> Output] /\ \A p \in Profiles : out'[p] \in {out[p], NoOut}
    BY <1>1, <2>2 DEF LibraryTypes
  <2>7. pkg' \in [Profiles -> Package] /\ \A p \in Profiles : pkg'[p] \in {pkg[p], NoPkg}
    BY <1>1, <2>3 DEF LibraryTypes
  <2>8. /\ tracks' \in [Profiles -> [file : FileNames, done : SUBSET Nat]]
        /\ \A p \in Profiles : tracks'[p] \in {tracks[p], NoTracks}
    BY <1>1, <2>4 DEF LibraryTypes
  <2> QED
    BY <1>1, <2>5, <2>6, <2>7, <2>8 DEF LibraryTypes, Withdraws
<1>5. CASE DeleteMediaFiles
  <2>1. /\ out' \in [Profiles -> Output]
        /\ \A p \in Profiles : out'[p] \in {out[p], NoOut}
    BY <1>1, <1>5 DEF DeleteMediaFiles, LibraryTypes
  <2> QED
    BY <1>5, <2>1 DEF DeleteMediaFiles, LibraryTypes, Withdraws
<1>6. CASE DeleteMediaRow
  <2>1. CASE "scheduled" \in used
    BY <1>6, <2>1 DEF DeleteMediaRow, LibraryTypes, Withdraws
  <2>2. CASE "scheduled" \notin used
    BY <1>6, <2>2, RowGoneWithdraws DEF DeleteMediaRow, LibraryTypes, Withdraws
  <2> QED
    BY <2>1, <2>2
<1>7. CASE \E S \in SUBSET Profiles : DeleteEncode(S)
  <2>1. PICK S \in SUBSET Profiles : DeleteEncode(S)
    BY <1>7
  <2>2. /\ pkg' \in [Profiles -> Package]
        /\ \A p \in Profiles : pkg'[p] \in {pkg[p], NoPkg}
    BY <1>1, <2>1 DEF DeleteEncode, LibraryTypes
  <2>3. /\ tracks' \in [Profiles -> [file : FileNames, done : SUBSET Nat]]
        /\ \A p \in Profiles : tracks'[p] \in {tracks[p], NoTracks}
    BY <1>1, <2>1 DEF DeleteEncode, LibraryTypes
  <2> QED
    BY <1>1, <2>1, <2>2, <2>3 DEF DeleteEncode, LibraryTypes, Withdraws
<1>8. CASE \E p \in Profiles : RequeueShort(p) \/ RemoveDirectory(p)
  <2>1. PICK p \in Profiles : RequeueShort(p) \/ RemoveDirectory(p)
    BY <1>8
  <2>2. CASE RequeueShort(p)
    <3>1. pkg' = pkg \/ pkg' = [pkg EXCEPT ![p] = Status("pending")]
      BY <2>2 DEF RequeueShort
    <3> QED
      BY <1>1, <2>2, <3>1 DEF RequeueShort, LibraryTypes, Withdraws
  <2>3. CASE RemoveDirectory(p)
    BY <1>1, <2>3 DEF RemoveDirectory, LibraryTypes, Withdraws
  <2> QED
    BY <2>1, <2>2, <2>3
<1>9. CASE LoseDatabase
  <2>1. /\ settings' \in [Profiles -> DOMAIN Settings \cup {None}]
        /\ active' \subseteq Profiles /\ \A p \in active' : settings'[p] # None
    BY <1>9, MediaLibraryAssumption DEF LoseDatabase
  <2>2. job' = NoJob /\ RowGone /\ UNCHANGED <<disk, out>>
    BY <1>9 DEF LoseDatabase
  <2> QED
    BY <2>1, <2>2, RowGoneWithdraws DEF LibraryTypes, Withdraws
<1> QED
  BY <1>2, <1>3, <1>4, <1>5, <1>6, <1>7, <1>8, <1>9

\* Every step withdraws or works.
LEMMA NextWithdrawsOrWorks ==
    ASSUME LibraryTypes, [LibraryNext]_libraryVars
    PROVE  (LibraryTypes' /\ Withdraws) \/ Works
<1>1. CASE UNCHANGED libraryVars
  BY <1>1 DEF libraryVars, LibraryTypes, Withdraws
<1>2. CASE \/ \E path \in Paths, f \in Files \cup {None} : FileChanges(path, f)
           \/ \E from, to \in Paths : FileMoves(from, to)
           \/ \E path \in Paths : Scan(path)
           \/ \E u \in {"pooled", "scheduled"} : Refer(u) \/ Release(u)
  BY <1>2, SourceWithdraws
<1>3. ASSUME NEW p \in Profiles,
             \/ Request(p) \/ QueueMigration(p) \/ Retry(p) \/ CheckReadyPackageIntegrity(p)
             \/ FinalizeFails \/ JobCancelled \/ Restart
      PROVE  LibraryTypes' /\ Withdraws
  BY <1>3, PackagerWithdraws
<1>4. ASSUME NEW p \in Profiles,
             \/ \E s \in Editions : UpdateProfile(p, s)
             \/ DisableProfile(p) \/ EnableProfile(p) \/ RefreshChannels
      PROVE  LibraryTypes' /\ Withdraws
  BY <1>4, ProfileWithdraws
<1>5. CASE \/ ListMissing \/ DeleteMissing \/ ListOrphans \/ AuditDuration
           \/ \E o \in cleanup.orphans : DeleteOrphan(o)
           \/ DeleteMediaFiles \/ DeleteMediaRow
           \/ \E S \in SUBSET Profiles : DeleteEncode(S)
           \/ \E p \in Profiles : RequeueShort(p) \/ RemoveDirectory(p)
           \/ LoseDatabase
  BY <1>5, CleanupWithdraws
<1>6. Required \in Profiles /\ AskedFor \subseteq Profiles
  BY MediaLibraryAssumption
<1> QED
  BY <1>1, <1>2, <1>3, <1>4, <1>5, <1>6 DEF LibraryNext, Works

LEMMA WithdrawsKeeps ==
    ASSUME LibraryInv, LibraryTypes', Withdraws
    PROVE  LibraryInv'
<1>1. OutputsMade'
  BY DEF LibraryInv, OutputsMade, Withdraws
<1>2. TracksTaken'
  BY DEF LibraryInv, TracksTaken, Withdraws, NoTracks
<1>3. UnsupportedRefused'
  BY DEF LibraryInv, UnsupportedRefused, Withdraws, None
<1> QED
  BY <1>1, <1>2, <1>3 DEF LibraryInv

-----------------------------------------------------------------------------
(* The steps that work.                                                    *)

LEMMA StartJobKeeps ==
    ASSUME LibraryInv, NEW p \in Profiles, StartJob(p)
    PROVE  LibraryInv'
<1>1. p \in active /\ row.file \in Files
  <2>1. Passed /\ p \in Candidates
    BY DEF StartJob, Candidates
  <2> QED
    BY <2>1 DEF Candidates, Needed, Passed, Admitted
<1>2. row.path \in Paths
  BY <1>1, MediaLibraryAssumption DEF LibraryInv, LibraryTypes, NoRow
<1>3. settings[p] \in DOMAIN Settings
  BY <1>1 DEF LibraryInv, LibraryTypes
<1>4. job' \in Job
  BY <1>1, <1>2, <1>3 DEF StartJob, NoJob, Job
<1>5. pkg' = [pkg EXCEPT ![p] = Status("processing")] /\ Status("processing") \in Package
  BY EmptyTyped DEF StartJob, Statuses
<1>6. LibraryTypes'
  BY <1>4, <1>5 DEF StartJob, LibraryInv, LibraryTypes
<1>7. UnsupportedRefused'
  BY <1>5 DEF LibraryInv, LibraryTypes, UnsupportedRefused, Status
<1>8. OutputsMade' /\ TracksTaken'
  BY DEF StartJob, LibraryInv, OutputsMade, TracksTaken
<1> QED
  BY <1>6, <1>7, <1>8 DEF LibraryInv

\* A job that is under way.
LEMMA JobTyped ==
    ASSUME LibraryTypes, job.step # None
    PROVE  job \in Job
BY DEF LibraryTypes, NoJob

LEMMA EncodeFailsKeeps ==
    ASSUME LibraryInv, EncodeFails
    PROVE  LibraryInv'
<1>1. job \in Job /\ disk[job.path] \in FileNames
  <2>1. job \in Job
    BY JobTyped DEF EncodeFails, LibraryInv, None
  <2> QED
    BY <2>1 DEF Job, LibraryInv, LibraryTypes
<1> DEFINE f == disk[job.path]
           new == IF Unfit(f) = "unsupported"
                  THEN [Status("unsupported") EXCEPT !.source = f] ELSE Status("failed")
<1>2. new \in Package
  BY <1>1, EmptyTyped DEF Status, Package, Statuses
<1>3. new.status = "unsupported" => new.source \notin Admitted
  <2>1. CASE Unfit(f) # "unsupported"
    BY <2>1 DEF Status
  <2>2. CASE Unfit(f) = "unsupported"
    <3>1. f # None /\ Verdict(Content[f], Settings[job.settings]) = "unsupported"
      BY <2>2 DEF Unfit
    <3>2. ~Admit(Probe(Content[f]))
      BY <3>1, UnsupportedIsRefused
    <3>3. new.source = f
      BY <2>2 DEF Status
    <3> QED
      BY <3>2, <3>3 DEF Admitted
  <2> QED
    BY <2>1, <2>2
<1>4. /\ pkg' = pkg \/ pkg' = [pkg EXCEPT ![job.profile] = new]
      /\ job' = NoJob /\ UNCHANGED <<disk, row, settings, active, out, tracks>>
  BY DEF EncodeFails, JobFails
<1> HIDE DEF new, f
<1>5. LibraryTypes' /\ UnsupportedRefused'
  BY <1>1, <1>2, <1>3, <1>4 DEF LibraryInv, LibraryTypes, UnsupportedRefused
<1>6. OutputsMade' /\ TracksTaken'
  BY <1>4 DEF LibraryInv, OutputsMade, TracksTaken
<1> QED
  BY <1>5, <1>6 DEF LibraryInv

LEMMA EncodeKeeps ==
    ASSUME LibraryInv, NEW cut \in BOOLEAN, Encode(cut)
    PROVE  LibraryInv'
<1> DEFINE f == disk[job.path]
           n == job.settings
           p == job.profile
<1>1. job \in Job
  BY JobTyped DEF Encode, LibraryInv, None
<1>2. Unfit(f) = "ok" /\ f \in Files
  BY <1>1 DEF Encode, Unfit, Job, LibraryInv, LibraryTypes, FileNames
<1>3. HasBoth(Content[f])
  BY <1>2 DEF Unfit, Verdict
<1>4. n \in DOMAIN Settings /\ p \in Profiles
  BY <1>1 DEF Job
<1>5. PICK range \in OutputRanges(Content[f], Settings[n]) :
         out' = [out EXCEPT ![p] =
                    [file |-> f, settings |-> n, range |-> range,
                     length |-> IF cut THEN Content[f].length \div 2 ELSE Content[f].length,
                     burned |-> BurnedLanguage(Content[f], Settings[n]), sidecars |-> {}]]
  BY DEF Encode
<1>6. out'[p] \in Output
  <2>1. Content[f].length \in Nat
    BY <1>2, ContentTyped DEF SourceFile
  <2>2. (IF cut THEN Content[f].length \div 2 ELSE Content[f].length) \in Nat
    BY <2>1
  <2>3. /\ BurnedLanguage(Content[f], Settings[n]) \in Languages
        /\ range \in {"pq", "hlg", SDR}
    BY <1>2, <1>3, <1>4, OutputTyped
  <2> QED
    BY <1>2, <1>4, <1>5, <2>2, <2>3 DEF LibraryInv, LibraryTypes, Output, FileNames
<1>7. /\ job' = [job EXCEPT !.step = "finalize"] /\ job' \in Job
      /\ UNCHANGED <<disk, row, settings, active, pkg, tracks>>
  BY <1>1 DEF Encode, Job
<1>8. LibraryTypes'
  BY <1>4, <1>5, <1>6, <1>7 DEF LibraryInv, LibraryTypes
<1>9. OutputsMade'
  <2>1. /\ out'[p].file = f /\ out'[p].settings = n /\ out'[p].range = range
        /\ out'[p].burned = BurnedLanguage(Content[f], Settings[n])
    BY <1>4, <1>5 DEF LibraryInv, LibraryTypes
  <2>2. \A q \in Profiles \ {p} : out'[q] = out[q]
    BY <1>4, <1>5 DEF LibraryInv, LibraryTypes
  <2> HIDE DEF f, n, p
  <2> QED
    BY <1>2, <1>3, <1>4, <2>1, <2>2 DEF LibraryInv, OutputsMade
<1>10. TracksTaken' /\ UnsupportedRefused'
  BY <1>7 DEF LibraryInv, TracksTaken, UnsupportedRefused
<1> QED
  BY <1>8, <1>9, <1>10 DEF LibraryInv

\* An extraction changes nothing of what OutputsMade speaks of.
LEMMA SidecarsKeepOutputs ==
    ASSUME LibraryTypes, OutputsMade, NEW p \in Profiles, out[p] # NoOut, NEW sidecars,
           out' = [out EXCEPT ![p].sidecars = sidecars]
    PROVE  OutputsMade'
<1>1. /\ out'[p].file = out[p].file /\ out'[p].settings = out[p].settings
      /\ out'[p].range = out[p].range /\ out'[p].burned = out[p].burned
  BY DEF LibraryTypes, Output
<1>2. \A q \in Profiles \ {p} : out'[q] = out[q]
  BY DEF LibraryTypes
<1> QED
  BY <1>1, <1>2 DEF OutputsMade

LEMMA FinalizeKeeps ==
    ASSUME LibraryInv, Finalize
    PROVE  LibraryInv'
<1>1. job \in Job /\ job.profile \in Profiles /\ job.path \in Paths
  BY JobTyped DEF Finalize, LibraryInv, Job, None
<1>2. /\ out' \in [Profiles -> Output]
      /\ tracks' \in [Profiles -> [file : FileNames, done : SUBSET Nat]]
      /\ TracksTaken'
      /\ \E sidecars : out' = [out EXCEPT ![job.profile].sidecars = sidecars]
  BY <1>1, ExtractKeeps DEF Finalize, LibraryInv
<1>3. OutputsMade'
  BY <1>1, <1>2, SidecarsKeepOutputs DEF Finalize, LibraryInv
<1>4. job' \in Job
  BY <1>1 DEF Finalize, LibraryInv, LibraryTypes, Job, Output
<1>5. LibraryTypes'
  BY <1>2, <1>4 DEF Finalize, LibraryInv, LibraryTypes
<1>6. UnsupportedRefused'
  BY DEF Finalize, LibraryInv, UnsupportedRefused
<1> QED
  BY <1>2, <1>3, <1>5, <1>6 DEF LibraryInv

LEMMA ReadyKeeps ==
    ASSUME LibraryInv, Ready
    PROVE  LibraryInv'
<1> DEFINE new == [status |-> "ready", length |-> job.packaged, source |-> job.file]
<1>1. job \in Job /\ new \in Package
  BY JobTyped DEF Ready, LibraryInv, Job, Package, Statuses, FileNames, None
<1>2. /\ pkg' = pkg \/ pkg' = [pkg EXCEPT ![job.profile] = new]
      /\ job' = NoJob /\ UNCHANGED <<disk, row, settings, active, out, tracks>>
  BY DEF Ready
<1>3. LibraryTypes'
  BY <1>1, <1>2 DEF LibraryInv, LibraryTypes
<1>4. UnsupportedRefused'
  BY <1>2 DEF LibraryInv, LibraryTypes, UnsupportedRefused
<1>5. OutputsMade' /\ TracksTaken'
  BY <1>2 DEF LibraryInv, OutputsMade, TracksTaken
<1> QED
  BY <1>3, <1>4, <1>5 DEF LibraryInv

LEMMA ImportKeeps ==
    ASSUME LibraryInv, NEW p \in Profiles, ImportPackage(p)
    PROVE  LibraryInv'
<1>1. row.path \in Paths /\ row.file \in Files /\ out[p] # NoOut
  BY DEF ImportPackage, LibraryInv, LibraryTypes
<1>2. CASE Truncated(out[p].length, SourceLength)
  <2>1. Status("failed") \in Package /\ Status("failed").status = "failed"
    BY EmptyTyped DEF Status, Statuses
  <2>2. /\ pkg' = [pkg EXCEPT ![p] = Status("failed")]
        /\ UNCHANGED <<disk, row, settings, active, out, tracks, job>>
    BY <1>2 DEF ImportPackage
  <2>3. LibraryTypes' /\ Withdraws
    BY <2>1, <2>2 DEF LibraryInv, LibraryTypes, Withdraws
  <2> QED
    BY <2>3, WithdrawsKeeps
<1>3. CASE ~Truncated(out[p].length, SourceLength)
  <2> DEFINE new == [status |-> "ready", length |-> out[p].length, source |-> row.file]
  <2>1. /\ Extract(p, row.path) /\ pkg' = [pkg EXCEPT ![p] = new]
        /\ UNCHANGED <<disk, row, settings, active, job>>
    BY <1>3 DEF ImportPackage
  <2>2. new \in Package
    BY <1>1 DEF LibraryInv, LibraryTypes, Output, Package, Statuses, FileNames
  <2>3. /\ out' \in [Profiles -> Output]
        /\ tracks' \in [Profiles -> [file : FileNames, done : SUBSET Nat]]
        /\ TracksTaken'
        /\ \E sidecars : out' = [out EXCEPT ![p].sidecars = sidecars]
    BY <1>1, <2>1, ExtractKeeps DEF LibraryInv
  <2>4. OutputsMade'
    BY <1>1, <2>3, SidecarsKeepOutputs DEF LibraryInv
  <2>5. LibraryTypes' /\ UnsupportedRefused'
    BY <2>1, <2>2, <2>3 DEF LibraryInv, LibraryTypes, UnsupportedRefused
  <2> QED
    BY <2>3, <2>4, <2>5 DEF LibraryInv
<1> QED
  BY <1>2, <1>3

LEMMA LibraryInvInit == LibraryInit => LibraryInv
<1> SUFFICES ASSUME LibraryInit PROVE LibraryInv
  OBVIOUS
<1>1. Initial \in [Profiles -> DOMAIN Settings] /\ None \notin DOMAIN Settings
  BY MediaLibraryAssumption
<1>2. LibraryTypes
  BY <1>1, EmptyTyped DEF LibraryInit, LibraryTypes, FileNames
<1>3. OutputsMade /\ TracksTaken /\ UnsupportedRefused
  BY DEF LibraryInit, OutputsMade, TracksTaken, UnsupportedRefused, NoPkg, Status, NoTracks, None
<1> QED
  BY <1>2, <1>3 DEF LibraryInv

LEMMA LibraryInvNext == LibraryInv /\ [LibraryNext]_libraryVars => LibraryInv'
<1> SUFFICES ASSUME LibraryInv, [LibraryNext]_libraryVars PROVE LibraryInv'
  OBVIOUS
<1>1. (LibraryTypes' /\ Withdraws) \/ Works
  BY NextWithdrawsOrWorks DEF LibraryInv
<1>2. CASE LibraryTypes' /\ Withdraws
  BY <1>2, WithdrawsKeeps
<1>3. CASE Works
  BY <1>3, StartJobKeeps, ImportKeeps, EncodeKeeps, EncodeFailsKeeps, FinalizeKeeps, ReadyKeeps
     DEF Works
<1> QED
  BY <1>1, <1>2, <1>3

-----------------------------------------------------------------------------
(* Whole packages.                                                         *)

\* Nobody makes the package of a running job ready but the job itself, ...
JobsPackageUnready == job # NoJob => pkg[job.profile].status # "ready"
\* ... which has compared the output it found with the file it started from, ...
ReadyJobWhole ==
    job.step = "ready" /\ out[job.profile] # NoOut =>
        ~Truncated(out[job.profile].length, Content[job.file].length)
\* ... so that no output is replaced below a ready row by one nobody compared.
ReadyOutputWhole ==
    \A p \in Profiles :
        pkg[p].status = "ready" /\ out[p] # NoOut /\ pkg[p].source = out[p].file =>
            ~Truncated(out[p].length, Content[out[p].file].length)

WholeInv == JobsPackageUnready /\ ReadyJobWhole /\ ReadyOutputWhole

LEMMA WithdrawsKeepsWhole ==
    ASSUME LibraryInv, WholeInv, Withdraws
    PROVE  WholeInv'
<1>1. JobsPackageUnready' /\ ReadyJobWhole'
  <2>1. CASE job' = NoJob
    BY <2>1 DEF JobsPackageUnready, ReadyJobWhole, NoJob, None
  <2>2. CASE job' = job /\ job # NoJob
    <3>1. job.profile \in Profiles
      BY <2>2 DEF LibraryInv, LibraryTypes, Job
    <3> QED
      BY <2>2, <3>1 DEF WholeInv, Withdraws, JobsPackageUnready, ReadyJobWhole, None
  <2> QED
    BY <2>1, <2>2 DEF Withdraws
<1>2. ReadyOutputWhole'
  BY DEF WholeInv, Withdraws, ReadyOutputWhole, None
<1> QED
  BY <1>1, <1>2 DEF WholeInv

LEMMA EncodeKeepsWhole ==
    ASSUME LibraryInv, WholeInv,
           (\E p \in Profiles : StartJob(p)) \/ (\E cut \in BOOLEAN : Encode(cut)) \/ EncodeFails
    PROVE  WholeInv'
<1>1. CASE \E p \in Profiles : StartJob(p)
  <2>1. PICK p \in Profiles : StartJob(p)
    BY <1>1
  <2>2. pkg'[p].status = "processing" /\ \A q \in Profiles \ {p} : pkg'[q] = pkg[q]
    BY <2>1 DEF StartJob, LibraryInv, LibraryTypes, Status
  <2>3. job'.step = "encode" /\ job'.profile = p /\ out' = out
    BY <2>1 DEF StartJob, NoJob
  <2> QED
    BY <2>2, <2>3 DEF WholeInv, JobsPackageUnready, ReadyJobWhole, ReadyOutputWhole
<1>2. CASE \E cut \in BOOLEAN : Encode(cut)
  <2> DEFINE p == job.profile
  <2>1. job \in Job /\ p \in Profiles
    BY <1>2, JobTyped DEF Encode, LibraryInv, Job, None
  <2>2. /\ pkg' = pkg /\ job'.step = "finalize" /\ job'.profile = p
        /\ \A q \in Profiles \ {p} : out'[q] = out[q]
    BY <1>2, <2>1 DEF Encode, LibraryInv, LibraryTypes, Job
  <2>3. pkg[p].status # "ready"
    BY <2>1, <1>2 DEF Encode, WholeInv, JobsPackageUnready, NoJob, None
  <2> QED
    BY <2>2, <2>3 DEF WholeInv, JobsPackageUnready, ReadyJobWhole, ReadyOutputWhole
<1>3. CASE EncodeFails
  <2>1. job' = NoJob /\ out' = out
    BY <1>3 DEF EncodeFails
  <2>2. \A q \in Profiles : pkg'[q] = pkg[q] \/ pkg'[q].status # "ready"
    BY <1>3 DEF EncodeFails, JobFails, Status, LibraryInv, LibraryTypes
  <2> QED
    BY <2>1, <2>2 DEF WholeInv, JobsPackageUnready, ReadyJobWhole, ReadyOutputWhole, NoJob, None
<1> QED
  BY <1>1, <1>2, <1>3

LEMMA FinalizeKeepsWhole ==
    ASSUME LibraryInv, WholeInv, Finalize
    PROVE  WholeInv'
<1> DEFINE p == job.profile
<1>1. job \in Job /\ p \in Profiles /\ job.path \in Paths
  BY JobTyped DEF Finalize, LibraryInv, Job, None
<1>2. PICK sidecars : out' = [out EXCEPT ![p].sidecars = sidecars]
  BY <1>1, ExtractKeeps DEF Finalize, LibraryInv
<1>3. /\ out'[p].length = out[p].length
      /\ \A q \in Profiles \ {p} : out'[q] = out[q]
  BY <1>1, <1>2 DEF LibraryInv, LibraryTypes, Output
<1>4. /\ pkg' = pkg /\ job'.step = "ready" /\ job'.profile = p /\ job'.file = job.file
      /\ ~Truncated(out[p].length, Content[job.file].length)
  BY <1>1 DEF Finalize, Job
<1>5. pkg[p].status # "ready"
  BY DEF Finalize, WholeInv, JobsPackageUnready, NoJob, None
<1> HIDE DEF p
<1> QED
  BY <1>3, <1>4, <1>5 DEF WholeInv, JobsPackageUnready, ReadyJobWhole, ReadyOutputWhole

LEMMA ReadyKeepsWhole ==
    ASSUME LibraryInv, WholeInv, Ready
    PROVE  WholeInv'
<1> DEFINE p == job.profile
<1>1. job \in Job /\ p \in Profiles
  BY JobTyped DEF Ready, LibraryInv, Job, None
<1>2. /\ job' = NoJob /\ out' = out
      /\ pkg' = pkg \/ (/\ pkg'[p].source = job.file
                        /\ \A q \in Profiles \ {p} : pkg'[q] = pkg[q])
  BY <1>1 DEF Ready, LibraryInv, LibraryTypes
<1>3. out[p] # NoOut => ~Truncated(out[p].length, Content[job.file].length)
  BY DEF Ready, WholeInv, ReadyJobWhole
<1> HIDE DEF p
<1> QED
  BY <1>2, <1>3 DEF WholeInv, JobsPackageUnready, ReadyJobWhole, ReadyOutputWhole, NoJob, None

LEMMA ImportKeepsWhole ==
    ASSUME LibraryInv, WholeInv, ImportAlone, NEW p \in Profiles, ImportPackage(p)
    PROVE  WholeInv'
<1>1. job = NoJob /\ job' = job
  BY DEF ImportPackage
<1>2. CASE Truncated(out[p].length, SourceLength)
  <2>1. /\ pkg'[p].status = "failed" /\ out' = out
        /\ \A q \in Profiles \ {p} : pkg'[q] = pkg[q]
    BY <1>2 DEF ImportPackage, LibraryInv, LibraryTypes, Status
  <2> QED
    BY <1>1, <2>1 DEF WholeInv, JobsPackageUnready, ReadyJobWhole, ReadyOutputWhole, NoJob, None
<1>3. CASE ~Truncated(out[p].length, SourceLength)
  <2>1. row.path \in Paths
    BY DEF ImportPackage, LibraryInv, LibraryTypes
  <2>2. PICK sidecars : out' = [out EXCEPT ![p].sidecars = sidecars]
    BY <1>3, <2>1, ExtractKeeps DEF ImportPackage, LibraryInv
  <2>3. /\ out'[p].length = out[p].length /\ out'[p].file = out[p].file
        /\ \A q \in Profiles \ {p} : out'[q] = out[q]
    BY <2>2 DEF LibraryInv, LibraryTypes, Output
  <2>4. /\ pkg'[p].source = row.file
        /\ \A q \in Profiles \ {p} : pkg'[q] = pkg[q]
    BY <1>3 DEF ImportPackage, LibraryInv, LibraryTypes
  <2> QED
    BY <1>1, <1>3, <2>3, <2>4
    DEF WholeInv, JobsPackageUnready, ReadyJobWhole, ReadyOutputWhole, NoJob, None,
        SourceLength, Source
<1> QED
  BY <1>2, <1>3

LEMMA WholeNext ==
    ASSUME ImportAlone
    PROVE  LibraryInv /\ WholeInv /\ [LibraryNext]_libraryVars => WholeInv'
<1> SUFFICES ASSUME LibraryInv, WholeInv, [LibraryNext]_libraryVars PROVE WholeInv'
  OBVIOUS
<1>1. (LibraryTypes' /\ Withdraws) \/ Works
  BY NextWithdrawsOrWorks DEF LibraryInv
<1>2. CASE Withdraws
  BY <1>2, WithdrawsKeepsWhole
<1>3. CASE Works
  BY <1>3, EncodeKeepsWhole, FinalizeKeepsWhole, ReadyKeepsWhole, ImportKeepsWhole DEF Works
<1> QED
  BY <1>1, <1>2, <1>3

-----------------------------------------------------------------------------
(* The theorems.                                                           *)

\* What the packager decided when it wrote an output or gave a file up stays on record
\* with the output or the package, under every interleaving of rescans, edits, cleanups,
\* imports and restarts.
THEOREM LibraryInvariant == LibrarySpec => []LibraryInv
BY LibraryInvInit, LibraryInvNext, PTL DEF LibrarySpec

\* What Current says of a package, in terms of the invariant.
LEMMA CurrentOutput ==
    ASSUME LibraryInv, NEW p, Current(p)
    PROVE  /\ p \in Profiles /\ row.file \in Files /\ tracks[p].file = row.file
           /\ settings[p] \in DOMAIN Settings
           /\ HasBoth(Source)
           /\ out[p].burned = BurnedLanguage(Source, Settings[settings[p]])
           /\ out[p].range \in OutputRanges(Source, Settings[settings[p]])
           /\ tracks[p].done \in SUBSET Wanted(Source, Prefs)
           /\ Tracks(p) = TracksOf(Source, tracks[p].done)
<1>1. p \in Profiles /\ out[p] # NoOut /\ out[p].file = row.file
  BY DEF Current, LibraryInv, LibraryTypes
<1>2. row.file \in Files /\ row.file # None
  BY <1>1, ContentTyped DEF LibraryInv, OutputsMade
<1> QED
  BY <1>1, <1>2 DEF Current, LibraryInv, OutputsMade, TracksTaken, Source, Tracks

\* The burn decision of the packager and the renditions of the master playlist, which
\* rest on different data, agree for every file, profile and choice of sidecars.
THEOREM LibraryForcedOnce == LibrarySpec => []ForcedOnce
<1>1. LibraryInv => ForcedOnce
  <2> SUFFICES ASSUME LibraryInv, Variants # <<>>, Current(Head(Variants))
               PROVE  LET p == Head(Variants)
                          told == ForcedRenditions(Tracks(p), Settings[settings[p]])
                      IN  /\ out[p].burned \notin told
                          /\ \A t \in Tracks(p) :
                                t.forced /\ t.path => t.lang \in told \cup {out[p].burned}
    BY DEF ForcedOnce
  <2> DEFINE p == Head(Variants)
             s == Settings[settings[p]]
             done == tracks[p].done
  <2>1. /\ row.file \in Files
        /\ out[p].burned = BurnedLanguage(Source, s)
        /\ done \in SUBSET Wanted(Source, Prefs)
        /\ Tracks(p) = TracksOf(Source, done)
    BY CurrentOutput
  <2>2. /\ Source \in SourceFile
        /\ \A i \in OfKind(Source, "subtitle") : Source.streams[i].lang # None
    BY <2>1, MediaLibraryAssumption DEF Source
  <2> HIDE DEF p, s, done
  <2>3. LET told == ForcedRenditions(TracksOf(Source, done), s)
        IN  /\ BurnedLanguage(Source, s) \notin told
            /\ \A t \in TracksOf(Source, done) :
                  t.forced /\ t.path => t.lang \in told \cup {BurnedLanguage(Source, s)}
    BY <2>1, <2>2, ForcedSubtitlesOnce
  <2>4. LET told == ForcedRenditions(Tracks(p), s)
        IN  /\ out[p].burned \notin told
            /\ \A t \in Tracks(p) : t.forced /\ t.path => t.lang \in told \cup {out[p].burned}
    BY <2>1, <2>3
  <2> QED
    BY <2>4 DEF p, s
<1> QED
  BY <1>1, LibraryInvariant, PTL

\* The advertised dynamic range is the one of the segments, wherever profiles are tagged as
\* the shipped ones are and nothing is burned in.
THEOREM LibraryRangeTold ==
    ASSUME \A n \in DOMAIN Settings : HonestTag(Settings[n])
    PROVE  LibrarySpec => []RangeTold
<1>1. LibraryInv => RangeTold
  <2> SUFFICES ASSUME LibraryInv, NEW p \in Range(Variants), Current(p), out[p].burned = None
               PROVE  RangeOf(p) = out[p].range
    BY DEF RangeTold
  <2> DEFINE s == Settings[settings[p]]
  <2>1. /\ row.file \in Files /\ HasBoth(Source) /\ HonestTag(s)
        /\ BurnedLanguage(Source, s) = None /\ out[p].range \in OutputRanges(Source, s)
    BY CurrentOutput
  <2>2. Source \in SourceFile
    BY <2>1, MediaLibraryAssumption DEF Source
  <2> HIDE DEF s
  <2>3. HdrVideoRange(Probe(Source), s) = out[p].range
    BY <2>1, <2>2, RangeAdvertised
  <2> QED
    BY <2>3 DEF RangeOf, s
<1> QED
  BY <1>1, LibraryInvariant, PTL

\* A package that has been compared with the file it was made of is whole, as long as
\* imports wait for the worker.
THEOREM LibraryWhole ==
    ASSUME ImportAlone
    PROVE  LibrarySpec => []WholeWhenReady
<1>1. LibraryInit => WholeInv
  BY DEF LibraryInit, WholeInv, JobsPackageUnready, ReadyJobWhole, ReadyOutputWhole, NoJob,
         NoPkg, Status, None
<1>2. LibraryInv /\ WholeInv /\ [LibraryNext]_libraryVars => WholeInv'
  BY WholeNext
<1>3. WholeInv => WholeWhenReady
  BY DEF WholeInv, ReadyOutputWhole, WholeWhenReady, SourceLength, Source
<1> QED
  BY <1>1, <1>2, <1>3, LibraryInvariant, PTL DEF LibrarySpec

\* What the packager gives up for good is no candidate once its row has been scanned.
THEOREM LibraryUnsupported == LibrarySpec => []UnsupportedAgrees
<1>1. LibraryInv => UnsupportedAgrees
  BY DEF LibraryInv, UnsupportedRefused, UnsupportedAgrees, Passed
<1> QED
  BY <1>1, LibraryInvariant, PTL

-----------------------------------------------------------------------------
(* What the database keeps beside the packages.                            *)

\* Induction up to n, over a set.
LEMMA Climb ==
    ASSUME NEW n \in Nat, NEW T, 0 \in T, \A k \in 1..n : k - 1 \in T => k \in T
    PROVE  \A k \in 0..n : k \in T
<1> DEFINE S == {k \in 0..n : k \notin T}
<1> SUFFICES ASSUME S # {} PROVE FALSE
  OBVIOUS
<1>1. PICK x \in S : \A y \in S : x <= y
  <2>1. S \subseteq Nat
    OBVIOUS
  <2> HIDE DEF S
  <2> QED BY <2>1, LeastNat
<1>2. x \in 1..n /\ x - 1 \in 0..n
  OBVIOUS
<1>3. x - 1 \notin S
  BY <1>1, <1>2
<1> QED BY <1>2, <1>3

\* A selection is of the items that are at its places.
LEMMA SelectedIs ==
    ASSUME NEW U, NEW s \in Seq(U), NEW places
    PROVE  ItemsAt(s, places) \in Seq({s[k] : k \in places \cap DOMAIN s})
<1> DEFINE n == Len(s)
           Q == Seq({s[k] : k \in places \cap DOMAIN s})
           R(f, k) == /\ f \in [0..k -> Q] /\ f[0] = <<>>
                      /\ \A j \in 1..k : f[j] = IF j \in places THEN Append(f[j - 1], s[j]) ELSE f[j - 1]
           T == {k \in 0..n : \E f : R(f, k)}
<1>1. n \in Nat /\ DOMAIN s = 1..n /\ <<>> \in Q
  OBVIOUS
<1>2. 0 \in T
  <2>1. R([j \in 0..0 |-> <<>>], 0)
    BY <1>1
  <2> HIDE DEF R
  <2> QED BY <1>1, <2>1
<1>3. ASSUME NEW k \in 1..n, k - 1 \in T PROVE k \in T
  <2>1. PICK f : R(f, k - 1)
    BY <1>3
  <2>2. k \in Nat /\ k - 1 \in 0..k - 1 /\ f[k - 1] \in Q
    BY <1>1, <2>1
  <2> DEFINE x == IF k \in places THEN Append(f[k - 1], s[k]) ELSE f[k - 1]
             g == [j \in 0..k |-> IF j = k THEN x ELSE f[j]]
  <2>3. x \in Q
    <3>1. CASE k \in places
      <4>1. s[k] \in {s[j] : j \in places \cap DOMAIN s}
        BY <1>1, <3>1
      <4> QED BY <2>2, <3>1, <4>1
    <3>2. CASE k \notin places
      BY <2>2, <3>2
    <3> QED BY <3>1, <3>2
  <2>4. R(g, k)
    <3>1. \A j \in 0..k - 1 : g[j] = f[j] /\ f[j] \in Q
      BY <2>1
    <3>2. g[k] = x /\ g[k] \in Q /\ g \in [0..k -> Q]
      <4>1. k \in 0..k
        BY <2>2
      <4>2. \A j \in 0..k : (IF j = k THEN x ELSE f[j]) \in Q
        <5> HIDE DEF x, Q
        <5>1. \A j \in 0..k : j # k => j \in 0..k - 1
          BY <2>2
        <5> QED BY <2>1, <2>3, <5>1
      <4> HIDE DEF x, Q
      <4> QED BY <2>3, <4>1, <4>2
    <3>3. \A j \in 1..k : g[j] = IF j \in places THEN Append(g[j - 1], s[j]) ELSE g[j - 1]
      <4> TAKE j \in 1..k
      <4>1. j - 1 \in 0..k - 1 /\ g[j - 1] = f[j - 1]
        BY <2>2, <3>1
      <4>2. CASE j = k
        BY <3>2, <4>1, <4>2
      <4>3. CASE j # k
        <5>1. j \in 1..k - 1 /\ j \in 0..k - 1
          BY <2>2, <4>3
        <5> QED BY <2>1, <3>1, <4>1, <5>1
      <4> QED BY <4>2, <4>3
    <3>4. g[0] = <<>>
      <4>1. 0 \in 0..k - 1
        BY <2>2
      <4>2. g[0] = f[0] /\ f[0] = <<>>
        BY <2>1, <3>1, <4>1
      <4> QED BY <4>2
    <3> HIDE DEF g, x, Q
    <3> QED BY <3>2, <3>3, <3>4
  <2> HIDE DEF g, R
  <2> QED BY <2>4
<1>4. n \in T
  <2> HIDE DEF T
  <2>1. \A k \in 1..n : k - 1 \in T => k \in T
    BY <1>3
  <2>2. \A k \in 0..n : k \in T
    <3> HIDE DEF n
    <3> QED BY <1>1, <1>2, <2>1, Climb
  <2> QED BY <1>1, <2>2
<1>5. PICK f : R(f, n)
  BY <1>4 DEF T
<1> DEFINE kept == CHOOSE kept : kept = [k \in 0..n |->
              IF k = 0 THEN <<>> ELSE IF k \in places THEN Append(kept[k - 1], s[k]) ELSE kept[k - 1]]
<1>6. f = [k \in 0..n |-> IF k = 0 THEN <<>> ELSE IF k \in places THEN Append(f[k - 1], s[k]) ELSE f[k - 1]]
  <2>1. \A k \in 0..n : f[k] = IF k = 0 THEN <<>> ELSE IF k \in places THEN Append(f[k - 1], s[k]) ELSE f[k - 1]
    <3> TAKE k \in 0..n
    <3>1. k # 0 => k \in 1..n
      BY <1>1
    <3> QED BY <1>5, <3>1
  <2> QED BY <1>5, <2>1
<1>7. kept = [k \in 0..n |->
              IF k = 0 THEN <<>> ELSE IF k \in places THEN Append(kept[k - 1], s[k]) ELSE kept[k - 1]]
  BY <1>6
<1> HIDE DEF kept
<1> DEFINE G == {k \in 0..n : kept[k] \in Q}
<1>8. \A k \in 0..n : k \in G
  <2>1. 0 \in G
    BY <1>1, <1>7
  <2>2. ASSUME NEW k \in 1..n, k - 1 \in G PROVE k \in G
    <3>1. k \in 0..n /\ k # 0 /\ kept[k - 1] \in Q
      BY <1>1, <2>2
    <3>2. kept[k] = IF k \in places THEN Append(kept[k - 1], s[k]) ELSE kept[k - 1]
      BY <1>7, <3>1
    <3>3. k \in places => s[k] \in {s[j] : j \in places \cap DOMAIN s}
      BY <1>1
    <3>4. kept[k] \in Q
      BY <3>1, <3>2, <3>3
    <3> HIDE DEF Q
    <3> QED BY <3>1, <3>4
  <2> HIDE DEF G, n
  <2> QED BY <1>1, <2>1, <2>2, Climb
<1>9. n \in 0..n
  BY <1>1
<1>10. ItemsAt(s, places) = kept[n]
  BY DEF ItemsAt, kept
<1> QED BY <1>8, <1>9, <1>10

LEMMA LadderServed ==
    Range(ServedLadder) \subseteq active
<1> DEFINE required == IF Required \in active THEN Required ELSE Default
           ladder == Normal[required]
           K == {k \in DOMAIN ladder : ladder[k] \in active}
           U == Range(Ladder)
           unique == ItemsAt(Ladder, {k \in DOMAIN Ladder : \A j \in 1..(k - 1) : Ladder[j] # Ladder[k]})
<1>1. unique \in Seq(U)
  <2>1. Ladder \in Seq(U)
    BY MediaLibraryAssumption
  <2> DEFINE places == {k \in DOMAIN Ladder : \A j \in 1..(k - 1) : Ladder[j] # Ladder[k]}
             V == {Ladder[k] : k \in places \cap DOMAIN Ladder}
  <2>2. unique \in Seq(V)
    <3>1. unique = ItemsAt(Ladder, places)
      OBVIOUS
    <3> HIDE DEF places, U, unique
    <3> QED BY <2>1, <3>1, SelectedIs
  <2>3. V \subseteq U
    BY DEF Range
  <2> HIDE DEF V, U, unique
  <2> QED BY <2>2, <2>3
<1>2. ladder \in Seq(U \cup {required})
  <2>1. required \in {Required, Default}
    OBVIOUS
  <2>2. ladder = NormalizeABRLadder(required, Ladder)
    BY <2>1 DEF Normal
  <2> HIDE DEF required
  <2>3. ladder = IF Contains(unique, required) THEN unique ELSE Append(unique, required)
    BY <2>2 DEF NormalizeABRLadder
  <2> HIDE DEF ladder, unique, U
  <2> QED BY <1>1, <2>3
<1>3. ItemsAt(ladder, K) \in Seq({ladder[k] : k \in K \cap DOMAIN ladder})
  <2> DEFINE W == U \cup {required}
  <2> HIDE DEF ladder, K, W
  <2> QED BY <1>2, SelectedIs DEF W
<1>4. {ladder[k] : k \in K \cap DOMAIN ladder} \subseteq active
  OBVIOUS
<1>5. ServedLadder = ItemsAt(ladder, K)
  BY DEF ServedLadder
<1> HIDE DEF ladder, K
<1> QED BY <1>3, <1>4, <1>5 DEF Range

\* Nothing refers to a media that has no row, and what the profiles are is bounded by what
\* there is to choose from.
Backed ==
    /\ used \subseteq {"pooled", "scheduled"}
    /\ settings \in [Profiles -> SettingsNames]
    /\ Range(serving) \subseteq Profiles
    /\ \A p \in Profiles : tracks[p].file = None => tracks[p] = NoTracks
    /\ row = NoRow => used = {} /\ \A p \in Profiles : pkg[p] = NoPkg /\ tracks[p] = NoTracks
    /\ moves \in 0..MaxMoves /\ changes \in 0..MaxChanges

\* A step that adds packages, tracks or uses finds a row; only RowGone takes the row.
Keeps ==
    /\ row' = row \/ row' # NoRow
    /\ row = NoRow =>
          used' = {} /\ \A p \in Profiles : pkg'[p] \in {pkg[p], NoPkg} /\ tracks'[p] \in {tracks[p], NoTracks}
    /\ \A p \in Profiles : tracks'[p] \in {tracks[p], NoTracks} \/ tracks'[p].file # None

Counts == moves' \in 0..MaxMoves /\ changes' \in 0..MaxChanges

LEMMA KeepsBacked ==
    ASSUME Backed, Keeps, Counts, used' \subseteq {"pooled", "scheduled"},
           settings' \in [Profiles -> SettingsNames], Range(serving') \subseteq Profiles
    PROVE  Backed'
<1>1. row' = NoRow => row = NoRow
  BY DEF Keeps
<1>2. \A p \in Profiles : tracks'[p].file = None => tracks'[p] = NoTracks
  BY DEF Keeps, Backed
<1>3. row' = NoRow => used' = {} /\ \A p \in Profiles : pkg'[p] = NoPkg /\ tracks'[p] = NoTracks
  BY <1>1 DEF Keeps, Backed
<1> QED BY <1>2, <1>3 DEF Backed, Counts

LEMMA GoneBacked ==
    ASSUME Backed, RowGone, Counts,
           settings' \in [Profiles -> SettingsNames], Range(serving') \subseteq Profiles
    PROVE  Backed'
<1>1. used' = {} /\ \A p \in Profiles : pkg'[p] = NoPkg /\ tracks'[p] = NoTracks
  BY DEF RowGone
<1> QED BY <1>1 DEF Backed, Counts

\* Only rows of files are passed.
LEMMA PassedRow == ASSUME Passed PROVE row # NoRow
<1>1. row.file \in Files
  BY DEF Passed, Admitted
<1> QED BY <1>1, ContentTyped DEF NoRow

LEMMA SourceBacked ==
    ASSUME Backed, LibraryTypes,
           \/ \E path \in Paths, f \in Files \cup {None} : FileChanges(path, f)
           \/ \E from, to \in Paths : FileMoves(from, to)
           \/ \E path \in Paths : Scan(path)
           \/ \E u \in {"pooled", "scheduled"} : Refer(u) \/ Release(u)
    PROVE  Backed'
<1>0. MaxMoves \in Nat /\ MaxChanges \in Nat
  BY MediaLibraryAssumption
<1>1. CASE \E path \in Paths, f \in Files \cup {None} : FileChanges(path, f)
  BY <1>0, <1>1 DEF FileChanges, Backed, Moved
<1>2. CASE \E from, to \in Paths : FileMoves(from, to)
  BY <1>0, <1>2 DEF FileMoves, Backed, Moved
<1>3. CASE \E path \in Paths : Scan(path)
  <2>1. PICK path \in Paths : Scan(path)
    BY <1>3
  <2>2. row'.path # None \/ row'.file # None
    BY <2>1 DEF Scan
  <2>3. row' # NoRow
    BY <2>2 DEF NoRow
  <2> QED BY <2>1, <2>3 DEF Scan, Backed
<1>4. CASE \E u \in {"pooled", "scheduled"} : Refer(u) \/ Release(u)
  <2>1. PICK u \in {"pooled", "scheduled"} : Refer(u) \/ Release(u)
    BY <1>4
  <2>2. CASE Refer(u)
    BY <2>1, <2>2 DEF Refer, Backed
  <2>3. CASE Release(u)
    BY <2>1, <2>3 DEF Release, Backed
  <2> QED BY <2>1, <2>2, <2>3
<1> QED BY <1>1, <1>2, <1>3, <1>4

\* A change to the packages of a media that has a row.
LEMMA PackagedBacked ==
    ASSUME Backed, UNCHANGED <<row, used, settings, serving, moves, changes>>,
           row = NoRow => UNCHANGED <<pkg, tracks>>,
           \A p \in Profiles : tracks'[p] \in {tracks[p], NoTracks} \/ tracks'[p].file # None
    PROVE  Backed'
BY DEF Backed

LEMMA PackagerBacked ==
    ASSUME Backed, LibraryTypes, NEW p \in Profiles,
           \/ Request(p) \/ QueueMigration(p) \/ Retry(p) \/ CheckReadyPackageIntegrity(p)
           \/ FinalizeFails \/ JobCancelled \/ Restart
    PROVE  Backed'
<1>1. row = NoRow => pkg[p].status = None /\ \A q \in Profiles : pkg[q].status = None /\ pkg[q] = NoPkg
  BY DEF Backed, NoPkg, Status
<1>2. CASE Queue(p)
  <2>1. row # NoRow
    BY <1>2, PassedRow DEF Queue
  <2> QED BY <1>2, <2>1, PackagedBacked DEF Queue
<1>3. CASE Retry(p)
  BY <1>1, <1>3, PackagedBacked DEF Retry, None
<1>4. CASE CheckReadyPackageIntegrity(p)
  BY <1>1, <1>4, PackagedBacked DEF CheckReadyPackageIntegrity, Broken, None
<1>5. CASE FinalizeFails
  <2>1. job \in Job \/ job = NoJob
    BY DEF LibraryTypes
  <2>2. job.profile \in Profiles
    BY <1>5, <2>1 DEF FinalizeFails, NoJob, Job, None
  <2>3. row = NoRow => pkg' = pkg
    BY <1>1, <1>5, <2>2 DEF FinalizeFails, JobFails, None
  <2> QED BY <1>5, <2>3, PackagedBacked DEF FinalizeFails
<1>6. CASE JobCancelled
  BY <1>6, PackagedBacked DEF JobCancelled
<1>7. CASE Restart
  <2>1. row = NoRow => \A q \in Profiles : pkg'[q] = pkg[q]
    BY <1>1, <1>7 DEF Restart, Broken, None
  <2>2. Range(serving') \subseteq Profiles
    BY <1>7, LadderServed DEF Restart, LibraryTypes
  <2>3. \A q \in Profiles : tracks'[q] = tracks[q]
    BY <1>7 DEF Restart
  <2> QED BY <1>7, <2>1, <2>2, <2>3 DEF Restart, Backed
<1> QED BY <1>2, <1>3, <1>4, <1>5, <1>6, <1>7 DEF Request, QueueMigration

LEMMA NamesOfSettings ==
    /\ None \in SettingsNames /\ Editions \subseteq SettingsNames
    /\ \A p \in Profiles : Initial[p] \in SettingsNames
BY MediaLibraryAssumption DEF SettingsNames, Range

LEMMA ProfileBacked ==
    ASSUME Backed, LibraryTypes, NEW p \in Profiles,
           \/ \E s \in Editions : UpdateProfile(p, s)
           \/ DisableProfile(p) \/ EnableProfile(p) \/ RefreshChannels
    PROVE  Backed'
<1>0. MaxMoves \in Nat /\ MaxChanges \in Nat
  BY MediaLibraryAssumption
<1>1. CASE \E s \in Editions : UpdateProfile(p, s)
  <2>1. PICK s \in Editions : UpdateProfile(p, s)
    BY <1>1
  <2>2. settings' \in [Profiles -> SettingsNames]
    BY <2>1, NamesOfSettings DEF UpdateProfile, Backed
  <2> QED BY <1>0, <2>1, <2>2 DEF UpdateProfile, Backed, Change
<1>2. CASE DisableProfile(p)
  <2>1. settings' \in [Profiles -> SettingsNames]
    BY <1>2, NamesOfSettings DEF DisableProfile, Backed
  <2> QED BY <1>0, <1>2, <2>1 DEF DisableProfile, Backed, Change
<1>3. CASE EnableProfile(p)
  BY <1>3 DEF EnableProfile, Backed
<1>4. CASE RefreshChannels
  BY <1>4, LadderServed DEF RefreshChannels, Backed, LibraryTypes
<1> QED BY <1>1, <1>2, <1>3, <1>4

LEMMA CleanupBacked ==
    ASSUME Backed, LibraryTypes, LibraryTypes',
           \/ ListMissing \/ DeleteMissing \/ ListOrphans \/ AuditDuration
           \/ \E o \in cleanup.orphans : DeleteOrphan(o)
           \/ DeleteMediaFiles \/ DeleteMediaRow
           \/ \E S \in SUBSET Profiles : DeleteEncode(S)
           \/ \E p \in Profiles : RequeueShort(p) \/ RemoveDirectory(p)
           \/ LoseDatabase
    PROVE  Backed'
<1>0. MaxMoves \in Nat /\ MaxChanges \in Nat
  BY MediaLibraryAssumption
<1>1. row = NoRow => \A q \in Profiles : pkg[q].status = None /\ pkg[q] = NoPkg /\ tracks[q] = NoTracks
  BY DEF Backed, NoPkg, Status
<1>2. CASE ListMissing \/ ListOrphans \/ AuditDuration
  BY <1>0, <1>2 DEF ListMissing, ListOrphans, AuditDuration, Backed, Change
<1>3. CASE DeleteMissing
  BY <1>3, GoneBacked DEF DeleteMissing, Backed, Counts
<1>4. CASE \E o \in cleanup.orphans : DeleteOrphan(o)
  <2>1. PICK o : DeleteOrphan(o)
    BY <1>4
  <2>2. pkg' = pkg \/ pkg' = [pkg EXCEPT ![o.profile] = NoPkg]
    BY <2>1 DEF DeleteOrphan
  <2>3. tracks' = tracks \/ tracks' = [tracks EXCEPT ![o.profile] = NoTracks]
    BY <2>1 DEF DeleteOrphan
  <2>4. \A q \in Profiles : pkg'[q] \in {pkg[q], NoPkg} /\ tracks'[q] \in {tracks[q], NoTracks}
    BY <2>2, <2>3 DEF LibraryTypes
  <2>5. UNCHANGED <<row, used, settings, serving, moves, changes>>
    BY <2>1 DEF DeleteOrphan
  <2> QED BY <2>4, <2>5 DEF Backed
<1>5. CASE DeleteMediaFiles
  BY <1>0, <1>5 DEF DeleteMediaFiles, Backed, Change
<1>6. CASE DeleteMediaRow
  <2>1. CASE "scheduled" \in used
    BY <1>6, <2>1 DEF DeleteMediaRow, Backed
  <2>2. CASE "scheduled" \notin used
    BY <1>6, <2>2, GoneBacked DEF DeleteMediaRow, Backed, Counts
  <2> QED BY <2>1, <2>2
<1>7. CASE \E S \in SUBSET Profiles : DeleteEncode(S)
  <2>1. PICK S \in SUBSET Profiles : DeleteEncode(S)
    BY <1>7
  <2>2. \A q \in Profiles : pkg'[q] \in {pkg[q], NoPkg} /\ tracks'[q] \in {tracks[q], NoTracks}
    BY <2>1 DEF DeleteEncode
  <2> QED BY <1>0, <2>1, <2>2 DEF DeleteEncode, Backed, Change
<1>8. CASE \E p \in Profiles : RequeueShort(p) \/ RemoveDirectory(p)
  <2>1. PICK p \in Profiles : RequeueShort(p) \/ RemoveDirectory(p)
    BY <1>8
  <2>2. CASE RequeueShort(p)
    <3>1. row = NoRow => pkg' = pkg
      BY <1>1, <2>2 DEF RequeueShort, None
    <3> QED BY <2>2, <3>1, PackagedBacked DEF RequeueShort
  <2>3. CASE RemoveDirectory(p)
    BY <2>3, PackagedBacked DEF RemoveDirectory
  <2> QED BY <2>1, <2>2, <2>3
<1>9. CASE LoseDatabase
  <2>1. settings' \in [Profiles -> SettingsNames]
    BY <1>9, NamesOfSettings DEF LoseDatabase
  <2>2. serving' = ServedLadder' /\ active' \subseteq Profiles
    BY <1>9 DEF LoseDatabase, LibraryTypes
  <2>3. Range(serving') \subseteq Profiles
    <3>1. (Range(ServedLadder) \subseteq active)'
      BY LadderServed, PTL
    <3>2. Range(ServedLadder)' = Range(serving')
      BY <2>2
    <3> QED BY <2>2, <3>1, <3>2
  <2>4. Counts
    BY <1>0, <1>9 DEF LoseDatabase, Backed, Change, Counts
  <2> QED BY <1>9, <2>1, <2>3, <2>4, GoneBacked DEF LoseDatabase
<1> QED BY <1>2, <1>3, <1>4, <1>5, <1>6, <1>7, <1>8, <1>9

LEMMA WorksBacked ==
    ASSUME Backed, LibraryInv, Works
    PROVE  Backed'
<1>0. LibraryTypes
  BY DEF LibraryInv
<1>1. row = NoRow => \A q \in Profiles : pkg[q].status = None /\ pkg[q] = NoPkg /\ tracks[q] = NoTracks
  BY DEF Backed, NoPkg, Status
<1>2. ASSUME NEW p \in Profiles, StartJob(p) PROVE Backed'
  <2>1. Passed
    BY <1>2 DEF StartJob, Candidates
  <2>2. row # NoRow
    BY <2>1, PassedRow
  <2> QED BY <1>2, <2>2, PackagedBacked DEF StartJob
<1>3. ASSUME NEW p \in Profiles, NEW path \in Paths, Extract(p, path)
      PROVE  \A q \in Profiles : tracks'[q] \in {tracks[q], NoTracks} \/ tracks'[q].file # None
  <2>1. CASE disk[path] = None
    BY <1>3, <2>1 DEF Extract
  <2>2. CASE disk[path] # None
    <3>1. PICK done : tracks' = [tracks EXCEPT ![p] = [file |-> disk[path], done |-> done]]
      BY <1>3, <2>2 DEF Extract
    <3> QED BY <1>0, <2>2, <3>1 DEF LibraryTypes
  <2> QED BY <2>1, <2>2
<1>4. ASSUME NEW p \in Profiles, ImportPackage(p) PROVE Backed'
  <2>1. row # NoRow /\ UNCHANGED <<row, used, settings, serving, moves, changes>>
    BY <1>4 DEF ImportPackage
  <2>2. row.path \in Paths
    BY <1>0, <2>1 DEF LibraryTypes
  <2>3. \A q \in Profiles : tracks'[q] \in {tracks[q], NoTracks} \/ tracks'[q].file # None
    <3>1. tracks' = tracks \/ Extract(p, row.path)
      BY <1>4 DEF ImportPackage
    <3> QED BY <1>3, <2>2, <3>1
  <2> QED BY <2>1, <2>3, PackagedBacked
<1>5. ASSUME NEW cut \in BOOLEAN, Encode(cut) PROVE Backed'
  BY <1>5, PackagedBacked DEF Encode
<1>6. job.step # None => job \in Job
  BY <1>0 DEF LibraryTypes, NoJob
<1>7. CASE EncodeFails
  <2>1. job.profile \in Profiles
    BY <1>6, <1>7 DEF EncodeFails, None, Job
  <2>2. row = NoRow => pkg' = pkg
    BY <1>1, <1>7, <2>1 DEF EncodeFails, JobFails, None
  <2> QED BY <1>7, <2>2, PackagedBacked DEF EncodeFails
<1>8. CASE Finalize
  <2>1. job.profile \in Profiles /\ job.path \in Paths
    BY <1>6, <1>8 DEF Finalize, None, Job
  <2>2. row # NoRow
    BY <1>1, <1>8, <2>1 DEF Finalize
  <2>3. \A q \in Profiles : tracks'[q] \in {tracks[q], NoTracks} \/ tracks'[q].file # None
    BY <1>3, <1>8, <2>1 DEF Finalize
  <2> QED BY <1>8, <2>2, <2>3, PackagedBacked DEF Finalize
<1>9. CASE Ready
  <2>1. job.profile \in Profiles
    BY <1>6, <1>9 DEF Ready, None, Job
  <2>2. row = NoRow => pkg' = pkg
    BY <1>1, <1>9, <2>1 DEF Ready, None
  <2> QED BY <1>9, <2>2, PackagedBacked DEF Ready
<1> QED BY <1>2, <1>4, <1>5, <1>7, <1>8, <1>9 DEF Works

LEMMA BackedInit == LibraryInit => Backed
<1> SUFFICES ASSUME LibraryInit PROVE Backed
  OBVIOUS
<1>1. Initial \in [Profiles -> SettingsNames]
  BY MediaLibraryAssumption, NamesOfSettings
<1>2. Range(serving) \subseteq Profiles
  BY LadderServed DEF LibraryInit
<1>3. MaxMoves \in Nat /\ MaxChanges \in Nat
  BY MediaLibraryAssumption
<1> QED BY <1>1, <1>2, <1>3 DEF LibraryInit, Backed

LEMMA BackedNext == LibraryInv /\ Backed /\ [LibraryNext]_libraryVars => Backed'
<1> SUFFICES ASSUME LibraryInv, Backed, [LibraryNext]_libraryVars PROVE Backed'
  OBVIOUS
<1>0. LibraryTypes /\ LibraryTypes'
  BY LibraryInvNext DEF LibraryInv
<1>1. CASE UNCHANGED libraryVars
  BY <1>1 DEF libraryVars, Backed
<1>2. CASE \/ \E path \in Paths, f \in Files \cup {None} : FileChanges(path, f)
           \/ \E from, to \in Paths : FileMoves(from, to)
           \/ \E path \in Paths : Scan(path)
           \/ \E u \in {"pooled", "scheduled"} : Refer(u) \/ Release(u)
  BY <1>0, <1>2, SourceBacked
<1>3. ASSUME NEW p \in Profiles,
             \/ Request(p) \/ QueueMigration(p) \/ Retry(p) \/ CheckReadyPackageIntegrity(p)
             \/ FinalizeFails \/ JobCancelled \/ Restart
      PROVE  Backed'
  BY <1>0, <1>3, PackagerBacked
<1>4. ASSUME NEW p \in Profiles,
             \/ \E s \in Editions : UpdateProfile(p, s)
             \/ DisableProfile(p) \/ EnableProfile(p) \/ RefreshChannels
      PROVE  Backed'
  BY <1>0, <1>4, ProfileBacked
<1>5. CASE \/ ListMissing \/ DeleteMissing \/ ListOrphans \/ AuditDuration
           \/ \E o \in cleanup.orphans : DeleteOrphan(o)
           \/ DeleteMediaFiles \/ DeleteMediaRow
           \/ \E S \in SUBSET Profiles : DeleteEncode(S)
           \/ \E p \in Profiles : RequeueShort(p) \/ RemoveDirectory(p)
           \/ LoseDatabase
  BY <1>0, <1>5, CleanupBacked
<1>6. CASE Works
  BY <1>6, WorksBacked
<1>7. Required \in Profiles /\ AskedFor \subseteq Profiles
  BY MediaLibraryAssumption
<1> QED
  BY <1>1, <1>2, <1>3, <1>4, <1>5, <1>6, <1>7 DEF LibraryNext, Works

\* Rows, packages, outputs and tracks stay well formed: nothing refers to a media that has
\* no row, tracks are of streams of their file, profiles in use have settings, and the
\* ladder that playback serves is of profiles there are, whatever is stored.
THEOREM LibraryTyped == LibrarySpec => []LibraryTypeOK
<1>1. LibraryInv /\ Backed => LibraryTypeOK
  <2> SUFFICES ASSUME LibraryInv, Backed PROVE LibraryTypeOK
    OBVIOUS
  <2>1. LibraryTypes
    BY DEF LibraryInv
  <2>2. disk \in [Paths -> FileNames] /\ (row = NoRow \/ row \in [path: Paths, file: Files])
        /\ active \subseteq Profiles /\ (\A p \in active : settings[p] # None)
    BY <2>1 DEF LibraryTypes
  <2>3. pkg \in [Profiles -> [status: Statuses, length: Nat, source: FileNames]]
    BY <2>1 DEF LibraryTypes, Package
  <2>4. ASSUME NEW p \in Profiles
        PROVE  /\ out[p] # NoOut => out[p].file \in Files /\ out[p].settings # None
               /\ tracks[p].file \in FileNames
               /\ tracks[p].done \subseteq (IF tracks[p].file = None THEN {} ELSE DOMAIN Content[tracks[p].file].streams)
               /\ (pkg[p] # NoPkg \/ tracks[p] # NoTracks \/ used # {}) => row # NoRow
    <3>1. None \notin DOMAIN Settings
      BY MediaLibraryAssumption
    <3>2. out[p] # NoOut => out[p].file \in Files /\ out[p].settings # None
      BY <3>1 DEF LibraryInv, OutputsMade
    <3>3. tracks[p].file \in FileNames
      BY <2>1 DEF LibraryTypes
    <3>4. CASE tracks[p].file = None
      <4>1. tracks[p] = NoTracks /\ NoTracks.done = {}
        BY <3>4 DEF Backed, NoTracks
      <4>2. (pkg[p] # NoPkg \/ tracks[p] # NoTracks \/ used # {}) => row # NoRow
        BY DEF Backed
      <4> HIDE DEF NoTracks
      <4> QED BY <3>2, <3>3, <3>4, <4>1, <4>2
    <3>5. CASE tracks[p].file # None
      <4>1. tracks[p].done \subseteq Wanted(Content[tracks[p].file], Prefs)
        BY <3>5 DEF LibraryInv, TracksTaken
      <4>2. Wanted(Content[tracks[p].file], Prefs) \subseteq DOMAIN Content[tracks[p].file].streams
        BY DEF Wanted, OfKind
      <4> QED BY <3>2, <3>3, <3>5, <4>1, <4>2 DEF Backed
    <3> QED BY <3>4, <3>5
  <2>5. job.step \in {None, "encode", "finalize", "ready"} /\ (job # NoJob <=> job.step # None)
    <3>1. NoJob.step = None
      BY DEF NoJob
    <3>2. job \in Job => job.step \in {"encode", "finalize", "ready"} /\ job.step # None
      BY DEF Job, None
    <3> QED BY <2>1, <3>1, <3>2 DEF LibraryTypes
  <2> QED BY <2>2, <2>3, <2>4, <2>5 DEF LibraryTypeOK, Backed
<1> QED
  BY <1>1, LibraryInvInit, LibraryInvNext, BackedInit, BackedNext, PTL DEF LibrarySpec

=============================================================================
