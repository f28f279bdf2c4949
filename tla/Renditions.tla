------------------------------ MODULE Renditions ------------------------------
(***************************************************************************)
(* What a source file becomes under a package profile, as three parts of   *)
(* the program work it out, each on its own: ingest (what the media row    *)
(* says and whether the codec policy admits it), the packager (which       *)
(* streams it takes, what it burns in, what dynamic range comes out, which *)
(* subtitle sidecars it extracts) and playback (what the master playlist   *)
(* tells a player).  Operators only; MediaLibrary gives them a history.    *)
(*                                                                         *)
(* A file is [container, length, streams], a stream [kind, codec, tag,     *)
(* transfer, lang, default, forced, picture], and the settings of a        *)
(* profile are [mode, codec, requires, burns, hdr]: burns is the language  *)
(* of forced_burn, None in the other modes, and hdr that it is tagged so.  *)
(***************************************************************************)
EXTENDS Integers, FiniteSets, SequencesExt, FiniteSetsExt

None == "none"
SDR == "sdr"

\* A transfer that is neither PQ nor HLG is that of SDR.
SourceStream ==
    [kind : STRING, codec : STRING, tag : STRING, transfer : {"pq", "hlg", SDR}, lang : STRING,
     default : BOOLEAN, forced : BOOLEAN, picture : BOOLEAN]
SourceFile == [container : STRING, length : Nat, streams : Seq(SourceStream)]
ProfileSettings ==
    [mode : {"copy", "transcode"}, codec : STRING, requires : STRING, burns : STRING, hdr : BOOLEAN]

OfKind(f, kind) == {i \in DOMAIN f.streams : f.streams[i].kind = kind}

------------------------------------------------------------------------------
(* Which streams count                                                     *)

\* Album art is a video stream that is no video.
Videos(f) == {i \in OfKind(f, "video") : ~f.streams[i].picture}
Preferred(f, S) == {i \in S : f.streams[i].default}

\* Mutant: the first one, whatever is marked as the default.
SelectedFirst(f, S) == Min(S)

\* The loops of selectSourceStreams and ffprobeFile: the last stream marked as
\* the default, or else the first.
Selected(f, S) == IF Preferred(f, S) # {} THEN Max(Preferred(f, S)) ELSE Min(S)

Video(f) == f.streams[Selected(f, Videos(f))]
HasBoth(f) == Videos(f) # {} /\ OfKind(f, "audio") # {}

------------------------------------------------------------------------------
(* Ingest: ffprobeFile and codec.Admit                                     *)
Probeable(f) == f.length > 0 /\ HasBoth(f)

\* Mutant: cover art counts.
ProbedVideoAny(f) == f.streams[Selected(f, OfKind(f, "video"))]
ProbedVideo(f) == f.streams[Selected(f, Videos(f))]

Probe(f) ==
    [container |-> f.container, length |-> f.length,
     codec |-> ProbedVideo(f).codec, tag |-> ProbedVideo(f).tag, transfer |-> ProbedVideo(f).transfer,
     audio |-> f.streams[Selected(f, OfKind(f, "audio"))].codec]

IsHDRTransfer(t) == t \in {"pq", "hlg"}
IsDolbyVisionProfile5(tag) == tag \in {"dvhe", "dvh1"}

AllowedContainers == {"mkv", "mp4"}
AllowedVideo == {"h264", "hevc", "vc1", "mpeg2video", "mpeg4", "vp9"}
AllowedAudio ==
    {"aac", "ac3", "eac3", "dts", "dts-hd-ma", "dts-hd-hra", "truehd", "flac", "opus", "mp3",
     "pcm_s16le", "pcm_s24le"}

\* Mutant: what the codec tag says is not looked at.
AdmitAnyTag(probe) ==
    probe.container \in AllowedContainers /\ probe.codec \in AllowedVideo /\ probe.audio \in AllowedAudio

Admit(probe) ==
    /\ probe.container \in AllowedContainers
    /\ ~IsDolbyVisionProfile5(probe.tag)
    /\ probe.codec \in AllowedVideo
    /\ probe.audio \in AllowedAudio

------------------------------------------------------------------------------
(* The packager                                                            *)

\* validateSourceForProfile
Verdict(f, s) ==
    IF ~HasBoth(f) THEN "unsuitable"
    ELSE IF IsDolbyVisionProfile5(Video(f).tag) THEN "unsupported"
    ELSE IF s.requires # None /\ Video(f).codec # s.requires THEN "unsuitable"
    ELSE "ok"

Bitmap(stream) == stream.codec \in {"dvd_subtitle", "dvb_subtitle", "hdmv_pgs_subtitle", "pgssub", "xsub"}
\* copyProfileSubtitleWarnings
ForcedBitmap(f) == \E i \in OfKind(f, "subtitle") : f.streams[i].forced /\ Bitmap(f.streams[i])
ForcedIn(f, lang) ==
    {i \in OfKind(f, "subtitle") : f.streams[i].forced /\ f.streams[i].lang = lang}
BitmapsOf(f, S) == {i \in S : Bitmap(f.streams[i])}

\* Resolve: the stream that is burned in, 0 for none.  A bitmap outranks text.
Resolve(f, s) ==
    IF s.burns = None \/ s.mode # "transcode" \/ ForcedIn(f, s.burns) = {} THEN 0
    ELSE IF BitmapsOf(f, ForcedIn(f, s.burns)) # {} THEN Min(BitmapsOf(f, ForcedIn(f, s.burns)))
    ELSE Min(ForcedIn(f, s.burns))
BurnedLanguage(f, s) == IF Resolve(f, s) = 0 THEN None ELSE s.burns

IsHEVCEncoder(codec) == codec \in {"libx265", "hevc_videotoolbox"}

\* subtitleBurnFilter and textSubtitleBurnFilter: text is tone-mapped under the
\* caption, a bitmap is not: the overlay's frames are SDR in format and carry the
\* source's tags.
BurnRanges(f, i) == IF Bitmap(f.streams[i]) THEN {Video(f).transfer, SDR} ELSE {SDR}

\* ffmpegArgs: a copy keeps the range, so does an HEVC encoder that burns nothing
\* in, and everything else is tone-mapped.
OutputRanges(f, s) ==
    IF s.mode = "copy" THEN {Video(f).transfer}
    ELSE IF Resolve(f, s) # 0 THEN BurnRanges(f, Resolve(f, s))
    ELSE IF IsHEVCEncoder(s.codec) THEN {Video(f).transfer}
    ELSE {SDR}

\* extractSubtitleTracks: bitmaps are inventoried without a sidecar; text is
\* extracted when no language is preferred, when its own is, or when it is forced.
Wanted(f, prefs) ==
    {i \in OfKind(f, "subtitle") :
        /\ ~Bitmap(f.streams[i])
        /\ prefs = {} \/ f.streams[i].lang \in prefs \/ f.streams[i].forced}
Inventoried(f) == BitmapsOf(f, OfKind(f, "subtitle"))
Track(f, i, hasPath) ==
    [stream |-> i, lang |-> f.streams[i].lang, forced |-> f.streams[i].forced, path |-> hasPath]

\* The tracks of a package whose sidecars are those of the streams done.
TracksOf(f, done) == {Track(f, i, FALSE) : i \in Inventoried(f)} \cup {Track(f, i, TRUE) : i \in done}

\* PackagedDurationShortfall, in ms: short by more than two seconds and half a
\* percent.
Truncated(packaged, source) ==
    source > 0 /\ source - packaged > 2000 /\ source - packaged > source \div 200

------------------------------------------------------------------------------
(* Playback: writeMasterManifest and what it reads                         *)

\* The items of a sequence at some of its places, in order.
ItemsAt(s, places) ==
    LET kept[k \in 0..Len(s)] ==
          IF k = 0 THEN <<>> ELSE IF k \in places THEN Append(kept[k - 1], s[k]) ELSE kept[k - 1]
    IN  kept[Len(s)]

\* NormalizeABRLadder
NormalizeABRLadder(required, ladder) ==
    LET unique == ItemsAt(ladder, {k \in DOMAIN ladder : \A j \in 1..(k - 1) : ladder[j] # ladder[k]})
    IN  IF Contains(unique, required) THEN unique ELSE Append(unique, required)

\* hdrVideoRange: from the profile's tag and the media row alone.
HdrVideoRange(probe, s) == IF s.hdr /\ IsHDRTransfer(probe.transfer) THEN probe.transfer ELSE SDR

\* Mutant: a profile that cannot burn counts as one that does.
BurnsForcedLanguageAnyMode(s, lang) == s.burns = lang
BurnsForcedLanguage(s, lang) == s.burns = lang /\ s.mode = "transcode"

\* ForcedPackageSubtitleTracksForMediaIDs, without what the profile burns in.
ForcedRenditions(tracks, s) == {t.lang : t \in {x \in tracks : x.forced /\ x.path}}
                                 \ {l \in {x.lang : x \in tracks} : BurnsForcedLanguage(s, l)}

================================================================================
