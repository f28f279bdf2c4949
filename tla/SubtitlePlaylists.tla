-------------------------- MODULE SubtitlePlaylists --------------------------
(***************************************************************************)
(* internal/playback/subtitles.go over the playlists of PlaybackManifest.  *)
(* A packaged channel has one WebVTT sidecar for a whole asset: the        *)
(* subtitle playlist mirrors the video items and every reference asks for  *)
(* the part of the sidecar that falls into one segment.  An on-demand      *)
(* channel serves the segments that ffmpeg writes beside the video, in a   *)
(* playlist that is made anew for every request.                           *)
(*                                                                         *)
(* A sidecar is a set of cues [id, from, to] on the asset's time line.     *)
(***************************************************************************)
EXTENDS PlaybackManifest

CONSTANTS
    Tracks,      \* [SUBSET (Media \X Profiles) -> sets of [stream, lang, forced, sdh, manual, sidecar]]
    NoSidecar,   \* the sidecar of a bitmap track
    Burned       \* [Profiles -> languages whose forced narrative is burned into the video]

\* Sidecars are files on the asset's time line and tracks differ in their stream.
SubtitleAssumption ==
    \A g \in DOMAIN Tracks :
        /\ \A s, t \in Tracks[g] : s.stream = t.stream => s = t
        /\ \A t \in Tracks[g] : t.stream \in Nat /\ t.sdh \in BOOLEAN /\ t.manual \in BOOLEAN
        /\ \A t \in Tracks[g] : t.sidecar # NoSidecar =>
              /\ IsFiniteSet(t.sidecar)
              /\ \A c \in t.sidecar : c.from \in Nat /\ c.to \in Nat /\ c.from < c.to
ASSUME SubtitleAssumption

------------------------------------------------------------------------------
(* Which track serves a rendition                                          *)

\* plainSubtitleCandidate and forcedSubtitleCandidate
Candidates(tracks, r) ==
    {t \in tracks : t.lang = r.lang /\ t.forced = r.forced /\ t.sidecar # NoSidecar}

\* preferSubtitleTrack: full dialogue before captions for the deaf, embedded
\* before manual, then the order of the source.
Rank(t) == <<IF t.sdh THEN 1 ELSE 0, IF t.manual THEN 1 ELSE 0, t.stream>>
Preferred(s, t) ==
    \E k \in 1..3 : Rank(s)[k] < Rank(t)[k] /\ \A j \in 1..(k - 1) : Rank(s)[j] = Rank(t)[j]

\* selectSubtitleRenditionTrack: at most one.
Selected(tracks, r) ==
    {t \in Candidates(tracks, r) : \A s \in Candidates(tracks, r) : ~Preferred(s, t)}

TracksOf(g) == IF g \in DOMAIN Tracks THEN Tracks[g] ELSE {}

\* BurnsForcedLanguage
BurnedIn(p, r) == r.forced /\ r.lang \in Burned[p]

\* What the ready packages of a profile have in the window.
Offered(p) ==
    {[lang |-> t.lang, forced |-> t.forced] :
        t \in {x \in UNION {TracksOf(<<e.media, p>>) : e \in {y \in Window : Ready(y.media, p)}} :
                 x.sidecar # NoSidecar}}

\* Mutant: the forced narrative is advertised though it is burned in.
AdvertisedAll ==
    {[profile |-> FirstVariant(CurrentEntry), rendition |-> r] : r \in Offered(FirstVariant(CurrentEntry))}

\* writeMasterManifest, over packages: the renditions of the profile that is listed
\* first, but for what that profile burns in.
Advertised ==
    LET p == FirstVariant(CurrentEntry)
    IN  {[profile |-> p, rendition |-> r] : r \in {x \in Offered(p) : ~BurnedIn(p, x)}}

------------------------------------------------------------------------------
(* Packaged channels                                                       *)

\* handleSubtitlePlaylist, for the items it mirrors: those that ask for a part of
\* a sidecar (the others ask for the empty document), and what they ask for.
Referring(list, p, r) ==
    {k \in DOMAIN list : /\ list[k].source[1] = "package"
                         /\ Selected(TracksOf(<<Last(list[k].source), p>>), r) # {}}
Reference(x, p) ==
    LET m == Last(x.source)
    IN  [package |-> <<m, p>>, start |-> SegStart(m, x.segment),
         dur |-> SegEnd(m, x.segment) - SegStart(m, x.segment)]

\* clipWebVTT: what overlaps the segment, cut to it and on its time line.
\* Mutant: a cue that goes on in the next segment keeps its end.
ClippedUncut(c, start, dur) ==
    [id |-> c.id, from |-> Larger(c.from, start) - start, to |-> c.to - start]
Clipped(c, start, dur) ==
    [id |-> c.id, from |-> Larger(c.from, start) - start, to |-> Smaller(c.to, start + dur) - start]
Clip(cues, start, dur) ==
    {Clipped(c, start, dur) : c \in {x \in cues : x.to > start /\ x.from < start + dur}}

\* handleSubtitleVTT: the cues of a reference, asked for when its package is ready.
SubtitleVTT(ref, r) ==
    UNION {Clip(t.sidecar, ref.start, ref.dur) : t \in Selected(TracksOf(ref.package), r)}

------------------------------------------------------------------------------
(* On-demand channels                                                      *)

\* writeOnDemandSubtitlePlaylist: where it puts the beginning of the encoding's
\* output on the wall clock.
Anchor(e) ==
    LET first == SegmentsFrom(e, 0, 1)
    IN  IF first = {} THEN e.start ELSE e.start + EncStart(e, Least(first)) - e.offset

\* ffmpeg's segment list, which is only ever appended to, one place per segment
\* of the video, with the wall clock that the playlist gives each.
SubtitlePlaylist(e) ==
    [k \in 1..encodings[e.id].count |-> [number |-> k - 1, wall |-> Anchor(e) + (k - 1) * Grid]]

\* appendOnDemandManifestItems: the wall clock of a segment of the video.
VideoWall(e, n) == e.start + EncStart(e, n) - e.offset

------------------------------------------------------------------------------
(* What a viewer relies on                                                 *)

\* The packaged items a player has that are still ready.
Playable == {k \in DOMAIN heard.list :
                /\ heard.list[k].source[1] = "package"
                /\ Ready(Last(heard.list[k].source), played)}

\* What a player has fetched of a rendition: the cues of each part, on the asset's
\* time line; and the cues on the screen at a position, from all the parts of one
\* passage of it, as <<segment, cue>> for each time a cue is shown.
Fetched(r) ==
    [j \in Playable \cap Referring(heard.list, played, r) |->
        LET ref == Reference(heard.list[j], played)
        IN  {[id |-> c.id, from |-> ref.start + c.from, to |-> ref.start + c.to] : c \in SubtitleVTT(ref, r)}]
Passage(k, S) == {j \in S : heard.list[j].entry = heard.list[k].entry /\ heard.list[j].source = heard.list[k].source}
OnScreen(k, fetched, pos) ==
    UNION {{<<j, c.id>> : c \in {x \in fetched[j] : x.from <= pos /\ pos < x.to}} :
           j \in Passage(k, DOMAIN fetched)}

\* The tracks a rendition promises: text in its language, the forced narrative
\* exactly where it is asked for, captions for the deaf only where there is no other.
Promised(m, r) ==
    LET text == {t \in TracksOf(<<m, played>>) :
                    t.lang = r.lang /\ t.forced = r.forced /\ t.sidecar # NoSidecar}
    IN  {t \in text : t.sdh => \A u \in text : u.sdh}
Spoken(t, pos) == {c.id : c \in {x \in t.sidecar : x.from <= pos /\ pos < x.to}}

Renditions == {[lang |-> t.lang, forced |-> t.forced] : t \in UNION Range(Tracks)}

\* Cutting a sidecar along the segments loses and doubles nothing: throughout a
\* passage that a player holds, whenever it fetches the parts, every cue of one of
\* the promised tracks is on the screen once where it belongs, and nothing else is;
\* and as long as the entry is on, a master playlist over packages whose subtitles
\* are of the profile played names the rendition, unless its text is in the video
\* already, and then it does not (writeMasterManifest, handleSubtitlePlaylist,
\* handleSubtitleVTT, clipWebVTT).
Exactly(S, cues) == {x[2] : x \in S} = cues /\ Cardinality(S) = Cardinality(cues)
Told(k, r) ==
    /\ \E e \in Window : e.id = heard.list[k].entry
    /\ Ready(CurrentEntry.media, Required) /\ FirstVariant(CurrentEntry) = played
    => ([profile |-> played, rendition |-> r] \in Advertised <=> ~BurnedIn(played, r))
CuesInPlace ==
    \A r \in Renditions : LET fetched == Fetched(r) IN \A k \in Playable :
        LET m == Last(heard.list[k].source)
            shown == SegStart(m, heard.list[k].segment)..(SegEnd(m, heard.list[k].segment) - 1)
        IN  IF Promised(m, r) = {} THEN \A pos \in shown : OnScreen(k, fetched, pos) = {}
            ELSE /\ Told(k, r)
                 /\ \E t \in Promised(m, r) :
                       \A pos \in shown : Exactly(OnScreen(k, fetched, pos), Spoken(t, pos))

\* "Subtitle output t=0 == the encoding's first segment media start; map that to
\* wall clock the same way appendOnDemandManifestItems does for video PDT"
\* (subtitles.go, writeOnDemandSubtitlePlaylist): a segment of the subtitles and
\* the one of the video that it belongs to are at the same place on the wall clock.
SubtitlesInStep ==
    \A e \in schedule :
        \A n \in Encoded(e) : SubtitlePlaylist(e)[n + 1].wall = VideoWall(e, n)

==============================================================================
