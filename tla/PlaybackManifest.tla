-------------------------- MODULE PlaybackManifest --------------------------
(***************************************************************************)
(* internal/playback: the live playlists of one channel.  Nothing of a     *)
(* playlist is stored: every request derives its segments, their media     *)
(* sequence numbers and their discontinuity numbers from the clock, the    *)
(* schedule, the packages that are ready at that moment and the on-demand  *)
(* encodings.  A player that polls has to find the numbers it knows.       *)
(*                                                                         *)
(* A package's segments are given by its cuts: segment n (from 0) is the   *)
(* media between Cuts[m][n + 1] and Cuts[m][n + 2].  Encodings are what    *)
(* OnDemandManager makes them, seen through EnsureEncodingWithOptions,     *)
(* SegmentsFrom and LatestSegments: one current encoding of an entry, with *)
(* a base sequence past all that the entry listed before.                  *)
(*                                                                         *)
(* Rows of the schedule are laid, deleted and moved under the requests, in *)
(* the past too, and a request for the master playlist may wait while they *)
(* are, with the entry and the time it began with.                         *)
(***************************************************************************)
EXTENDS Integers, FiniteSets, SequencesExt

CONSTANTS
    Media, Profiles,
    Packages,       \* the packages there are, SUBSET (Media \X Profiles), by prefill mode
    Required,       \* the channel's profile
    Played,         \* the profile a player plays, by prefill mode
    Ladder,         \* its ABR ladder, in order, the required profile included
    Cuts,           \* [Media -> increasing sequence of positions, from 0]
    Shapes,         \* what is scheduled, [media, offset, dur], by prefill mode
    Grid,           \* ScheduleGridMs, and the target duration of an encoding's segments
    Ahead,          \* manifestAheadMs
    Limit,          \* packagedManifestLimit
    Lag, Warmup, Coverage,  \* on-demand playback lag, warm-up and readiness cushion
    Patience,       \* how long a request for the master playlist waits (warmDeadline)
    Retention,      \* how long an encoding keeps what is behind the air (artifactRetentionMs)
    MaxEntries,     \* bound: entries ever laid, by prefill mode
    MaxEncodings,   \* bound: encodings ever reserved
    Horizon         \* bound: the clock, by prefill mode

Modes == {"eager", "on_demand"}
Total(m) == Last(Cuts[m])

\* Entries are on the grid and no longer than their asset; on an on-demand channel,
\* where a request may start an encoding, the player has the channel's profile.
PlaybackAssumption ==
    /\ Packages \in [Modes -> SUBSET (Media \X Profiles)]
    /\ Ladder \in Seq(Profiles) /\ Required \in Range(Ladder)
    /\ Played \in [Modes -> Range(Ladder)] /\ Played["on_demand"] = Required
    /\ Limit \in Nat \ {0} /\ Grid \in Nat \ {0}
    /\ Ahead \in Nat \ {0} /\ {Lag, Warmup, Coverage, Patience, Retention, MaxEncodings} \subseteq Nat
    /\ Retention >= Lag + Warmup + Coverage
    /\ {MaxEntries, Horizon} \subseteq [Modes -> Nat]
    /\ Cuts \in [Media -> Seq(Nat)]
    /\ \A m \in Media : /\ Len(Cuts[m]) >= 2 /\ Cuts[m][1] = 0
                         /\ \A j, k \in DOMAIN Cuts[m] : j < k => Cuts[m][j] < Cuts[m][k]
    /\ Shapes \in [Modes -> SUBSET [media : Media, offset : Nat, dur : Nat]]
    /\ \A s \in UNION Range(Shapes) :
          /\ s.offset % Grid = 0 /\ s.dur % Grid = 0 /\ s.dur > 0
          /\ s.offset + s.dur <= Total(s.media)
ASSUME PlaybackAssumption

VARIABLES
    prefill,     \* "eager" or "on_demand"
    schedule,    \* the set of entries [id, start, media, offset, dur]
    laid,        \* entries laid so far
    ready,       \* SUBSET (Media \X Profiles): the ready packages a request may use
    encodings,   \* entry id -> the current encoding [id, of, from, base, first, count]: of is
                 \* the entry when it was reserved; it has written segments 0..count - 1
                 \* and keeps them from first on
    highWater,   \* [ids -> Int]: seqHighWater, -1 where there is none
    extraDisc,   \* ExtraDiscontinuities
    encoded,     \* encodings reserved so far
    now,
    waiting,     \* the requests for the master playlist that wait, [entry, at]
    heard        \* the playlist the player has read last, and the rows its numbers count

vars == <<prefill, schedule, laid, ready, encodings, highWater, extraDisc, encoded, now, waiting, heard>>

------------------------------------------------------------------------------
(* The schedule and the packages                                           *)
EndOf(e) == e.start + e.dur
MediaEnd(e) == e.offset + e.dur

\* ScheduleWindow and FindScheduleEntry
Window == {e \in schedule : e.start < now + Ahead /\ EndOf(e) > now}
OnAirAt(t) == {e \in Window : e.start <= t /\ t < EndOf(e)}

Segments(m) == 0..(Len(Cuts[m]) - 2)
SegStart(m, n) == Cuts[m][n + 1]
SegEnd(m, n) == Cuts[m][n + 2]
InEntry(e) == {n \in Segments(e.media) : SegEnd(e.media, n) > e.offset /\ SegStart(e.media, n) < MediaEnd(e)}

\* PackagedSegmentsFrom: the segment at a position, or the next one.
From(m, pos) == {n \in Segments(m) : SegEnd(m, n) > pos}
Least(S) == CHOOSE x \in S : \A y \in S : x <= y
Most(S) == CHOOSE x \in S : \A y \in S : y <= x

Ready(m, p) == <<m, p>> \in ready
Earlier(e) == {x \in schedule : x.start < e.start}

------------------------------------------------------------------------------
(* Numbers of packaged segments                                            *)

\* The segments of some entries, each by its entry's id and its number.
SegmentsOf(S) == UNION {{<<x.id, n>> : n \in InEntry(x)} : x \in S}

\* Mutant: the boundary segment that an entry's end cuts is not counted.
SequenceBaseWhole(e, p) ==
    Cardinality(UNION {{<<x.id, n>> : n \in {j \in InEntry(x) : SegEnd(x.media, j) <= MediaEnd(x)}} :
                       x \in {y \in Earlier(e) : Ready(y.media, p)}})

\* Mutant: only the entries in the window are counted.
SequenceBaseWindow(e, p) ==
    Cardinality(SegmentsOf({x \in Earlier(e) \cap Window : Ready(x.media, p)}))

\* packagedManifestSequenceBase: the segments of all earlier entries that are
\* ready now.
SequenceBase(e, p) == Cardinality(SegmentsOf({x \in Earlier(e) : Ready(x.media, p)}))

\* packagedManifestEntrySegmentOffset
SegmentOffset(e, first) == Cardinality({n \in InEntry(e) : n < first})

\* packagedManifestDiscontinuitySequence: changes of package among the ready
\* entries up to this one.
ReadyUpTo(e, p) == {x \in Earlier(e) \cup {e} : Ready(x.media, p)}
Discontinuities(e, p) ==
    Cardinality({x \in ReadyUpTo(e, p) :
        \E y \in ReadyUpTo(e, p) :
            /\ y.start < x.start /\ y.media # x.media
            /\ \A z \in ReadyUpTo(e, p) : z.start <= y.start \/ z.start >= x.start})

\* onDemandDiscontinuitySequence, with the replacements counted by the manager
OnDemandDiscontinuities(e) == Cardinality(Earlier(e)) + extraDisc

\* divRound, away from zero, and onDemandMediaSequence
DivRound(v, d) == IF v >= 0 THEN (v + (d \div 2)) \div d ELSE -(((d \div 2) - v) \div d)
GridNumber(e, pos) == (e.start \div Grid) + DivRound(pos - e.offset, Grid)

\* ... where a segment that rounds to the place of the one before gets the next.
OnDemandNumber(e, first, n) ==
    Most({GridNumber(e, SegStart(e.media, j)) + (n - j) : j \in first..n})

------------------------------------------------------------------------------
(* Items.  The loop of packagedManifestItemsWithOptions, one entry a step:  *)
(* list is what has been listed, wall where it ends, go that it goes on.    *)
Stop(s) == [list |-> s.list, wall |-> s.wall, go |-> FALSE]
Room(s) == Limit - Len(s.list)
Deadline == now + Ahead
Smaller(a, b) == IF a < b THEN a ELSE b
Larger(a, b) == IF a < b THEN b ELSE a

\* The segments of a package an entry lists from the wall position.
WallAt(e, n) == e.start + SegStart(e.media, n) - e.offset
Listed(e, first, room) ==
    {n \in InEntry(e) : /\ first <= n /\ n < first + room
                        /\ n > first => WallAt(e, n) < Deadline}

PackagedItem(e, p, first, n) ==
    IF prefill = "eager"
    THEN [entry |-> e.id, source |-> <<"package", e.media>>, segment |-> n,
          number |-> SequenceBase(e, p) + SegmentOffset(e, first) + (n - first),
          disc |-> Discontinuities(e, p)]
    ELSE [entry |-> e.id, source |-> <<"package", e.id, e.media>>, segment |-> n,
          number |-> OnDemandNumber(e, first, n),
          disc |-> OnDemandDiscontinuities(e)]

AppendPackaged(s, e, p) ==
    LET first == Least(From(e.media, e.offset + s.wall - e.start))
        last == Most(Listed(e, first, Room(s)))
    IN  [list |-> s.list \o [k \in 1..(last - first + 1) |-> PackagedItem(e, p, first, first + k - 1)],
         wall |-> e.start + SegEnd(e.media, last) - e.offset,
         go |-> TRUE]

Packaged(s, e, p) ==
    IF \E n \in From(e.media, e.offset + s.wall - e.start) : n \in InEntry(e)
    THEN AppendPackaged(s, e, p)
    ELSE Stop(s)

\* An encoding's segments, uniform as a transcode makes them.
EncStart(e, n) == encodings[e.id].from + n * Grid
EncEnd(e, n) == Smaller(encodings[e.id].from + (n + 1) * Grid, MediaEnd(e))
Encoded(e) ==
    IF e.id \in DOMAIN encodings THEN encodings[e.id].first..(encodings[e.id].count - 1) ELSE {}

\* Where playback is in an entry reached at a wall position, and what it is
\* served from: SegmentsFrom, or LatestSegments when the encoding is behind.
PlaybackWall(e, wall) == Larger(e.start, wall - Lag)
ServePosition(e, wall) == e.offset + Larger(e.start, PlaybackWall(e, wall) - Warmup) - e.start
SegmentsFrom(e, pos, room) ==
    LET ahead == {n \in Encoded(e) : EncEnd(e, n) > pos}
    IN  {n \in ahead : n < Least(ahead) + room}
LatestSegments(e, room) == {n \in Encoded(e) : n >= encodings[e.id].count - room}

\* Mutant: an encoding that is behind lists nothing.
ServedAhead(e, wall, room) == SegmentsFrom(e, ServePosition(e, wall), room)

Served(e, wall, room) ==
    IF SegmentsFrom(e, ServePosition(e, wall), room) # {}
    THEN SegmentsFrom(e, ServePosition(e, wall), room)
    ELSE LatestSegments(e, room)

\* The loop checks the deadline against the end of the segment before.
InTime(e, wall, S) ==
    {n \in S : IF n = Least(S) THEN wall < Deadline
               ELSE e.start + EncStart(e, n) - e.offset < Deadline}

EncodingItem(e, n) ==
    [entry |-> e.id, source |-> <<"encoding", e.id, encodings[e.id].id>>, segment |-> n,
     number |-> encodings[e.id].base + n, disc |-> OnDemandDiscontinuities(e)]

\* Mutant: what was listed before stays in front of numbers that do not follow.
FollowingAlways(s, first) == s.list

\* What was listed before is dropped unless the numbers go on.
Following(s, first) ==
    IF s.list # <<>> /\ Last(s.list).number + 1 # first.number THEN <<>> ELSE s.list

AppendEncoded(s, e, S) ==
    LET items == [k \in 1..Cardinality(S) |-> EncodingItem(e, Least(S) + k - 1)]
        wall == e.start + EncEnd(e, Most(S)) - e.offset
    IN  [list |-> Following(s, items[1]) \o items, wall |-> wall, go |-> wall >= EndOf(e)]

OnDemand(s, e) ==
    IF InTime(e, s.wall, Served(e, s.wall, Room(s))) # {}
    THEN AppendEncoded(s, e, InTime(e, s.wall, Served(e, s.wall, Room(s))))
    ELSE Stop(s)

AtEntry(s, e, p) ==
    IF Ready(e.media, p) THEN Packaged(s, e, p)
    ELSE IF prefill = "on_demand" THEN OnDemand(s, e)
    ELSE Stop(s)

Pass(s, p) ==
    IF s.go /\ s.wall < Deadline /\ Room(s) > 0 /\ OnAirAt(s.wall) # {}
    THEN AtEntry(s, CHOOSE e \in OnAirAt(s.wall) : TRUE, p)
    ELSE Stop(s)

\* No entry takes more than one.
Ran(p) ==
    LET run[k \in 0..Cardinality(schedule)] ==
          IF k = 0 THEN [list |-> <<>>, wall |-> now, go |-> TRUE] ELSE Pass(run[k - 1], p)
    IN  run[Cardinality(schedule)]
Items(p) == Ran(p).list

\* The entry the loop asks an encoding for without getting a segment, if any.
Wanting(p) ==
    {e \in OnAirAt(Ran(p).wall) :
        /\ prefill = "on_demand"
        /\ Ran(p).wall < Deadline /\ Len(Items(p)) < Limit
        /\ ~Ready(e.media, p)
        /\ e.id \notin DOMAIN encodings}

------------------------------------------------------------------------------
(* The master playlist (handleManifest)                                    *)
CurrentEntry == IF OnAirAt(now) # {} THEN CHOOSE e \in OnAirAt(now) : TRUE 
                ELSE CHOOSE e \in Window : \A x \in Window : e.start <= x.start

\* readyPackagedVariants, and the first of them in the ladder's order
Variants(e) == {p \in Range(Ladder) : Ready(e.media, p)}
FirstVariant(e) == Ladder[Least({k \in DOMAIN Ladder : Ready(e.media, Ladder[k])})]

\* The profiles that a master playlist names at once; none where it is the
\* required profile's playlist, an error or a wait instead.
Master ==
    IF Window # {} /\ Ready(CurrentEntry.media, Required) THEN Variants(CurrentEntry) ELSE {}

\* ensureOnDemandMasterReady: enough of the entry is there ahead of the position
\* that it was asked for at.
NeededCoverage(e, at) ==
    Larger(1, Smaller(Coverage, MediaEnd(e) - ServePosition(e, at)))
CoverageOf(e, S) == Cardinality(UNION {EncStart(e, n)..(EncEnd(e, n) - 1) : n \in S})
MasterReady(e, at) == CoverageOf(e, SegmentsFrom(e, ServePosition(e, at), Limit)) >= NeededCoverage(e, at)

------------------------------------------------------------------------------
(* Steps                                                                   *)
Nothing == [list |-> <<>>, rows |-> {}]
played == Played[prefill]

\* The rows an eager channel's numbers count, and those of them up to an entry.
ReadyRows(p) == {e \in schedule : prefill = "eager" /\ Ready(e.media, p)}
UpTo(rows, i) == {e \in rows : \E x \in rows : x.id = i /\ e.start <= x.start}

Init ==
    /\ prefill \in Modes
    /\ schedule = {} /\ laid = 0
    /\ ready = {}
    /\ encodings = [i \in {} |-> 0]
    /\ highWater = [i \in 1..MaxEntries[prefill] |-> -1]
    /\ extraDisc = 0 /\ encoded = 0
    /\ now = 0
    /\ waiting = {}
    /\ heard = Nothing

UnchangedButRows == UNCHANGED <<prefill, encodings, highWater, extraDisc, encoded, now, waiting, heard>>

\* An entry that is laid, and a schedule with room for it.
New(s, t) == [id |-> laid + 1, start |-> t, media |-> s.media, offset |-> s.offset, dur |-> s.dur]
Free(s, t) == \A e \in schedule : EndOf(e) <= t \/ t + s.dur <= e.start
MayLay == laid < MaxEntries[prefill] /\ laid' = laid + 1

\* The scheduler appends an entry at the tail, or at the clock's place on the
\* grid where the schedule has run dry.
\* Mutant: a tail in the future does not count.
NextStartNow(t) == t - (t % Grid)
NextStart(t) ==
    IF \E e \in schedule : EndOf(e) > t THEN Most({EndOf(e) : e \in schedule}) ELSE t - (t % Grid)
ScheduleExtends(s) ==
    /\ MayLay
    /\ NextStart(now) < now + Ahead
    /\ schedule' = schedule \cup {New(s, NextStart(now))}
    /\ UNCHANGED ready /\ UnchangedButRows

\* An operator puts an entry wherever there is room, past or to come (FillGap,
\* SaveWindow, and UpsertEntry once it has cleared what was there and behind).
EntryPlaced(s, t) ==
    /\ MayLay /\ t % Grid = 0 /\ Free(s, t)
    /\ schedule' = schedule \cup {New(s, t)}
    /\ UNCHANGED ready /\ UnchangedButRows

\* InsertRelative: an asset goes before or after an entry, and what starts there or
\* later makes room.
Moved(e, at, by) == IF e.start >= at THEN [e EXCEPT !.start = @ + by] ELSE e
EntryInserted(s, x, after) ==
    /\ MayLay /\ s.offset = 0
    /\ IF after THEN EndOf(x) > now ELSE x.start > now
    /\ LET at == IF after THEN EndOf(x) ELSE x.start
       IN  schedule' = {Moved(e, at, s.dur) : e \in schedule} \cup {New(s, at)}
    /\ UNCHANGED ready /\ UnchangedButRows

\* An operator deletes an entry or a stretch of them, past or to come (DeleteEntry,
\* DeleteRange, ClearSchedule, ClearScheduleAfter).
RowsDeleted(x, y) ==
    /\ x.start <= y.start
    /\ schedule' = {e \in schedule : e.start < x.start \/ y.start < e.start}
    /\ UNCHANGED <<laid, ready>> /\ UnchangedButRows

\* DeleteMediaByIDs: all rows of an asset go, and its packages.  (Scanned again,
\* it has its id again.)
MediaDeleted(m) ==
    /\ schedule' = {e \in schedule : e.media # m}
    /\ ready' = {g \in ready : g[1] # m}
    /\ UNCHANGED laid /\ UnchangedButRows

\* A package gets ready, or is requeued because a file is missing.
PackageReady(m, p) ==
    /\ <<m, p>> \in Packages[prefill]
    /\ ready' = ready \cup {<<m, p>>}
    /\ UNCHANGED <<schedule, laid>> /\ UnchangedButRows

RequeueReadyPackage(m, p) ==
    /\ Ready(m, p)
    /\ ready' = ready \ {<<m, p>>}
    /\ UNCHANGED <<schedule, laid>> /\ UnchangedButRows

\* EnsureEncodingWithOptions, for an entry that is reached at a wall position.
Reserve(e, wall) ==
    /\ e.id \notin DOMAIN encodings /\ encoded < MaxEncodings
    /\ encoded' = encoded + 1
    /\ encodings' =
         LET from == e.offset + PlaybackWall(e, wall) - e.start
             new == [id |-> encoded', of |-> e, from |-> from, first |-> 0, count |-> 0,
                     base |-> Larger(GridNumber(e, from), highWater[e.id] + 1)]
         IN  [i \in DOMAIN encodings \cup {e.id} |-> IF i = e.id THEN new ELSE encodings[i]]

\* A player polls the playlist of its profile: it gets what is listed, or an error
\* and asks again.
WritePackagedManifest ==
    /\ heard' = IF Items(played) = <<>> THEN heard
                ELSE [list |-> Items(played),
                      rows |-> UpTo(ReadyRows(played), Last(Items(played)).entry)]
    /\ \/ UNCHANGED <<encodings, encoded>>         \* nothing to start, or not admitted
       \/ \E e \in Wanting(played) : Reserve(e, Ran(played).wall)
    /\ UNCHANGED <<prefill, schedule, laid, ready, highWater, extraDisc, now, waiting>>

\* handleManifest, where it has to wait: from here on it goes by this entry and
\* this time.  (Bound: one at a time.)
HandleManifest ==
    /\ prefill = "on_demand" /\ waiting = {}
    /\ Window # {} /\ ~Ready(CurrentEntry.media, Required)
    /\ waiting' = {[entry |-> CurrentEntry, at |-> now]}
    /\ UNCHANGED <<prefill, schedule, laid, ready, encodings, highWater, extraDisc, encoded, now, heard>>

\* Its loop, try by try: an encoding is started and, once enough of it is there,
\* the playlist is written.
EnsureOnDemandMasterReady(w) ==
    /\ IF w.entry.id \notin DOMAIN encodings
       THEN Reserve(w.entry, w.at) /\ UNCHANGED waiting
       ELSE /\ MasterReady(w.entry, w.at)
            /\ waiting' = waiting \ {w} /\ UNCHANGED <<encodings, encoded>>
    /\ UNCHANGED <<prefill, schedule, laid, ready, highWater, extraDisc, now, heard>>

\* It is not admitted or its client is gone.
ManifestRefused(w) ==
    /\ waiting' = waiting \ {w}
    /\ UNCHANGED <<prefill, schedule, laid, ready, encodings, highWater, extraDisc, encoded, now, heard>>

UnchangedButEncodings == UNCHANGED <<prefill, schedule, laid, ready, encoded, now, waiting, heard>>

\* ffmpeg writes a segment and tailOnce finds it.
EncodingProgress(i) ==
    /\ i \in DOMAIN encodings
    /\ encodings[i].from + encodings[i].count * Grid < MediaEnd(encodings[i].of)
    /\ encodings' = [encodings EXCEPT ![i].count = @ + 1]
    /\ highWater' = [highWater EXCEPT ![i] = Larger(@, encodings[i].base + encodings[i].count)]
    /\ UNCHANGED extraDisc /\ UnchangedButEncodings

\* The sweeper's pruneTrailingLocked: what ended too far behind the air is removed.
Trailing(e) ==
    {n \in Encoded(e) :
        EncEnd(e, n) < e.offset + Larger(0, Smaller(now - e.start, e.dur)) - Retention}
PruneTrailing(i) ==
    /\ i \in DOMAIN encodings
    /\ LET gone == Trailing(encodings[i].of)
       IN  gone # {} /\ encodings' = [encodings EXCEPT ![i].first = Most(gone) + 1]
    /\ UNCHANGED <<highWater, extraDisc>> /\ UnchangedButEncodings

\* It fails or is restarted, and the next request replaces it.
EncodingLost(i) ==
    /\ i \in DOMAIN encodings
    /\ encodings' = [j \in DOMAIN encodings \ {i} |-> encodings[j]]
    /\ extraDisc' = extraDisc + 1
    /\ UNCHANGED highWater /\ UnchangedButEncodings

\* The clock ticks, and a request that has waited too long gets an error.
AdvanceTime ==
    /\ now < Horizon[prefill]
    /\ now' = now + 1
    /\ waiting' = {w \in waiting : now' <= w.at + Patience}
    /\ UNCHANGED <<prefill, schedule, laid, ready, encodings, highWater, extraDisc, encoded, heard>>

Edit ==
    \/ \E s \in Shapes[prefill] :
          \/ \E t \in 0..Horizon[prefill] : EntryPlaced(s, t)
          \/ \E x \in schedule, after \in BOOLEAN : EntryInserted(s, x, after)
    \/ \E x, y \in schedule : RowsDeleted(x, y)
    \/ \E m \in Media : MediaDeleted(m)

Next ==
    \/ \E s \in Shapes[prefill] : ScheduleExtends(s)
    \/ Edit
    \/ \E m \in Media, p \in Profiles : PackageReady(m, p) \/ RequeueReadyPackage(m, p)
    \/ WritePackagedManifest
    \/ HandleManifest
    \/ \E w \in waiting : EnsureOnDemandMasterReady(w) \/ ManifestRefused(w)
    \/ \E i \in 1..laid : EncodingProgress(i) \/ PruneTrailing(i) \/ EncodingLost(i)
    \/ AdvanceTime

Spec == Init /\ [][Next]_vars

------------------------------------------------------------------------------
(* What a player relies on                                                 *)

\* Entries are apart, an encoding and a request that waits belong to an entry that
\* was laid, and no number is one nobody assigned.  (What a package lists on an
\* on-demand channel is numbered from its place on the clock's grid, wherever the
\* clock began.)
PlaybackTypeOK ==
    /\ \A e, f \in schedule : e # f => e.id # f.id /\ (EndOf(e) <= f.start \/ EndOf(f) <= e.start)
    /\ laid \in 0..MaxEntries[prefill] /\ encoded \in 0..MaxEncodings /\ now \in 0..Horizon[prefill]
    /\ ready \subseteq Media \X Profiles
    /\ \A i \in DOMAIN encodings : encodings[i].base + encodings[i].count - 1 <= Larger(highWater[i], encodings[i].base - 1)
    /\ \A w \in waiting : w.entry.id \in 1..laid /\ w.at \in 0..now
    /\ \A k \in DOMAIN heard.list :
          /\ heard.list[k].entry \in 1..laid
          /\ heard.list[k].number \in
                IF prefill = "eager" \/ heard.list[k].source[1] = "encoding" THEN Nat ELSE Int

\* A playlist carries the numbers of its first segment; the player counts on.
Changes(list, k) == Cardinality({j \in 2..k : list[j].source # list[j - 1].source})
Implied(h) ==
    {[h.list[k] EXCEPT !.number = h.list[1].number + k - 1,
                       !.disc = h.list[1].disc + Changes(h.list, k)] : k \in DOMAIN h.list}
Segment(x) == <<x.entry, x.source, x.segment>>

FromEncodings(h) == \A k \in DOMAIN h.list : h.list[k].source[1] = "encoding"

\* A package that is cut off by the end of its entry never runs into the second
\* segment of the next one, nor past it.
Overrun(e) == SegEnd(e.media, Most(InEntry(e))) - MediaEnd(e)
CutsFit ==
    \A s, t \in Shapes["eager"] :
        /\ Overrun(s) < SegEnd(t.media, Least(InEntry(t))) - t.offset
        /\ Overrun(s) < t.dur

\* The numbers a player counts to are the numbers the segments have: nothing is
\* left out between two listed segments, across entries, repeats of an asset,
\* cut segments, gaps and changes of encoding (packagedManifestItemsWithOptions).
ItemsNumbered ==
    prefill = "eager" \/ FromEncodings(heard) => Implied(heard) = Range(heard.list)

\* Two polls agree on everything they both list: a segment keeps its number and
\* its discontinuity, and a number its segment, as the clock moves, entries are
\* laid, inserted, moved and deleted and packages come and go, as long as the rows
\* that are counted up to one of the two are the same.  (Numbers are counted anew
\* for every request: a row that is withdrawn, moved or requeued renumbers what
\* comes after it.)  Of an on-demand channel's playlists this holds within an
\* entry, whichever encodings follow one another and wherever it is moved.
SameHistory(i) == UpTo(heard.rows, i) = UpTo(heard'.rows, i)
Comparable(x, y) ==
    IF prefill = "eager" THEN SameHistory(x.entry) \/ SameHistory(y.entry)
    ELSE x.entry = y.entry /\ FromEncodings(heard) /\ FromEncodings(heard')
Agree(x, y) ==
    /\ Segment(x) = Segment(y) <=> x.number = y.number
    /\ prefill = "eager" /\ Segment(x) = Segment(y) => x.disc = y.disc
NumbersStable ==
    [][\A x \in Implied(heard), y \in Implied(heard') : Comparable(x, y) => Agree(x, y)]_heard

\* The playlist of an eager channel never goes back: neither EXT-X-MEDIA-SEQUENCE
\* nor EXT-X-DISCONTINUITY-SEQUENCE gets smaller between two polls, whatever is
\* laid, inserted or packaged, in the past too, as long as none of the rows is
\* withdrawn or moved that were counted up to the first segment.
NoneWithdrawn(i) == UpTo(heard.rows, i) \subseteq heard'.rows
NeverBack ==
    [][prefill = "eager" /\ heard # Nothing /\ NoneWithdrawn(heard.list[1].entry) =>
            /\ heard.list[1].number <= heard'.list[1].number
            /\ heard.list[1].disc <= heard'.list[1].disc]_heard

\* A master playlist leads somewhere.  One that is answered at once: while something
\* is on the air, every profile it names has a playlist with segments.  One that
\* waited and may now be answered, with the entry and the time it began with: the
\* required profile has, as long as that entry is still on the air, however far
\* the clock has moved and wherever the encoding stands.
MasterPlayable ==
    /\ OnAirAt(now) # {} => \A p \in Master : Items(p) # <<>>
    /\ \A w \in waiting :
          /\ w.entry.id \in DOMAIN encodings /\ MasterReady(w.entry, w.at)
          /\ \E e \in OnAirAt(now) : e.id = w.entry.id
          => Items(Required) # <<>>

==============================================================================
