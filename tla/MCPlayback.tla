------------------------------ MODULE MCPlayback ------------------------------
(***************************************************************************)
(* PlaybackManifest over two packages whose segments do not follow the     *)
(* grid: of a an entry takes a part, which cuts the last segment, b is     *)
(* regular.  The player's profile is the first of the ladder and burns the *)
(* forced narrative in, the channel's is the second and has only a.  There *)
(* is English dialogue for a, once for the deaf, and a forced narrative,   *)
(* for b only captions for the deaf beside a bitmap track.                 *)
(***************************************************************************)
EXTENDS SubtitlePlaylists

CONSTANTS a, b, p1, p2

MCLadder == <<p2, p1>>
MCPlayed == [eager |-> p2, on_demand |-> p1]
MCBurned == p1 :> {} @@ p2 :> {"eng"}
MCCuts == a :> <<0, 2, 5, 7>> @@ b :> <<0, 2, 4>>
MCPackages == [eager |-> {<<a, p2>>, <<b, p2>>, <<a, p1>>}, on_demand |-> {<<b, p1>>}]
MCMaxEntries == [eager |-> 3, on_demand |-> 2]
MCHorizon == [eager |-> 5, on_demand |-> 4]
Long == [media |-> a, offset |-> 0, dur |-> 6]
Part == [media |-> a, offset |-> 0, dur |-> 4]
Regular == [media |-> b, offset |-> 0, dur |-> 2]
Rest == [media |-> b, offset |-> 2, dur |-> 2]
MCShapes == [eager |-> {Part, Rest}, on_demand |-> {Long, Regular}]

Cue(id, from, to) == [id |-> id, from |-> from, to |-> to]
Track(stream, forced, sdh, sidecar) ==
    [stream |-> stream, lang |-> "eng", forced |-> forced, sdh |-> sdh, manual |-> FALSE, sidecar |-> sidecar]
MCTracks ==
    <<a, p2>> :> {Track(2, TRUE, FALSE, {Cue("f1", 1, 3)}),
                  Track(3, FALSE, TRUE, {Cue("s1", 0, 1), Cue("s2", 1, 5)}),
                  Track(4, FALSE, FALSE, {Cue("d1", 1, 5), Cue("d2", 3, 4)}),
                  Track(5, FALSE, FALSE, NoSidecar)} @@
    <<a, p1>> :> {Track(2, TRUE, FALSE, {Cue("f1", 1, 3)})} @@
    <<b, p2>> :> {Track(2, FALSE, FALSE, NoSidecar),
                  Track(3, FALSE, TRUE, {Cue("s1", 1, 4)})}

ASSUME CutsFit

================================================================================
