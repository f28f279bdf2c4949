--------------------------- MODULE ScheduleBuilder ---------------------------
(***************************************************************************)
(* How a channel's schedule_entries are extended: internal/scheduler, on   *)
(* the rows of one channel.  A row of rs is found by its id and names its  *)
(* predecessor by anchor; the chain of anchors is what readers follow.     *)
(*                                                                         *)
(* The unit of time is the 6000 ms grid that every start and duration is   *)
(* a multiple of, so a duration is what ClipToGrid leaves of it.  An id is *)
(* a start and a number: like the uuid it stands for, it is given to one   *)
(* row only while anything still names it.                                 *)
(***************************************************************************)
EXTENDS Naturals, SequencesExt

CONSTANTS
    Media,      \* what the channel may schedule as primary programming
    Filler,     \* its enabled filler assets, in the order of ChannelFillerAssets
    Duration,   \* the packaged duration of each
    SlotLength, \* channels.slot_duration_ms
    Horizon,    \* how far ahead an extension reaches
    NoEntry,    \* a NULL anchor
    NoMedia     \* no media to resume after

Schedulable == Media \cup Range(Filler)

ASSUME BuilderAssumption ==
    /\ Duration \in [Schedulable -> Nat \ {0}]
    /\ SlotLength \in Nat \ {0} /\ Horizon \in Nat \ {0}
    /\ Filler \in Seq(Schedulable)
    /\ NoMedia \notin Schedulable
    /\ NoEntry \notin Nat \X Nat

Entry(start, media, offset, dur, kind) ==
    [start |-> start, media |-> media, offset |-> offset, dur |-> dur, kind |-> kind]

End(r) == r.start + r.dur

\* The row of an entry in the chain.
Row(e, anchor) ==
    [start |-> e.start, media |-> e.media, offset |-> e.offset, dur |-> e.dur, kind |-> e.kind,
     anchor |-> anchor]

Latest(rs, S) ==
    IF S = {} THEN NoEntry ELSE CHOOSE i \in S : \A j \in S : rs[j].start <= rs[i].start
Earliest(rs, S) ==
    IF S = {} THEN NoEntry ELSE CHOOSE i \in S : \A j \in S : rs[i].start <= rs[j].start

LastBefore(rs, t) == Latest(rs, {i \in DOMAIN rs : rs[i].start < t})
FirstFrom(rs, t) == Earliest(rs, {i \in DOMAIN rs : rs[i].start >= t})
Intersecting(rs, from, to) == {i \in DOMAIN rs : rs[i].start < to /\ End(rs[i]) > from}

-----------------------------------------------------------------------------
(* The chain.                                                              *)

\* The unique indexes: one row per start, one head, one successor per anchor.
Indexed(rs) ==
    \A i, j \in DOMAIN rs : i # j => rs[i].start # rs[j].start /\ rs[i].anchor # rs[j].anchor

\* ScheduleEntriesOrdered's walk from the head; NoEntry from where it leads no further.
Walk(rs) ==
    LET Follower(i) == LET S == {j \in DOMAIN rs : rs[j].anchor = i}
                       IN  IF S = {} THEN NoEntry ELSE CHOOSE j \in S : TRUE
        path[n \in 0..Cardinality(DOMAIN rs)] ==
          IF n = 0 THEN NoEntry
          ELSE IF n > 1 /\ path[n - 1] = NoEntry THEN NoEntry ELSE Follower(path[n - 1])
    IN  path

\* ScheduleEntriesOrdered returns no error: the walk meets every row.
Intact(rs) == DOMAIN rs \subseteq Range(Walk(rs))

\* The last row of an intact chain.
LastEntry(rs) == Walk(rs)[Cardinality(DOMAIN rs)]

\* InsertScheduleEntries: a batch, chained in order behind first.
Insert(ch, rs, batch, first) ==
    LET used == DOMAIN rs \cup ch.held \cup {rs[i].anchor : i \in DOMAIN rs}
        Id(e) == <<e.start, CHOOSE g \in 0..Cardinality(used) :
                              /\ <<e.start, g>> \notin used
                              /\ \A h \in 0..(g - 1) : <<e.start, h>> \in used>>
        Earlier(e) == {d \in batch : d.start < e.start}
        Anchor(e) == IF Earlier(e) = {} THEN first
                     ELSE Id(CHOOSE d \in Earlier(e) : \A b \in Earlier(e) : b.start <= d.start)
        new == [i \in {Id(e) : e \in batch} |->
                  LET e == CHOOSE e \in batch : Id(e) = i IN Row(e, Anchor(e))]
    IN  [i \in DOMAIN new \cup DOMAIN rs |-> IF i \in DOMAIN new THEN new[i] ELSE rs[i]]

\* The items of a sequence that are in S, in order.
Among(s, S) ==
    LET kept[k \in 0..Len(s)] ==
          IF k = 0 THEN <<>> ELSE IF s[k] \in S THEN Append(kept[k - 1], s[k]) ELSE kept[k - 1]
    IN  kept[Len(s)]

Keep(rs, S) == [i \in S |-> rs[i]]
ClearAfter(rs, t) == Keep(rs, {i \in DOMAIN rs : rs[i].start < t})

-----------------------------------------------------------------------------
(* Back to back.                                                           *)

\* The lineup from the item after `last', or from the top when it is no member.
Rotation(lineup, last) ==
    LET after == IF last \in Range(lineup) THEN CHOOSE i \in DOMAIN lineup : lineup[i] = last ELSE 0
    IN  [i \in DOMAIN lineup |-> lineup[((after + i - 1) % Len(lineup)) + 1]]

\* contiguousReadyMedia: the items before the first that is not ready.
ReadyRun(list, ready) ==
    SubSeq(list, 1, Max({n \in 0..Len(list) : \A i \in 1..n : list[i] \in ready}))

\* Where entries of these durations end that follow one another from start on.
Ends(start, durations) ==
    LET at[k \in 0..Len(durations)] == IF k = 0 THEN start ELSE at[k - 1] + durations[k]
    IN  at

\* BuildEntries over at most `rounds' passes of the list.
BackToBack(list, start, limit, rounds) ==
    LET item(k) == list[((k - 1) % Len(list)) + 1]
        most == IF list = <<>> THEN 0 ELSE rounds * Len(list)
        at == Ends(start, [k \in 1..most |-> Duration[item(k)]])
    IN  {Entry(at[k - 1], item(k), 0, Duration[item(k)], "primary") :
           k \in {k \in 1..most : at[k] <= limit}}

-----------------------------------------------------------------------------
(* Slot grid.                                                              *)

AlignToSlot(t) == IF t % SlotLength = 0 THEN t ELSE t + (SlotLength - (t % SlotLength))

\* loadSlotGridFiller: the ready assets, each with the place its last placement ended at.
UsableFiller(ch) == Among(Filler, ch.ready)
LastPlacement(rs, f, before) ==
    Latest(rs, {i \in DOMAIN rs : rs[i].media = f /\ rs[i].kind = "filler" /\ rs[i].start < before})

\* Slip: the cursor runs on past the end of the asset.
CursorsSlip(rs, before) ==
    [f \in Range(Filler) |->
       LET prev == LastPlacement(rs, f, before)
       IN  IF prev = NoEntry THEN 0 ELSE rs[prev].offset + rs[prev].dur]
Cursors(rs, before) ==
    [f \in Range(Filler) |->
       LET prev == LastPlacement(rs, f, before)
       IN  IF prev = NoEntry THEN 0 ELSE (rs[prev].offset + rs[prev].dur) % Duration[f]]

\* tileFillerGap, one grid unit at a time: the piece goes on until its asset or the gap ends.
AddFiller(usable, acc, t) ==
    LET goesOn == /\ acc.pieces # <<>> /\ End(Last(acc.pieces)) = t
                  /\ acc.cursor[Last(acc.pieces).media] # 0
        f == IF goesOn THEN Last(acc.pieces).media ELSE usable[(acc.turn % Len(usable)) + 1]
        cursor == [acc.cursor EXCEPT ![f] = (@ + 1) % Duration[f]]
    IN  IF goesOn
        THEN [pieces |-> [acc.pieces EXCEPT ![Len(acc.pieces)].dur = @ + 1],
              cursor |-> cursor, turn |-> acc.turn]
        ELSE [pieces |-> Append(acc.pieces, Entry(t, f, acc.cursor[f], 1, "filler")),
              cursor |-> cursor, turn |-> acc.turn + 1]

Tile(usable, cursor, gaps) ==
    LET first == Min(gaps)
        acc[t \in (first - 1)..Max(gaps)] ==
          IF t < first THEN [pieces |-> <<>>, cursor |-> cursor, turn |-> 0]
          ELSE IF t \in gaps THEN AddFiller(usable, acc[t - 1], t) ELSE acc[t - 1]
    IN  IF usable = <<>> \/ gaps = {} THEN {} ELSE Range(acc[Max(gaps)].pieces)

\* bestFitLeadingPrimary: the longest that ends by the first boundary, the first of equals.
BestFit(lineup, gap) ==
    LET fits == {i \in DOMAIN lineup : Duration[lineup[i]] <= gap}
    IN  IF fits = {} THEN NoMedia
        ELSE lineup[CHOOSE i \in fits : \A j \in fits :
                      LET di == Duration[lineup[i]] dj == Duration[lineup[j]]
                      IN  di > dj \/ (di = dj /\ i <= j)]

\* Where a batch of primaries is tiled up to; slip: where the last of them ends.
TailEndSlip(primaries) == Max({End(e) : e \in primaries})
TailEnd(primaries) == AlignToSlot(Max({End(e) : e \in primaries}))

\* The leading primary, and then primaries on boundaries while they fit.
OnBoundaries(ch, start, limit, last, lead) ==
    LET list == Rotation(ch.lineup, IF lead = NoMedia THEN last ELSE lead)
        item(k) == list[((k - 1) % Len(list)) + 1]
        most == limit - start
        at[k \in 0..most] ==
          IF k = 0 THEN IF lead = NoMedia THEN start ELSE AlignToSlot(start)
          ELSE AlignToSlot(at[k - 1]) + Duration[item(k)]
    IN  {Entry(AlignToSlot(at[k - 1]), item(k), 0, Duration[item(k)], "primary") :
           k \in {k \in 1..most : at[k] <= limit}}
        \cup IF lead = NoMedia THEN {} ELSE {Entry(start, lead, 0, Duration[lead], "primary")}

\* Filler where there is none of the primaries.
WithFiller(ch, cursor, start, primaries) ==
    IF primaries = {} THEN {}
    ELSE primaries \cup
         Tile(UsableFiller(ch), cursor,
              {t \in start..(TailEnd(primaries) - 1) : \A e \in primaries : t < e.start \/ t >= End(e)})

\* BuildEntriesSlotGridFilled
SlotGrid(ch, cursor, start, limit, last, leading) ==
    WithFiller(ch, cursor, start,
               OnBoundaries(ch, start, limit, last,
                            IF leading THEN BestFit(ch.lineup, AlignToSlot(start) - start)
                            ELSE NoMedia))

-----------------------------------------------------------------------------
(* Extension.                                                              *)

Outcome(outcome, rs) == [outcome |-> outcome, rows |-> rs]

\* scheduleStart: the tail's end, or now when the schedule is empty or has drained.
NextStart(rs, clock) ==
    IF rs = <<>> \/ End(rs[LastEntry(rs)]) < clock THEN clock ELSE End(rs[LastEntry(rs)])

\* What the rotation continues from; slip: the literal last row.
LastScheduledSlip(ch, rs) == IF rs = <<>> THEN NoMedia ELSE rs[LastEntry(rs)].media
LastScheduled(ch, rs) ==
    LET i == IF ch.slotGrid THEN Latest(rs, {j \in DOMAIN rs : rs[j].kind = "primary"}) ELSE LastEntry(rs)
    IN  IF i = NoEntry THEN NoMedia ELSE rs[i].media

\* The entries of an extension.
Batch(ch, rs, start, limit, last, leading) ==
    IF ch.slotGrid
    THEN SlotGrid(ch, Cursors(rs, start), start, limit, last, leading /\ rs = <<>>)
    ELSE IF ch.eager /\ ~(Range(ch.lineup) \subseteq ch.ready)
    THEN BackToBack(ReadyRun(Rotation(ch.lineup, last), ch.ready), start, limit, 1)
    ELSE BackToBack(Rotation(ch.lineup, last), start, limit, Horizon)

\* extendChannelTail
ExtendFrom(ch, rs, start, limit, last, leading) ==
    IF start >= limit THEN Outcome("ok", rs)
    ELSE IF ch.lineup = <<>> THEN Outcome("failed", rs)
    ELSE IF ch.eager /\ Range(ch.lineup) \cap ch.ready = {} THEN Outcome("none_ready", rs)
    ELSE IF ch.eager /\ ch.slotGrid /\ ~(Range(ch.lineup) \subseteq ch.ready) THEN Outcome("ok", rs)
    ELSE Outcome("ok", Insert(ch, rs, Batch(ch, rs, start, limit, last, leading), LastEntry(rs)))

ExtendTail(ch, rs, clock, resume, leading) ==
    ExtendFrom(ch, rs, NextStart(rs, clock), clock + Horizon,
               IF resume = NoMedia THEN LastScheduled(ch, rs) ELSE resume, leading)

\* A batch goes in ahead of head, which follows its last entry.
SplicedAhead(ch, rs, head, batch) ==
    LET inserted == Insert(ch, rs, batch, rs[head].anchor)
    IN  [inserted EXCEPT ![head].anchor = Latest(inserted, DOMAIN inserted \ DOMAIN rs)]

\* backfillSlotGridLeadingGap: filler between now and the first entry that is still to end.
BackfilledTo(ch, rs, clock, head) ==
    IF head = NoEntry \/ UsableFiller(ch) = <<>> THEN rs
    ELSE IF rs[head].start <= clock THEN rs
    ELSE SplicedAhead(ch, rs, head,
                      Tile(UsableFiller(ch), Cursors(rs, clock), clock..(rs[head].start - 1)))
Backfilled(ch, rs, clock) ==
    BackfilledTo(ch, rs, clock, Earliest(rs, {i \in DOMAIN rs : End(rs[i]) > clock}))

\* The low-water check; slip: the end is compared as if it were what remains.
AboveLowWaterSlip(rs, clock, lowWater) ==
    rs # <<>> /\ lowWater > 0 /\ End(rs[LastEntry(rs)]) >= lowWater
AboveLowWater(rs, clock, lowWater) ==
    rs # <<>> /\ lowWater > 0 /\ End(rs[LastEntry(rs)]) >= clock + lowWater

Healed(ch, result, clock) ==
    IF ch.slotGrid /\ result.outcome = "ok" THEN [result EXCEPT !.rows = Backfilled(ch, @, clock)]
    ELSE result

\* An index refuses what the transaction would leave.
Checked(result, rs) == IF Indexed(result.rows) THEN result ELSE Outcome("failed", rs)

\* ExtendChannel; lowWater is 0 for a caller that does not set it.
ExtendChannel(ch, rs, clock, resume, leading, lowWater) ==
    IF ~Intact(rs) THEN Outcome("failed", rs)
    ELSE IF AboveLowWater(rs, clock, lowWater) THEN Outcome("ok", rs)
    ELSE Checked(Healed(ch, ExtendTail(ch, rs, clock, resume, leading), clock), rs)

=============================================================================
