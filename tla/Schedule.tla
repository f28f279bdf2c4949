------------------------------ MODULE Schedule ------------------------------
(***************************************************************************)
(* One channel's schedule under everybody who writes it: the extender's    *)
(* tick and the admin handlers of schedule_service.go and channels.go.     *)
(*                                                                         *)
(* A transaction is one action, and one that an index or an error refuses  *)
(* changes nothing.  A handler that reads rows first and writes in a later *)
(* transaction is a request in flight, holding what it read.               *)
(***************************************************************************)
EXTENDS ScheduleBuilder

CONSTANTS
    InitialLineup, \* channel_media in order
    LowWater,      \* the extender leaves a schedule alone that reaches this far
    Editors,       \* admin requests that may be in flight at once
    NoRequest,     \* an editor with nothing in flight
    Unsteady,      \* media whose packages come and go; the others are packaged
    StartTime,     \* the channel is created at this time
    MaxTime,       \* bound: the clock stops here
    MaxEnd,        \* bound: no edit writes a row that ends later
    MaxEdits,      \* bound: edits of the schedule begun
    MaxDraft,      \* bound: entries of a saved window
    Layouts,       \* bound: the schedules a client composes for a new channel
    Overlapping,   \* whether an edit may begin while another is in flight
    Overlong       \* whether a draft that keeps the tail may be longer than its window

ASSUME ScheduleAssumption ==
    /\ IsFiniteSet(Editors)
    /\ InitialLineup \in Seq(Media) /\ Unsteady \subseteq Schedulable
    /\ LowWater \in 1..(Horizon - 1)
    /\ Overlapping \in BOOLEAN /\ Overlong \in BOOLEAN
    /\ Layouts \subseteq Seq([media : Schedulable, offset : Nat, dur : Nat \ {0}]) \ {<<>>}
    /\ StartTime \in Nat \ {0} /\ MaxTime \in Nat /\ MaxEnd \in Nat

VARIABLES
    rows,     \* the channel's schedule_entries
    mode,     \* channels.schedule_mode and package mode
    lineup,   \* the eligible channel_media in order
    ready,    \* media with a ready package
    created,  \* createChannel has built the first schedule
    now,      \* the clock
    edits,    \* edits begun
    request   \* request[e]: what a handler has read and not yet written

vars == <<rows, mode, lineup, ready, created, now, edits, request>>
others == <<mode, lineup, ready, created, now>>

Ids == Nat \X Nat
Times == 0..MaxEnd
Drafts == UNION {[1..n -> Schedulable] : n \in 0..MaxDraft}

Requests ==
    [kind : {"delete"}, entry : Ids, from : Nat, media : Schedulable]
    \cup [kind : {"delete_range"}, from : Nat, to : Nat, start : Nat, media : Schedulable]
    \cup [kind : {"upsert"}, from : Nat, media : Schedulable, prev : Ids \cup {NoEntry}]
    \cup [kind : {"fill"}, entry : [start : Nat, media : Schedulable, offset : Nat, dur : Nat \ {0},
                                    kind : {"filler"}], prev : Ids \cup {NoEntry}, next : Ids]
    \cup [kind : {"save"}, from : Nat, to : Nat, extend : BOOLEAN, draft : Drafts,
          prev : Ids \cup {NoEntry}, media : Schedulable \cup {NoMedia}]
    \cup [kind : {"recompose"}, from : Nat, at : Nat]
    \cup [kind : {"remove"}, from : Nat, media : Media]

\* Ids that a request names.
NamedBy(r) ==
    IF r = NoRequest THEN {}
    ELSE ({r[f] : f \in DOMAIN r \cap {"prev", "next"}}
          \cup IF r.kind = "delete" THEN {r.entry} ELSE {}) \ {NoEntry}

Channel == [slotGrid |-> mode.slotGrid, eager |-> mode.eager, lineup |-> lineup, ready |-> ready,
            held |-> UNION {NamedBy(request[e]) : e \in Editors}]

\* Rows sit on the schedule's grid and play media within their package.
ScheduleTypeOK ==
    /\ rows \in [DOMAIN rows -> [start : Nat, media : Schedulable, offset : Nat, dur : Nat \ {0},
                                 kind : {"primary", "filler"}, anchor : Ids \cup {NoEntry}]]
    /\ DOMAIN rows \subseteq Ids
    /\ mode \in [slotGrid : BOOLEAN, eager : BOOLEAN]
    /\ lineup \in Seq(Media) /\ ready \subseteq Schedulable
    /\ created \in BOOLEAN /\ now \in Nat /\ edits \in Nat
    /\ request \in [Editors -> Requests \cup {NoRequest}]

Init ==
    /\ rows = <<>> /\ lineup = InitialLineup
    /\ mode \in [slotGrid : BOOLEAN, eager : BOOLEAN]
    /\ \E S \in SUBSET Unsteady : ready = (Schedulable \ Unsteady) \cup S
    /\ created = FALSE /\ now = StartTime /\ edits = 0
    /\ request = [e \in Editors |-> NoRequest]

-----------------------------------------------------------------------------
(* Extension.                                                              *)

Rebuilt(rs, resume) == ExtendChannel(Channel, rs, now, resume, FALSE, 0)

\* Both none_ready and ok commit what was done before the extension.
Commit(result) == rows' = IF result.outcome = "failed" THEN rows ELSE result.rows

\* createChannel: the first schedule, whose failure is not an error.
Create ==
    /\ ~created /\ created' = TRUE
    /\ Commit(ExtendChannel(Channel, rows, now, NoMedia, mode.slotGrid, 0))
    /\ UNCHANGED <<mode, lineup, ready, now, edits, request>>

\* What validateExplicitSchedule lays from base on: one piece after the other, those of the
\* request's filler media as filler.
Composed(base, pieces, filler) ==
    LET at == Ends(base, [k \in DOMAIN pieces |-> pieces[k].dur])
    IN  {Entry(at[k - 1], pieces[k].media, pieces[k].offset, pieces[k].dur,
               IF pieces[k].media \in filler THEN "filler" ELSE "primary") : k \in DOMAIN pieces}

\* createChannel with a schedule of the client's: an edit, that the head index refuses where
\* the extender has been at the channel.
CreateExplicit(pieces, filler) ==
    /\ ~created /\ created' = TRUE /\ edits' = edits + 1
    /\ LET base == IF mode.slotGrid THEN AlignToSlot(StartTime) ELSE StartTime
           composed == Composed(base, pieces, filler)
           inserted == Insert(Channel, rows, composed, NoEntry)
       IN  /\ mode.slotGrid =>
                \A x \in composed : x.kind = "primary" => (x.start - base) % SlotLength = 0
           /\ Commit(Outcome(IF Indexed(inserted) THEN "ok" ELSE "failed", inserted))
    /\ UNCHANGED <<mode, lineup, ready, now, request>>

\* The extender's pass over the channel.
Tick ==
    /\ Commit(ExtendChannel(Channel, rows, now, NoMedia, FALSE, LowWater))
    /\ UNCHANGED <<others, edits, request>>

\* handleChannelExtend
Extend ==
    /\ Commit(Rebuilt(rows, NoMedia))
    /\ UNCHANGED <<others, edits, request>>

-----------------------------------------------------------------------------
(* Edits in one transaction.                                               *)

Edit == edits' = edits + 1

Apply(result) == Edit /\ Commit(result) /\ UNCHANGED <<others, request>>

Bounded(rs) == \A i \in DOMAIN rs : End(rs[i]) <= MaxEnd

\* handleChannelClearSchedule
Clear(t) == Apply(Outcome("ok", ClearAfter(rows, t)))

Restart == Apply(Rebuilt(<<>>, NoMedia))

\* DeleteScheduleEntryByID: the successor takes over the anchor.
Deleted(rs, i) ==
    [j \in DOMAIN rs \ {i} |->
       IF rs[j].anchor = i THEN [rs[j] EXCEPT !.anchor = rs[i].anchor] ELSE rs[j]]

DeleteEntry(i) == i \in DOMAIN rows /\ Apply(Outcome("ok", Deleted(rows, i)))

\* DeleteScheduleRangeIntersect; slip: the chain is closed behind what starts earlier,
\* which may be deleted.
RangeDeletedSlip(rs, from, to) ==
    LET kept == Keep(rs, DOMAIN rs \ Intersecting(rs, from, to))
        next == FirstFrom(rs, to)
    IN  IF next = NoEntry THEN kept
        ELSE [kept EXCEPT ![next].anchor = LastBefore(rs, from)]
RangeDeleted(rs, from, to) ==
    LET kept == Keep(rs, DOMAIN rs \ Intersecting(rs, from, to))
        next == FirstFrom(rs, to)
    IN  IF next = NoEntry THEN kept
        ELSE [kept EXCEPT ![next].anchor = Latest(rs, {i \in DOMAIN rs : End(rs[i]) <= from})]

\* handleChannelDeleteScheduleRange, and DeleteRange's reading of the window: there is
\* something to delete.
RangeAsked(from, to) == from < to /\ Intersecting(rows, from, to) # {} /\ Intact(rows)

DeleteRange(from, to) ==
    /\ RangeAsked(from, to)
    /\ LET left == RangeDeleted(rows, from, to)
       IN  Apply(Outcome(IF Indexed(left) THEN "ok" ELSE "failed", left))

\* What may be scheduled by hand.
Allowed(m) == m \in ready /\ m \in Range(lineup) \cup Range(Filler)

\* insertEntryRelative: what starts at the new entry's start or later makes room.
InsertRelative(i, m, after) ==
    /\ i \in DOMAIN rows /\ Allowed(m)
    /\ IF after THEN End(rows[i]) > now ELSE rows[i].start > now
    /\ LET at == IF after THEN End(rows[i]) ELSE rows[i].start
           shifted == [j \in DOMAIN rows |->
                         IF rows[j].start >= at THEN [rows[j] EXCEPT !.start = @ + Duration[m]]
                         ELSE rows[j]]
           inserted == Insert(Channel, shifted, {Entry(at, m, 0, Duration[m], "primary")},
                              IF after THEN i ELSE rows[i].anchor)
           new == CHOOSE j \in DOMAIN inserted : j \notin DOMAIN rows
           spliced == [j \in DOMAIN inserted |->
                         IF j # new /\ (IF after THEN inserted[j].anchor = i ELSE j = i)
                         THEN [inserted[j] EXCEPT !.anchor = new] ELSE inserted[j]]
       IN  /\ Bounded(spliced)
           /\ Apply(Outcome(IF Indexed(spliced) THEN "ok" ELSE "failed", spliced))

\* RemoveMedia that leaves the schedule alone: not asked to prune it, or nothing to prune.
RemoveMember(m) ==
    /\ m \in Range(lineup) /\ Edit
    /\ lineup' = Among(lineup, Media \ {m})
    /\ UNCHANGED <<rows, mode, ready, created, now, request>>

-----------------------------------------------------------------------------
(* Edits that read before their transaction.                               *)

Begin(e, r) ==
    /\ request[e] = NoRequest /\ request' = [request EXCEPT ![e] = r]
    /\ Edit /\ UNCHANGED <<rows, others>>

Pending(e, kind) == request[e] # NoRequest /\ request[e].kind = kind

Finish(e, result) ==
    /\ Commit(result)
    /\ request' = [request EXCEPT ![e] = NoRequest]
    /\ UNCHANGED <<mode, ready, created, now, edits>>

ReadDelete(e, i) ==
    /\ i \in DOMAIN rows
    /\ Begin(e, [kind |-> "delete", entry |-> i, from |-> rows[i].start, media |-> rows[i].media])

WriteDelete(e) ==
    /\ Pending(e, "delete")
    /\ LET r == request[e]
       IN  Finish(e, IF r.entry \notin DOMAIN rows THEN Outcome("failed", rows)
                     ELSE Rebuilt(ClearAfter(Deleted(rows, r.entry), r.from), r.media))
    /\ UNCHANGED lineup

ReadDeleteRange(e, from, to) ==
    /\ RangeAsked(from, to)
    /\ LET S == Intersecting(rows, from, to)
       IN  Begin(e, [kind |-> "delete_range", from |-> from, to |-> to,
                     start |-> rows[Earliest(rows, S)].start, media |-> rows[Latest(rows, S)].media])

WriteDeleteRange(e) ==
    /\ Pending(e, "delete_range")
    /\ LET r == request[e]
           left == RangeDeleted(rows, r.from, r.to)
       IN  Finish(e, IF Indexed(left) THEN Rebuilt(ClearAfter(left, r.start), r.media)
                     ELSE Outcome("failed", rows))
    /\ UNCHANGED lineup

\* An entry starts before t and ends after it.
Inside(t) == \E i \in DOMAIN rows : rows[i].start < t /\ t < End(rows[i])

ReadUpsert(e, from, m) ==
    /\ Allowed(m) /\ from + Duration[m] <= MaxEnd /\ ~Inside(from) /\ Intact(rows)
    /\ Begin(e, [kind |-> "upsert", from |-> from, media |-> m, prev |-> LastBefore(rows, from)])

WriteUpsert(e) ==
    /\ Pending(e, "upsert")
    /\ LET r == request[e]
           entry == Entry(r.from, r.media, 0, Duration[r.media], "primary")
           inserted == Insert(Channel, ClearAfter(rows, r.from), {entry}, r.prev)
       IN  Finish(e, IF Indexed(inserted) THEN Rebuilt(inserted, r.media)
                     ELSE Outcome("failed", rows))
    /\ UNCHANGED lineup

\* resolveFillerOffset: the place after the last placement, or the start where that overruns.
FillerOffset(m, from, dur) ==
    LET cursor == Cursors(rows, from)[m]
    IN  IF dur >= Duration[m] \/ cursor + dur > Duration[m] THEN 0 ELSE cursor

\* A gap begins at t or reaches past it; slip: an entry may begin there.
GapSlip(t) ==
    /\ FirstFrom(rows, t) # NoEntry
    /\ \A i \in DOMAIN rows : rows[i].start < t => End(rows[i]) <= t
Gap(t) ==
    /\ FirstFrom(rows, t) # NoEntry
    /\ \A i \in DOMAIN rows : rows[i].start # t
    /\ LastBefore(rows, t) # NoEntry => End(rows[LastBefore(rows, t)]) <= t

\* handleChannelFillScheduleGap: the offset is the client's, or continues the rotation.
OffsetAsked(m, from, dur, sequential, asked) ==
    IF sequential THEN FillerOffset(m, from, dur) ELSE asked

\* A gap is filled to the next entry.
ReadFillGap(e, from, m, sequential, asked) ==
    /\ m \in Range(Filler) \cap ready
    /\ Gap(from)
    /\ LET next == FirstFrom(rows, from)
           prev == LastBefore(rows, from)
           dur == rows[next].start - from
           offset == OffsetAsked(m, from, dur, sequential, asked)
       IN  /\ offset + dur <= Duration[m]
           /\ Begin(e, [kind |-> "fill", entry |-> Entry(from, m, offset, dur, "filler"),
                        prev |-> prev, next |-> next])

WriteFillGap(e) ==
    /\ Pending(e, "fill")
    /\ LET r == request[e]
           inserted == Insert(Channel, rows, {r.entry}, r.prev)
           new == CHOOSE j \in DOMAIN inserted : j \notin DOMAIN rows
           spliced == IF r.next \in DOMAIN rows THEN [inserted EXCEPT ![r.next].anchor = new]
                      ELSE inserted
       IN  Finish(e, Outcome(IF Indexed(spliced) THEN "ok" ELSE "failed", spliced))
    /\ UNCHANGED lineup

\* The entries of a draft, one after the other.
Layout(from, draft) ==
    LET at == Ends(from, [k \in DOMAIN draft |-> Duration[draft[k]]])
    IN  {Entry(at[k - 1], draft[k], 0, Duration[draft[k]], "primary") : k \in DOMAIN draft}

LayoutEnd(from, draft) == Max({from} \cup {End(x) : x \in Layout(from, draft)})

\* handleChannelSaveScheduleWindowOrdered: a window is emptied only when it is saved in
\* place, and the tail mode is about the extension.
WindowAsked(from, to, draft, extend, preserve) ==
    /\ from < to
    /\ draft = <<>> => ~extend
    /\ preserve => extend

ReadSaveWindow(e, from, to, draft, extend, preserve) ==
    /\ WindowAsked(from, to, draft, extend, preserve)
    /\ \A k \in DOMAIN draft : Allowed(draft[k])
    /\ LayoutEnd(from, draft) <= IF extend \/ Overlong THEN MaxEnd ELSE to
    /\ ~Inside(from) /\ Intact(rows)
    /\ LET S == Intersecting(rows, from, to)
       IN  Begin(e, [kind |-> "save", from |-> from, to |-> to, extend |-> extend, draft |-> draft,
                     prev |-> LastBefore(rows, from),
                     media |-> IF preserve /\ S # {} THEN rows[Latest(rows, S)].media
                               ELSE IF draft = <<>> THEN NoMedia ELSE draft[Len(draft)]])

\* The window is replaced and the row after it repointed.
SavedInPlace(r) ==
    LET kept == Keep(rows, DOMAIN rows \ Intersecting(rows, r.from, r.to))
        inserted == Insert(Channel, kept, Layout(r.from, r.draft), r.prev)
        new == DOMAIN inserted \ DOMAIN kept
        next == FirstFrom(rows, r.to)
        saved == IF next = NoEntry THEN inserted
                 ELSE [inserted EXCEPT ![next].anchor =
                         IF new = {} THEN r.prev ELSE Latest(inserted, new)]
    IN  Outcome(IF Indexed(inserted) /\ Indexed(saved) THEN "ok" ELSE "failed", saved)

WriteSaveWindow(e) ==
    /\ Pending(e, "save")
    /\ LET r == request[e]
           inserted == Insert(Channel, ClearAfter(rows, r.from), Layout(r.from, r.draft), r.prev)
       IN  Finish(e, IF ~r.extend THEN SavedInPlace(r)
                     ELSE IF Indexed(inserted) THEN Rebuilt(inserted, r.media)
                     ELSE Outcome("failed", rows))
    /\ UNCHANGED lineup

ReadRecompose(e) ==
    /\ mode.slotGrid
    /\ LET prev == LastBefore(rows, now + 1)
       IN  Begin(e, [kind |-> "recompose", at |-> now,
                     from |-> IF prev = NoEntry THEN now ELSE End(rows[prev])])

\* Here an extension without packages rolls the clear back.
WriteRecompose(e) ==
    /\ Pending(e, "recompose")
    /\ LET r == request[e]
           result == ExtendChannel(Channel, ClearAfter(rows, r.from), r.at, NoMedia, FALSE, 0)
       IN  Finish(e, IF result.outcome = "ok" THEN result ELSE Outcome("failed", rows))
    /\ UNCHANGED lineup

ReadRemoveMedia(e, m) ==
    /\ m \in Range(lineup)
    /\ \E i \in DOMAIN rows : rows[i].media = m /\ rows[i].start >= now
    /\ LET S == {i \in DOMAIN rows : rows[i].media = m /\ rows[i].start >= now}
       IN  Begin(e, [kind |-> "remove", from |-> rows[Earliest(rows, S)].start, media |-> m])

WriteRemoveMedia(e) ==
    /\ Pending(e, "remove")
    /\ LET r == request[e]
           left == Among(lineup, Media \ {r.media})
           result == ExtendChannel([Channel EXCEPT !.lineup = left], ClearAfter(rows, r.from), now,
                                   r.media, FALSE, 0)
       IN  /\ Finish(e, result)
           /\ lineup' = IF result.outcome = "failed" THEN lineup ELSE left

-----------------------------------------------------------------------------
(* The rest of the system.                                                 *)

\* A package is finished, deleted or encoded again.
PackageChanges(m) ==
    /\ ready' = IF m \in ready THEN ready \ {m} ELSE ready \cup {m}
    /\ UNCHANGED <<rows, mode, lineup, created, now, edits, request>>

AdvanceTime ==
    /\ now < MaxTime /\ now' = now + 1
    /\ UNCHANGED <<rows, mode, lineup, ready, created, edits, request>>

\* Times that select differently: a window that ends between two starts selects the same
\* rows as one that ends at the later.
Starts == {rows[i].start : i \in DOMAIN rows}
WindowEnds == Starts \cup {MaxEnd}

Write(e) ==
    \/ WriteDelete(e) \/ WriteDeleteRange(e) \/ WriteUpsert(e) \/ WriteFillGap(e)
    \/ WriteSaveWindow(e) \/ WriteRecompose(e) \/ WriteRemoveMedia(e)

Read(e) ==
    \/ ReadRecompose(e)
    \/ \E m \in Media : ReadRemoveMedia(e, m)
    \/ \E i \in DOMAIN rows : ReadDelete(e, i)
    \/ \E from \in Times, m \in Schedulable :
         \/ ReadUpsert(e, from, m)
         \/ \E sequential \in BOOLEAN, offset \in 0..(Duration[m] - 1) :
              ReadFillGap(e, from, m, sequential, offset)
    \/ \E from \in Times, to \in WindowEnds :
         \/ ReadDeleteRange(e, from, to)
         \/ \E draft \in Drafts, extend, preserve \in BOOLEAN :
              ReadSaveWindow(e, from, to, draft, extend, preserve)

EditAtOnce ==
    \/ Restart
    \/ \E t \in Starts : Clear(t)
    \/ \E i \in DOMAIN rows :
         \/ DeleteEntry(i)
         \/ \E m \in Schedulable, after \in BOOLEAN : InsertRelative(i, m, after)
    \/ \E from \in Times, to \in WindowEnds : DeleteRange(from, to)
    \/ \E m \in Media : RemoveMember(m)

\* A channel's id is made when it is created: who edits it has it from the answer.
MayEdit ==
    /\ created /\ edits < MaxEdits
    /\ ~Overlapping => \A e \in Editors : request[e] = NoRequest

Next ==
    \/ Create \/ Tick \/ Extend \/ AdvanceTime
    \/ \E pieces \in Layouts, filler \in SUBSET Range(Filler) : CreateExplicit(pieces, filler)
    \/ \E m \in Unsteady : PackageChanges(m)
    \/ MayEdit /\ (EditAtOnce \/ \E e \in Editors : request[e] = NoRequest /\ Read(e))
    \/ \E e \in Editors : Write(e)

Spec == Init /\ [][Next]_vars

-----------------------------------------------------------------------------
(* Properties.                                                             *)

\* Readers never refuse the schedule, and the chain they follow is in time order: whatever
\* the extender does between an edit's read and its write, and whatever the edit splices.
ChainFollowsTime ==
    /\ Intact(rows)
    /\ \A i \in DOMAIN rows : rows[i].anchor = LastBefore(rows, rows[i].start)

\* schedcheck.checkChannel: the audit of a window, row by row in time order, each compared
\* with the row before.  That media exist is the lineup's concern, and rows are on the grid.
Previous(listed, i) == Latest(rows, {j \in listed : rows[j].start < rows[i].start})
Overlapped(listed) ==
    {i \in listed : Previous(listed, i) # NoEntry /\ rows[i].start < End(rows[Previous(listed, i)])}
Gaps(listed, from) ==
    {<<IF Previous(listed, i) = NoEntry THEN from ELSE End(rows[Previous(listed, i)]),
       rows[i].start>> : i \in listed}
OutOfBounds(listed) ==
    {i \in listed : rows[i].dur <= 0 \/ rows[i].offset < 0
                    \/ rows[i].offset + rows[i].dur > Duration[rows[i].media]}
NotReady(listed) == IF mode.eager THEN {i \in listed : rows[i].media \notin ready} ELSE {}
Audit(from, to, gap) ==
    LET listed == Intersecting(rows, from, to)
    IN  [overlap |-> Overlapped(listed), bounds |-> OutOfBounds(listed), unready |-> NotReady(listed),
         gaps |-> {g \in Gaps(listed, from) : g[2] - g[1] > gap}, empty |-> listed = {}]

Covered(rs, t) == \E i \in DOMAIN rs : rs[i].start <= t /\ t < End(rs[i])

\* The audit of everything from the clock on, and of everything, finds no overlap and nothing
\* that plays past the end of its media, whoever shifted, spliced or cut it; and what it calls
\* a gap is where nothing is on: it compares neighbours only, which is enough in such a
\* schedule.
AuditRight(from) ==
    LET found == Audit(from, MaxEnd + Horizon, 0)
        listed == Intersecting(rows, from, MaxEnd + Horizon)
    IN  /\ found.overlap = {} /\ found.bounds = {}
        /\ UNION {g[1]..(g[2] - 1) : g \in found.gaps} =
             {t \in from..(IF listed = {} THEN from - 1 ELSE End(rows[Latest(rows, listed)]) - 1) :
                ~Covered(rows, t)}
NoScheduleIssue == AuditRight(0) /\ AuditRight(now)

Primaries == {i \in DOMAIN rows : rows[i].kind = "primary"}

\* Until somebody edits or composes the schedule, each primary is followed by the next of the lineup,
\* whichever passes laid the two, whatever was ready for each and however far the schedule
\* had drained between them.
InRotation ==
    edits = 0 =>
      \A i, j \in Primaries :
        /\ rows[i].start < rows[j].start
        /\ ~\E k \in Primaries : rows[i].start < rows[k].start /\ rows[k].start < rows[j].start
        => rows[j].media = Rotation(lineup, rows[i].media)[1]

\* Where a slot-grid channel has filler to play, what a pass of the extender appends leaves
\* no hole behind the tail or from now, and ends on a slot boundary.
ExtensionGapFree ==
    [][ /\ mode.slotGrid /\ UsableFiller(Channel) # <<>>
        /\ LastEntry(rows') # LastEntry(rows)
        /\ UNCHANGED <<edits, request>> /\ Tick
        => LET end == End(rows'[LastEntry(rows')])
           IN  /\ end % SlotLength = 0
               /\ \A t \in NextStart(rows, now)..(end - 1) : Covered(rows', t) ]_vars

\* One pass of the extender puts a channel whose lineup is packaged back on the air, whatever
\* was edited, whatever is in flight and however long its schedule had been dry; a slot-grid
\* channel that is due for a pass and has filler is on the air at once.
OnePassFromAir ==
    lineup # <<>> /\ Range(lineup) \subseteq ready =>
      LET pass == ExtendChannel(Channel, rows, now, NoMedia, FALSE, LowWater)
      IN  /\ pass.outcome = "ok"
          /\ \E i \in DOMAIN pass.rows : End(pass.rows[i]) > now
          /\ /\ mode.slotGrid /\ UsableFiller(Channel) # <<>>
             /\ ~AboveLowWater(rows, now, LowWater)
             => Covered(pass.rows, now)

\* "The schedule is never wiped without a rebuild": where a recompose clears entries, it
\* lays others.
NeverWiped ==
    [][ \A e \in Editors :
          /\ WriteRecompose(e)
          /\ \E i \in DOMAIN rows : rows[i].start >= request[e].from
          => \E i \in DOMAIN rows' : rows'[i].start >= request[e].from ]_vars

=============================================================================
