--------------------------- MODULE OnDemandManager ---------------------------
(***************************************************************************)
(* internal/ondemand/manager.go: the ephemeral ffmpeg encodings of the     *)
(* channels that are played on demand.  One lock (Manager.mu) protects the *)
(* maps; restarting, the sweeper, operators and three goroutines per         *)
(* encoding (startReserved, tailLoop, waitLoop) take it one critical       *)
(* section at a time, and that section is the grain of the actions here.   *)
(*                                                                         *)
(* Time is relative: every deadline and every "last" instant of the code   *)
(* is kept as the ticks left until it or gone since it, and saturates once *)
(* no comparison of the code can tell it from a later one.  A tick is the  *)
(* sweeper's period.                                                       *)
(***************************************************************************)
EXTENDS Integers, FiniteSets, SequencesExt

CONSTANTS
    Channels, Entries,
    ChannelOf,      \* [Entries -> Channels]
    StartOf,        \* [Entries -> Nat], the tick an entry starts at
    Length,         \* [Entries -> Nat], its duration in ticks
    BurnChoices,    \* the subtitle languages an operator may have burnt in
    NoBurn,         \* no language, as a new manager has it
    Operated,       \* the channels operators restart, stop or switch language on
    MaxConcurrent, Grace, EvictIdle, StallTimeout, Trailing, Retention, Lag,
    RestartBudget, Cooldown, KillGate,
    HasDB,          \* whether the manager was given a database to show its encodings in
    MaxOperations,  \* bound: what operators do while one process of the manager runs
    MaxStarts,      \* bound: encodings reserved by one process of the manager
    MaxSegments     \* bound: segments ffmpeg produces for one encoding

None == "none"

ASSUME OnDemandAssumption ==
    /\ ChannelOf \in [Entries -> Channels]
    /\ StartOf \in [Entries -> Nat]
    /\ Length \in [Entries -> Nat \ {0}]
    /\ Operated \subseteq Channels
    /\ NoBurn \in BurnChoices
    /\ {MaxConcurrent, RestartBudget, MaxStarts, MaxSegments} \subseteq Nat \ {0}
    /\ {Grace, EvictIdle, StallTimeout, Cooldown, KillGate, Lag, MaxOperations} \subseteq Nat
    /\ Trailing \in Nat /\ Lag <= Trailing     \* nobody asks for an entry the sweeper takes as over
    /\ Retention \in Nat \ {0} /\ Trailing <= Retention     \* artifactRetentionMs
    /\ HasDB \in BOOLEAN
    /\ IsFiniteSet(Channels) /\ IsFiniteSet(Entries) /\ None \notin Entries

Ids == 1..MaxStarts

VARIABLES
    enc,         \* id -> the encoding's record, from its reservation to the end of its goroutines
    encodings,   \* channel -> the ids it tracks, for the channels that have a map
    byID,        \* SUBSET Ids
    retained,    \* id -> the list a detached encoding leaves, and the ticks it stays
    lastTouch,   \* channel -> ticks since a viewer last asked for it
    restarts,    \* [Entries -> Nat]
    blocked,     \* entry -> ticks left of its cool-down
    killGate,    \* [Channels -> Nat], ticks left of an operator's stop
    highWater,   \* [Entries -> Int], seqHighWater; -1 where the map has no entry
    burn,        \* [Channels -> BurnChoices]
    seq,         \* the last id handed out
    rows,        \* SUBSET Ids: the on_demand_encodings table
    dirs,        \* SUBSET Ids: the directories under the encoding root
    restarting,  \* channels between SetBurnSubtitleLanguage's section and RestartChannel's
    stops,       \* the goroutines in stop(): the ids each one has still to stop, in order
    sweeper,     \* [due, list, dirs]: its ticker has fired; what it has still to stop and to remove
    operations,  \* how many operations operators have made
    now

limits == <<restarts, blocked, killGate>>
maps == <<encodings, byID, retained, lastTouch>>
vars == <<enc, encodings, byID, retained, lastTouch, restarts, blocked, killGate,
          highWater, burn, seq, rows, dirs, restarting, stops, sweeper,
          operations, now>>

------------------------------------------------------------------------------
EndOf(e) == StartOf[e] + Length[e]
Largest(S) == CHOOSE x \in S : \A y \in S : y <= x
Horizon == Largest({0} \cup {EndOf(e) : e \in Entries}) + Trailing + 1
Empty == [x \in {} |-> 0]
Without(f, S) == [x \in DOMAIN f \ S |-> f[x]]
With(f, k, v) == [x \in DOMAIN f \cup {k} |-> IF x = k THEN v ELSE f[x]]

Tracked(c) == IF c \in DOMAIN encodings THEN encodings[c] ELSE {}
TrackedFor(e) == {i \in Tracked(ChannelOf[e]) : enc[i].entry = e}

\* Mutant: an encoding that is still starting takes no slot.
WorkingWhenServing(i) == enc[i].state = "serving"

\* runningLocked: processRunning is true in exactly these two states.
Working(i) == enc[i].state \in {"starting", "serving"}
Running(S) == Cardinality({i \in S : Working(i)})

\* The entry is over for the sweeper.
EntryOver(e) == now > EndOf(e) + Trailing

\* What a fresh channelEncoding holds.
Reserved(e, b, position, base) ==
    [entry |-> e, burn |-> b, state |-> "starting", proc |-> "reserved",
     cancelled |-> FALSE, stopped |-> FALSE, done |-> FALSE, tail |-> FALSE,
     from |-> position, base |-> base, parsed |-> 0, pruned |-> 0, age |-> 0]

\* A record is dropped once its stop has returned and its tail loop has ended.
Settled(i, r) == IF r.stopped /\ ~r.tail THEN Without(enc, {i}) ELSE With(enc, i, r)
Live(i) == i \in DOMAIN enc

\* recordEncoding
Recorded(i) == IF HasDB THEN rows \cup {i} ELSE rows

Init ==
    /\ enc = Empty
    /\ encodings = Empty /\ byID = {} /\ retained = Empty /\ lastTouch = Empty
    /\ restarts = [e \in Entries |-> 0] /\ blocked = Empty
    /\ killGate = [c \in Channels |-> 0]
    /\ highWater = [e \in Entries |-> -1]
    /\ burn = [c \in Channels |-> NoBurn]
    /\ seq = 0 /\ rows = {} /\ dirs = {}
    /\ restarting = {}
    /\ stops = {} /\ sweeper = [due |-> FALSE, list |-> <<>>, dirs |-> {}]
    /\ operations = 0 /\ now = 0

------------------------------------------------------------------------------
(* Detaching: delete from encodings and byID, then retainEncodingLocked.   *)

\* The media sequence numbers of the segments in the list.
Kept(i) == (enc[i].base + enc[i].pruned) .. (enc[i].base + enc[i].parsed - 1)

\* retainEncodingLocked counts the segments still in the list.
RetainTop(i) == enc[i].base + (enc[i].parsed - enc[i].pruned) - 1

RetainRaised(S) ==
    [e \in Entries |->
        Largest({highWater[e]} \cup
                {RetainTop(i) : i \in {j \in S : enc[j].entry = e /\ Kept(j) # {}}})]

\* RestartChannel and KillChannel raise it by every segment parsed.
ParsedRaised(S) ==
    [e \in Entries |->
        Largest({RetainRaised(S)[e]} \cup
                {enc[i].base + enc[i].parsed - 1 : i \in {j \in S : enc[j].entry = e}})]

\* Mutant: the list stays a tick too long.
RetainLonger(kept, S) ==
    [i \in DOMAIN kept \cup S |->
        IF i \in S
        THEN [entry |-> enc[i].entry, list |-> Kept(i), left |-> Retention + 1]
        ELSE kept[i]]

Retain(kept, S) ==
    [i \in DOMAIN kept \cup S |->
        IF i \in S
        THEN [entry |-> enc[i].entry, list |-> Kept(i), left |-> Retention]
        ELSE kept[i]]

\* The ids of a set in the order a loop over a Go map may visit them.
Orders(S) == {s \in [1..Cardinality(S) -> S] : IsInjective(s)}

\* Mutant: a detached encoding is left to run out.
StopNone(S) == UNCHANGED stops

\* stop() of each id of S, one after the other, in a goroutine of its own.
StopAll(S) ==
    IF S = {} THEN UNCHANGED stops ELSE \E s \in Orders(S) : stops' = stops \cup {s}

\* noteFailureLocked for the encodings in S: failures count against the entry.
\* (An encoding is counted once: failCounted holds in state failed only.)
Failed(r) == [r EXCEPT !.state = "failed", !.age = 0]
Failures(e, S) == Cardinality({i \in S : enc[i].entry = e})
NoteFailures(S) ==
    /\ restarts' = [e \in Entries |-> restarts[e] + Failures(e, S)]
    /\ blocked' = [e \in DOMAIN blocked \cup
                         {enc[i].entry : i \in {j \in S : restarts'[enc[j].entry] >= RestartBudget}} |->
                     IF Failures(e, S) > 0 /\ restarts'[e] >= RestartBudget
                     THEN Cooldown ELSE blocked[e]]

------------------------------------------------------------------------------
(* Admission                                                               *)

\* EnsureEncodingWithOptions for an entry of the channel's schedule: Touch, then
\* reserveEncoding, which finds
Request(e) ==
    /\ now <= EndOf(e) + Lag
    /\ seq < MaxStarts

Touched(e) == lastTouch' = With(lastTouch, ChannelOf[e], 0)

\* ... the gate of an operator's stop closed, or an encoding that serves the
\* request already ...
Usable(e) ==
    \E i \in TrackedFor(e) : enc[i].state # "failed" /\ enc[i].burn = burn[ChannelOf[e]]

ReserveNothing(e) ==
    /\ Request(e)
    /\ killGate[ChannelOf[e]] > 0 \/ Usable(e)
    /\ Touched(e)
    /\ UNCHANGED <<enc, encodings, byID, retained, limits, highWater, burn, seq, rows, dirs,
                   restarting, stops, sweeper, operations, now>>

\* ... or neither: an encoding the entry has is replaced (`go m.stop(existing)`).
Admissible(e) ==
    /\ Request(e)
    /\ killGate[ChannelOf[e]] = 0
    /\ ~Usable(e)

\* Encodings of S leave the maps; channels in Forget lose map and touch.
Dropped(S, cs) ==
    [c \in DOMAIN encodings \ cs |-> encodings[c] \ S]

CoolingDown(e) == e \in DOMAIN blocked /\ blocked[e] > 0

ReserveBlocked(e) ==
    /\ Admissible(e)
    /\ CoolingDown(e)
    /\ encodings' = Dropped(TrackedFor(e), {})
    /\ byID' = byID \ TrackedFor(e)
    /\ retained' = Retain(retained, TrackedFor(e))
    /\ highWater' = RetainRaised(TrackedFor(e))
    /\ StopAll(TrackedFor(e))
    /\ Touched(e)
    /\ UNCHANGED <<enc, limits, burn, seq, rows, dirs, restarting, sweeper, operations, now>>

\* The cool-down, once expired, is forgotten with the failures that led to it.
ForgetCooldown(e) ==
    /\ blocked' = Without(blocked, {e})
    /\ restarts' = IF e \in DOMAIN blocked THEN [restarts EXCEPT ![e] = 0] ELSE restarts
    /\ UNCHANGED killGate

\* newEncodingLocked: the encode starts at the (lagging) playhead, and its first
\* number is that place on the grid, or past whatever an earlier encoding listed.
Position(e) == Largest({StartOf[e], now - Lag})
\* Mutant: the new encoding begins with the last number of the old one.
BaseSeqSlip(e, water) == IF Position(e) <= water THEN water ELSE Position(e)
BaseSeq(e, water) == IF Position(e) <= water THEN water + 1 ELSE Position(e)

ReserveNew(e) ==
    LET S == TrackedFor(e)
        c == ChannelOf[e]
        i == seq + 1
        others == Dropped(S, {})
    IN
    /\ Admissible(e)
    /\ ~CoolingDown(e)
    /\ Running(byID \ S) < MaxConcurrent
    /\ ForgetCooldown(e)
    /\ seq' = i
    /\ enc' = With(enc, i, Reserved(e, burn[c], Position(e), BaseSeq(e, RetainRaised(S)[e])))
    /\ encodings' = With(others, c, (IF c \in DOMAIN others THEN others[c] ELSE {}) \cup {i})
    /\ byID' = (byID \ S) \cup {i}
    /\ retained' = Retain(retained, S)
    /\ highWater' = RetainRaised(S)
    /\ StopAll(S)
    /\ Touched(e)
    /\ UNCHANGED <<burn, rows, dirs, restarting, sweeper, operations, now>>

\* detachEvictionVictimLocked: the other channels that have an encoding and
\* that no viewer asked for lately; the one longest untouched goes.
Idle(c) ==
    {d \in DOMAIN lastTouch \ {c} : lastTouch[d] >= EvictIdle /\ Tracked(d) # {}}
Victims(c) == {d \in Idle(c) : \A x \in Idle(c) : lastTouch[x] <= lastTouch[d]}

\* At capacity: a victim is stopped, and the request tries again afterwards (a
\* later ReserveNew of the same request).
ReserveEvict(e, d) ==
    LET S == TrackedFor(e) \cup Tracked(d) IN
    /\ Admissible(e)
    /\ ~CoolingDown(e)
    /\ Running(byID \ TrackedFor(e)) >= MaxConcurrent
    /\ d \in Victims(ChannelOf[e])
    /\ ForgetCooldown(e)
    /\ encodings' = Dropped(S, {d})
    /\ byID' = byID \ S
    /\ retained' = Retain(retained, S)
    /\ highWater' = RetainRaised(S)
    /\ lastTouch' = With(Without(lastTouch, {d}), ChannelOf[e], 0)
    /\ \E s \in Orders(TrackedFor(e)), t \in Orders(Tracked(d)) :
          stops' = stops \cup ({s, t} \ {<<>>})
    /\ UNCHANGED <<enc, burn, seq, rows, dirs, restarting, sweeper, operations, now>>

\* ErrAtCapacity: nobody to evict.
ReserveFull(e) ==
    /\ Admissible(e)
    /\ ~CoolingDown(e)
    /\ Running(byID \ TrackedFor(e)) >= MaxConcurrent
    /\ Victims(ChannelOf[e]) = {}
    /\ ForgetCooldown(e)
    /\ encodings' = Dropped(TrackedFor(e), {})
    /\ byID' = byID \ TrackedFor(e)
    /\ retained' = Retain(retained, TrackedFor(e))
    /\ highWater' = RetainRaised(TrackedFor(e))
    /\ StopAll(TrackedFor(e))
    /\ Touched(e)
    /\ UNCHANGED <<enc, burn, seq, rows, dirs, restarting, sweeper, operations, now>>

------------------------------------------------------------------------------
(* The goroutines of one encoding                                          *)

\* startReserved: the directory, then ffmpeg.  A context that has been
\* cancelled meanwhile makes the spawn fail; either failure is counted.
StartReserved(i) ==
    /\ Live(i) /\ enc[i].proc = "reserved"
    /\ ~enc[i].cancelled
    /\ enc' = [enc EXCEPT ![i].proc = "running", ![i].tail = TRUE]
    /\ dirs' = dirs \cup {i}
    /\ rows' = Recorded(i)
    /\ UNCHANGED <<maps, limits, highWater, burn, seq, restarting, stops, sweeper, operations, now>>

StartFails(i) ==
    /\ Live(i) /\ enc[i].proc = "reserved"
    /\ enc' = [enc EXCEPT ![i] = [Failed(@) EXCEPT !.proc = "exited", !.done = TRUE]]
    /\ NoteFailures({i})
    /\ \/ UNCHANGED dirs               \* MkdirAll failed
       \/ dirs' = dirs \cup {i}        \* spawn failed
    /\ UNCHANGED <<maps, killGate, highWater, burn, seq, rows, restarting, stops, sweeper, operations, now>>

\* tailOnce: ffmpeg's playlist has one more segment; then recordEncoding.
TailOnce(i) ==
    /\ Live(i) /\ enc[i].tail
    /\ enc[i].parsed < MaxSegments
    /\ enc' = [enc EXCEPT ![i] =
                 [@ EXCEPT !.parsed = enc[i].parsed + 1, !.age = 0,
                           !.state = IF enc[i].state = "starting"
                                     THEN "serving" ELSE enc[i].state]]
    /\ highWater' = [highWater EXCEPT ![enc[i].entry] =
                       Largest({@, enc[i].base + enc[i].parsed})]
    /\ rows' = Recorded(i)
    /\ UNCHANGED <<maps, limits, burn, seq, dirs, restarting, stops, sweeper, operations, now>>

\* tailLoop ends once it has seen the process done, after a last look, or the
\* context cancelled.
TailEnd(i) ==
    /\ Live(i) /\ enc[i].tail
    /\ enc[i].done \/ enc[i].cancelled
    /\ enc' = Settled(i, [enc[i] EXCEPT !.tail = FALSE])
    /\ UNCHANGED <<maps, limits, highWater, burn, seq, rows, dirs, restarting, stops, sweeper, operations, now>>

\* waitLoop: ffmpeg exits, with an error or not; the row is written before
\* done is closed.
WaitLoop(i, ok) ==
    /\ Live(i) /\ enc[i].proc = "running"
    /\ LET noted == enc[i].state \notin {"failed", "stopping"} IN
       /\ enc' = [enc EXCEPT ![i] =
                    [@ EXCEPT !.proc = "exited", !.done = TRUE, !.age = 0,
                              !.state = IF ~noted THEN enc[i].state
                                        ELSE IF ok THEN "ended" ELSE "failed"]]
       /\ IF noted /\ ~ok THEN NoteFailures({i}) ELSE UNCHANGED <<restarts, blocked>>
    /\ rows' = Recorded(i)
    /\ UNCHANGED <<maps, killGate, highWater, burn, seq, dirs, restarting, stops, sweeper, operations, now>>

\* stop: mark, write the row if ffmpeg was spawned, cancel ...
Spawned(i) == enc[i].proc # "reserved" /\ i \in dirs
\* Mutant: a failed encoding is taken for one whose process has ended.
StoppingUnlessFailed(i) ==
    /\ enc' = [enc EXCEPT ![i] =
                 [@ EXCEPT !.cancelled = enc[i].state # "failed", !.age = 0,
                           !.state = IF enc[i].state = "failed" THEN "failed" ELSE "stopping"]]
    /\ rows' = IF Spawned(i) THEN Recorded(i) ELSE rows

Stopping(i) ==
    /\ enc' = [enc EXCEPT ![i] =
                 [@ EXCEPT !.cancelled = TRUE, !.age = 0,
                           !.state = IF enc[i].state = "failed" THEN "failed" ELSE "stopping"]]
    /\ rows' = IF Spawned(i) THEN Recorded(i) ELSE rows

StopBegin ==
    /\ \/ \E s \in stops : ~enc[Head(s)].cancelled /\ Stopping(Head(s))
       \/ sweeper.list # <<>> /\ ~enc[Head(sweeper.list)].cancelled /\ Stopping(Head(sweeper.list))
    /\ UNCHANGED <<maps, limits, highWater, burn, seq, dirs, restarting, stops, sweeper, operations, now>>

\* ... wait for done, delete the row, and go on with the next encoding.
Stoppable(i) == enc[i].cancelled /\ enc[i].done
Stopped(i) ==
    /\ enc' = Settled(i, [enc[i] EXCEPT !.stopped = TRUE])
    /\ rows' = rows \ {i}

StopEnd ==
    /\ \E s \in stops :
          /\ Stoppable(Head(s))
          /\ Stopped(Head(s))
          /\ stops' = (stops \ {s}) \cup ({Tail(s)} \ {<<>>})
    /\ UNCHANGED <<maps, limits, highWater, burn, seq, dirs, restarting, sweeper, operations, now>>

\* The sweeper goes on: the directories go after the last encoding has stopped.
SweepRest(due, list, removed) ==
    /\ dirs' = IF list = <<>> THEN dirs \ removed ELSE dirs
    /\ sweeper' = [due |-> due, list |-> list, dirs |-> IF list = <<>> THEN {} ELSE removed]

\* Mutant: the sweeper stops and removes, as Shutdown does.
SweepStopAndRemove ==
    /\ sweeper.list # <<>>
    /\ Stoppable(Head(sweeper.list))
    /\ Stopped(Head(sweeper.list))
    /\ SweepRest(sweeper.due, Tail(sweeper.list), sweeper.dirs \cup {Head(sweeper.list)})
    /\ UNCHANGED <<maps, limits, highWater, burn, seq, restarting, stops, operations, now>>

SweepStopEnd ==
    /\ sweeper.list # <<>>
    /\ Stoppable(Head(sweeper.list))
    /\ Stopped(Head(sweeper.list))
    /\ SweepRest(sweeper.due, Tail(sweeper.list), sweeper.dirs)
    /\ UNCHANGED <<maps, limits, highWater, burn, seq, restarting, stops, operations, now>>

------------------------------------------------------------------------------
(* The sweeper                                                             *)

\* pruneTrailingLocked drops the segments that end more than the retention
\* before the playhead: of an encoding that began earlier than that, any number
\* of leading ones, as long or short as they are.
Played(e) == IF now < StartOf[e] THEN 0
             ELSE IF now - StartOf[e] > Length[e] THEN Length[e] ELSE now - StartOf[e]
Prunings ==
    {p \in [byID -> 0..MaxSegments] :
        \A i \in byID :
            /\ enc[i].pruned <= p[i] /\ p[i] <= enc[i].parsed
            /\ Played(enc[i].entry) - Retention <= enc[i].from - StartOf[enc[i].entry]
                  => p[i] = enc[i].pruned}

Untouched(c) == c \notin DOMAIN lastTouch \/ lastTouch[c] > Grace
Stalled(i) == Working(i) /\ enc[i].age > StallTimeout
TornDown ==
    {i \in byID : \/ Untouched(ChannelOf[enc[i].entry])
                  \/ EntryOver(enc[i].entry)
                  \/ Stalled(i)}
Expired == {i \in DOMAIN retained : retained[i].left = 0}

Sweep(p) ==
    LET left == Dropped(TornDown, {})
        unmapped == {c \in DOMAIN encodings : left[c] = {}}
    IN
    /\ sweeper.due
    /\ sweeper.list = <<>>
    /\ encodings' = Without(left, unmapped)
    /\ lastTouch' = Without(lastTouch, unmapped)
    /\ byID' = byID \ TornDown
    /\ retained' = LET pruned == [i \in TornDown |->
                                    [entry |-> enc[i].entry, left |-> Retention,
                                     list |-> {n \in Kept(i) : n >= enc[i].base + p[i]}]]
                   IN  [i \in (DOMAIN retained \ Expired) \cup TornDown |->
                          IF i \in TornDown THEN pruned[i] ELSE retained[i]]
    /\ NoteFailures({i \in byID : Stalled(i)})
    /\ enc' = [i \in DOMAIN enc |->
                 IF i \notin byID THEN enc[i]
                 ELSE [(IF Stalled(i) THEN Failed(enc[i]) ELSE enc[i]) EXCEPT !.pruned = p[i]]]
    /\ highWater' = [e \in Entries |->
                       IF \E i \in TornDown : enc[i].entry = e /\ EntryOver(e)
                       THEN -1
                       ELSE Largest({highWater[e]} \cup
                              {enc[i].base + enc[i].parsed - p[i] - 1 :
                                 i \in {j \in TornDown : enc[j].entry = e /\ enc[j].parsed > p[j]}})]
    /\ \E s \in Orders(TornDown) : SweepRest(FALSE, s, Expired)
    /\ UNCHANGED <<killGate, burn, seq, rows, restarting, stops, operations, now>>

------------------------------------------------------------------------------
(* Operators                                                               *)

Operation(c) ==
    /\ c \in Operated
    /\ operations < MaxOperations
    /\ operations' = operations + 1

\* Mutant: the index by id is left as it is.
DetachChannelKeepsIds(c) ==
    /\ encodings' = IF Tracked(c) = {} THEN encodings ELSE Without(encodings, {c})
    /\ UNCHANGED byID
    /\ retained' = Retain(retained, Tracked(c))
    /\ highWater' = ParsedRaised(Tracked(c))
    /\ StopAll(Tracked(c))

DetachChannel(c) ==
    /\ encodings' = IF Tracked(c) = {} THEN encodings ELSE Without(encodings, {c})
    /\ byID' = byID \ Tracked(c)
    /\ retained' = Retain(retained, Tracked(c))
    /\ highWater' = ParsedRaised(Tracked(c))
    /\ StopAll(Tracked(c))

\* A viewer's restart, or the second half of a change of language.
RestartChannel(c) ==
    /\ \/ c \in restarting /\ UNCHANGED operations
       \/ Tracked(c) # {} /\ Operation(c)
    /\ DetachChannel(c)
    /\ restarting' = restarting \ {c}
    /\ UNCHANGED <<enc, lastTouch, limits, burn, seq, rows, dirs, sweeper, now>>

SetBurnSubtitleLanguage(c, language) ==
    /\ Operation(c)
    /\ burn[c] # language
    /\ burn' = [burn EXCEPT ![c] = language]
    /\ restarting' = restarting \cup {c}
    /\ UNCHANGED <<enc, maps, limits, highWater, seq, rows, dirs, stops, sweeper, now>>

KillChannel(c) ==
    /\ Operation(c)
    /\ DetachChannel(c)
    /\ killGate' = [killGate EXCEPT ![c] = KillGate]
    /\ UNCHANGED <<enc, lastTouch, restarts, blocked, burn, seq, rows, dirs, restarting,
                   sweeper, now>>

\* The process ends, by a crash or by Shutdown; its ffmpegs die with it
\* (setProcessDeathSignal), and NewManager clears the root and the table.
NewManager ==
    /\ enc' = Empty
    /\ encodings' = Empty /\ byID' = {} /\ retained' = Empty /\ lastTouch' = Empty
    /\ restarts' = [e \in Entries |-> 0] /\ blocked' = Empty
    /\ killGate' = [c \in Channels |-> 0]
    /\ highWater' = [e \in Entries |-> -1]
    /\ burn' = [c \in Channels |-> NoBurn]
    /\ seq' = 0 /\ rows' = {} /\ dirs' = {}
    /\ restarting' = {}
    /\ stops' = {} /\ sweeper' = [due |-> FALSE, list |-> <<>>, dirs |-> {}]
    /\ operations' = 0
    /\ UNCHANGED now

------------------------------------------------------------------------------
(* The clock.  A tick is seconds: what only waits for a goroutine to run   *)
(* happens before the next one; ffmpeg itself takes as long as it likes.   *)
Older(n, cap) == IF n < cap THEN n + 1 ELSE n
Sooner(n) == IF n > 0 THEN n - 1 ELSE 0

Waiting(s) == s # <<>> => enc[Head(s)].cancelled /\ ~enc[Head(s)].done
Quiet ==
    /\ \A i \in DOMAIN enc :
          /\ enc[i].proc # "reserved"
          /\ enc[i].tail => ~(enc[i].done \/ enc[i].cancelled)
    /\ \A s \in stops : Waiting(s)
    /\ Waiting(sweeper.list)
    /\ sweeper.due => sweeper.list # <<>>
    /\ restarting = {}

Tick ==
    /\ Quiet
    /\ now' = Older(now, Horizon)
    /\ enc' = [i \in DOMAIN enc |->
                 IF Working(i)
                 THEN [enc[i] EXCEPT !.age = Older(@, StallTimeout + 1)] ELSE enc[i]]
    /\ lastTouch' = [c \in DOMAIN lastTouch |-> Older(lastTouch[c], Grace + 1)]
    /\ retained' = [i \in DOMAIN retained |-> [retained[i] EXCEPT !.left = Sooner(@)]]
    /\ blocked' = [e \in DOMAIN blocked |-> Sooner(blocked[e])]
    /\ killGate' = [c \in Channels |-> Sooner(killGate[c])]
    /\ sweeper' = [sweeper EXCEPT !.due = TRUE]
    /\ UNCHANGED <<encodings, byID, restarts, highWater, burn, seq, rows, dirs,
                   restarting, stops, operations>>

Next ==
    \/ \E e \in Entries : \/ ReserveNothing(e) \/ ReserveBlocked(e)
                          \/ ReserveNew(e) \/ ReserveFull(e)
    \/ \E e \in Entries, d \in Channels : ReserveEvict(e, d)
    \/ \E i \in Ids : \/ StartReserved(i) \/ StartFails(i)
                      \/ TailOnce(i) \/ TailEnd(i)
                      \/ \E ok \in BOOLEAN : WaitLoop(i, ok)
    \/ StopBegin \/ StopEnd \/ SweepStopEnd
    \/ \E p \in Prunings : Sweep(p)
    \/ \E c \in Channels : \/ RestartChannel(c) \/ KillChannel(c)
                           \/ \E l \in BurnChoices : SetBurnSubtitleLanguage(c, l)
    \/ NewManager
    \/ Tick

\* An ffmpeg whose context has been cancelled dies.
Dies == \E i \in DOMAIN enc : enc[i].cancelled /\ WaitLoop(i, FALSE)

\* A step that only waits for a goroutine to run: what Quiet has none of.
Prompt ==
    \/ \E i \in Ids : StartReserved(i) \/ StartFails(i) \/ TailEnd(i)
    \/ StopBegin \/ StopEnd \/ SweepStopEnd
    \/ \E p \in Prunings : Sweep(p)
    \/ \E c \in restarting : RestartChannel(c)

\* Goroutines that can run do, cancelled processes die, and time passes.
Fairness == WF_vars(Prompt) /\ WF_vars(Dies) /\ WF_vars(Tick)

Spec == Init /\ [][Next]_vars /\ Fairness

------------------------------------------------------------------------------
\* What the actions build, and how far it goes: ages, cool-downs and gates stop
\* at their limits, and an entry never has more failures than encodings.
TypeOK ==
    /\ DOMAIN encodings \subseteq Channels /\ UNION Range(encodings) \subseteq Ids
    /\ byID \subseteq Ids /\ DOMAIN retained \subseteq Ids
    /\ \A i \in DOMAIN retained : retained[i].left \in 0..Retention
    /\ DOMAIN lastTouch \subseteq Channels /\ Range(lastTouch) \subseteq 0..(Grace + 1)
    /\ restarts \in [Entries -> 0..MaxStarts]
    /\ DOMAIN blocked \subseteq Entries /\ Range(blocked) \subseteq 0..Cooldown
    /\ killGate \in [Channels -> 0..KillGate]
    /\ burn \in [Channels -> BurnChoices]
    /\ seq \in 0..MaxStarts /\ rows \subseteq Ids /\ dirs \subseteq Ids
    /\ restarting \subseteq Channels /\ now \in 0..Horizon

BeingStopped == UNION {Range(s) : s \in stops \cup {sweeper.list}}
OSProcess(i) == enc[i].proc = "running"

\* The two indexes and the retained list agree: an encoding is found by its id
\* exactly when its channel has it, an entry has one encoding, and what a viewer
\* may still fetch from an encoding is known in one place only.  Every section
\* that detaches (replace, evict, sweep, restart, stop) updates all three.
MapsAgree ==
    /\ byID = UNION {Tracked(c) : c \in Channels}
    /\ \A c \in Channels : \A i \in Tracked(c) : ChannelOf[enc[i].entry] = c
    /\ \A e \in Entries : Cardinality(TrackedFor(e)) <= 1
    /\ byID \cap DOMAIN retained = {}
    /\ byID \cap BeingStopped = {}

\* No ffmpeg is forgotten: one that runs is tracked, where the sweeper and the
\* operators find it, or some goroutine is in the middle of stopping it.
NoOrphan ==
    \A i \in DOMAIN enc :
        enc[i].proc # "exited" => i \in byID \cup BeingStopped

\* The budget is about machine load: ffmpegs that nobody is stopping never
\* outnumber MaxConcurrent, whichever way slots were freed.
WithinCapacity ==
    Cardinality({i \in DOMAIN enc : OSProcess(i) /\ i \notin BeingStopped}) <= MaxConcurrent

\* Whatever a viewer may still be sent exists: every tracked encoding that
\* lists segments, and every retained list until it expires, has its directory.
ListedIsOnDisk ==
    /\ \A i \in byID : enc[i].parsed > 0 => i \in dirs
    /\ \A i \in DOMAIN retained : retained[i].list # {} => i \in dirs

\* An encoding that has been detached ends: its process, its directory and its
\* goroutines go, whatever else is being stopped at the time.
Reclaimed ==
    \A i \in Ids : i \in BeingStopped ~> i \notin DOMAIN enc /\ i \notin dirs

\* Playback numbers segments by what the manager lists (module EncodingFeed).
feedEntryOf ==
    [i \in Ids |-> IF i \in byID THEN enc[i].entry
                   ELSE IF i \in DOMAIN retained THEN retained[i].entry ELSE None]
feedListed ==
    [i \in Ids |-> IF i \in byID THEN Kept(i)
                   ELSE IF i \in DOMAIN retained THEN retained[i].list ELSE {}]
feedTop ==
    [e \in Entries |->
        LET last == {enc[i].base + enc[i].parsed - 1 : i \in TrackedFor(e)} \cup {highWater[e]}
        IN  CHOOSE n \in last : \A x \in last : n <= x]
feedOver == {e \in Entries : now > EndOf(e) + Lag}

Feed == INSTANCE EncodingFeed WITH
    entryOf <- feedEntryOf, current <- byID, listed <- feedListed,
    top <- feedTop, over <- feedOver

\* A media sequence number of an entry never names segments of two encodings.
ImplementsFeed == Feed!Spec

==============================================================================
