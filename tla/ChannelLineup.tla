---------------------------- MODULE ChannelLineup ----------------------------
(***************************************************************************)
(* The curated order of each channel's media: channel_media, a singly      *)
(* linked list in a table.  A row's anchor_media_id names its predecessor, *)
(* NULL marks the head, and unique partial indexes allow one head per      *)
(* channel and one successor per anchor.                                   *)
(*                                                                         *)
(* Each edit of internal/db is one transaction.  The admin handlers that   *)
(* read first and write in a later transaction are requests in flight.     *)
(* Foreign keys cascade: deleting a media row deletes its memberships      *)
(* without closing the gap they leave.                                     *)
(***************************************************************************)
EXTENDS Naturals, Sequences, FiniteSets

CONSTANTS
    Channels,   \* channel ids
    Media,      \* media ids, a hash of the file's path: a file that returns keeps its id
    Editors,    \* admin requests that may be in flight at once
    Null,       \* a NULL anchor
    Absent,     \* no row
    NoRequest   \* an editor with nothing in flight

ASSUME LineupAssumption ==
    /\ Null \notin Media /\ Absent \notin Media /\ Null # Absent
    /\ IsFiniteSet(Media)

VARIABLES
    catalogue,  \* the media rows
    channels,   \* the channels rows
    anchor,     \* anchor[c][m]: the anchor_media_id of m's row in c
    request     \* request[e]: what a handler has read and not yet written

vars == <<catalogue, channels, anchor, request>>

Items(s) == {s[i] : i \in DOMAIN s}

\* Media in some order, each at most once.
Orders == {s \in UNION {[1..n -> Media] : n \in 0..Cardinality(Media)} :
             \A i, j \in DOMAIN s : s[i] = s[j] => i = j}

Requests == [kind : {"create", "replace"}, channel : Channels, order : Orders]
            \cup [kind : {"delete"}, media : Media]

Empty == [m \in Media |-> Absent]

\* Rows are well formed and belong to an existing channel and an existing media row.
LineupTypeOK ==
    /\ catalogue \subseteq Media /\ channels \subseteq Channels
    /\ anchor \in [Channels -> [Media -> Media \cup {Null, Absent}]]
    /\ request \in [Editors -> Requests \cup {NoRequest}]
    /\ \A c \in Channels, m \in Media :
         anchor[c][m] # Absent => c \in channels /\ m \in catalogue

Init ==
    /\ catalogue = {} /\ channels = {}
    /\ anchor = [c \in Channels |-> Empty]
    /\ request = [e \in Editors |-> NoRequest]

-----------------------------------------------------------------------------
(* Reading a lineup: a maps media to anchors.                              *)

Rows(a) == {m \in Media : a[m] # Absent}
Heads(a) == {m \in Media : a[m] = Null}
Successors(a, m) == {n \in Media : a[n] = m}

\* ChannelMediaOrdered's walk from the head, as far as it leads.
Walk(a) ==
    LET path[n \in 1..Cardinality(Rows(a))] ==
          IF n = 1 THEN <<CHOOSE m \in Heads(a) : TRUE>>
          ELSE LET last == path[n - 1][Len(path[n - 1])] IN
               IF Successors(a, last) = {} THEN path[n - 1]
               ELSE Append(path[n - 1], CHOOSE m \in Successors(a, last) : TRUE)
    IN  IF Heads(a) = {} THEN <<>> ELSE path[Cardinality(Rows(a))]

\* Slip: a list that has a head is taken for complete.
RefusedHeadless(a) == Rows(a) # {} /\ Heads(a) = {}

\* ChannelMediaOrdered returns an error: there are rows that the walk does not reach.
Refused(a) == Len(Walk(a)) # Cardinality(Rows(a))

\* validateChannelChain: what the check at boot and the integrity endpoint report.
ChainIssues(a) ==
    {kind \in {"no_head", "multiple_heads", "multiple_successors", "self_anchor",
               "orphan_anchor", "cycle"} :
        CASE kind = "no_head" -> Rows(a) # {} /\ Heads(a) = {}
          [] kind = "multiple_heads" -> Cardinality(Heads(a)) > 1
          [] kind = "multiple_successors" ->
               \E m \in Rows(a) : Cardinality(Successors(a, m) \ {m}) > 1
          [] kind = "self_anchor" -> \E m \in Media : a[m] = m
          [] kind = "orphan_anchor" -> \E m \in Rows(a) : a[m] \in Media \ Rows(a)
          [] kind = "cycle" ->
               \E S \in SUBSET Rows(a) : S # {} /\ S = {a[m] : m \in S} /\ \A m \in S : a[m] # m}

\* The unique partial indexes.
Indexed(a) == \A m, n \in Rows(a) : a[m] = a[n] => m = n

-----------------------------------------------------------------------------
(* Rewiring.                                                               *)

\* Slip: the row is deleted and its successor keeps pointing at it.
PulledUnstitched(a, m) == [a EXCEPT ![m] = Absent]

\* The row is deleted and its successor takes over its anchor.
Pulled(a, m) ==
    [n \in Media |-> IF n = m THEN Absent ELSE IF a[n] = m THEN a[m] ELSE a[n]]

\* Whoever follows `after', or is the head when `after' is Null, will follow m.
Opened(a, after, m) == [n \in Media |-> IF a[n] = after THEN m ELSE a[n]]

Placed(a, after, m) == [Opened(a, after, m) EXCEPT ![m] = after]

\* Slip: every row is anchored to the one after it.
ChainedBackwards(s) ==
    [m \in Media |-> IF m \notin Items(s) THEN Absent
                     ELSE LET i == CHOOSE i \in DOMAIN s : s[i] = m
                          IN  IF i = Len(s) THEN Null ELSE s[i + 1]]

\* ReplaceChannelMedia: anchors by position.
Chained(s) ==
    [m \in Media |-> IF m \notin Items(s) THEN Absent
                     ELSE LET i == CHOOSE i \in DOMAIN s : s[i] = m
                          IN  IF i = 1 THEN Null ELSE s[i - 1]]

\* findTail: rows nobody follows; with several the query's LIMIT 1 takes any.
Tails(a) == {m \in Rows(a) : Successors(a, m) = {}}

-----------------------------------------------------------------------------
(* Edits: one transaction each, rolled back when an index refuses a write. *)

Edit(c, a) ==
    /\ c \in channels
    /\ anchor' = [anchor EXCEPT ![c] = a]
    /\ UNCHANGED <<catalogue, channels, request>>

AddChannelMedia(c, m) ==
    /\ m \in catalogue /\ anchor[c][m] = Absent
    /\ \E after \in IF Tails(anchor[c]) = {} THEN {Null} ELSE Tails(anchor[c]) :
         LET a == [anchor[c] EXCEPT ![m] = after] IN Indexed(a) /\ Edit(c, a)

AddChannelMediaAfter(c, m, after) ==
    /\ m \in catalogue /\ anchor[c][m] = Absent
    /\ after \in Rows(anchor[c]) \cup {Null}
    /\ Indexed(Opened(anchor[c], after, m))
    /\ Edit(c, Placed(anchor[c], after, m))

RemoveChannelMedia(c, m) ==
    /\ m \in Rows(anchor[c])
    /\ Edit(c, Pulled(anchor[c], m))

MoveChannelMediaAfter(c, m, after) ==
    /\ m \in Rows(anchor[c])
    /\ after \in (Rows(anchor[c]) \cup {Null}) \ {m}
    /\ LET a == Pulled(anchor[c], m)
       IN  Indexed(Opened(a, after, m)) /\ Edit(c, Placed(a, after, m))

-----------------------------------------------------------------------------
(* Requests: what is read now is written in a later transaction.           *)

Begin(e, r) ==
    /\ request[e] = NoRequest
    /\ request' = [request EXCEPT ![e] = r]
    /\ UNCHANGED <<catalogue, channels, anchor>>

Pending(e, kind) == request[e] # NoRequest /\ request[e].kind = kind
Finish(e) == request' = [request EXCEPT ![e] = NoRequest]

\* handleChannelReorderMedia accepts an order of exactly the current members.
Reorder(e, c, s) ==
    /\ c \in channels /\ ~Refused(anchor[c])
    /\ s # <<>> /\ Items(s) = Rows(anchor[c])
    /\ Begin(e, [kind |-> "replace", channel |-> c, order |-> s])

\* createChannel resolves the media ids against the catalogue.
Create(e, c, s) ==
    /\ s # <<>> /\ Items(s) \subseteq catalogue
    /\ Begin(e, [kind |-> "create", channel |-> c, order |-> s])

InsertChannel(e) ==
    /\ Pending(e, "create")
    /\ IF request[e].channel \in channels THEN Finish(e) /\ UNCHANGED channels
       ELSE /\ channels' = channels \cup {request[e].channel}
            /\ request' = [request EXCEPT ![e].kind = "replace"]
    /\ UNCHANGED <<catalogue, anchor>>

\* ReplaceChannelMedia, which the foreign keys refuse when a parent row is gone.
Replace(e) ==
    /\ Pending(e, "replace")
    /\ IF request[e].channel \in channels /\ Items(request[e].order) \subseteq catalogue
       THEN anchor' = [anchor EXCEPT ![request[e].channel] = Chained(request[e].order)]
       ELSE UNCHANGED anchor
    /\ Finish(e) /\ UNCHANGED <<catalogue, channels>>

CloneChannel(c, d) ==
    /\ c \in channels /\ d \in Channels \ channels
    /\ channels' = channels \cup {d}
    /\ anchor' = [anchor EXCEPT ![d] = anchor[c]]
    /\ UNCHANGED <<catalogue, request>>

\* Slip: the memberships stay.
DeleteChannelOnly(c) ==
    c \in channels /\ channels' = channels \ {c} /\ UNCHANGED <<catalogue, anchor, request>>

DeleteChannel(c) ==
    /\ c \in channels
    /\ channels' = channels \ {c}
    /\ anchor' = [anchor EXCEPT ![c] = Empty]
    /\ UNCHANGED <<catalogue, request>>

-----------------------------------------------------------------------------
(* The catalogue.                                                          *)

Ingest(m) ==
    /\ m \in Media \ catalogue
    /\ catalogue' = catalogue \cup {m}
    /\ UNCHANGED <<channels, anchor, request>>

\* ON DELETE CASCADE
DeleteRows(S) ==
    /\ catalogue' = catalogue \ S
    /\ anchor' = [c \in Channels |-> [m \in Media |-> IF m \in S THEN Absent ELSE anchor[c][m]]]

\* handleMediaDelete finds no channel that pools the media, removes its packages from
\* the disk, and deletes the row; a schedule entry of that media refuses the delete.
DeleteMedia(e, m) ==
    /\ m \in catalogue /\ \A c \in channels : anchor[c][m] = Absent
    /\ Begin(e, [kind |-> "delete", media |-> m])

DeleteMediaMetadata(e) ==
    /\ Pending(e, "delete")
    /\ \/ DeleteRows({request[e].media})
       \/ UNCHANGED <<catalogue, anchor>>
    /\ Finish(e) /\ UNCHANGED channels

\* handleMaintenanceMissingMedia: the rows of files that are gone, members or not.
DeleteMediaByIDs(S) ==
    /\ S # {} /\ S \subseteq catalogue
    /\ DeleteRows(S)
    /\ UNCHANGED <<channels, request>>

\* The server dies and its requests with it.
Restart ==
    /\ request' = [e \in Editors |-> NoRequest]
    /\ request' # request
    /\ UNCHANGED <<catalogue, channels, anchor>>

-----------------------------------------------------------------------------
Next ==
    \/ \E c \in Channels, m \in Media :
         \/ AddChannelMedia(c, m) \/ RemoveChannelMedia(c, m)
         \/ \E after \in Media \cup {Null} :
              AddChannelMediaAfter(c, m, after) \/ MoveChannelMediaAfter(c, m, after)
    \/ \E c, d \in Channels : CloneChannel(c, d)
    \/ \E c \in Channels : DeleteChannel(c)
    \/ \E e \in Editors :
         \/ \E c \in Channels, s \in Orders : Reorder(e, c, s) \/ Create(e, c, s)
         \/ \E m \in Media : DeleteMedia(e, m)
         \/ InsertChannel(e) \/ Replace(e) \/ DeleteMediaMetadata(e)
    \/ \E m \in Media : Ingest(m)
    \/ \E S \in SUBSET Media : DeleteMediaByIDs(S)
    \/ Restart

Spec == Init /\ [][Next]_vars

-----------------------------------------------------------------------------
(* Properties.                                                             *)

\* However a lineup was damaged, and whatever was edited since, readers refuse it exactly
\* when the chain validator reports an issue: neither walks past damage in silence.
ReportedIffRefused ==
    \A c \in Channels : Refused(anchor[c]) <=> ChainIssues(anchor[c]) # {}

\* An order without one of its media.
Rest(s, m) ==
    IF m \notin Items(s) THEN s
    ELSE LET k == CHOOSE k \in DOMAIN s : s[k] = m
         IN  [i \in 1..(Len(s) - 1) |-> IF i < k THEN s[i] ELSE s[i + 1]]

\* Only the deletion of media damages a channel's chain.
EditsKeepChain ==
    [][\A c \in channels :
          catalogue \subseteq catalogue' /\ ~Refused(anchor[c]) => ~Refused(anchor'[c])]_vars

\* In an intact lineup an edit moves, adds or removes one item and keeps the order of
\* the others, and a replacement leaves exactly the order that was asked for.
OrderChangesAsAsked ==
    [][\A c \in Channels :
          LET old == Walk(anchor[c])
              new == Walk(anchor'[c])
          IN  catalogue \subseteq catalogue' /\ channels = channels' /\ ~Refused(anchor[c])
                => IF request = request'
                   THEN \E m \in Media : Rest(old, m) = Rest(new, m)
                   ELSE \/ new = old
                        \/ \E e \in Editors : /\ Pending(e, "replace") /\ request[e].channel = c
                                              /\ new = request[e].order]_vars

=============================================================================
