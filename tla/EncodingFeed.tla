----------------------------- MODULE EncodingFeed -----------------------------
(***************************************************************************)
(* What playback may rely on from the on-demand manager                    *)
(* (src/internal/ondemand): each schedule entry is encoded by at most one  *)
(* encoding at a time, encodings follow one another, and every encoding    *)
(* lists segments under HLS media sequence numbers no other encoding of    *)
(* that entry has used.  A replaced encoding keeps its list for a while.   *)
(***************************************************************************)
EXTENDS Integers, FiniteSets

CONSTANTS Entries, Ids

VARIABLES
    entryOf,   \* [Ids -> Entries \cup {None}]: the encodings that list anything or may
    current,   \* SUBSET Ids: the ones that may still list more
    listed,    \* [Ids -> SUBSET Int]: the numbers each one lists
    top,       \* [Entries -> Int]: no number up to this one may be listed again
    over       \* SUBSET Entries: entries that nobody will ask for again

feed == <<entryOf, current, listed, top, over>>

None == "none"

Init ==
    /\ entryOf = [i \in Ids |-> None]
    /\ current = {}
    /\ listed = [i \in Ids |-> {}]
    /\ top = [e \in Entries |-> -1]
    /\ over = {}

\* Time passes: an entry ends.
EndEntry ==
    /\ over' \in {o \in SUBSET Entries : over \subseteq o}
    /\ UNCHANGED <<entryOf, current, listed, top>>

\* A new encoding of e: it lists nothing yet.  Others are dropped in the same
\* step: the one it replaces stops listing more, but what it listed stays.
Open(e, i) ==
    /\ e \notin over
    /\ entryOf[i] = None
    /\ entryOf' = [entryOf EXCEPT ![i] = e]
    /\ current' \subseteq current \cup {i}
    /\ i \in current'
    /\ \A j \in current' \ {i} : entryOf[j] # e
    /\ top' \in [Entries -> Int]
    /\ \A x \in Entries : top'[x] >= top[x]
    /\ UNCHANGED <<listed, over>>

\* A current encoding lists one more number, past everything listed so far.
List(i) == \E n \in listed'[i] :
    /\ i \in current
    /\ n \in Int /\ n > top[entryOf[i]]
    /\ listed' = [listed EXCEPT ![i] = @ \cup {n}]
    /\ top' = [top EXCEPT ![entryOf[i]] = n]
    /\ UNCHANGED <<entryOf, current, over>>

\* Encodings stop being current, lists shrink or go away, numbers are skipped;
\* the top of an entry that is over may be forgotten with its last encoding.
Withdraw ==
    /\ current' \subseteq current
    /\ entryOf' \in [Ids -> Entries \cup {None}] /\ top' \in [Entries -> Int]
    /\ listed' \in [Ids -> SUBSET Int]
    /\ \A i \in Ids : /\ listed'[i] \subseteq listed[i]
                      /\ entryOf'[i] \in {entryOf[i], None}
                      /\ entryOf'[i] = None => listed'[i] = {} /\ i \notin current'
    /\ \A e \in Entries :
          \/ top'[e] >= top[e]
          \/ /\ e \in over
             /\ \A i \in current' : entryOf[i] # e
    /\ UNCHANGED over

\* The manager's process ends: a new one starts with nothing, at any time.
Relaunch ==
    /\ entryOf' = [i \in Ids |-> None]
    /\ current' = {}
    /\ listed' = [i \in Ids |-> {}]
    /\ top' = [e \in Entries |-> -1]
    /\ UNCHANGED over

Next ==
    \/ EndEntry
    \/ \E e \in Entries, i \in Ids : Open(e, i)
    \/ \E i \in Ids : List(i)
    \/ Withdraw
    \/ Relaunch

Spec == Init /\ [][Next]_feed

\* No media sequence number of an entry is listed by two encodings.
NumbersUnique ==
    \A i, j \in Ids :
        i # j /\ entryOf[i] = entryOf[j] => listed[i] \cap listed[j] = {}

\* One encoding at a time may list more for an entry.
OneCurrent ==
    \A i, j \in current : entryOf[i] = entryOf[j] => i = j

=============================================================================
