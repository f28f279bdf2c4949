------------------------- MODULE EncodingFeed_proofs -------------------------
(***************************************************************************)
(* What playback may conclude from EncodingFeed, for any number of entries *)
(* and encodings and any numbering: together with ImplementsFeed, which    *)
(* the on_demand run checks, this is what makes media sequence numbers of  *)
(* an on-demand channel name one segment each.                             *)
(***************************************************************************)
EXTENDS EncodingFeed, TLAPS

FeedTypeOK ==
    /\ entryOf \in [Ids -> Entries \cup {None}]
    /\ current \subseteq Ids
    /\ listed \in [Ids -> SUBSET Int]
    /\ top \in [Entries -> Int]
    /\ over \subseteq Entries

\* Encodings in use have an entry.
InUse == \A i \in Ids : entryOf[i] = None => i \notin current /\ listed[i] = {}

\* An entry's top bounds what its encodings list, unless the entry is over and
\* nothing can be listed for it any more.
Closed(e) == e \in over /\ \A i \in current : entryOf[i] # e
Bounded ==
    \A i \in Ids, e \in Entries : entryOf[i] = e =>
        Closed(e) \/ \A n \in listed[i] : n <= top[e]

FeedInv == FeedTypeOK /\ InUse /\ OneCurrent /\ Bounded /\ NumbersUnique

-----------------------------------------------------------------------------
LEMMA FeedInit == Init => FeedInv
BY DEF Init, FeedInv, FeedTypeOK, InUse, OneCurrent, Bounded, NumbersUnique

\* An encoding that lists a new number lists none that another has listed.
LEMMA ListKeeps ==
    ASSUME None \notin Entries, FeedInv, NEW i \in Ids, List(i)
    PROVE  FeedInv'
<1> PICK n \in listed'[i] :
        /\ i \in current
        /\ n \in Int /\ n > top[entryOf[i]]
        /\ listed' = [listed EXCEPT ![i] = @ \cup {n}]
        /\ top' = [top EXCEPT ![entryOf[i]] = n]
        /\ UNCHANGED <<entryOf, current, over>>
  BY DEF List
<1> DEFINE e == entryOf[i]
<1>1. e \in Entries /\ ~Closed(e)
  BY DEF FeedInv, FeedTypeOK, InUse, Closed
<1>2. FeedTypeOK'
  BY <1>1 DEF FeedInv, FeedTypeOK
<1>3. \A j \in Ids : entryOf[j] = e => \A k \in listed[j] : k <= top[e]
  BY <1>1 DEF FeedInv, Bounded
<1>4. \A j \in Ids : /\ j # i => listed'[j] = listed[j]
                     /\ listed'[i] = listed[i] \cup {n}
  BY DEF FeedInv, FeedTypeOK
<1>5. top'[e] = n /\ \A x \in Entries \ {e} : top'[x] = top[x]
  BY <1>1 DEF FeedInv, FeedTypeOK
<1>6. InUse'
  BY <1>4 DEF FeedInv, InUse
<1>7. OneCurrent'
  BY DEF FeedInv, OneCurrent
<1>8. Bounded'
  <2> SUFFICES ASSUME NEW j \in Ids, NEW f \in Entries, entryOf[j] = f, ~Closed(f),
                      NEW k \in listed'[j]
               PROVE  k <= top'[f]
    BY DEF Bounded, Closed
  <2>1. CASE f = e
    <3>1. k \in listed[j] \/ k = n
      BY <1>4
    <3>2. top[e] \in Int /\ (k \in listed[j] => k \in Int)
      BY <1>1 DEF FeedInv, FeedTypeOK
    <3> QED BY <1>3, <1>5, <2>1, <3>1, <3>2
  <2>2. CASE f # e
    BY <1>4, <1>5, <2>2 DEF FeedInv, Bounded
  <2> QED BY <2>1, <2>2
<1>9. NumbersUnique'
  <2>1. \A j \in Ids : entryOf[j] = e => n \notin listed[j]
    BY <1>1, <1>3 DEF FeedInv, FeedTypeOK
  <2> QED BY <1>4, <2>1 DEF FeedInv, NumbersUnique
<1> QED BY <1>2, <1>6, <1>7, <1>8, <1>9 DEF FeedInv

\* A new encoding lists nothing yet, and its entry has no other current one.
LEMMA OpenKeeps ==
    ASSUME None \notin Entries, FeedInv, NEW e \in Entries, NEW i \in Ids, Open(e, i)
    PROVE  FeedInv'
<1> USE DEF Open
<1>1. FeedTypeOK'
  BY DEF FeedInv, FeedTypeOK
<1>2. \A j \in Ids : j # i => entryOf'[j] = entryOf[j]
  BY DEF FeedInv, FeedTypeOK
<1>3. entryOf'[i] = e /\ listed[i] = {} /\ i \notin current
  BY DEF FeedInv, FeedTypeOK, InUse
<1>4. InUse'
  BY <1>2, <1>3 DEF FeedInv, FeedTypeOK, InUse
<1>5. OneCurrent'
  <2>1. \A j \in current' \ {i} : j \in current /\ entryOf'[j] = entryOf[j] /\ entryOf[j] # e
    BY <1>2 DEF FeedInv, FeedTypeOK
  <2> QED BY <1>3, <2>1 DEF FeedInv, OneCurrent
<1>6. Bounded'
  <2> SUFFICES ASSUME NEW j \in Ids, NEW f \in Entries, entryOf'[j] = f, ~Closed(f)',
                      NEW k \in listed[j]
               PROVE  k <= top'[f]
    BY DEF Bounded
  <2>1. j # i /\ entryOf[j] = f
    BY <1>2, <1>3
  <2>2. ~Closed(f)
    <3> SUFFICES ASSUME Closed(f) PROVE Closed(f)'
      OBVIOUS
    <3>1. f # e
      BY DEF Closed
    <3>2. f \in over' /\ \A x \in current' : x \in Ids /\ (x = i \/ x \in current)
      BY DEF Closed, FeedInv, FeedTypeOK
    <3> QED BY <1>2, <1>3, <3>1, <3>2 DEF Closed
  <2>3. k <= top[f] /\ top[f] <= top'[f]
    BY <2>1, <2>2 DEF FeedInv, Bounded
  <2>4. k \in Int /\ top[f] \in Int /\ top'[f] \in Int
    BY <2>1 DEF FeedInv, FeedTypeOK
  <2> QED BY <2>3, <2>4
<1>7. NumbersUnique'
  BY <1>2, <1>3 DEF FeedInv, NumbersUnique
<1> QED BY <1>1, <1>4, <1>5, <1>6, <1>7 DEF FeedInv

\* Lists that shrink stay apart; a top that is forgotten belongs to a closed entry.
LEMMA WithdrawKeeps ==
    ASSUME None \notin Entries, FeedInv, Withdraw
    PROVE  FeedInv'
<1> USE DEF Withdraw
<1>1. FeedTypeOK'
  BY DEF FeedInv, FeedTypeOK
<1>2. \A i \in Ids : entryOf'[i] # None => entryOf'[i] = entryOf[i]
  OBVIOUS
<1>3. InUse'
  BY DEF InUse
<1>4. OneCurrent'
  BY <1>2, <1>3 DEF FeedInv, FeedTypeOK, InUse, OneCurrent
<1>5. Bounded'
  <2> SUFFICES ASSUME NEW i \in Ids, NEW e \in Entries, entryOf'[i] = e, ~Closed(e)',
                      NEW n \in listed'[i]
               PROVE  n <= top'[e]
    BY DEF Bounded
  <2>1. entryOf[i] = e /\ n \in listed[i]
    BY <1>2
  <2>2. \A j \in current' : entryOf'[j] = entryOf[j] /\ j \in current
    BY <1>1, <1>2, <1>3 DEF FeedTypeOK, InUse
  <2>3. ~Closed(e)
    BY <2>2 DEF Closed
  <2>4. n <= top[e]
    BY <2>1, <2>3 DEF FeedInv, Bounded
  <2>5. top'[e] >= top[e]
    BY <2>2 DEF Closed
  <2>6. n \in Int /\ top[e] \in Int /\ top'[e] \in Int
    BY <2>1 DEF FeedInv, FeedTypeOK
  <2> QED BY <2>4, <2>5, <2>6
<1>6. NumbersUnique'
  <2> SUFFICES ASSUME NEW i \in Ids, NEW j \in Ids, i # j, entryOf'[i] = entryOf'[j]
               PROVE  listed'[i] \cap listed'[j] = {}
    BY DEF NumbersUnique
  <2>1. CASE entryOf'[i] = None
    BY <1>3, <2>1 DEF InUse
  <2>2. CASE entryOf'[i] # None
    BY <1>2, <2>2 DEF FeedInv, NumbersUnique
  <2> QED BY <2>1, <2>2
<1> QED BY <1>1, <1>3, <1>4, <1>5, <1>6 DEF FeedInv

LEMMA FeedStep ==
    ASSUME None \notin Entries, FeedInv, [Next]_feed
    PROVE  FeedInv'
<1>1. ASSUME EndEntry PROVE FeedInv'
  <2>1. FeedTypeOK' /\ InUse' /\ OneCurrent' /\ NumbersUnique'
    BY <1>1 DEF EndEntry, FeedInv, FeedTypeOK, InUse, OneCurrent, NumbersUnique
  <2>2. Bounded'
    BY <1>1 DEF EndEntry, FeedInv, Bounded, Closed
  <2> QED BY <2>1, <2>2 DEF FeedInv
<1>2. ASSUME NEW e \in Entries, NEW i \in Ids, Open(e, i) PROVE FeedInv'
  BY <1>2, OpenKeeps
<1>3. ASSUME NEW i \in Ids, List(i) PROVE FeedInv'
  BY <1>3, ListKeeps
<1>4. ASSUME Withdraw PROVE FeedInv'
  BY <1>4, WithdrawKeeps
<1>5. ASSUME Relaunch PROVE FeedInv'
  BY <1>5 DEF Relaunch, FeedInv, FeedTypeOK, InUse, OneCurrent, Bounded, NumbersUnique
<1>6. ASSUME UNCHANGED feed PROVE FeedInv'
  BY <1>6 DEF feed, FeedInv, FeedTypeOK, InUse, OneCurrent, Bounded, Closed, NumbersUnique
<1> QED BY <1>1, <1>2, <1>3, <1>4, <1>5, <1>6 DEF Next

\* What playback numbers segments by: encodings that may still list are one per entry,
\* and no media sequence number of an entry is listed by two encodings, however they are
\* replaced, pruned, forgotten after the entry's end or lost with the process.
THEOREM FeedUnique ==
    ASSUME None \notin Entries
    PROVE  Spec => [](OneCurrent /\ NumbersUnique)
<1>1. FeedInv => OneCurrent /\ NumbersUnique
  BY DEF FeedInv
<1>2. FeedInv /\ [Next]_feed => FeedInv'
  BY FeedStep
<1> QED BY <1>1, <1>2, FeedInit, PTL DEF Spec

=============================================================================
