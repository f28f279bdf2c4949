------------------------ MODULE ChannelLineup_proofs ------------------------
(***************************************************************************)
(* Theorems about ChannelLineup for any number of channels and requests    *)
(* and any finite set of media.                                            *)
(*                                                                         *)
(* The unique indexes are checked in the model only where a write opens a  *)
(* slot or appends; IndexesHold says that no other write can meet them, so *)
(* that removing, moving out, replacing, cloning and cascading never fail. *)
(*                                                                         *)
(* The second half is about the walk that readers make.  What they accept  *)
(* is the chain of an order without repeats (AcceptedOrder), the rows of a *)
(* chain they refuse show one of the validator's issues (RefusedHasIssue), *)
(* and an edit takes the order to the same without or with one media       *)
(* (PulledOrder, PlacedOrder).                                             *)
(***************************************************************************)
EXTENDS ChannelLineup, FiniteSetTheorems, NaturalsInduction,
        WellFoundedInduction, TLAPS

Anchors == [Media -> Media \cup {Null, Absent}]

-----------------------------------------------------------------------------
(* Rewiring.                                                               *)

LEMMA RowsOf == ASSUME NEW a, NEW m \in Media PROVE m \in Rows(a) <=> a[m] # Absent
BY DEF Rows

LEMMA OrderItems ==
    ASSUME NEW s \in Orders
    PROVE  /\ s \in Seq(Media)
           /\ Items(s) \subseteq Media
           /\ \A m \in Items(s) : \E i \in DOMAIN s : s[i] = m
           /\ DOMAIN s = 1..Len(s) /\ Len(s) \in Nat
           /\ \A i, j \in 1..Len(s) : s[i] = s[j] => i = j
<1>1. PICK n \in 0..Cardinality(Media) : s \in [1..n -> Media]
  BY DEF Orders
<1>2. n \in Nat
  BY <1>1
<1>3. s \in Seq(Media) /\ Len(s) = n
  BY <1>1, <1>2
<1> QED BY <1>1, <1>2, <1>3 DEF Items, Orders

\* The anchors a replacement writes are anchors, and only its own items get rows.
LEMMA ChainedTyped ==
    ASSUME NEW s \in Orders
    PROVE  /\ Chained(s) \in Anchors
           /\ \A m \in Media : Chained(s)[m] # Absent => m \in Items(s)
<1> DEFINE at(m) == CHOOSE i \in DOMAIN s : s[i] = m
<1>1. ASSUME NEW m \in Items(s) PROVE at(m) \in 1..Len(s) /\ s[at(m)] = m
  BY <1>1, OrderItems
<1>2. ASSUME NEW m \in Items(s), at(m) # 1 PROVE s[at(m) - 1] \in Media
  <2>1. at(m) - 1 \in 1..Len(s)
    BY <1>1, <1>2, OrderItems
  <2> QED BY <2>1, OrderItems DEF Items
<1> QED BY <1>1, <1>2 DEF Chained, Anchors

\* Different rows of a replacement have different anchors.
LEMMA ChainedIndexed ==
    ASSUME NEW s \in Orders
    PROVE  Indexed(Chained(s))
<1> DEFINE at(m) == CHOOSE i \in DOMAIN s : s[i] = m
<1> SUFFICES ASSUME NEW m \in Rows(Chained(s)), NEW n \in Rows(Chained(s)),
                    Chained(s)[m] = Chained(s)[n]
             PROVE  m = n
  BY DEF Indexed
<1>1. m \in Media /\ n \in Media /\ m \in Items(s) /\ n \in Items(s)
  BY ChainedTyped DEF Rows
<1>2. at(m) \in 1..Len(s) /\ s[at(m)] = m /\ at(n) \in 1..Len(s) /\ s[at(n)] = n
  BY <1>1, OrderItems
<1>3. Chained(s)[m] = (IF at(m) = 1 THEN Null ELSE s[at(m) - 1])
  BY <1>1 DEF Chained
<1>4. Chained(s)[n] = (IF at(n) = 1 THEN Null ELSE s[at(n) - 1])
  BY <1>1 DEF Chained
<1> HIDE DEF at
<1>5. \A i \in 1..Len(s) : s[i] \in Media /\ s[i] # Null
  BY OrderItems, LineupAssumption DEF Items
<1>6. ASSUME at(m) # 1, at(n) # 1 PROVE m = n
  <2>1. s[at(m) - 1] = s[at(n) - 1]
    BY <1>3, <1>4, <1>6
  <2>2. at(m) - 1 \in 1..Len(s) /\ at(n) - 1 \in 1..Len(s)
    BY <1>2, <1>6, OrderItems
  <2>3. at(m) - 1 = at(n) - 1
    BY <2>1, <2>2, OrderItems
  <2> QED BY <2>3, <1>2, OrderItems
<1>7. ASSUME at(m) = 1, at(n) # 1 PROVE FALSE
  <2>1. at(n) - 1 \in 1..Len(s)
    BY <1>2, <1>7, OrderItems
  <2> QED BY <2>1, <1>3, <1>4, <1>5, <1>7
<1>8. ASSUME at(m) # 1, at(n) = 1 PROVE FALSE
  <2>1. at(m) - 1 \in 1..Len(s)
    BY <1>2, <1>8, OrderItems
  <2> QED BY <2>1, <1>3, <1>4, <1>5, <1>8
<1> QED BY <1>2, <1>6, <1>7, <1>8

\* What pulling a row out leaves.
LEMMA PulledRows ==
    ASSUME NEW a \in Anchors, NEW m \in Rows(a)
    PROVE  /\ Pulled(a, m) \in Anchors
           /\ Pulled(a, m)[m] = Absent
           /\ \A n \in Media : Pulled(a, m)[n] # Absent => a[n] # Absent
BY LineupAssumption DEF Pulled, Rows, Anchors

\* The successor inherits an anchor that only the pulled row had.
LEMMA PulledIndexed ==
    ASSUME NEW a \in Anchors, NEW m \in Rows(a), Indexed(a)
    PROVE  Indexed(Pulled(a, m))
<1> SUFFICES ASSUME NEW x \in Rows(Pulled(a, m)), NEW y \in Rows(Pulled(a, m)),
                    Pulled(a, m)[x] = Pulled(a, m)[y]
             PROVE  x = y
  BY DEF Indexed
<1>1. m \in Media /\ x \in Media /\ y \in Media /\ x # m /\ y # m
  BY PulledRows DEF Rows
<1>2. x \in Rows(a) /\ y \in Rows(a)
  BY <1>1, PulledRows DEF Rows
<1>3. \A n \in Media \ {m} : Pulled(a, m)[n] = IF a[n] = m THEN a[m] ELSE a[n]
  BY DEF Pulled
<1> QED BY <1>1, <1>2, <1>3 DEF Indexed

\* What placing a row that is not in the list, at the front or after one that is, gives.
LEMMA PlacedRows ==
    ASSUME NEW a \in Anchors, NEW m \in Media, NEW after \in Rows(a) \cup {Null}
    PROVE  /\ Placed(a, after, m) \in Anchors
           /\ \A n \in Media : Placed(a, after, m)[n] # Absent => n = m \/ a[n] # Absent
BY LineupAssumption DEF Placed, Opened, Rows, Anchors

\* The opened slot has nobody in it any more: the insertion itself meets no index.
LEMMA PlacedIndexed ==
    ASSUME NEW a \in Anchors, NEW m \in Media, a[m] = Absent,
           NEW after \in Rows(a) \cup {Null}, Indexed(Opened(a, after, m))
    PROVE  Indexed(Placed(a, after, m))
<1> DEFINE o == Opened(a, after, m)
<1> DEFINE p == Placed(a, after, m)
<1> SUFFICES ASSUME NEW x \in Rows(p), NEW y \in Rows(p), p[x] = p[y]
             PROVE  x = y
  BY DEF Indexed
<1>1. after # Absent /\ after # m /\ m # Absent
  BY LineupAssumption DEF Rows
<1>2. p[m] = after /\ \A n \in Media \ {m} : p[n] = o[n] /\ o[n] # after
  BY <1>1 DEF Placed, Opened
<1>3. \A n \in Media \ {m} : n \in Rows(p) => n \in Rows(o)
  BY <1>2 DEF Rows
<1>4. x \in Media /\ y \in Media
  BY DEF Rows
<1> HIDE DEF o, p
<1>5. \A u, v \in Rows(o) : o[u] = o[v] => u = v
  BY DEF Indexed, o
<1> QED BY <1>2, <1>3, <1>4, <1>5

\* What a cascade leaves.
Cascaded(a, S) == [m \in Media |-> IF m \in S THEN Absent ELSE a[m]]

LEMMA CascadedIndexed ==
    ASSUME NEW a \in Anchors, NEW S, Indexed(a)
    PROVE  Cascaded(a, S) \in Anchors /\ Indexed(Cascaded(a, S))
BY DEF Cascaded, Indexed, Rows, Anchors

-----------------------------------------------------------------------------
(* The invariant: rows are well formed and each channel's meet the indexes. *)

IndexesMet == \A c \in Channels : Indexed(anchor[c])

Inv == LineupTypeOK /\ IndexesMet

\* What a pending request holds.
LEMMA RequestTyped ==
    ASSUME LineupTypeOK, NEW e \in Editors
    PROVE  /\ Pending(e, "create") \/ Pending(e, "replace")
                => request[e] \in [kind : {"create", "replace"}, channel : Channels, order : Orders]
           /\ Pending(e, "delete") => request[e] \in [kind : {"delete"}, media : Media]
BY DEF LineupTypeOK, Requests, Pending

\* An edit that leaves indexed anchors to catalogued media preserves the invariant.
LEMMA EditKeepsInv ==
    ASSUME Inv, NEW c \in Channels, NEW a \in Anchors, Indexed(a), Edit(c, a),
           \A m \in Media : a[m] # Absent => m \in catalogue
    PROVE  Inv'
<1>1. /\ anchor' \in [Channels -> Anchors]
      /\ \A d \in Channels : anchor'[d] = IF d = c THEN a ELSE anchor[d]
  BY DEF Inv, LineupTypeOK, Edit, Anchors
<1>2. LineupTypeOK'
  BY <1>1 DEF Inv, LineupTypeOK, Edit, Anchors
<1>3. IndexesMet'
  BY <1>1 DEF Inv, IndexesMet, Edit
<1> QED BY <1>2, <1>3 DEF Inv

\* A step of a request that writes no lineup preserves the invariant.
LEMMA RequestKeepsInv ==
    ASSUME Inv, UNCHANGED <<catalogue, anchor>>, channels \subseteq channels',
           channels' \subseteq Channels, request' \in [Editors -> Requests \cup {NoRequest}]
    PROVE  Inv'
BY DEF Inv, LineupTypeOK, IndexesMet

\* A cascade preserves the invariant.
LEMMA CascadeKeepsInv ==
    ASSUME Inv, NEW S \in SUBSET Media, DeleteRows(S), UNCHANGED channels,
           request' \in [Editors -> Requests \cup {NoRequest}]
    PROVE  Inv'
<1>1. \A c \in Channels : anchor'[c] = Cascaded(anchor[c], S) /\ anchor[c] \in Anchors
  BY DEF Inv, LineupTypeOK, DeleteRows, Cascaded, Anchors
<1>2. \A c \in Channels : anchor'[c] \in Anchors /\ Indexed(anchor'[c])
  BY <1>1, CascadedIndexed DEF Inv, IndexesMet
<1>3. anchor' \in [Channels -> Anchors]
  BY <1>2 DEF DeleteRows
<1>4. ASSUME NEW c \in Channels, NEW m \in Media, anchor'[c][m] # Absent
      PROVE  c \in channels' /\ m \in catalogue'
  BY <1>1, <1>4 DEF Inv, LineupTypeOK, DeleteRows, Cascaded
<1>5. LineupTypeOK'
  BY <1>3, <1>4 DEF Inv, LineupTypeOK, DeleteRows, Anchors
<1>6. IndexesMet'
  BY <1>2 DEF IndexesMet
<1> QED BY <1>5, <1>6 DEF Inv

LEMMA InitInv == ASSUME Init PROVE Inv
BY DEF Init, Inv, LineupTypeOK, IndexesMet, Indexed, Empty, Rows

LEMMA StepInv == ASSUME Inv, Next PROVE Inv'
<1> USE DEF Inv
<1>t. /\ \A c \in Channels : anchor[c] \in Anchors /\ Indexed(anchor[c])
      /\ \A c \in Channels, m \in Media : anchor[c][m] # Absent => c \in channels /\ m \in catalogue
      /\ \A c \in Channels : Rows(anchor[c]) \subseteq catalogue
      /\ catalogue \subseteq Media /\ channels \subseteq Channels
      /\ request \in [Editors -> Requests \cup {NoRequest}]
  BY DEF LineupTypeOK, IndexesMet, Anchors, Rows
<1>1. ASSUME NEW c \in Channels, NEW m \in Media, AddChannelMedia(c, m) PROVE Inv'
  <2>1. PICK after \in Media \cup {Null} :
          LET a == [anchor[c] EXCEPT ![m] = after] IN Indexed(a) /\ Edit(c, a)
    BY <1>1 DEF AddChannelMedia, Tails, Rows
  <2> DEFINE a == [anchor[c] EXCEPT ![m] = after]
  <2>2. a \in Anchors /\ \A n \in Media : a[n] # Absent => n \in catalogue
    BY <1>1, <1>t DEF Anchors, AddChannelMedia
  <2> QED BY <2>1, <2>2, EditKeepsInv
<1>2. ASSUME NEW c \in Channels, NEW m \in Media, RemoveChannelMedia(c, m) PROVE Inv'
  <2>1. m \in Rows(anchor[c]) /\ Edit(c, Pulled(anchor[c], m))
    BY <1>2 DEF RemoveChannelMedia
  <2>2. /\ Pulled(anchor[c], m) \in Anchors
        /\ \A n \in Media : Pulled(anchor[c], m)[n] # Absent => n \in catalogue
    BY <2>1, <1>t, PulledRows
  <2>3. Indexed(Pulled(anchor[c], m))
    BY <2>1, <1>t, PulledIndexed
  <2> QED BY <2>1, <2>2, <2>3, EditKeepsInv
<1>3. ASSUME NEW c \in Channels, NEW m \in Media, NEW after \in Media \cup {Null},
             AddChannelMediaAfter(c, m, after)
      PROVE  Inv'
  <2> DEFINE a == Placed(anchor[c], after, m)
  <2>1. /\ m \in catalogue /\ anchor[c][m] = Absent /\ after \in Rows(anchor[c]) \cup {Null}
        /\ Indexed(Opened(anchor[c], after, m)) /\ Edit(c, a)
    BY <1>3 DEF AddChannelMediaAfter
  <2>2. a \in Anchors /\ \A n \in Media : a[n] # Absent => n \in catalogue
    BY <2>1, <1>t, PlacedRows
  <2>3. Indexed(a)
    BY <2>1, <1>t, PlacedIndexed
  <2> QED BY <2>1, <2>2, <2>3, EditKeepsInv
<1>4. ASSUME NEW c \in Channels, NEW m \in Media, NEW after \in Media \cup {Null},
             MoveChannelMediaAfter(c, m, after)
      PROVE  Inv'
  <2> DEFINE b == Pulled(anchor[c], m)
  <2> DEFINE a == Placed(b, after, m)
  <2>1. /\ m \in Rows(anchor[c]) /\ after \in (Rows(anchor[c]) \cup {Null}) \ {m}
        /\ Indexed(Opened(b, after, m)) /\ Edit(c, a)
    BY <1>4 DEF MoveChannelMediaAfter
  <2>2. /\ b \in Anchors /\ b[m] = Absent
        /\ \A n \in Media : b[n] # Absent => n \in catalogue
    BY <2>1, <1>t, PulledRows
  <2>3. after \in Rows(b) \cup {Null}
    BY <2>1, <1>t, LineupAssumption DEF Pulled, Rows, Anchors
  <2>4. a \in Anchors /\ \A n \in Media : a[n] # Absent => n \in catalogue
    BY <2>1, <2>2, <2>3, <1>t, PlacedRows
  <2>5. Indexed(a)
    BY <2>1, <2>2, <2>3, PlacedIndexed
  <2> QED BY <2>1, <2>4, <2>5, EditKeepsInv
<1>5. ASSUME NEW c \in Channels, NEW d \in Channels, CloneChannel(c, d) PROVE Inv'
  <2>1. \A x \in Channels : anchor'[x] = IF x = d THEN anchor[c] ELSE anchor[x]
    BY <1>5 DEF CloneChannel, LineupTypeOK
  <2>2. LineupTypeOK'
    BY <1>5, <2>1 DEF CloneChannel, LineupTypeOK
  <2>3. IndexesMet'
    BY <2>1 DEF IndexesMet
  <2> QED BY <2>2, <2>3
<1>6. ASSUME NEW c \in Channels, DeleteChannel(c) PROVE Inv'
  <2>1. \A x \in Channels : anchor'[x] = IF x = c THEN Empty ELSE anchor[x]
    BY <1>6 DEF DeleteChannel, LineupTypeOK
  <2>2. Empty \in Anchors /\ Indexed(Empty) /\ \A m \in Media : Empty[m] = Absent
    BY DEF Empty, Anchors, Indexed, Rows
  <2>3. LineupTypeOK'
    BY <1>6, <2>1, <2>2 DEF DeleteChannel, LineupTypeOK, Anchors
  <2>4. IndexesMet'
    BY <2>1, <2>2 DEF IndexesMet
  <2> QED BY <2>3, <2>4
<1>7. ASSUME NEW e \in Editors, NEW c \in Channels, NEW s \in Orders,
             Reorder(e, c, s) \/ Create(e, c, s)
      PROVE  Inv'
  <2>1. PICK r \in Requests : Begin(e, r)
    BY <1>7 DEF Reorder, Create, Requests
  <2> QED BY <2>1, <1>t, RequestKeepsInv DEF Begin
<1>8. ASSUME NEW e \in Editors, NEW m \in Media, DeleteMedia(e, m) PROVE Inv'
  <2>1. PICK r \in Requests : Begin(e, r)
    BY <1>8 DEF DeleteMedia, Requests
  <2> QED BY <2>1, <1>t, RequestKeepsInv DEF Begin
<1>9. ASSUME NEW e \in Editors, InsertChannel(e) PROVE Inv'
  <2>1. /\ Pending(e, "create")
        /\ request[e] \in [kind : {"create", "replace"}, channel : Channels, order : Orders]
    BY <1>9, RequestTyped DEF InsertChannel
  <2>2. request' \in [Editors -> Requests \cup {NoRequest}]
    BY <1>9, <2>1, <1>t DEF InsertChannel, Finish, Requests
  <2>3. channels \subseteq channels' /\ channels' \subseteq Channels
    BY <1>9, <2>1, <1>t DEF InsertChannel
  <2> QED BY <1>9, <2>2, <2>3, RequestKeepsInv DEF InsertChannel
<1>10. ASSUME NEW e \in Editors, Replace(e) PROVE Inv'
  <2> DEFINE k == request[e].channel
  <2> DEFINE s == request[e].order
  <2>1. k \in Channels /\ s \in Orders
    BY <1>10, RequestTyped DEF Replace
  <2>2. request' \in [Editors -> Requests \cup {NoRequest}]
    BY <1>10, <1>t DEF Replace, Finish
  <2>3. CASE UNCHANGED anchor
    BY <1>10, <2>2, <2>3, <1>t, RequestKeepsInv DEF Replace
  <2>4. CASE k \in channels /\ Items(s) \subseteq catalogue
             /\ anchor' = [anchor EXCEPT ![k] = Chained(s)]
    <3>1. \A d \in Channels : anchor'[d] = IF d = k THEN Chained(s) ELSE anchor[d]
      BY <2>4, <2>1 DEF LineupTypeOK
    <3>2. /\ Chained(s) \in Anchors /\ Indexed(Chained(s))
          /\ \A m \in Media : Chained(s)[m] # Absent => m \in catalogue
      BY <2>4, <2>1, ChainedTyped, ChainedIndexed
    <3>3. anchor' \in [Channels -> Anchors]
      BY <2>4, <2>1, <3>2 DEF LineupTypeOK, Anchors
    <3> HIDE DEF k, s
    <3>4. LineupTypeOK'
      BY <1>10, <2>2, <2>4, <3>1, <3>2, <3>3, <1>t DEF Replace, LineupTypeOK, Anchors
    <3>5. IndexesMet'
      BY <3>1, <3>2 DEF IndexesMet
    <3> QED BY <3>4, <3>5
  <2> QED BY <1>10, <2>3, <2>4 DEF Replace
<1>11. ASSUME NEW e \in Editors, DeleteMediaMetadata(e) PROVE Inv'
  <2>1. request[e].media \in Media
    BY <1>11, RequestTyped DEF DeleteMediaMetadata
  <2>2. request' \in [Editors -> Requests \cup {NoRequest}]
    BY <1>11, <1>t DEF DeleteMediaMetadata, Finish
  <2>3. CASE DeleteRows({request[e].media})
    BY <1>11, <2>1, <2>2, <2>3, CascadeKeepsInv DEF DeleteMediaMetadata
  <2>4. CASE UNCHANGED <<catalogue, anchor>>
    BY <1>11, <2>2, <2>4, <1>t, RequestKeepsInv DEF DeleteMediaMetadata
  <2> QED BY <1>11, <2>3, <2>4 DEF DeleteMediaMetadata
<1>12. ASSUME NEW m \in Media, Ingest(m) PROVE Inv'
  BY <1>12 DEF Ingest, LineupTypeOK, IndexesMet
<1>13. ASSUME NEW S \in SUBSET Media, DeleteMediaByIDs(S) PROVE Inv'
  BY <1>13, <1>t, CascadeKeepsInv DEF DeleteMediaByIDs
<1>14. ASSUME Restart PROVE Inv'
  BY <1>14, <1>t, RequestKeepsInv DEF Restart
<1> QED BY <1>1, <1>2, <1>3, <1>4, <1>5, <1>6, <1>7, <1>8, <1>9, <1>10, <1>11, <1>12,
           <1>13, <1>14 DEF Next

LEMMA InvHolds == Spec => []Inv
<1>1. Inv /\ UNCHANGED vars => Inv'
  BY DEF Inv, LineupTypeOK, IndexesMet, vars
<1> QED BY <1>1, InitInv, StepInv, PTL DEF Spec

\* Every membership is of an existing channel and an existing media row, whatever handlers
\* that read earlier write later.
THEOREM LineupTypeCorrect == Spec => []LineupTypeOK
<1>1. Inv => LineupTypeOK
  BY DEF Inv
<1> QED BY <1>1, InvHolds, PTL

\* No channel ever has two heads and no row two successors: the indexes that the edits
\* test only where they open a slot or append hold after every write.
THEOREM IndexesHold == Spec => []IndexesMet
<1>1. Inv => IndexesMet
  BY DEF Inv
<1> QED BY <1>1, InvHolds, PTL

-----------------------------------------------------------------------------
(* Least elements, induction over a finite walk, and the walk itself.       *)

LEMMA LeastNat ==
    ASSUME NEW S, S \subseteq Nat, S # {}
    PROVE  \E x \in S : \A y \in S : x <= y
<1>1. PICK x \in S : \A y \in S : <<y, x>> \notin OpToRel(<, Nat)
  BY WFMin, NatLessThanWellFounded, Zenon
<1>2. \A y \in S : ~(y < x)
  BY <1>1, Zenon DEF OpToRel
<1>3. \A y \in S : x \in Int /\ y \in Int
  OBVIOUS
<1> QED
  BY <1>2, <1>3

\* Induction up to n, over a set.
LEMMA Climb ==
    ASSUME NEW n \in Nat, NEW T, 0 \in T, \A k \in 1..n : k - 1 \in T => k \in T
    PROVE  \A k \in 0..n : k \in T
<1> DEFINE S == {k \in 0..n : k \notin T}
<1> SUFFICES ASSUME S # {} PROVE FALSE
  OBVIOUS
<1>1. PICK x \in S : \A y \in S : x <= y
  <2>1. S \subseteq Nat
    OBVIOUS
  <2> HIDE DEF S
  <2> QED BY <2>1, LeastNat
<1>2. x \in 1..n /\ x - 1 \in 0..n
  OBVIOUS
<1>3. x - 1 \notin S
  BY <1>1, <1>2
<1> QED BY <1>2, <1>3

\* f runs from s0 by n steps.
Runs(f, n, S, s0, step) == f \in [0..n -> S] /\ f[0] = s0 /\ \A k \in 1..n : f[k] = step[f[k - 1]]

LEMMA Recursion ==
    ASSUME NEW S, NEW step \in [S -> S], NEW s0 \in S, NEW n \in Nat
    PROVE  \E f : Runs(f, n, S, s0, step)
<1> USE DEF Runs
<1> DEFINE T == {k \in Nat : \E f : Runs(f, k, S, s0, step)}
<1>1. 0 \in T
  <2>1. Runs([j \in 0..0 |-> s0], 0, S, s0, step)
    OBVIOUS
  <2> QED BY <2>1
<1>2. ASSUME NEW k \in 1..n, k - 1 \in T PROVE k \in T
  <2>1. PICK f : Runs(f, k - 1, S, s0, step)
    BY <1>2
  <2> DEFINE g == [j \in 0..k |-> IF j = k THEN step[f[k - 1]] ELSE f[j]]
  <2>2. Runs(g, k, S, s0, step)
    <3>1. \A j \in 0..k - 1 : g[j] = f[j] /\ f[j] \in S
      BY <2>1
    <3>2. g[k] = step[f[k - 1]] /\ g[k] \in S
      BY <2>1, <3>1
    <3>3. \A j \in 1..k : g[j] = step[g[j - 1]]
      BY <2>1, <3>1, <3>2
    <3> QED BY <2>1, <3>1, <3>2, <3>3
  <2> HIDE DEF g
  <2> QED BY <2>2
<1> HIDE DEF T
<1>3. n \in T
  BY <1>1, <1>2, Climb
<1> QED BY <1>3 DEF T

LEMMA RowsFinite == \A a : IsFiniteSet(Rows(a)) /\ Cardinality(Rows(a)) \in Nat
BY LineupAssumption, FS_Subset, FS_CardinalityType DEF Rows

\* What the walk has collected after n rows: it began at a head and followed the anchors, and
\* where it has collected fewer rows, the last one has no successor.
Led(a, n, w) ==
    /\ w \in Seq(Media) /\ Len(w) \in 1..n
    /\ a[w[1]] = Null
    /\ \A i \in 2..Len(w) : a[w[i]] = w[i - 1]
    /\ Len(w) < n => Successors(a, w[Len(w)]) = {}

LEMMA LedOn ==
    ASSUME NEW a, NEW n \in Nat, NEW w, Led(a, n, w)
    PROVE  LET last == w[Len(w)]
           IN  Led(a, n + 1, IF Successors(a, last) = {} THEN w
                             ELSE Append(w, CHOOSE m \in Successors(a, last) : TRUE))
<1> DEFINE last == w[Len(w)]
           next == CHOOSE m \in Successors(a, last) : TRUE
<1>1. CASE Successors(a, last) = {}
  BY <1>1 DEF Led
<1>2. CASE Successors(a, last) # {}
  <2>1. next \in Media /\ a[next] = last
    <3>1. next \in Successors(a, last)
      BY <1>2
    <3> QED BY <3>1 DEF Successors
  <2> HIDE DEF next
  <2>2. Len(w) = n
    BY <1>2 DEF Led
  <2>3. Append(w, next) \in Seq(Media) /\ Len(Append(w, next)) = n + 1
    BY <2>1, <2>2 DEF Led
  <2>4. Append(w, next)[1] = w[1]
    BY <2>2 DEF Led
  <2>5. \A i \in 2..(n + 1) : a[Append(w, next)[i]] = Append(w, next)[i - 1]
    <3> TAKE i \in 2..(n + 1)
    <3>1. CASE i = n + 1
      BY <3>1, <2>1, <2>2 DEF Led
    <3>2. CASE i # n + 1
      BY <3>2, <2>2 DEF Led
    <3> QED BY <3>1, <3>2
  <2>6. Led(a, n + 1, Append(w, next))
    BY <2>2, <2>3, <2>4, <2>5 DEF Led
  <2> QED BY <1>2, <2>6 DEF next
<1> QED BY <1>1, <1>2

\* The walk along anchors that have a head.
LEMMA WalkLed ==
    ASSUME NEW a, Heads(a) # {}
    PROVE  Led(a, Cardinality(Rows(a)), Walk(a))
<1> DEFINE N == Cardinality(Rows(a))
           head == CHOOSE m \in Heads(a) : TRUE
           On(w) == IF Successors(a, w[Len(w)]) = {} THEN w
                    ELSE Append(w, CHOOSE m \in Successors(a, w[Len(w)]) : TRUE)
           path == CHOOSE path : path = [n \in 1..N |-> IF n = 1 THEN <<head>> ELSE On(path[n - 1])]
<1>1. head \in Media /\ a[head] = Null
  <2>1. head \in Heads(a)
    OBVIOUS
  <2> QED BY <2>1 DEF Heads
<1>2. Walk(a) = path[N]
  BY DEF Walk
<1>3. N \in Nat \ {0}
  <2>1. head \in Rows(a)
    BY <1>1, LineupAssumption DEF Rows
  <2> QED BY <2>1, RowsFinite, FS_EmptySet
<1>4. \A w \in Seq(Media) : On(w) \in Seq(Media)
  BY DEF Successors
<1>5. path = [n \in 1..N |-> IF n = 1 THEN <<head>> ELSE On(path[n - 1])]
  <2> DEFINE step == [w \in Seq(Media) |-> On(w)]
  <2>1. step \in [Seq(Media) -> Seq(Media)]
    BY <1>4
  <2>a. <<head>> \in Seq(Media) /\ N \in Nat
    <3> HIDE DEF head, N
    <3> QED BY <1>1, <1>3
  <2>2. \A w \in Seq(Media) : step[w] = On(w)
    OBVIOUS
  <2> HIDE DEF step, N, head, On
  <2>3. PICK f : Runs(f, N, Seq(Media), <<head>>, step)
    BY <2>1, <2>a, Recursion
  <2> DEFINE g == [n \in 1..N |-> f[n - 1]]
  <2>4. \A n \in 1..N : g[n] = IF n = 1 THEN <<head>> ELSE On(g[n - 1])
    <3> TAKE n \in 1..N
    <3>1. CASE n = 1
      BY <3>1, <2>3 DEF Runs
    <3>2. CASE n # 1
      <4>1. n - 1 \in 1..N /\ n - 1 - 1 \in 0..N
        BY <3>2, <1>3
      <4>2. g[n] = step[g[n - 1]] /\ g[n - 1] \in Seq(Media)
        BY <4>1, <2>3, <1>3 DEF Runs
      <4> QED BY <4>2, <3>2, <2>2
    <3> QED BY <3>1, <3>2
  <2>5. g = [n \in 1..N |-> IF n = 1 THEN <<head>> ELSE On(g[n - 1])]
    BY <2>4
  <2> HIDE DEF g
  <2> QED BY <2>5
<1> HIDE DEF path, head, On, N
<1> DEFINE T == {k \in Nat : k + 1 \in 1..N => Led(a, k + 1, path[k + 1])}
<1>6. 0 \in T
  <2>1. path[1] = <<head>>
    BY <1>3, <1>5
  <2>2. Led(a, 1, <<head>>)
    BY <1>1 DEF Led
  <2> QED BY <2>1, <2>2
<1>7. ASSUME NEW k \in 1..(N - 1), k - 1 \in T PROVE k \in T
  <2>1. Led(a, k, path[k]) /\ k \in Nat
    BY <1>7, <1>3
  <2>2. path[k + 1] = On(path[k])
    BY <1>3, <1>5
  <2>3. Led(a, k + 1, On(path[k]))
    BY <2>1, LedOn DEF On
  <2> QED BY <2>2, <2>3
<1>8. N - 1 \in T
  <2> HIDE DEF T
  <2> QED BY <1>3, <1>6, <1>7, Climb
<1> QED BY <1>2, <1>3, <1>8 DEF N

-----------------------------------------------------------------------------
(* What an order is, seen from its anchors.                                *)

LEMMA OrderSize ==
    ASSUME NEW s \in Seq(Media), \A i, j \in 1..Len(s) : s[i] = s[j] => i = j
    PROVE  /\ IsFiniteSet(Items(s)) /\ Cardinality(Items(s)) = Len(s)
           /\ s \in Orders
<1>1. s \in [1..Len(s) -> Media] /\ Len(s) \in Nat /\ DOMAIN s = 1..Len(s)
  OBVIOUS
<1>2. Items(s) \subseteq Media
  BY <1>1 DEF Items
<1>3. IsFiniteSet(Items(s)) /\ Cardinality(Items(s)) <= Cardinality(Media) /\ Cardinality(Media) \in Nat
  BY <1>2, LineupAssumption, FS_Subset, FS_CardinalityType
<1>4. s \in Bijection(1..Len(s), Items(s))
  BY <1>1 DEF Items, Bijection, Injection, Surjection, IsInjective
<1>5. Cardinality(Items(s)) = Len(s)
  BY <1>1, <1>4, FS_CountingElements DEF ExistsBijection
<1>6. Len(s) \in 0..Cardinality(Media)
  BY <1>1, <1>3, <1>5
<1>7. s \in Orders
  BY <1>1, <1>6 DEF Orders
<1> QED BY <1>3, <1>5, <1>7

LEMMA ChainedAt ==
    ASSUME NEW s \in Orders
    PROVE  /\ \A i \in 1..Len(s) : Chained(s)[s[i]] = IF i = 1 THEN Null ELSE s[i - 1]
           /\ \A m \in Media \ Items(s) : Chained(s)[m] = Absent
           /\ Rows(Chained(s)) = Items(s)
           /\ Heads(Chained(s)) = IF s = <<>> THEN {} ELSE {s[1]}
<1> DEFINE at(m) == CHOOSE i \in DOMAIN s : s[i] = m
           a == Chained(s)
<1>1. ASSUME NEW i \in 1..Len(s) PROVE a[s[i]] = IF i = 1 THEN Null ELSE s[i - 1]
  <2>1. s[i] \in Items(s) /\ s[i] \in Media
    BY OrderItems DEF Items
  <2>2. at(s[i]) \in DOMAIN s /\ s[at(s[i])] = s[i]
    BY <2>1, OrderItems
  <2>3. at(s[i]) = i
    BY <2>2, OrderItems
  <2>4. a[s[i]] = IF at(s[i]) = 1 THEN Null ELSE s[at(s[i]) - 1]
    BY <2>1 DEF Chained
  <2> HIDE DEF at, a
  <2> QED BY <2>3, <2>4
<1>2. \A m \in Media \ Items(s) : a[m] = Absent
  BY DEF Chained
<1>3. \A m \in Items(s) : \E i \in 1..Len(s) : s[i] = m
  BY OrderItems
<1>4. \A i \in 1..Len(s) : s[i] \in Media /\ s[i] \in Items(s)
  BY OrderItems DEF Items
<1>5. \A i \in 1..Len(s) : i # 1 => s[i - 1] \in Media
  BY <1>4, OrderItems
<1> HIDE DEF a
<1>6. Rows(a) = Items(s)
  BY <1>1, <1>2, <1>3, <1>4, <1>5, OrderItems, LineupAssumption DEF Rows
<1>7. CASE s = <<>>
  <2>1. Items(s) = {}
    BY <1>3, <1>7
  <2> QED BY <1>1, <1>2, <1>6, <1>7, <2>1, LineupAssumption DEF Heads, a
<1>8. CASE s # <<>>
  <2>1. 1 \in 1..Len(s)
    BY <1>8, OrderItems
  <2>2. \A m \in Media : a[m] = Null => m \in Items(s)
    BY <1>2, LineupAssumption
  <2>3. \A i \in 1..Len(s) : a[s[i]] = Null => i = 1
    BY <1>1, <1>5, LineupAssumption
  <2>4. Heads(a) = {s[1]}
    BY <1>1, <1>3, <1>4, <2>1, <2>2, <2>3 DEF Heads
  <2> QED BY <1>1, <1>2, <1>6, <1>8, <2>4 DEF a
<1> QED BY <1>7, <1>8

\* The walk never meets a row twice, and stays on rows.
LEMMA WalkOrder ==
    ASSUME NEW a \in Anchors, Heads(a) # {}
    PROVE  /\ Walk(a) \in Orders /\ Walk(a) # <<>>
           /\ Items(Walk(a)) \subseteq Rows(a)
           /\ Len(Walk(a)) = Cardinality(Items(Walk(a)))
           /\ Len(Walk(a)) \in 1..Cardinality(Rows(a))
<1> DEFINE w == Walk(a)
           N == Cardinality(Rows(a))
<1>1. /\ w \in Seq(Media) /\ Len(w) \in 1..N
      /\ a[w[1]] = Null
      /\ \A i \in 2..Len(w) : a[w[i]] = w[i - 1]
  BY WalkLed DEF Led
<1> HIDE DEF w
<1>2. \A i \in 1..Len(w) : w[i] \in Media
  BY <1>1
<1>3. \A i \in 1..Len(w) : a[w[i]] # Absent /\ (i # 1 => a[w[i]] # Null)
  BY <1>1, <1>2, LineupAssumption
<1>4. Items(w) \subseteq Rows(a)
  BY <1>1, <1>2, <1>3 DEF Items, Rows
<1>5. ASSUME NEW i \in 1..Len(w), NEW j \in 1..Len(w), w[i] = w[j], i # j PROVE FALSE
  <2> DEFINE S == {k \in 1..Len(w) : \E l \in 1..Len(w) : k # l /\ w[k] = w[l]}
  <2>1. S \subseteq Nat /\ S # {}
    BY <1>1, <1>5
  <2>2. PICK k \in S : \A l \in S : k <= l
    <3> HIDE DEF S
    <3> QED BY <2>1, LeastNat
  <2>3. PICK l \in 1..Len(w) : k # l /\ w[k] = w[l]
    OBVIOUS
  <2>4. l \in S
    BY <2>3
  <2>5. k # 1
    BY <1>1, <1>3, <2>3
  <2>6. l # 1
    BY <1>1, <2>2, <2>4, <2>5
  <2>7. w[k - 1] = w[l - 1]
    BY <1>1, <2>3, <2>5, <2>6
  <2>8. k - 1 \in 1..Len(w) /\ l - 1 \in 1..Len(w) /\ k - 1 # l - 1
    BY <1>1, <2>3, <2>5, <2>6
  <2>9. k - 1 \in S
    BY <2>7, <2>8
  <2> QED BY <1>1, <2>2, <2>9
<1>6. w \in Orders /\ Cardinality(Items(w)) = Len(w)
  BY <1>1, <1>5, OrderSize
<1>7. w # <<>>
  BY <1>1
<1> QED BY <1>1, <1>4, <1>6, <1>7 DEF w

\* The walk along the anchors of an order gives the order.
LEMMA WalkOfChained ==
    ASSUME NEW s \in Orders
    PROVE  Walk(Chained(s)) = s /\ ~Refused(Chained(s))
<1> DEFINE a == Chained(s)
           w == Walk(a)
<1>1. /\ s \in Seq(Media) /\ DOMAIN s = 1..Len(s) /\ Len(s) \in Nat
      /\ \A i \in 1..Len(s) : s[i] \in Media
      /\ \A i, j \in 1..Len(s) : s[i] = s[j] => i = j
  BY OrderItems DEF Items
<1>2. /\ \A i \in 1..Len(s) : a[s[i]] = IF i = 1 THEN Null ELSE s[i - 1]
      /\ Rows(a) = Items(s)
      /\ Heads(a) = IF s = <<>> THEN {} ELSE {s[1]}
  BY ChainedAt
<1>3. Cardinality(Rows(a)) = Len(s)
  BY <1>1, <1>2, OrderSize
<1>4. a \in Anchors /\ Indexed(a)
  BY ChainedTyped, ChainedIndexed
<1>5. CASE s = <<>>
  <2>1. w = <<>>
    BY <1>2, <1>5 DEF Walk
  <2> QED BY <1>3, <1>5, <2>1 DEF Refused
<1>6. CASE s # <<>>
  <2>0. \A i, j \in Rows(a) : a[i] = a[j] => i = j
    BY <1>4 DEF Indexed
  <2> HIDE DEF a
  <2>1. /\ w \in Seq(Media) /\ Len(w) \in 1..Len(s)
        /\ a[w[1]] = Null
        /\ \A i \in 2..Len(w) : a[w[i]] = w[i - 1]
        /\ Len(w) < Len(s) => Successors(a, w[Len(w)]) = {}
    BY <1>2, <1>3, <1>6, WalkLed DEF Led
  <2>2. Items(w) \subseteq Items(s)
    BY <1>2, <1>4, <1>6, WalkOrder
  <2>3. \A i \in 1..Len(w) : w[i] \in Rows(a)
    <3> HIDE DEF w
    <3>1. \A i \in 1..Len(w) : w[i] \in Items(w)
      BY <2>1 DEF Items
    <3> QED BY <1>2, <2>2, <3>1
  <2>3a. \A i \in 1..Len(s) : s[i] \in Rows(a)
    BY <1>1, <1>2 DEF Items
  <2> HIDE DEF w
  <2> DEFINE T == {k \in Nat : k + 1 \in 1..Len(w) => w[k + 1] = s[k + 1]}
  <2>4. 0 \in T
    <3>1. 1 \in 1..Len(s)
      BY <1>1, <2>1
    <3>2. a[s[1]] = a[w[1]]
      BY <1>2, <2>1, <3>1
    <3> QED BY <2>0, <2>1, <2>3, <2>3a, <3>1, <3>2
  <2>5. ASSUME NEW k \in 1..(Len(w) - 1), k - 1 \in T PROVE k \in T
    <3>1. w[k] = s[k] /\ k \in Nat /\ k + 1 \in 2..Len(w) /\ k + 1 \in 1..Len(s) /\ (k + 1) - 1 = k /\ k + 1 # 1
      BY <2>1, <2>5, <1>1
    <3>2. a[w[k + 1]] = w[k]
      BY <2>1, <3>1
    <3>3. a[s[k + 1]] = s[k]
      BY <1>2, <3>1
    <3>4. w[k + 1] = s[k + 1]
      BY <2>0, <2>1, <2>3, <2>3a, <3>1, <3>2, <3>3
    <3> QED BY <3>1, <3>4
  <2>6. \A k \in 0..(Len(w) - 1) : k \in T
    <3> HIDE DEF T
    <3>1. Len(w) - 1 \in Nat
      BY <2>1, <1>1
    <3> QED BY <2>4, <2>5, <3>1, Climb
  <2>7. \A i \in 1..Len(w) : w[i] = s[i]
    <3> TAKE i \in 1..Len(w)
    <3>1. i - 1 \in 0..(Len(w) - 1) /\ (i - 1) + 1 = i
      BY <2>1
    <3> QED BY <2>6, <3>1
  <2>8. Len(w) = Len(s)
    <3> SUFFICES ASSUME Len(w) < Len(s) PROVE FALSE
      BY <2>1, <1>1
    <3>1. Len(w) + 1 \in 1..Len(s) /\ Len(w) + 1 # 1 /\ (Len(w) + 1) - 1 = Len(w) /\ Len(w) \in 1..Len(w)
      BY <2>1, <1>1
    <3>2. a[s[Len(w) + 1]] = s[Len(w)] /\ s[Len(w) + 1] \in Media
      BY <1>1, <1>2, <3>1
    <3>3. s[Len(w)] = w[Len(w)]
      BY <2>7, <3>1
    <3> QED BY <2>1, <3>2, <3>3 DEF Successors
  <2>9. w = s
    BY <1>1, <2>1, <2>7, <2>8
  <2> QED BY <1>3, <2>9 DEF w, a, Refused
<1> QED BY <1>5, <1>6

\* Readers accept exactly the anchors of some order.
LEMMA AcceptedOrder ==
    ASSUME NEW a \in Anchors, ~Refused(a)
    PROVE  Walk(a) \in Orders /\ a = Chained(Walk(a)) /\ Items(Walk(a)) = Rows(a)
<1> DEFINE w == Walk(a)
           N == Cardinality(Rows(a))
<1>1. Len(w) = N /\ N \in Nat /\ IsFiniteSet(Rows(a))
  BY RowsFinite DEF Refused
<1>2. CASE Heads(a) = {}
  <2>1. w = <<>>
    BY <1>2 DEF Walk
  <2>2. Rows(a) = {}
    BY <1>1, <2>1, FS_EmptySet
  <2>3. w \in Orders /\ Items(w) = {}
    <3>1. <<>> \in Seq(Media) /\ \A i, j \in 1..Len(<<>>) : <<>>[i] = <<>>[j] => i = j
      OBVIOUS
    <3>2. <<>> \in Orders
      BY <3>1, OrderSize
    <3>3. Items(<<>>) = {}
      BY DEF Items
    <3> QED BY <2>1, <3>2, <3>3
  <2>4. \A m \in Media : a[m] = Absent /\ Chained(w)[m] = Absent
    BY <2>2, <2>3, ChainedAt DEF Rows
  <2>5. Chained(w) \in Anchors
    BY <2>3, ChainedTyped
  <2>6. a = Chained(w)
    BY <2>4, <2>5 DEF Anchors
  <2> QED BY <2>2, <2>3, <2>6
<1>3. CASE Heads(a) # {}
  <2>1. /\ w \in Orders /\ Items(w) \subseteq Rows(a) /\ Cardinality(Items(w)) = Len(w)
    BY <1>3, WalkOrder
  <2>2. Items(w) = Rows(a)
    BY <1>1, <2>1, FS_Subset
  <2>3. /\ a[w[1]] = Null
        /\ \A i \in 2..Len(w) : a[w[i]] = w[i - 1]
    BY <1>3, WalkLed DEF Led
  <2>4. \A i \in 1..Len(w) : Chained(w)[w[i]] = IF i = 1 THEN Null ELSE w[i - 1]
    BY <2>1, ChainedAt
  <2>5. \A m \in Media \ Items(w) : Chained(w)[m] = Absent /\ a[m] = Absent
    BY <2>1, <2>2, ChainedAt DEF Rows
  <2>6. \A m \in Items(w) : \E i \in 1..Len(w) : w[i] = m
    BY <2>1, OrderItems
  <2>7. Len(w) \in Nat
    BY <1>1
  <2>8. Chained(w) \in Anchors
    BY <2>1, ChainedTyped
  <2> HIDE DEF w
  <2>9. \A i \in 1..Len(w) : a[w[i]] = Chained(w)[w[i]]
    BY <2>3, <2>4, <2>7
  <2>10. \A m \in Media : a[m] = Chained(w)[m]
    BY <2>5, <2>6, <2>9
  <2>11. a = Chained(w)
    BY <2>8, <2>10 DEF Anchors
  <2> QED BY <2>1, <2>2, <2>11 DEF w
<1> QED BY <1>2, <1>3

-----------------------------------------------------------------------------
(* The validator.                                                          *)

LEMMA IssueKinds ==
    ASSUME NEW a
    PROVE  ChainIssues(a) # {} <=>
             \/ Rows(a) # {} /\ Heads(a) = {}
             \/ Cardinality(Heads(a)) > 1
             \/ \E m \in Rows(a) : Cardinality(Successors(a, m) \ {m}) > 1
             \/ \E m \in Media : a[m] = m
             \/ \E m \in Rows(a) : a[m] \in Media \ Rows(a)
             \/ \E S \in SUBSET Rows(a) : S # {} /\ S = {a[m] : m \in S} /\ \A m \in S : a[m] # m
BY DEF ChainIssues

\* At most one element.
LEMMA AtMostOne ==
    ASSUME NEW S, \A x, y \in S : x = y
    PROVE  Cardinality(S) \in {0, 1}
<1>1. CASE S = {}
  BY <1>1, FS_EmptySet
<1>2. CASE S # {}
  <2>1. PICK x : S = {x}
    BY <1>2
  <2> QED BY <2>1, FS_Singleton
<1> QED BY <1>1, <1>2

LEMMA OrderHasNoIssue ==
    ASSUME NEW s \in Orders
    PROVE  ChainIssues(Chained(s)) = {}
<1> DEFINE a == Chained(s)
<1>1. /\ Len(s) \in Nat
      /\ \A i \in 1..Len(s) : s[i] \in Items(s) /\ s[i] \in Media
      /\ \A m \in Items(s) : m \in Media /\ \E i \in 1..Len(s) : s[i] = m
      /\ \A i, j \in 1..Len(s) : s[i] = s[j] => i = j
  BY OrderItems DEF Items
<1>2. /\ \A i \in 1..Len(s) : a[s[i]] = IF i = 1 THEN Null ELSE s[i - 1]
      /\ \A m \in Media \ Items(s) : a[m] = Absent
      /\ Rows(a) = Items(s)
      /\ Heads(a) = IF s = <<>> THEN {} ELSE {s[1]}
  BY ChainedAt
<1>3. \A m, n \in Rows(a) : a[m] = a[n] => m = n
  BY ChainedIndexed DEF Indexed
<1>4. s = <<>> => Items(s) = {}
  BY <1>1
<1> HIDE DEF a
<1>5. ~(Rows(a) # {} /\ Heads(a) = {})
  BY <1>2, <1>4
<1>6. ~(Cardinality(Heads(a)) > 1)
  <2>1. \A x, y \in Heads(a) : x = y
    BY <1>2
  <2>2. Cardinality(Heads(a)) \in {0, 1}
    BY <2>1, AtMostOne
  <2> QED BY <2>2
<1>7. ASSUME NEW m \in Rows(a) PROVE ~(Cardinality(Successors(a, m) \ {m}) > 1)
  <2>1. m \in Media
    BY DEF Rows
  <2>2. \A x \in Successors(a, m) : x \in Rows(a) /\ a[x] = m
    BY <2>1, LineupAssumption DEF Successors, Rows
  <2>3. \A x, y \in Successors(a, m) \ {m} : x = y
    BY <1>3, <2>2
  <2>4. Cardinality(Successors(a, m) \ {m}) \in {0, 1}
    BY <2>3, AtMostOne
  <2> QED BY <2>4
<1>8. ASSUME NEW m \in Media PROVE a[m] # m
  <2>1. CASE m \notin Items(s)
    BY <1>2, <2>1, LineupAssumption
  <2>2. CASE m \in Items(s)
    <3>1. PICK i \in 1..Len(s) : s[i] = m
      BY <1>1, <2>2
    <3>2. CASE i = 1
      BY <1>2, <3>1, <3>2, LineupAssumption
    <3>3. CASE i # 1
      <4>1. i - 1 \in 1..Len(s) /\ i - 1 # i
        BY <1>1, <3>3
      <4> QED BY <1>1, <1>2, <3>1, <3>3, <4>1
    <3> QED BY <3>2, <3>3
  <2> QED BY <2>1, <2>2
<1>9. ASSUME NEW m \in Rows(a) PROVE a[m] \notin Media \ Rows(a)
  <2>1. PICK i \in 1..Len(s) : s[i] = m
    BY <1>1, <1>2
  <2>2. CASE i = 1
    BY <1>2, <2>1, <2>2, LineupAssumption
  <2>3. CASE i # 1
    <3>1. i - 1 \in 1..Len(s)
      BY <1>1, <2>3
    <3> QED BY <1>1, <1>2, <2>1, <2>3, <3>1
  <2> QED BY <2>2, <2>3
<1>10. ASSUME NEW S \in SUBSET Rows(a), S # {}, S = {a[m] : m \in S} PROVE FALSE
  <2> DEFINE P == {i \in 1..Len(s) : s[i] \in S}
  <2>1. P \subseteq Nat /\ P # {}
    <3>1. PICK m : m \in S
      BY <1>10
    <3>2. m \in Items(s)
      BY <1>2, <3>1
    <3> QED BY <1>1, <3>1, <3>2
  <2>2. PICK i \in P : \A j \in P : i <= j
    <3> HIDE DEF P
    <3> QED BY <2>1, LeastNat
  <2>3. s[i] \in S /\ i \in 1..Len(s)
    OBVIOUS
  <2>4. a[s[i]] \in S
    BY <1>10, <2>3
  <2>5. CASE i = 1
    <3>1. Null \in Media
      BY <1>1, <1>2, <2>3, <2>4, <2>5
    <3> QED BY <3>1, LineupAssumption
  <2>6. CASE i # 1
    <3>1. i - 1 \in 1..Len(s) /\ ~(i <= i - 1)
      BY <1>1, <2>3, <2>6
    <3>2. a[s[i]] = s[i - 1]
      BY <1>2, <2>3, <2>6
    <3>3. i - 1 \in P
      BY <2>4, <3>1, <3>2
    <3> QED BY <2>2, <3>1, <3>3
  <2> QED BY <2>5, <2>6
<1>11. ChainIssues(a) = {}
  BY <1>5, <1>6, <1>7, <1>8, <1>9, <1>10, IssueKinds
<1> QED BY <1>11 DEF a

\* Rows the walk does not reach: an anchor that is no row, a row anchored to itself, or a
\* set of rows that are anchored to one another.
LEMMA RefusedHasIssue ==
    ASSUME NEW a \in Anchors, Indexed(a), Refused(a)
    PROVE  ChainIssues(a) # {}
<1> DEFINE w == Walk(a)
           U == Rows(a) \ Items(w)
<1> SUFFICES ASSUME ChainIssues(a) = {} PROVE FALSE
  OBVIOUS
<1>1. /\ Rows(a) = {} \/ Heads(a) # {}
      /\ ~\E m \in Media : a[m] = m
      /\ ~\E m \in Rows(a) : a[m] \in Media \ Rows(a)
      /\ ~\E S \in SUBSET Rows(a) : S # {} /\ S = {a[m] : m \in S} /\ \A m \in S : a[m] # m
  BY IssueKinds
<1>2. Heads(a) # {}
  <2> SUFFICES ASSUME Heads(a) = {} PROVE FALSE
    OBVIOUS
  <2>1. w = <<>> /\ Cardinality(Rows(a)) = 0
    BY <1>1, FS_EmptySet DEF Walk
  <2> QED BY <2>1 DEF Refused
<1>3. /\ w \in Seq(Media) /\ Len(w) \in 1..Cardinality(Rows(a))
      /\ a[w[1]] = Null
      /\ \A i \in 2..Len(w) : a[w[i]] = w[i - 1]
      /\ Len(w) < Cardinality(Rows(a)) => Successors(a, w[Len(w)]) = {}
  BY <1>2, WalkLed DEF Led
<1>4. w \in Orders /\ Items(w) \subseteq Rows(a) /\ Len(w) = Cardinality(Items(w))
  BY <1>2, WalkOrder
<1>5. Len(w) < Cardinality(Rows(a)) /\ U # {}
  <2>1. Len(w) # Cardinality(Rows(a)) /\ Cardinality(Rows(a)) \in Nat
    BY RowsFinite DEF Refused
  <2>2. Items(w) # Rows(a)
    BY <1>4, <2>1
  <2>3. U # {}
    BY <1>4, <2>2
  <2>4. Len(w) < Cardinality(Rows(a))
    <3> HIDE DEF w
    <3> QED BY <1>3, <2>1
  <2> QED BY <2>3, <2>4
<1>6. \A i \in 1..Len(w) : w[i] \in Items(w) /\ w[i] \in Rows(a) /\ w[i] \in Media
  <2> HIDE DEF w
  <2>1. \A i \in 1..Len(w) : w[i] \in Items(w) /\ w[i] \in Media
    BY <1>3 DEF Items
  <2> QED BY <1>4, <2>1
<1>7. \A x, y \in Rows(a) : a[x] = a[y] => x = y
  BY DEF Indexed
<1> HIDE DEF w
<1>8. ASSUME NEW m \in U PROVE a[m] \in U
  <2>1. m \in Media /\ a[m] # Absent /\ m \in Rows(a) /\ m \notin Items(w)
    BY DEF Rows
  <2>2. a[m] # Null
    <3>1. 1 \in 1..Len(w)
      BY <1>3
    <3> QED BY <1>3, <1>6, <1>7, <2>1, <3>1
  <2>3. a[m] \in Rows(a)
    BY <1>1, <2>1, <2>2 DEF Anchors
  <2>4. a[m] \notin Items(w)
    <3> SUFFICES ASSUME a[m] \in Items(w) PROVE FALSE
      OBVIOUS
    <3>1. PICK i \in 1..Len(w) : w[i] = a[m]
      BY <1>3 DEF Items
    <3>2. CASE i = Len(w)
      BY <1>5, <1>3, <2>1, <3>1, <3>2 DEF Successors
    <3>3. CASE i # Len(w)
      <4>1. i + 1 \in 2..Len(w) /\ i + 1 \in 1..Len(w) /\ (i + 1) - 1 = i
        BY <1>3, <3>3
      <4>2. a[w[i + 1]] = a[m]
        BY <1>3, <3>1, <4>1
      <4>3. w[i + 1] = m
        BY <1>6, <1>7, <2>1, <4>1, <4>2
      <4> QED BY <1>6, <2>1, <4>1, <4>3
    <3> QED BY <3>2, <3>3
  <2> QED BY <2>3, <2>4
<1> DEFINE f == [m \in U |-> a[m]]
<1>9. f \in Injection(U, U)
  BY <1>7, <1>8 DEF Injection, IsInjective
<1>10. IsFiniteSet(U)
  BY RowsFinite, FS_Subset
<1>11. f \in Surjection(U, U)
  <2> HIDE DEF f, U
  <2> QED BY <1>9, <1>10, FS_Injection
<1>12. U = {a[m] : m \in U}
  <2>1. \A u \in U : \E m \in U : f[m] = u
    BY <1>11 DEF Surjection
  <2>2. \A m \in U : f[m] = a[m]
    OBVIOUS
  <2> HIDE DEF f, U
  <2> QED BY <1>8, <2>1, <2>2
<1>13. \A m \in U : a[m] # m
  BY <1>1 DEF Rows
<1>14. U \in SUBSET Rows(a)
  OBVIOUS
<1> HIDE DEF U
<1> QED BY <1>1, <1>5, <1>12, <1>13, <1>14

\* The head of the list may be damaged in any way the indexes allow: readers refuse the
\* anchors exactly when the validator reports an issue.
LEMMA RefusedIffIssue ==
    ASSUME NEW a \in Anchors, Indexed(a)
    PROVE  Refused(a) <=> ChainIssues(a) # {}
<1>1. CASE Refused(a)
  BY <1>1, RefusedHasIssue
<1>2. CASE ~Refused(a)
  BY <1>2, AcceptedOrder, OrderHasNoIssue
<1> QED BY <1>1, <1>2

(* db/chain_validator.go reports an issue for a channel's rows exactly when *)
(* the reader of db/channel_media.go refuses them: whatever damage a lineup *)
(* takes (media deleted from under it, a late write), the operator is told  *)
(* of it if and only if the channel no longer plays.                       *)
THEOREM ReadersReport == Spec => []ReportedIffRefused
<1>1. Inv => ReportedIffRefused
  <2> SUFFICES ASSUME Inv, NEW c \in Channels
               PROVE  Refused(anchor[c]) <=> ChainIssues(anchor[c]) # {}
    BY DEF ReportedIffRefused
  <2>1. anchor[c] \in Anchors /\ Indexed(anchor[c])
    BY DEF Inv, LineupTypeOK, IndexesMet, Anchors
  <2> QED BY <2>1, RefusedIffIssue
<1> QED BY <1>1, InvHolds, PTL

-----------------------------------------------------------------------------
(* What the rewirings do to an order.                                      *)

LEMMA ChainedIs ==
    ASSUME NEW a \in Anchors, NEW t \in Orders,
           \A i \in 1..Len(t) : a[t[i]] = IF i = 1 THEN Null ELSE t[i - 1],
           \A m \in Media \ Items(t) : a[m] = Absent
    PROVE  a = Chained(t)
<1>1. \A i \in 1..Len(t) : a[t[i]] = Chained(t)[t[i]]
  BY ChainedAt
<1>2. \A m \in Media \ Items(t) : a[m] = Chained(t)[m]
  BY ChainedAt
<1>3. \A m \in Items(t) : \E i \in 1..Len(t) : t[i] = m
  BY OrderItems
<1>4. \A m \in Media : a[m] = Chained(t)[m]
  BY <1>1, <1>2, <1>3
<1>5. Chained(t) \in Anchors
  BY ChainedTyped
<1> QED BY <1>4, <1>5 DEF Anchors

\* The order with m as its (k + 1)-th, and without its k-th.
With(s, k, m) == [i \in 1..(Len(s) + 1) |-> IF i <= k THEN s[i] ELSE IF i = k + 1 THEN m ELSE s[i - 1]]
Without(s, k) == [i \in 1..(Len(s) - 1) |-> IF i < k THEN s[i] ELSE s[i + 1]]

LEMMA OrderFacts ==
    ASSUME NEW s \in Orders
    PROVE  /\ s \in Seq(Media) /\ Len(s) \in Nat
           /\ \A i \in 1..Len(s) : s[i] \in Media /\ s[i] \in Items(s)
           /\ \A m \in Items(s) : m \in Media /\ \E i \in 1..Len(s) : s[i] = m
           /\ \A i, j \in 1..Len(s) : s[i] = s[j] => i = j
BY OrderItems DEF Items

LEMMA WithOrder ==
    ASSUME NEW s \in Orders, NEW m \in Media \ Items(s), NEW k \in 0..Len(s)
    PROVE  /\ With(s, k, m) \in Orders
           /\ Len(With(s, k, m)) = Len(s) + 1
           /\ With(s, k, m)[k + 1] = m
           /\ Items(With(s, k, m)) = Items(s) \cup {m}
           /\ Rest(With(s, k, m), m) = s
<1> DEFINE t == With(s, k, m)
           n == Len(s)
<1>1. /\ s \in Seq(Media) /\ n \in Nat /\ k \in Nat /\ k <= n
      /\ \A i \in 1..n : s[i] \in Media /\ s[i] \in Items(s) /\ s[i] # m
      /\ \A x \in Items(s) : x \in Media /\ \E i \in 1..n : s[i] = x
      /\ \A i, j \in 1..n : s[i] = s[j] => i = j
  BY OrderFacts
<1>2. /\ DOMAIN t = 1..(n + 1)
      /\ \A i \in 1..k : t[i] = s[i]
      /\ t[k + 1] = m
      /\ \A i \in (k + 2)..(n + 1) : t[i] = s[i - 1]
  BY <1>1 DEF With
<1>3. \A i \in 1..(n + 1) :
        \/ i \in 1..k /\ i \in 1..n
        \/ i = k + 1
        \/ i \in (k + 2)..(n + 1) /\ i - 1 \in 1..n
  BY <1>1
<1> HIDE DEF t, n
<1>4. \A i \in 1..(n + 1) : t[i] \in Media
  BY <1>1, <1>2, <1>3
<1>5. t \in Seq(Media) /\ Len(t) = n + 1
  <2>1. t = [i \in 1..(n + 1) |-> t[i]]
    BY <1>2 DEF t, With, n
  <2>2. t \in [1..(n + 1) -> Media] /\ n + 1 \in Nat
    BY <1>1, <1>4, <2>1
  <2> QED BY <2>2
<1>6. \A i, j \in 1..(n + 1) : t[i] = t[j] => i = j
  <2> DEFINE from(i) == IF i <= k THEN i ELSE i - 1
  <2>1. ASSUME NEW i \in 1..(n + 1), i # k + 1
        PROVE  from(i) \in 1..n /\ t[i] = s[from(i)] /\ t[i] # m
    BY <1>1, <1>2, <1>3, <2>1
  <2> SUFFICES ASSUME NEW i \in 1..(n + 1), NEW j \in 1..(n + 1), t[i] = t[j] PROVE i = j
    OBVIOUS
  <2>2. CASE i # k + 1 /\ j # k + 1
    <3>1. from(i) = from(j)
      <4> HIDE DEF from
      <4> QED BY <1>1, <2>1, <2>2
    <3> QED BY <1>1, <2>2, <3>1
  <2>3. CASE i = k + 1 \/ j = k + 1
    <3> HIDE DEF from
    <3> QED BY <1>2, <2>1, <2>3
  <2> QED BY <2>2, <2>3
<1>7. t \in Orders
  BY <1>5, <1>6, OrderSize
<1>8. Items(t) = Items(s) \cup {m}
  <2>1. ASSUME NEW x \in Items(t) PROVE x \in Items(s) \cup {m}
    <3>1. PICK i \in 1..(n + 1) : t[i] = x
      BY <1>2, <2>1 DEF Items
    <3> QED BY <1>1, <1>2, <1>3, <3>1
  <2>2. k + 1 \in 1..(n + 1)
    BY <1>1
  <2>3. m \in Items(t)
    BY <1>2, <2>2 DEF Items
  <2>4. ASSUME NEW x \in Items(s) PROVE x \in Items(t)
    <3>1. PICK i \in 1..n : s[i] = x
      BY <1>1
    <3>2. CASE i <= k
      <4>1. i \in 1..k /\ i \in 1..(n + 1)
        BY <1>1, <3>2
      <4> QED BY <1>2, <3>1, <4>1 DEF Items
    <3>3. CASE i > k
      <4>1. i + 1 \in (k + 2)..(n + 1) /\ i + 1 \in 1..(n + 1) /\ (i + 1) - 1 = i
        BY <1>1, <3>3
      <4> QED BY <1>2, <3>1, <4>1 DEF Items
    <3> QED BY <1>1, <3>2, <3>3
  <2> QED BY <2>1, <2>3, <2>4
<1>9. Rest(t, m) = s
  <2> DEFINE p == CHOOSE p \in DOMAIN t : t[p] = m
  <2>1. p = k + 1
    <3>1. k + 1 \in DOMAIN t
      BY <1>1, <1>2
    <3>2. p \in DOMAIN t /\ t[p] = m
      BY <1>2, <3>1
    <3> HIDE DEF p
    <3> QED BY <1>2, <1>6, <3>1, <3>2
  <2>2. Rest(t, m) = [i \in 1..(Len(t) - 1) |-> IF i < p THEN t[i] ELSE t[i + 1]]
    BY <1>8 DEF Rest
  <2> HIDE DEF p
  <2>3. Rest(t, m) = [i \in 1..n |-> IF i < k + 1 THEN t[i] ELSE t[i + 1]]
    BY <1>1, <1>5, <2>1, <2>2
  <2>4. \A i \in 1..n : (IF i < k + 1 THEN t[i] ELSE t[i + 1]) = s[i]
    <3> TAKE i \in 1..n
    <3>1. CASE i < k + 1
      <4>1. i \in 1..k
        BY <1>1, <3>1
      <4> QED BY <1>2, <3>1, <4>1
    <3>2. CASE ~(i < k + 1)
      <4>1. i + 1 \in (k + 2)..(n + 1) /\ (i + 1) - 1 = i
        BY <1>1, <3>2
      <4> QED BY <1>2, <3>2, <4>1
    <3> QED BY <3>1, <3>2
  <2>5. s = [i \in 1..n |-> s[i]]
    BY <1>1 DEF n
  <2> QED BY <2>3, <2>4, <2>5
<1> QED BY <1>2, <1>5, <1>7, <1>8, <1>9 DEF t, n

LEMMA WithoutOrder ==
    ASSUME NEW s \in Orders, NEW k \in 1..Len(s)
    PROVE  /\ Without(s, k) \in Orders
           /\ Len(Without(s, k)) = Len(s) - 1
           /\ Items(Without(s, k)) = Items(s) \ {s[k]}
           /\ Rest(s, s[k]) = Without(s, k) /\ Rest(Without(s, k), s[k]) = Without(s, k)
<1> DEFINE t == Without(s, k)
           n == Len(s)
           m == s[k]
<1>1. /\ s \in Seq(Media) /\ n \in Nat /\ k \in Nat /\ 1 <= k /\ k <= n
      /\ \A i \in 1..n : s[i] \in Media /\ s[i] \in Items(s)
      /\ \A x \in Items(s) : x \in Media /\ \E i \in 1..n : s[i] = x
      /\ \A i, j \in 1..n : s[i] = s[j] => i = j
  BY OrderFacts
<1>2. /\ DOMAIN t = 1..(n - 1)
      /\ \A i \in 1..(k - 1) : t[i] = s[i]
      /\ \A i \in k..(n - 1) : t[i] = s[i + 1]
  BY <1>1 DEF Without
<1>3. \A i \in 1..(n - 1) :
        \/ i \in 1..(k - 1) /\ i \in 1..n
        \/ i \in k..(n - 1) /\ i + 1 \in 1..n
  BY <1>1
<1>4. t = [i \in 1..(n - 1) |-> t[i]]
  BY <1>2 DEF Without
<1> HIDE DEF t, n, m
<1>5. \A i \in 1..(n - 1) : t[i] \in Media
  BY <1>1, <1>2, <1>3
<1>6. t \in Seq(Media) /\ Len(t) = n - 1
  <2>1. t \in [1..(n - 1) -> Media] /\ n - 1 \in Nat
    BY <1>1, <1>4, <1>5
  <2> QED BY <2>1
<1>7. \A i, j \in 1..(n - 1) : t[i] = t[j] => i = j
  <2> TAKE i, j \in 1..(n - 1)
  <2> QED BY <1>1, <1>2, <1>3
<1>8. t \in Orders
  BY <1>6, <1>7, OrderSize
<1>9. Items(t) = Items(s) \ {m}
  <2>1. ASSUME NEW x \in Items(t) PROVE x \in Items(s) \ {m}
    <3>1. PICK i \in 1..(n - 1) : t[i] = x
      BY <1>2, <2>1 DEF Items
    <3>2. PICK j \in 1..n : s[j] = x /\ j # k
      BY <1>1, <1>2, <1>3, <3>1
    <3>3. k \in 1..n
      BY <1>1
    <3> QED BY <1>1, <3>2, <3>3 DEF m
  <2>2. ASSUME NEW x \in Items(s), x # m PROVE x \in Items(t)
    <3>1. PICK i \in 1..n : s[i] = x
      BY <1>1
    <3>2. i # k
      BY <2>2, <3>1 DEF m
    <3>3. CASE i < k
      <4>1. i \in 1..(k - 1) /\ i \in 1..(n - 1)
        BY <1>1, <3>3
      <4> QED BY <1>2, <3>1, <4>1 DEF Items
    <3>4. CASE i > k
      <4>1. i - 1 \in k..(n - 1) /\ i - 1 \in 1..(n - 1) /\ (i - 1) + 1 = i
        BY <1>1, <3>4
      <4> QED BY <1>2, <3>1, <4>1 DEF Items
    <3> QED BY <1>1, <3>2, <3>3, <3>4
  <2> QED BY <2>1, <2>2
<1>10. Rest(t, m) = t
  BY <1>9 DEF Rest
<1>11. Rest(s, m) = t
  <2> DEFINE p == CHOOSE p \in DOMAIN s : s[p] = m
  <2>1. p = k
    <3>1. k \in DOMAIN s /\ DOMAIN s = 1..n
      BY <1>1 DEF n
    <3>2. p \in DOMAIN s /\ s[p] = m
      BY <3>1 DEF m
    <3> HIDE DEF p
    <3> QED BY <1>1, <3>1, <3>2 DEF m
  <2>2. m \in Items(s)
    BY <1>1 DEF m, n
  <2>3. Rest(s, m) = [i \in 1..(Len(s) - 1) |-> IF i < p THEN s[i] ELSE s[i + 1]]
    BY <2>2 DEF Rest
  <2> HIDE DEF p
  <2> QED BY <2>1, <2>3 DEF t, Without
<1> QED BY <1>6, <1>8, <1>9, <1>10, <1>11 DEF t, n, m

\* Taking a row out of a chain leaves the chain without it.
LEMMA PulledOrder ==
    ASSUME NEW s \in Orders, NEW k \in 1..Len(s)
    PROVE  Pulled(Chained(s), s[k]) = Chained(Without(s, k))
<1> DEFINE a == Chained(s)
           t == Without(s, k)
           b == Pulled(a, s[k])
           n == Len(s)
<1>1. /\ n \in Nat /\ k \in Nat /\ 1 <= k /\ k <= n
      /\ \A i \in 1..n : s[i] \in Media /\ s[i] \in Items(s)
      /\ \A x \in Items(s) : x \in Media /\ \E i \in 1..n : s[i] = x
      /\ \A i, j \in 1..n : s[i] = s[j] => i = j
  BY OrderFacts
<1>2. /\ \A i \in 1..n : a[s[i]] = IF i = 1 THEN Null ELSE s[i - 1]
      /\ \A x \in Media \ Items(s) : a[x] = Absent
      /\ Rows(a) = Items(s)
  BY ChainedAt
<1>3. t \in Orders /\ Len(t) = n - 1 /\ Items(t) = Items(s) \ {s[k]}
  BY WithoutOrder
<1>4. \A i \in 1..(n - 1) : t[i] = IF i < k THEN s[i] ELSE s[i + 1]
  BY DEF Without
<1>5. \A x \in Media : b[x] = IF x = s[k] THEN Absent ELSE IF a[x] = s[k] THEN a[s[k]] ELSE a[x]
  BY DEF Pulled
<1>6. s[k] \in Rows(a) /\ s[k] \in Media /\ Null # s[k] /\ Absent # s[k]
  BY <1>1, <1>2, LineupAssumption
<1>7. b \in Anchors
  BY <1>6, ChainedTyped, PulledRows
<1> HIDE DEF a, t, b, n
<1>8. \A x \in Media \ Items(t) : b[x] = Absent
  BY <1>2, <1>3, <1>5, <1>6
<1>9. ASSUME NEW i \in 1..(n - 1) PROVE b[t[i]] = IF i = 1 THEN Null ELSE t[i - 1]
  <2>1. CASE i < k
    <3>1. i \in 1..n /\ i # k /\ (i # 1 => i - 1 \in 1..n /\ i - 1 # k /\ i - 1 \in 1..(n - 1) /\ i - 1 < k)
      BY <1>1, <2>1
    <3>2. t[i] = s[i] /\ s[i] \in Media /\ s[i] # s[k]
      BY <1>1, <1>4, <2>1, <3>1
    <3>3. a[s[i]] # s[k]
      BY <1>1, <1>2, <1>6, <3>1
    <3>4. b[t[i]] = a[s[i]]
      BY <1>5, <3>2, <3>3
    <3> QED BY <1>2, <1>4, <3>1, <3>4
  <2>2. CASE i >= k
    <3>1. i + 1 \in 1..n /\ i + 1 # k /\ i + 1 # 1 /\ (i + 1) - 1 = i /\ i \in 1..n
      BY <1>1, <2>2
    <3>2. t[i] = s[i + 1] /\ s[i + 1] \in Media /\ s[i + 1] # s[k] /\ a[s[i + 1]] = s[i]
      BY <1>1, <1>2, <1>4, <2>2, <3>1
    <3>3. CASE i = k
      <4>1. b[t[i]] = a[s[k]]
        BY <1>5, <3>2, <3>3
      <4>2. i # 1 => i - 1 \in 1..(n - 1) /\ i - 1 < k
        BY <1>1, <3>3
      <4> QED BY <1>2, <1>4, <3>1, <3>3, <4>1, <4>2
    <3>4. CASE i # k
      <4>1. i # 1 /\ i - 1 \in 1..(n - 1) /\ ~(i - 1 < k) /\ (i - 1) + 1 = i
        BY <1>1, <2>2, <3>4
      <4>2. s[i] # s[k]
        BY <1>1, <3>1, <3>4
      <4>3. b[t[i]] = s[i]
        BY <1>5, <3>2, <4>2
      <4> QED BY <1>4, <4>1, <4>3
    <3> QED BY <3>3, <3>4
  <2> QED BY <1>1, <2>1, <2>2
<1>10. b = Chained(t)
  BY <1>3, <1>7, <1>8, <1>9, ChainedIs
<1> QED BY <1>10 DEF a, b, t

\* Placing a row at the front, or after one that is in the chain, puts it there.
LEMMA PlacedOrder ==
    ASSUME NEW s \in Orders, NEW m \in Media \ Items(s), NEW k \in 0..Len(s)
    PROVE  Placed(Chained(s), IF k = 0 THEN Null ELSE s[k], m) = Chained(With(s, k, m))
<1> DEFINE a == Chained(s)
           t == With(s, k, m)
           after == IF k = 0 THEN Null ELSE s[k]
           b == Placed(a, after, m)
           n == Len(s)
<1>1. /\ n \in Nat /\ k \in Nat /\ k <= n
      /\ \A i \in 1..n : s[i] \in Media /\ s[i] \in Items(s) /\ s[i] # m
      /\ \A x \in Items(s) : x \in Media /\ \E i \in 1..n : s[i] = x
      /\ \A i, j \in 1..n : s[i] = s[j] => i = j
  BY OrderFacts
<1>2. /\ \A i \in 1..n : a[s[i]] = IF i = 1 THEN Null ELSE s[i - 1]
      /\ \A x \in Media \ Items(s) : a[x] = Absent
      /\ Rows(a) = Items(s)
  BY ChainedAt
<1>3. t \in Orders /\ Len(t) = n + 1 /\ Items(t) = Items(s) \cup {m} /\ t[k + 1] = m
  BY WithOrder
<1>4. \A i \in 1..(n + 1) : t[i] = IF i <= k THEN s[i] ELSE IF i = k + 1 THEN m ELSE s[i - 1]
  BY DEF With
<1>5. after \in Rows(a) \cup {Null} /\ after # Absent /\ (k # 0 => k \in 1..n)
  BY <1>1, <1>2, LineupAssumption
<1>6. \A x \in Media : b[x] = IF x = m THEN after ELSE IF a[x] = after THEN m ELSE a[x]
  BY DEF Placed, Opened
<1>7. b \in Anchors
  BY <1>5, ChainedTyped, PlacedRows
<1>7a. after = IF k = 0 THEN Null ELSE s[k]
  OBVIOUS
<1>7b. \A i \in 1..n : s[i] # Null
  BY <1>1, LineupAssumption
<1> HIDE DEF a, t, b, n, after
<1>8. \A x \in Media \ Items(t) : b[x] = Absent
  BY <1>2, <1>3, <1>5, <1>6
<1>9. ASSUME NEW i \in 1..(n + 1) PROVE b[t[i]] = IF i = 1 THEN Null ELSE t[i - 1]
  <2>1. CASE i <= k
    <3>1. i \in 1..n /\ (i # 1 => i - 1 \in 1..n /\ i - 1 # k /\ i - 1 \in 1..(n + 1) /\ i - 1 <= k /\ k \in 1..n /\ k # 0) /\ k # 0
      BY <1>1, <2>1
    <3>2. t[i] = s[i] /\ s[i] \in Media /\ s[i] # m
      BY <1>1, <1>4, <2>1, <3>1
    <3>3. a[s[i]] # after
      BY <1>1, <1>2, <1>5, <1>7a, <1>7b, <3>1
    <3>4. b[t[i]] = a[s[i]]
      BY <1>6, <3>2, <3>3
    <3> QED BY <1>2, <1>4, <3>1, <3>4
  <2>2. CASE i = k + 1
    <3>1. t[i] = m /\ b[m] = after
      BY <1>3, <1>6, <2>2
    <3>2. k # 0 => i # 1 /\ i - 1 = k /\ k \in 1..(n + 1)
      BY <1>1, <2>2
    <3>3. k # 0 => t[k] = s[k]
      BY <1>1, <1>4, <3>2
    <3> QED BY <1>7a, <2>2, <3>1, <3>2, <3>3
  <2>3. CASE i > k + 1
    <3>1. i - 1 \in 1..n /\ ~(i <= k) /\ i # k + 1 /\ i # 1 /\ i - 1 \in 1..(n + 1) /\ ~(i - 1 <= k)
      BY <1>1, <2>3
    <3>2. t[i] = s[i - 1] /\ s[i - 1] \in Media /\ s[i - 1] # m
      BY <1>1, <1>4, <3>1
    <3>3. CASE i = k + 2
      <4>1. i - 1 = k + 1 /\ (i - 1) - 1 = k /\ (k = 0 => i - 1 = 1) /\ (k # 0 => i - 1 # 1)
        BY <1>1, <3>3
      <4>2. a[s[i - 1]] = after
        BY <1>2, <1>7a, <3>1, <4>1
      <4>3. b[t[i]] = m
        BY <1>6, <3>2, <4>2
      <4> QED BY <1>3, <3>1, <4>1, <4>3
    <3>4. CASE i # k + 2
      <4>1. i - 1 # k + 1 /\ (i - 1) - 1 \in 1..n /\ (i - 1) - 1 # k /\ i - 1 # 1
        BY <1>1, <2>3, <3>4
      <4>2. a[s[i - 1]] = s[(i - 1) - 1]
        BY <1>2, <3>1, <4>1
      <4>3. s[(i - 1) - 1] # after
        BY <1>1, <1>5, <1>7a, <1>7b, <4>1
      <4>4. b[t[i]] = s[(i - 1) - 1]
        BY <1>6, <3>2, <4>2, <4>3
      <4>5. t[i - 1] = s[(i - 1) - 1]
        BY <1>4, <3>1, <4>1
      <4> QED BY <3>1, <4>4, <4>5
    <3> QED BY <3>3, <3>4
  <2> QED BY <1>1, <2>1, <2>2, <2>3
<1>10. b = Chained(t)
  BY <1>3, <1>7, <1>8, <1>9, ChainedIs
<1> QED BY <1>10 DEF a, b, t, after

LEMMA PlacedKeeps ==
    ASSUME NEW a \in Anchors, ~Refused(a), NEW m \in Media, a[m] = Absent,
           NEW after \in Rows(a) \cup {Null}
    PROVE  /\ ~Refused(Placed(a, after, m))
           /\ Rest(Walk(a), m) = Rest(Walk(Placed(a, after, m)), m)
<1> DEFINE s == Walk(a)
<1>1. s \in Orders /\ a = Chained(s) /\ Items(s) = Rows(a)
  BY AcceptedOrder
<1>2. m \notin Items(s)
  BY <1>1 DEF Rows
<1> HIDE DEF s
<1>3. PICK k \in 0..Len(s) : after = IF k = 0 THEN Null ELSE s[k]
  <2>1. CASE after = Null
    <3>1. 0 \in 0..Len(s)
      BY <1>1, OrderFacts
    <3> QED BY <2>1, <3>1
  <2>2. CASE after \in Rows(a)
    <3>1. PICK k \in 1..Len(s) : s[k] = after
      BY <1>1, <2>2, OrderFacts
    <3>2. k \in 0..Len(s) /\ k # 0
      BY <1>1, OrderFacts
    <3> QED BY <3>1, <3>2
  <2> QED BY <2>1, <2>2
<1>4. Placed(a, after, m) = Chained(With(s, k, m))
  BY <1>1, <1>2, <1>3, PlacedOrder
<1>5. With(s, k, m) \in Orders /\ Rest(With(s, k, m), m) = s
  BY <1>1, <1>2, WithOrder
<1>6. Rest(s, m) = s
  BY <1>2 DEF Rest
<1>7. Walk(Chained(With(s, k, m))) = With(s, k, m) /\ ~Refused(Chained(With(s, k, m)))
  BY <1>5, WalkOfChained
<1> QED BY <1>4, <1>5, <1>6, <1>7 DEF s

LEMMA PulledKeeps ==
    ASSUME NEW a \in Anchors, ~Refused(a), NEW m \in Rows(a)
    PROVE  /\ ~Refused(Pulled(a, m))
           /\ Rest(Walk(a), m) = Rest(Walk(Pulled(a, m)), m)
<1> DEFINE s == Walk(a)
<1>1. s \in Orders /\ a = Chained(s) /\ Items(s) = Rows(a)
  BY AcceptedOrder
<1> HIDE DEF s
<1>2. PICK k \in 1..Len(s) : s[k] = m
  BY <1>1, OrderFacts
<1>3. Pulled(a, m) = Chained(Without(s, k))
  BY <1>1, <1>2, PulledOrder
<1>4. /\ Without(s, k) \in Orders
      /\ Rest(s, m) = Without(s, k) /\ Rest(Without(s, k), m) = Without(s, k)
  BY <1>1, <1>2, WithoutOrder
<1>5. Walk(Chained(Without(s, k))) = Without(s, k) /\ ~Refused(Chained(Without(s, k)))
  BY <1>4, WalkOfChained
<1> QED BY <1>3, <1>4, <1>5 DEF s

\* Appending is placing after a row that nobody follows.
LEMMA AppendedIsPlaced ==
    ASSUME NEW a \in Anchors, NEW m \in Media, a[m] = Absent,
           NEW after \in IF Tails(a) = {} THEN {Null} ELSE Tails(a), ~Refused(a)
    PROVE  /\ after \in Rows(a) \cup {Null}
           /\ [a EXCEPT ![m] = after] = Placed(a, after, m)
<1> DEFINE s == Walk(a)
<1>1. s \in Orders /\ a = Chained(s) /\ Items(s) = Rows(a)
  BY AcceptedOrder
<1>2. after \in Tails(a) \cup {Null} /\ after \in Rows(a) \cup {Null}
  BY DEF Tails
<1>3. ASSUME NEW n \in Media PROVE a[n] # after
  <2>1. CASE Tails(a) # {}
    <3>1. after \in Rows(a) /\ Successors(a, after) = {}
      BY <2>1 DEF Tails
    <3> QED BY <3>1 DEF Successors
  <2>2. CASE Tails(a) = {}
    <3> SUFFICES ASSUME s # <<>> PROVE FALSE
      <4> SUFFICES ASSUME s = <<>> PROVE a[n] # after
        OBVIOUS
      <4>1. Heads(a) = {}
        BY <1>1, ChainedAt
      <4> QED BY <2>2, <4>1 DEF Heads
    <3> HIDE DEF s
    <3>1. Len(s) \in 1..Len(s) /\ Len(s) \in Nat
      BY <1>1, OrderFacts
    <3>2. \A i \in 1..Len(s) : a[s[i]] = IF i = 1 THEN Null ELSE s[i - 1]
      BY <1>1, ChainedAt
    <3>3. s[Len(s)] \in Rows(a)
      BY <1>1, <3>1, OrderFacts
    <3>4. PICK x \in Media : a[x] = s[Len(s)]
      BY <2>2, <3>3 DEF Tails, Successors
    <3>5. s[Len(s)] \in Media
      BY <1>1, <3>1, OrderFacts
    <3>6. x \in Items(s)
      BY <1>1, <3>4, <3>5, LineupAssumption DEF Rows
    <3>7. PICK i \in 1..Len(s) : s[i] = x
      BY <1>1, <3>6, OrderFacts
    <3>8. i # 1
      BY <3>2, <3>4, <3>5, <3>7, LineupAssumption
    <3>9. i - 1 \in 1..Len(s) /\ i - 1 # Len(s)
      BY <3>1, <3>8
    <3>10. s[i - 1] = s[Len(s)]
      BY <3>2, <3>4, <3>7, <3>8
    <3> QED BY <1>1, <3>1, <3>9, <3>10, OrderFacts
  <2> QED BY <2>1, <2>2
<1>4. \A n \in Media : Placed(a, after, m)[n] = [a EXCEPT ![m] = after][n]
  BY <1>3 DEF Placed, Opened, Anchors
<1>5. Placed(a, after, m) \in Anchors
  BY <1>2, PlacedRows
<1>6. [a EXCEPT ![m] = after] \in Anchors
  BY <1>2 DEF Anchors, Rows
<1> QED BY <1>2, <1>4, <1>5, <1>6 DEF Anchors

-----------------------------------------------------------------------------
(* Steps, seen from one channel's chain.                                   *)

\* One row moves, comes or goes, and the chain stays one.
Edited(a, b) == ~Refused(b) /\ \E m \in Media : Rest(Walk(a), m) = Rest(Walk(b), m)

\* What a step that deletes no media does to an intact chain.
ChainStep(x) ==
    \/ anchor'[x] = anchor[x]
    \/ request' = request /\ Edited(anchor[x], anchor'[x])
    \/ channels' # channels /\ (x \in channels => anchor'[x] = Empty)
    \/ /\ request' # request
       /\ \E e \in Editors : /\ Pending(e, "replace") /\ request[e].channel = x
                             /\ request[e].order \in Orders
                             /\ anchor'[x] = Chained(request[e].order)

LEMMA EditChain ==
    ASSUME Inv, NEW x \in Channels, NEW c \in Channels, NEW b, Edit(c, b),
           c = x => Edited(anchor[x], b)
    PROVE  ChainStep(x)
BY DEF Edit, ChainStep, Inv, LineupTypeOK

LEMMA ChainSteps ==
    ASSUME Inv, Next, catalogue \subseteq catalogue', NEW x \in Channels, ~Refused(anchor[x])
    PROVE  ChainStep(x)
<1> DEFINE a == anchor[x]
<1>t. /\ \A c \in Channels : anchor[c] \in Anchors
      /\ \A c \in Channels, m \in Media : anchor[c][m] # Absent => c \in channels /\ m \in catalogue
      /\ anchor = [c \in Channels |-> anchor[c]]
      /\ catalogue \subseteq Media
  BY DEF Inv, LineupTypeOK, Anchors
<1>u. ASSUME UNCHANGED anchor PROVE ChainStep(x)
  BY <1>u DEF ChainStep
<1>1. ASSUME NEW c \in Channels, NEW m \in Media, AddChannelMedia(c, m) PROVE ChainStep(x)
  <2>1. PICK after \in IF Tails(anchor[c]) = {} THEN {Null} ELSE Tails(anchor[c]) :
          Edit(c, [anchor[c] EXCEPT ![m] = after])
    BY <1>1 DEF AddChannelMedia
  <2>2. anchor[c][m] = Absent
    BY <1>1 DEF AddChannelMedia
  <2> DEFINE b == [anchor[c] EXCEPT ![m] = after]
  <2>3. ASSUME c = x PROVE Edited(a, b)
    <3>1. after \in Rows(a) \cup {Null} /\ b = Placed(a, after, m)
      BY <1>t, <2>2, <2>3, AppendedIsPlaced
    <3>2. ~Refused(Placed(a, after, m)) /\ Rest(Walk(a), m) = Rest(Walk(Placed(a, after, m)), m)
      BY <1>t, <2>2, <2>3, <3>1, PlacedKeeps
    <3> QED BY <3>1, <3>2 DEF Edited
  <2> HIDE DEF b
  <2> QED BY <2>1, <2>3, EditChain DEF b
<1>2. ASSUME NEW c \in Channels, NEW m \in Media, RemoveChannelMedia(c, m) PROVE ChainStep(x)
  <2>1. m \in Rows(anchor[c]) /\ Edit(c, Pulled(anchor[c], m))
    BY <1>2 DEF RemoveChannelMedia
  <2>2. ASSUME c = x PROVE Edited(a, Pulled(anchor[c], m))
    BY <1>t, <2>1, <2>2, PulledKeeps DEF Edited
  <2> QED BY <2>1, <2>2, EditChain
<1>3. ASSUME NEW c \in Channels, NEW m \in Media, NEW after \in Media \cup {Null},
             AddChannelMediaAfter(c, m, after)
      PROVE  ChainStep(x)
  <2>1. /\ anchor[c][m] = Absent /\ after \in Rows(anchor[c]) \cup {Null}
        /\ Edit(c, Placed(anchor[c], after, m))
    BY <1>3 DEF AddChannelMediaAfter
  <2>2. ASSUME c = x PROVE Edited(a, Placed(anchor[c], after, m))
    BY <1>t, <2>1, <2>2, PlacedKeeps DEF Edited
  <2> QED BY <2>1, <2>2, EditChain
<1>4. ASSUME NEW c \in Channels, NEW m \in Media, NEW after \in Media \cup {Null},
             MoveChannelMediaAfter(c, m, after)
      PROVE  ChainStep(x)
  <2> DEFINE p == Pulled(anchor[c], m)
  <2>1. /\ m \in Rows(anchor[c]) /\ after \in (Rows(anchor[c]) \cup {Null}) \ {m}
        /\ Edit(c, Placed(p, after, m))
    BY <1>4 DEF MoveChannelMediaAfter
  <2>2. ASSUME c = x PROVE Edited(a, Placed(p, after, m))
    <3>1. ~Refused(p) /\ Rest(Walk(a), m) = Rest(Walk(p), m)
      BY <1>t, <2>1, <2>2, PulledKeeps
    <3>2. p \in Anchors /\ p[m] = Absent
      BY <1>t, <2>1, PulledRows
    <3>3. after \in Rows(p) \cup {Null}
      BY <1>t, <2>1, LineupAssumption DEF Pulled, Rows, Anchors
    <3> HIDE DEF p
    <3>4. ~Refused(Placed(p, after, m)) /\ Rest(Walk(p), m) = Rest(Walk(Placed(p, after, m)), m)
      BY <3>1, <3>2, <3>3, PlacedKeeps
    <3> QED BY <3>1, <3>4 DEF Edited
  <2> HIDE DEF p
  <2> QED BY <2>1, <2>2, EditChain
<1>5. ASSUME NEW c \in Channels, NEW d \in Channels, CloneChannel(c, d) PROVE ChainStep(x)
  BY <1>t, <1>5 DEF CloneChannel, ChainStep
<1>6. ASSUME NEW c \in Channels, DeleteChannel(c) PROVE ChainStep(x)
  BY <1>t, <1>6 DEF DeleteChannel, ChainStep
<1>7. ASSUME NEW e \in Editors, NEW c \in Channels, NEW s \in Orders,
             Reorder(e, c, s) \/ Create(e, c, s)
      PROVE  ChainStep(x)
  BY <1>7, <1>u DEF Reorder, Create, Begin
<1>8. ASSUME NEW e \in Editors, NEW m \in Media, DeleteMedia(e, m) PROVE ChainStep(x)
  BY <1>8, <1>u DEF DeleteMedia, Begin
<1>9. ASSUME NEW e \in Editors, InsertChannel(e) PROVE ChainStep(x)
  BY <1>9, <1>u DEF InsertChannel
<1>10. ASSUME NEW e \in Editors, Replace(e) PROVE ChainStep(x)
  <2> DEFINE k == request[e].channel
             s == request[e].order
  <2>1. k \in Channels /\ s \in Orders
    BY <1>10, RequestTyped DEF Replace, Inv
  <2>2. request' # request
    BY <1>10 DEF Replace, Pending, Finish, Inv, LineupTypeOK
  <2>3. CASE UNCHANGED anchor
    BY <2>3, <1>u
  <2>4. CASE anchor' = [anchor EXCEPT ![k] = Chained(s)]
    <3>1. CASE k = x
      <4>1. anchor'[x] = Chained(s)
        BY <1>t, <2>4, <3>1
      <4> QED BY <1>10, <2>1, <2>2, <3>1, <4>1 DEF ChainStep, Replace
    <3>2. CASE k # x
      BY <1>t, <2>4, <3>2 DEF ChainStep
    <3> QED BY <3>1, <3>2
  <2> QED BY <1>10, <2>3, <2>4 DEF Replace
<1>11. ASSUME NEW S \in SUBSET Media, DeleteRows(S) PROVE ChainStep(x)
  <2>1. \A m \in S : a[m] = Absent
    BY <1>t, <1>11 DEF DeleteRows
  <2>2. \A m \in Media : anchor'[x][m] = a[m]
    BY <1>11, <2>1 DEF DeleteRows
  <2>3. anchor'[x] = a
    BY <1>t, <1>11, <2>2 DEF DeleteRows, Anchors
  <2> QED BY <2>3 DEF ChainStep
<1>12. ASSUME NEW e \in Editors, DeleteMediaMetadata(e) PROVE ChainStep(x)
  <2>1. request[e].media \in Media
    BY <1>12, RequestTyped DEF DeleteMediaMetadata, Inv
  <2> QED BY <1>11, <1>12, <1>u, <2>1 DEF DeleteMediaMetadata
<1>13. ASSUME NEW m \in Media, Ingest(m) PROVE ChainStep(x)
  BY <1>13, <1>u DEF Ingest
<1>14. ASSUME NEW S \in SUBSET Media, DeleteMediaByIDs(S) PROVE ChainStep(x)
  BY <1>11, <1>14 DEF DeleteMediaByIDs
<1>15. ASSUME Restart PROVE ChainStep(x)
  BY <1>15, <1>u DEF Restart
<1> QED BY <1>1, <1>2, <1>3, <1>4, <1>5, <1>6, <1>7, <1>8, <1>9, <1>10, <1>12, <1>13, <1>14,
           <1>15 DEF Next

LEMMA EmptyAccepted == ~Refused(Empty)
<1>1. Rows(Empty) = {} /\ Heads(Empty) = {}
  BY LineupAssumption DEF Rows, Heads, Empty
<1>2. Walk(Empty) = <<>>
  BY <1>1 DEF Walk
<1> QED BY <1>1, <1>2, FS_EmptySet DEF Refused

(* No edit of a lineup breaks one the reader accepts: appending, removing,  *)
(* moving, replacing and cloning leave a chain that is walked to its end.   *)
THEOREM ChainsKept == Spec => EditsKeepChain
<1>1. ASSUME Inv, [Next]_vars, NEW x \in channels,
             catalogue \subseteq catalogue' /\ ~Refused(anchor[x])
      PROVE  ~Refused(anchor'[x])
  <2>1. x \in Channels
    BY <1>1 DEF Inv, LineupTypeOK
  <2>2. CASE UNCHANGED vars
    BY <1>1, <2>2 DEF vars
  <2>3. CASE Next
    <3>1. ChainStep(x)
      BY <1>1, <2>1, <2>3, ChainSteps
    <3> QED BY <1>1, <3>1, EmptyAccepted, WalkOfChained DEF ChainStep, Edited
  <2> QED BY <1>1, <2>2, <2>3
<1>2. Inv /\ [Next]_vars =>
        [\A c \in channels :
           catalogue \subseteq catalogue' /\ ~Refused(anchor[c]) => ~Refused(anchor'[c])]_vars
  BY <1>1
<1> QED BY <1>2, InvHolds, PTL DEF Spec, EditsKeepChain

\* A step that leaves channels and requests alone changes something of some media.
LEMMA SomeMedia ==
    ASSUME Inv, Inv', vars' # vars, channels' = channels, request' = request
    PROVE  Media # {}
<1> SUFFICES ASSUME Media = {} PROVE FALSE
  OBVIOUS
<1>1. catalogue' = catalogue
  BY DEF Inv, LineupTypeOK
<1>2. anchor' = anchor
  <2>1. anchor \in [Channels -> Anchors] /\ anchor' \in [Channels -> Anchors]
    BY DEF Inv, LineupTypeOK, Anchors
  <2>2. \A f, g \in Anchors : f = g
    BY DEF Anchors
  <2> QED BY <2>1, <2>2
<1> QED BY <1>1, <1>2 DEF vars

(* What an edit does to the order that is played is what was asked: one     *)
(* media enters, leaves or changes its place, and the others keep theirs.   *)
THEOREM OrdersAsAsked == Spec => OrderChangesAsAsked
<1> DEFINE Asked(c) ==
             LET old == Walk(anchor[c])
                 new == Walk(anchor'[c])
             IN  catalogue \subseteq catalogue' /\ channels = channels' /\ ~Refused(anchor[c])
                   => IF request = request'
                      THEN \E m \in Media : Rest(old, m) = Rest(new, m)
                      ELSE \/ new = old
                           \/ \E e \in Editors : /\ Pending(e, "replace") /\ request[e].channel = c
                                                 /\ new = request[e].order
<1>1. ASSUME Inv, Inv', Next, vars' # vars, NEW c \in Channels PROVE Asked(c)
  <2> SUFFICES ASSUME catalogue \subseteq catalogue', channels = channels', ~Refused(anchor[c])
               PROVE  IF request = request'
                      THEN \E m \in Media : Rest(Walk(anchor[c]), m) = Rest(Walk(anchor'[c]), m)
                      ELSE \/ Walk(anchor'[c]) = Walk(anchor[c])
                           \/ \E e \in Editors : /\ Pending(e, "replace") /\ request[e].channel = c
                                                 /\ Walk(anchor'[c]) = request[e].order
    OBVIOUS
  <2>1. ChainStep(c)
    BY <1>1, ChainSteps
  <2>2. request = request' => Media # {}
    BY <1>1, SomeMedia
  <2>3. CASE anchor'[c] = anchor[c]
    BY <2>2, <2>3
  <2>4. CASE request' = request /\ Edited(anchor[c], anchor'[c])
    BY <2>4 DEF Edited
  <2>5. CASE request' # request
             /\ \E e \in Editors : /\ Pending(e, "replace") /\ request[e].channel = c
                                   /\ request[e].order \in Orders
                                   /\ anchor'[c] = Chained(request[e].order)
    BY <2>5, WalkOfChained
  <2> QED BY <2>1, <2>3, <2>4, <2>5 DEF ChainStep
<1>2. Inv /\ Inv' /\ [Next]_vars => [\A c \in Channels : Asked(c)]_vars
  BY <1>1
<1>3. OrderChangesAsAsked <=> [][\A c \in Channels : Asked(c)]_vars
  BY DEF OrderChangesAsAsked
<1> HIDE DEF Asked
<1> QED BY <1>2, <1>3, InvHolds, PTL DEF Spec

=============================================================================
