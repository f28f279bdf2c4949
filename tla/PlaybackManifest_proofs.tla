------------------------ MODULE PlaybackManifest_proofs ------------------------
(***************************************************************************)
(* Theorems about PlaybackManifest and SubtitlePlaylists, for any          *)
(* schedule, packages, cuts, encodings and sidecars.                       *)
(***************************************************************************)
EXTENDS SubtitlePlaylists, FiniteSetTheorems, WellFoundedInduction, TLAPS

-----------------------------------------------------------------------------
(* Least and greatest elements, and induction up to a number.              *)

LEMMA LeastNat ==
    ASSUME NEW S, S \subseteq Nat, S # {}
    PROVE  \E x \in S : \A y \in S : x <= y
<1>1. PICK x \in S : \A y \in S : <<y, x>> \notin OpToRel(<, Nat)
  BY WFMin, NatLessThanWellFounded, Zenon
<1>2. \A y \in S : ~(y < x)
  BY <1>1, Zenon DEF OpToRel
<1>3. \A y \in S : x \in Int /\ y \in Int
  OBVIOUS
<1> QED
  BY <1>2, <1>3

LEMMA LeastIs ==
    ASSUME NEW S, S \subseteq Nat, S # {}
    PROVE  Least(S) \in S /\ \A y \in S : Least(S) <= y
BY LeastNat DEF Least

\* A finite set of integers has a greatest: else a smallest subset without one
\* would still lack one after an element has been taken out.
LEMMA MostIs ==
    ASSUME NEW S, S \subseteq Int, IsFiniteSet(S), S # {}
    PROVE  Most(S) \in S /\ \A y \in S : y <= Most(S)
<1> DEFINE Lacks(A) == A # {} /\ ~\E x \in A : \A y \in A : y <= x
           sizes == {n \in Nat : \E A \in SUBSET S : Lacks(A) /\ Cardinality(A) = n}
<1>1. SUFFICES ~Lacks(S)
  BY DEF Most
<1>2. SUFFICES ASSUME sizes # {} PROVE FALSE
  <2>1. Cardinality(S) \in Nat
    BY FS_CardinalityType
  <2> QED BY <2>1
<1>3. PICK n \in sizes : \A m \in sizes : n <= m
  <2>1. sizes \subseteq Nat
    OBVIOUS
  <2> HIDE DEF sizes
  <2> QED BY <1>2, <2>1, LeastNat
<1>4. PICK A \in SUBSET S : Lacks(A) /\ Cardinality(A) = n
  OBVIOUS
<1>5. PICK x \in A : TRUE
  BY <1>4
<1>6. /\ IsFiniteSet(A \ {x}) /\ Cardinality(A \ {x}) = n - 1 /\ n - 1 \in Nat
  <2>1. IsFiniteSet(A)
    BY FS_Subset
  <2>2. IsFiniteSet(A \ {x}) /\ Cardinality(A \ {x}) = Cardinality(A) - 1
    BY <2>1, <1>5, FS_RemoveElement
  <2>3. Cardinality(A \ {x}) \in Nat
    BY <2>2, FS_CardinalityType
  <2> QED BY <1>4, <2>2, <2>3
<1>7. ~Lacks(A \ {x})
  <2>1. n - 1 \in sizes => n <= n - 1
    BY <1>3
  <2>2. n - 1 \notin sizes
    BY <1>6, <2>1
  <2> QED BY <1>6, <2>2
<1>8. CASE A \ {x} = {}
  <2>1. A = {x} /\ x \in Int
    BY <1>5, <1>8
  <2> QED BY <1>4, <2>1
<1>9. CASE A \ {x} # {}
  <2>1. PICK z \in A \ {x} : \A y \in A \ {x} : y <= z
    BY <1>7, <1>9
  <2>2. x \in Int /\ z \in Int /\ \A y \in A : y \in Int
    OBVIOUS
  <2>3. CASE x <= z
    BY <1>4, <2>1, <2>2, <2>3
  <2>4. CASE z <= x
    <3>1. \A y \in A : y <= x
      BY <2>1, <2>2, <2>4
    <3> QED BY <1>4, <1>5, <3>1
  <2> QED BY <2>2, <2>3, <2>4
<1> QED BY <1>8, <1>9

LEMMA Climb ==
    ASSUME NEW n \in Nat, NEW T, 0 \in T, \A k \in 1..n : k - 1 \in T => k \in T
    PROVE  \A k \in 0..n : k \in T
<1> DEFINE S == {k \in 0..n : k \notin T}
<1> SUFFICES ASSUME S # {} PROVE FALSE
  OBVIOUS
<1>1. PICK x \in S : \A y \in S : x <= y
  <2>1. S \subseteq Nat
    OBVIOUS
  <2> HIDE DEF S
  <2> QED BY <2>1, LeastNat
<1>2. x \in 1..n /\ x - 1 \in 0..n
  OBVIOUS
<1>3. x - 1 \notin S
  BY <1>1, <1>2
<1> QED BY <1>2, <1>3

-----------------------------------------------------------------------------
(* The segments of a package, and those of an entry.                       *)

LEMMA CutsType ==
    ASSUME NEW m \in Media
    PROVE  /\ Cuts[m] \in Seq(Nat) /\ Len(Cuts[m]) \in Nat /\ Len(Cuts[m]) >= 2
           /\ DOMAIN Cuts[m] = 1..Len(Cuts[m]) /\ Cuts[m][1] = 0
           /\ \A j \in 1..Len(Cuts[m]) : Cuts[m][j] \in Nat
           /\ \A j, k \in 1..Len(Cuts[m]) : j < k => Cuts[m][j] < Cuts[m][k]
           /\ Total(m) = Cuts[m][Len(Cuts[m])]
<1>1. Cuts[m] \in Seq(Nat)
  BY PlaybackAssumption DEF PlaybackAssumption
<1>2. /\ Len(Cuts[m]) >= 2 /\ Cuts[m][1] = 0
      /\ \A j, k \in DOMAIN Cuts[m] : j < k => Cuts[m][j] < Cuts[m][k]
  BY PlaybackAssumption DEF PlaybackAssumption
<1>3. Len(Cuts[m]) \in Nat /\ DOMAIN Cuts[m] = 1..Len(Cuts[m])
      /\ \A j \in 1..Len(Cuts[m]) : Cuts[m][j] \in Nat
  BY <1>1
<1> QED BY <1>1, <1>2, <1>3 DEF Total, Last

LEMMA SegmentFacts ==
    ASSUME NEW m \in Media
    PROVE  /\ \A n \in Segments(m) : /\ n \in Nat /\ SegStart(m, n) \in Nat /\ SegEnd(m, n) \in Nat
                                     /\ SegStart(m, n) < SegEnd(m, n)
           /\ \A j, k \in Segments(m) : j < k => SegEnd(m, j) <= SegStart(m, k)
           /\ \A n \in Segments(m) : IF n + 1 \in Segments(m) THEN SegEnd(m, n) = SegStart(m, n + 1)
                                     ELSE SegEnd(m, n) = Total(m)
           /\ 0 \in Segments(m) /\ SegStart(m, 0) = 0
           /\ \A j, k \in Segments(m) : \A n \in Int : j <= n /\ n <= k => n \in Segments(m)
<1> DEFINE L == Len(Cuts[m])
<1>1. /\ L \in Nat /\ L >= 2 /\ Cuts[m][1] = 0 /\ Total(m) = Cuts[m][L]
      /\ \A j \in 1..L : Cuts[m][j] \in Nat
      /\ \A j, k \in 1..L : j < k => Cuts[m][j] < Cuts[m][k]
  BY CutsType
<1>2. Segments(m) = 0..(L - 2)
  BY DEF Segments
<1> HIDE DEF L
<1>3. ASSUME NEW n \in Segments(m)
      PROVE  /\ n \in Nat /\ n + 1 \in 1..L /\ n + 2 \in 1..L
             /\ SegStart(m, n) = Cuts[m][n + 1] /\ SegEnd(m, n) = Cuts[m][n + 2]
             /\ SegStart(m, n) \in Nat /\ SegEnd(m, n) \in Nat /\ SegStart(m, n) < SegEnd(m, n)
  <2>1. n \in Nat /\ n + 1 \in 1..L /\ n + 2 \in 1..L /\ n + 1 < n + 2
    BY <1>1, <1>2
  <2> QED BY <1>1, <2>1 DEF SegStart, SegEnd
<1>4. ASSUME NEW j \in Segments(m), NEW k \in Segments(m), j < k
      PROVE  SegEnd(m, j) <= SegStart(m, k)
  <2>1. j + 2 \in 1..L /\ k + 1 \in 1..L /\ j + 2 <= k + 1
    BY <1>3, <1>4
  <2>2. CASE j + 2 = k + 1
    BY <1>3, <2>2
  <2>3. CASE j + 2 < k + 1
    BY <1>1, <1>3, <2>1, <2>3
  <2> QED BY <2>1, <2>2, <2>3
<1>5. ASSUME NEW n \in Segments(m)
      PROVE  IF n + 1 \in Segments(m) THEN SegEnd(m, n) = SegStart(m, n + 1)
             ELSE SegEnd(m, n) = Total(m)
  <2>1. (n + 1) + 1 = n + 2
    BY <1>3
  <2>2. CASE n + 1 \in Segments(m)
    BY <1>3, <2>1, <2>2
  <2>3. CASE n + 1 \notin Segments(m)
    <3>1. n + 2 = L
      BY <1>1, <1>2, <2>3
    <3> QED BY <1>1, <1>3, <2>3, <3>1
  <2> QED BY <2>2, <2>3
<1>6. 0 \in Segments(m) /\ SegStart(m, 0) = 0
  BY <1>1, <1>2 DEF SegStart
<1>7. \A j, k \in Segments(m) : \A n \in Int : j <= n /\ n <= k => n \in Segments(m)
  BY <1>1, <1>2
<1> QED BY <1>3, <1>4, <1>5, <1>6, <1>7

Entry == [id : Nat, start : Nat, media : Media, offset : Nat, dur : Nat]
Fits(e) == e.dur > 0 /\ MediaEnd(e) <= Total(e.media)

LEMMA EntryFields ==
    ASSUME NEW e \in Entry
    PROVE  /\ e.id \in Nat /\ e.start \in Nat /\ e.media \in Media /\ e.offset \in Nat /\ e.dur \in Nat
           /\ MediaEnd(e) \in Nat /\ MediaEnd(e) = e.offset + e.dur
           /\ EndOf(e) \in Nat /\ EndOf(e) = e.start + e.dur
BY DEF Entry, MediaEnd, EndOf

LEMMA TotalNat == \A m \in Media : Total(m) \in Nat
BY CutsType

\* The first segment at a position.
LEMMA FromIs ==
    ASSUME NEW m \in Media, NEW pos \in Nat, pos < Total(m)
    PROVE  /\ From(m, pos) # {} /\ From(m, pos) \subseteq Segments(m)
           /\ Least(From(m, pos)) \in From(m, pos)
           /\ \A n \in From(m, pos) : Least(From(m, pos)) <= n
           /\ SegStart(m, Least(From(m, pos))) <= pos /\ pos < SegEnd(m, Least(From(m, pos)))
<1> DEFINE L == Len(Cuts[m])
           last == L - 2
<1>1. last \in Segments(m) /\ last + 1 \notin Segments(m)
  BY CutsType DEF Segments
<1> HIDE DEF last
<1>2. SegEnd(m, last) = Total(m)
  BY <1>1, SegmentFacts
<1>3. From(m, pos) # {}
  <2>1. SegEnd(m, last) > pos
    BY <1>2, TotalNat
  <2> QED BY <1>1, <2>1 DEF From
<1>4. From(m, pos) \subseteq Segments(m) /\ From(m, pos) \subseteq Nat
  BY SegmentFacts DEF From
<1> DEFINE f == Least(From(m, pos))
<1>5. f \in From(m, pos) /\ \A n \in From(m, pos) : f <= n
  BY <1>3, <1>4, LeastIs
<1> HIDE DEF f
<1>6. f \in Segments(m) /\ pos < SegEnd(m, f) /\ f \in Nat
  BY <1>4, <1>5 DEF From
<1>7. SegStart(m, f) <= pos
  <2>1. CASE f = 0
    BY <2>1, SegmentFacts
  <2>2. CASE f # 0
    <3>1. f - 1 \in Int /\ 0 <= f - 1 /\ f - 1 <= f /\ (f - 1) + 1 = f /\ ~(f <= f - 1)
      BY <1>6, <2>2
    <3>2. f - 1 \in Segments(m)
      BY <1>6, <3>1, SegmentFacts
    <3>3. SegEnd(m, f - 1) = SegStart(m, f)
      BY <1>6, <3>1, <3>2, SegmentFacts
    <3>4. f - 1 \notin From(m, pos)
      BY <1>5, <3>1
    <3>5. ~(SegEnd(m, f - 1) > pos)
      BY <3>2, <3>4 DEF From
    <3> QED BY <1>6, <3>2, <3>3, <3>5, SegmentFacts
  <2> QED BY <2>1, <2>2
<1> QED BY <1>3, <1>4, <1>5, <1>6, <1>7 DEF f

LEMMA InEntryFacts ==
    ASSUME NEW e \in Entry, Fits(e)
    PROVE  /\ InEntry(e) \subseteq Segments(e.media) /\ InEntry(e) # {}
           /\ IsFiniteSet(InEntry(e)) /\ Cardinality(InEntry(e)) \in Nat
           /\ Least(InEntry(e)) \in InEntry(e) /\ \A n \in InEntry(e) : Least(InEntry(e)) <= n
           /\ Most(InEntry(e)) \in InEntry(e) /\ \A n \in InEntry(e) : n <= Most(InEntry(e))
           /\ \A j, k \in InEntry(e) : \A n \in Int : j <= n /\ n <= k => n \in InEntry(e)
           /\ SegEnd(e.media, Most(InEntry(e))) >= MediaEnd(e)
<1> DEFINE m == e.media
           S == InEntry(e)
<1>1. /\ m \in Media /\ e.offset \in Nat /\ e.dur \in Nat /\ MediaEnd(e) \in Nat
      /\ MediaEnd(e) = e.offset + e.dur /\ e.dur > 0 /\ MediaEnd(e) <= Total(m) /\ Total(m) \in Nat
  BY EntryFields, TotalNat DEF Fits
<1>2. S \subseteq Segments(m)
  BY DEF InEntry
<1>3. S # {}
  <2>1. e.offset < Total(m)
    BY <1>1
  <2> DEFINE f == Least(From(m, e.offset))
  <2>2. f \in Segments(m) /\ SegStart(m, f) <= e.offset /\ e.offset < SegEnd(m, f)
    BY <1>1, <2>1, FromIs
  <2> HIDE DEF f
  <2>3. f \in S
    BY <1>1, <2>2, SegmentFacts DEF InEntry
  <2> QED BY <2>3
<1>4. Segments(m) = 0..(Len(Cuts[m]) - 2) /\ Len(Cuts[m]) - 2 \in Int
  BY <1>1, CutsType DEF Segments
<1>5. IsFiniteSet(S) /\ Cardinality(S) \in Nat
  <2>1. S \in SUBSET (0..(Len(Cuts[m]) - 2)) /\ IsFiniteSet(0..(Len(Cuts[m]) - 2))
    BY <1>2, <1>4, FS_Interval
  <2>2. IsFiniteSet(S)
    BY <2>1, FS_Subset
  <2> QED BY <2>2, FS_CardinalityType
<1>6. S \subseteq Nat
  BY <1>1, <1>2, SegmentFacts
<1>7. Least(S) \in S /\ \A n \in S : Least(S) <= n
  BY <1>3, <1>6, LeastIs
<1>8. Most(S) \in S /\ \A n \in S : n <= Most(S)
  BY <1>3, <1>5, <1>6, MostIs
<1>9. ASSUME NEW j \in S, NEW k \in S, NEW n \in Int, j <= n, n <= k PROVE n \in S
  <2>1. j \in Segments(m) /\ k \in Segments(m) /\ n \in Segments(m)
    BY <1>1, <1>2, <1>9, SegmentFacts
  <2>2. SegEnd(m, j) > e.offset /\ SegStart(m, k) < MediaEnd(e)
    BY DEF InEntry
  <2>3. SegEnd(m, j) <= SegEnd(m, n) /\ SegStart(m, n) <= SegStart(m, k)
    <3>1. j = n \/ j < n
      BY <1>6, <1>9
    <3>2. n = k \/ n < k
      BY <1>6, <1>9
    <3> QED BY <1>1, <2>1, <3>1, <3>2, SegmentFacts
  <2>4. SegEnd(m, n) > e.offset /\ SegStart(m, n) < MediaEnd(e)
    BY <1>1, <2>1, <2>2, <2>3, SegmentFacts
  <2> QED BY <2>1, <2>4 DEF InEntry
<1> DEFINE h == Most(S)
<1>10. SegEnd(m, h) >= MediaEnd(e)
  <2>1. h \in S /\ h \in Segments(m) /\ h \in Int /\ \A n \in S : n <= h
    BY <1>2, <1>6, <1>8
  <2> HIDE DEF S, h
  <2>2. CASE h + 1 \in Segments(m)
    <3>1. h + 1 \notin S
      BY <2>1
    <3>2. SegEnd(m, h) = SegStart(m, h + 1)
      BY <1>1, <2>1, <2>2, SegmentFacts
    <3>3. SegEnd(m, h) > e.offset /\ SegEnd(m, h + 1) > SegStart(m, h + 1)
          /\ SegEnd(m, h) \in Nat /\ SegEnd(m, h + 1) \in Nat
      BY <1>1, <2>1, <2>2, SegmentFacts DEF InEntry, S
    <3>4. SegEnd(m, h + 1) > e.offset
      BY <1>1, <3>2, <3>3
    <3>5. ~(SegStart(m, h + 1) < MediaEnd(e))
      BY <2>2, <3>1, <3>4 DEF InEntry, S
    <3> QED BY <1>1, <3>2, <3>3, <3>5
  <2>3. CASE h + 1 \notin Segments(m)
    BY <1>1, <2>1, <2>3, SegmentFacts
  <2> QED BY <2>2, <2>3
<1> HIDE DEF m
<1> QED BY <1>2, <1>3, <1>5, <1>7, <1>8, <1>9, <1>10 DEF m

\* Where an entry is entered, its first segment is one of its own.
LEMMA EnteredAt ==
    ASSUME NEW e \in Entry, Fits(e), NEW pos \in Nat, e.offset <= pos, pos < MediaEnd(e)
    PROVE  /\ Least(From(e.media, pos)) \in InEntry(e)
           /\ SegStart(e.media, Least(From(e.media, pos))) <= pos
           /\ pos < SegEnd(e.media, Least(From(e.media, pos)))
           /\ \A n \in From(e.media, pos) : Least(From(e.media, pos)) <= n
<1>1. e.media \in Media /\ pos < Total(e.media) /\ e.offset \in Nat /\ MediaEnd(e) \in Nat
  BY EntryFields, TotalNat DEF Fits
<1> DEFINE f == Least(From(e.media, pos))
<1>2. f \in From(e.media, pos) /\ f \in Segments(e.media)
      /\ SegStart(e.media, f) <= pos /\ pos < SegEnd(e.media, f)
      /\ \A n \in From(e.media, pos) : f <= n
  BY <1>1, FromIs
<1> HIDE DEF f
<1>3. SegEnd(e.media, f) > e.offset /\ SegStart(e.media, f) < MediaEnd(e)
  BY <1>1, <1>2, SegmentFacts
<1>4. f \in InEntry(e)
  BY <1>2, <1>3 DEF InEntry
<1> QED BY <1>2, <1>4 DEF f

-----------------------------------------------------------------------------
(* The loop over the entries, as the run of its passes.                    *)

Start == [list |-> <<>>, wall |-> now, go |-> TRUE]

LEMMA RanIs ==
    ASSUME NEW p, Cardinality(schedule) \in Nat
    PROVE  \E f : /\ f[0] = Start
                  /\ \A k \in 1..Cardinality(schedule) : f[k] = Pass(f[k - 1], p)
                  /\ Ran(p) = f[Cardinality(schedule)]
<1> DEFINE n == Cardinality(schedule)
           R(f, k) == /\ f = [j \in 0..k |-> f[j]] /\ f[0] = Start
                      /\ \A j \in 1..k : f[j] = Pass(f[j - 1], p)
           T == {k \in 0..n : \E f : R(f, k)}
<1>1. n \in Nat
  OBVIOUS
<1>2. 0 \in T
  <2>1. R([j \in 0..0 |-> Start], 0)
    OBVIOUS
  <2> HIDE DEF R
  <2> QED BY <1>1, <2>1
<1>3. ASSUME NEW k \in 1..n, k - 1 \in T PROVE k \in T
  <2>1. PICK f : R(f, k - 1)
    BY <1>3
  <2>2. k \in Nat /\ k - 1 \in 0..k - 1
    BY <1>1
  <2> DEFINE x == Pass(f[k - 1], p)
             g == [j \in 0..k |-> IF j = k THEN x ELSE f[j]]
  <2>3. R(g, k)
    <3> HIDE DEF x
    <3>1. \A j \in 0..k - 1 : g[j] = f[j]
      BY <2>2
    <3>2. g[k] = x
      BY <2>2
    <3>3. \A j \in 1..k : g[j] = Pass(g[j - 1], p)
      <4> TAKE j \in 1..k
      <4>1. j - 1 \in 0..k - 1 /\ g[j - 1] = f[j - 1]
        BY <2>2, <3>1
      <4> HIDE DEF g
      <4>2. CASE j = k
        BY <3>2, <4>1, <4>2 DEF x
      <4>3. CASE j # k
        <5>1. j \in 1..k - 1 /\ j \in 0..k - 1
          BY <2>2, <4>3
        <5> QED BY <2>1, <3>1, <4>1, <5>1
      <4> QED BY <4>2, <4>3
    <3>4. g[0] = Start
      <4>1. 0 \in 0..k - 1
        BY <2>2
      <4>2. g[0] = f[0]
        BY <3>1, <4>1
      <4> QED BY <2>1, <4>2
    <3>5. g = [j \in 0..k |-> g[j]]
      OBVIOUS
    <3> HIDE DEF g
    <3> QED BY <3>3, <3>4, <3>5
  <2> HIDE DEF g, R
  <2> QED BY <2>3
<1>4. n \in T
  <2> HIDE DEF T
  <2>1. \A k \in 1..n : k - 1 \in T => k \in T
    BY <1>3
  <2>2. \A k \in 0..n : k \in T
    <3> HIDE DEF n
    <3> QED BY <1>1, <1>2, <2>1, Climb
  <2> QED BY <1>1, <2>2
<1>5. PICK f : R(f, n)
  BY <1>4 DEF T
<1> DEFINE run == CHOOSE run : run = [k \in 0..n |-> IF k = 0 THEN Start ELSE Pass(run[k - 1], p)]
<1>6. f = [k \in 0..n |-> IF k = 0 THEN Start ELSE Pass(f[k - 1], p)]
  <2>1. \A k \in 0..n : f[k] = IF k = 0 THEN Start ELSE Pass(f[k - 1], p)
    <3> TAKE k \in 0..n
    <3>1. k # 0 => k \in 1..n
      BY <1>1
    <3> QED BY <1>5, <3>1
  <2> QED BY <1>5, <2>1
<1>7. run = [k \in 0..n |-> IF k = 0 THEN Start ELSE Pass(run[k - 1], p)]
  BY <1>6
<1>8. Ran(p) = run[n]
  BY Zenon DEF Ran, Start
<1> HIDE DEF run
<1>9. run[0] = Start /\ \A k \in 1..n : run[k] = Pass(run[k - 1], p)
  <2>1. 0 \in 0..n /\ \A k \in 1..n : k \in 0..n /\ k # 0
    BY <1>1
  <2> HIDE DEF n
  <2> QED BY <1>7, <2>1
<1> QED BY <1>8, <1>9

\* What every pass keeps, the loop keeps; what one pass reaches and the others
\* keep, it ends with once there is an entry.
LEMMA RanKeeps ==
    ASSUME NEW p, Cardinality(schedule) \in Nat, NEW T,
           \A s \in T : Pass(s, p) \in T,
           Start \in T \/ (Cardinality(schedule) >= 1 /\ Pass(Start, p) \in T)
    PROVE  Ran(p) \in T
<1> DEFINE n == Cardinality(schedule)
<1>1. PICK f : f[0] = Start /\ (\A k \in 1..n : f[k] = Pass(f[k - 1], p)) /\ Ran(p) = f[n]
  BY RanIs
<1>2. n \in Nat
  OBVIOUS
<1> HIDE DEF n
<1>3. CASE Start \in T
  <2> DEFINE G == {k \in 0..n : f[k] \in T}
  <2>1. 0 \in G
    BY <1>1, <1>2, <1>3
  <2>2. ASSUME NEW k \in 1..n, k - 1 \in G PROVE k \in G
    <3>1. k \in 0..n /\ f[k - 1] \in T
      BY <1>2, <2>2
    <3> QED BY <1>1, <3>1
  <2> HIDE DEF G
  <2>3. \A k \in 0..n : k \in G
    BY <1>2, <2>1, <2>2, Climb
  <2>4. n \in G
    BY <1>2, <2>3
  <2> QED BY <1>1, <2>4 DEF G
<1>4. CASE n >= 1 /\ Pass(Start, p) \in T
  <2> DEFINE G == {0} \cup {k \in 0..n : f[k] \in T}
  <2>1. 0 \in G
    OBVIOUS
  <2>2. ASSUME NEW k \in 1..n, k - 1 \in G PROVE k \in G
    <3>1. k \in 0..n
      BY <1>2
    <3>2. CASE k = 1
      BY <1>1, <1>4, <3>1, <3>2
    <3>3. CASE k # 1
      <4>1. f[k - 1] \in T
        BY <1>2, <2>2, <3>3
      <4> QED BY <1>1, <3>1, <4>1
    <3> QED BY <3>2, <3>3
  <2> HIDE DEF G
  <2>3. \A k \in 0..n : k \in G
    BY <1>2, <2>1, <2>2, Climb
  <2>4. n \in G /\ n # 0
    BY <1>2, <1>4, <2>3
  <2> QED BY <1>1, <2>4 DEF G
<1> QED BY <1>3, <1>4 DEF n

-----------------------------------------------------------------------------
(* The schedule: entries on the grid, each with an id and a place of its   *)
(* own.                                                                    *)

Before(x, y) == x.id # y.id /\ EndOf(x) <= y.start
Chained(S) == \A x, y \in S : x # y => Before(x, y) \/ Before(y, x)
Shape(e) == [media |-> e.media, offset |-> e.offset, dur |-> e.dur]

SchedInv ==
    /\ prefill \in Modes
    /\ laid \in 0..MaxEntries[prefill] /\ now \in 0..Horizon[prefill]
    /\ schedule \subseteq Entry /\ IsFiniteSet(schedule) /\ Chained(schedule)
    /\ \A e \in schedule : /\ e.id \in 1..laid /\ Fits(e) /\ Shape(e) \in Shapes[prefill]
                           /\ e.start % Grid = 0 /\ EndOf(e) % Grid = 0

LEMMA Bounds ==
    /\ Grid \in Nat \ {0} /\ Limit \in Nat \ {0} /\ Ahead \in Nat \ {0}
    /\ Lag \in Nat /\ Warmup \in Nat /\ Coverage \in Nat /\ Retention \in Nat /\ MaxEncodings \in Nat
    /\ \A m \in Modes : MaxEntries[m] \in Nat /\ Horizon[m] \in Nat
BY PlaybackAssumption DEF PlaybackAssumption

LEMMA ModOf ==
    ASSUME NEW n \in Nat \ {0}, NEW q \in Nat, NEW r \in 0..n - 1, NEW x \in Nat, x = n * q + r
    PROVE  x % n = r
OBVIOUS

LEMMA ModIn == ASSUME NEW n \in Nat \ {0}, NEW x \in Nat PROVE x % n \in 0..n - 1
OBVIOUS

LEMMA Quotient ==
    ASSUME NEW n \in Nat \ {0}, NEW x \in Nat
    PROVE  \E q \in Nat : x = n * q + (x % n)
<1> DEFINE T == {k \in 0..x : \E q \in Nat, r \in 0..n - 1 : k = n * q + r}
<1>1. 0 \in T
  <2>1. 0 = n * 0 + 0 /\ 0 \in 0..n - 1
    OBVIOUS
  <2> QED BY <2>1
<1>2. \A k \in 1..x : k - 1 \in T => k \in T
  <2> TAKE k \in 1..x
  <2> HAVE k - 1 \in T
  <2>1. PICK q \in Nat, r \in 0..n - 1 : k - 1 = n * q + r
    OBVIOUS
  <2>2. CASE r < n - 1
    <3>1. k = n * q + (r + 1) /\ r + 1 \in 0..n - 1
      BY <2>1, <2>2
    <3> QED BY <3>1
  <2>3. CASE r = n - 1
    <3>1. k = n * q + n
      BY <2>1, <2>3
    <3>2. n * q + n = n * (q + 1) + 0 /\ 0 \in 0..n - 1 /\ q + 1 \in Nat
      OBVIOUS
    <3> QED BY <3>1, <3>2
  <2> QED BY <2>2, <2>3
<1>3. x \in T
  <2> HIDE DEF T
  <2>1. \A k \in 0..x : k \in T
    BY <1>1, <1>2, Climb
  <2> QED BY <2>1
<1>4. PICK q \in Nat, r \in 0..n - 1 : x = n * q + r
  BY <1>3
<1>5. x % n = r
  BY <1>4, ModOf
<1> QED BY <1>4, <1>5

\* The grid's place of a time is no earlier than what ended before, on the grid.
LEMMA GridPlace ==
    ASSUME NEW g \in Nat \ {0}, NEW t \in Nat, NEW x \in Nat, x % g = 0, x <= t
    PROVE  /\ t - (t % g) \in Nat /\ (t - (t % g)) % g = 0
           /\ x <= t - (t % g) /\ t - (t % g) <= t
<1>1. PICK q \in Nat : t = g * q + (t % g)
  BY Quotient
<1>2. t % g \in 0..g - 1
  BY ModIn
<1>3. PICK r \in Nat : x = g * r + (x % g)
  BY Quotient
<1> DEFINE d == t % g
<1> HIDE DEF d
<1>4. t = g * q + d /\ d \in 0..g - 1 /\ x = g * r
  BY <1>1, <1>2, <1>3 DEF d
<1>5. g * q \in Nat /\ g * r \in Nat
  OBVIOUS
<1>6. t - d = g * q + 0 /\ t - d \in Nat /\ 0 \in 0..g - 1
  BY <1>4, <1>5
<1>7. (t - d) % g = 0
  BY <1>6, ModOf
<1>8. r <= q
  <2> SUFFICES ASSUME r >= q + 1 PROVE FALSE
    OBVIOUS
  <2>1. g * r >= g * (q + 1)
    OBVIOUS
  <2>2. g * (q + 1) = g * q + g
    OBVIOUS
  <2> QED BY <1>4, <1>5, <2>1, <2>2
<1>9. g * r <= g * q
  BY <1>8
<1> QED BY <1>4, <1>5, <1>6, <1>7, <1>9 DEF d

LEMMA GridSum ==
    ASSUME NEW g \in Nat \ {0}, NEW x \in Nat, NEW y \in Nat, x % g = 0, y % g = 0
    PROVE  (x + y) % g = 0
<1>1. PICK q \in Nat : x = g * q + (x % g)
  BY Quotient
<1>2. PICK r \in Nat : y = g * r + (y % g)
  BY Quotient
<1>3. x = g * q /\ y = g * r
  BY <1>1, <1>2
<1>4. g * (q + r) = g * q + g * r
  OBVIOUS
<1>5. x + y = g * (q + r) + 0 /\ 0 \in 0..g - 1 /\ x + y \in Nat /\ q + r \in Nat
  BY <1>3, <1>4
<1> DEFINE z == q + r
           w == x + y
<1>6. w = g * z + 0 /\ z \in Nat /\ w \in Nat /\ 0 \in 0..g - 1
  BY <1>5
<1> HIDE DEF z, w
<1>7. w % g = 0
  BY <1>6, ModOf
<1> QED BY <1>7 DEF w

LEMMA ShapeFacts ==
    ASSUME NEW m \in Modes, NEW s \in Shapes[m]
    PROVE  /\ s \in [media : Media, offset : Nat, dur : Nat]
           /\ s.offset % Grid = 0 /\ s.dur % Grid = 0 /\ s.dur > 0
           /\ s.offset + s.dur <= Total(s.media)
<1>1. Shapes \in [Modes -> SUBSET [media : Media, offset : Nat, dur : Nat]]
  BY PlaybackAssumption DEF PlaybackAssumption
<1>2. s \in UNION Range(Shapes)
  BY <1>1 DEF Range
<1>3. \A t \in UNION Range(Shapes) :
          /\ t.offset % Grid = 0 /\ t.dur % Grid = 0 /\ t.dur > 0
          /\ t.offset + t.dur <= Total(t.media)
  BY PlaybackAssumption DEF PlaybackAssumption
<1>4. s \in [media : Media, offset : Nat, dur : Nat]
  BY <1>1
<1> QED BY <1>2, <1>3, <1>4

LEMMA EndsFinite ==
    ASSUME NEW S, S \subseteq Entry, IsFiniteSet(S)
    PROVE  IsFiniteSet({EndOf(e) : e \in S}) /\ {EndOf(e) : e \in S} \subseteq Nat
<1>1. {EndOf(e) : e \in S} \subseteq Nat
  BY EntryFields
<1>2. IsFiniteSet({EndOf(e) : e \in S})
  <2> DEFINE f == [e \in S |-> EndOf(e)]
             T == {EndOf(e) : e \in S}
  <2>1. f \in Surjection(S, T)
    <3>1. f \in [S -> T] /\ \A y \in T : \E x \in S : f[x] = y
      OBVIOUS
    <3> QED BY <3>1, Zenon DEF Surjection
  <2>2. IsFiniteSet(T)
    BY <2>1, FS_Surjection
  <2> QED BY <2>2
<1> QED BY <1>1, <1>2

\* The tail: after all entries, on the grid.
LEMMA NextStartIs ==
    ASSUME SchedInv
    PROVE  /\ NextStart(now) \in Nat /\ NextStart(now) % Grid = 0
           /\ \A e \in schedule : EndOf(e) <= NextStart(now)
<1>1. /\ now \in Nat /\ Grid \in Nat \ {0} /\ schedule \subseteq Entry /\ IsFiniteSet(schedule)
      /\ \A e \in schedule : EndOf(e) % Grid = 0 /\ EndOf(e) \in Nat
  BY Bounds, EntryFields DEF SchedInv
<1>2. CASE \E e \in schedule : EndOf(e) > now
  <2> DEFINE T == {EndOf(e) : e \in schedule}
  <2>1. IsFiniteSet(T) /\ T \subseteq Int /\ T # {}
    BY <1>1, <1>2, EndsFinite
  <2>2. \A e \in schedule : EndOf(e) \in T
    OBVIOUS
  <2>3. NextStart(now) = Most(T)
    BY <1>2 DEF NextStart
  <2>4. Most(T) \in T /\ \A y \in T : y <= Most(T)
    <3> HIDE DEF T
    <3> QED BY <2>1, MostIs
  <2> QED BY <1>1, <2>2, <2>3, <2>4
<1>3. CASE ~\E e \in schedule : EndOf(e) > now
  <2>1. NextStart(now) = now - (now % Grid)
    BY <1>3 DEF NextStart
  <2>2. 0 % Grid = 0
    BY <1>1, ModIn
  <2>3. NextStart(now) \in Nat /\ NextStart(now) % Grid = 0
    <3> DEFINE zero == 0
    <3>1. zero \in Nat /\ zero <= now /\ zero % Grid = 0
      BY <1>1, <2>2
    <3> HIDE DEF zero
    <3>2. now - (now % Grid) \in Nat /\ (now - (now % Grid)) % Grid = 0
      BY <1>1, <3>1, GridPlace
    <3> QED BY <2>1, <3>2
  <2>4. ASSUME NEW e \in schedule PROVE EndOf(e) <= NextStart(now)
    <3>1. EndOf(e) <= now
      BY <1>1, <1>3
    <3> QED BY <1>1, <2>1, <3>1, GridPlace
  <2> QED BY <2>3, <2>4
<1> QED BY <1>2, <1>3

LEMMA SchedInit == Init => SchedInv
<1> SUFFICES ASSUME Init PROVE SchedInv
  OBVIOUS
<1>1. prefill \in Modes /\ MaxEntries[prefill] \in Nat /\ Horizon[prefill] \in Nat
  BY Bounds DEF Init
<1>2. schedule = {} /\ IsFiniteSet({})
  BY FS_EmptySet DEF Init
<1> QED BY <1>1, <1>2 DEF Init, SchedInv, Chained

\* Rows that may be the schedule once n were laid, as an edit makes them.
Sound(S, n) ==
    /\ S \subseteq Entry /\ IsFiniteSet(S) /\ Chained(S)
    /\ \A e \in S : /\ e.id \in 1..n /\ Fits(e) /\ Shape(e) \in Shapes[prefill]
                    /\ e.start % Grid = 0 /\ EndOf(e) % Grid = 0

LEMMA SoundAdd ==
    ASSUME prefill \in Modes, laid \in Nat, NEW S, Sound(S, laid), NEW s \in Shapes[prefill],
           NEW t \in Nat, t % Grid = 0, \A e \in S : EndOf(e) <= t \/ t + s.dur <= e.start
    PROVE  Sound(S \cup {New(s, t)}, laid + 1)
<1>1. s \in [media : Media, offset : Nat, dur : Nat] /\ s.dur % Grid = 0 /\ s.dur > 0
      /\ s.offset + s.dur <= Total(s.media)
  BY ShapeFacts
<1> DEFINE new == New(s, t)
<1>2. new \in Entry /\ Fits(new) /\ Shape(new) = s /\ EndOf(new) = t + s.dur
      /\ new.id = laid + 1 /\ new.start = t
  BY <1>1 DEF New, Entry, Fits, MediaEnd, EndOf, Shape
<1>3. EndOf(new) % Grid = 0
  BY <1>1, <1>2, Bounds, GridSum
<1> HIDE DEF new
<1>4. /\ S \subseteq Entry /\ IsFiniteSet(S) /\ Chained(S)
      /\ \A e \in S : /\ e.id \in 1..laid /\ Fits(e) /\ Shape(e) \in Shapes[prefill]
                      /\ e.start % Grid = 0 /\ EndOf(e) % Grid = 0
  BY DEF Sound
<1>5. \A e \in S : e.id # new.id
  BY <1>2, <1>4
<1>6. \A e \in S : Before(e, new) \/ Before(new, e)
  BY <1>2, <1>5 DEF Before
<1>7. Chained(S \cup {new})
  BY <1>4, <1>6 DEF Chained
<1>8. IsFiniteSet(S \cup {new})
  BY <1>4, FS_AddElement
<1>9. \A e \in S : e.id \in 1..(laid + 1)
  BY <1>4
<1>10. \A e \in S \cup {new} : /\ e.id \in 1..(laid + 1) /\ Fits(e) /\ Shape(e) \in Shapes[prefill]
                               /\ e.start % Grid = 0 /\ EndOf(e) % Grid = 0
  BY <1>2, <1>3, <1>4, <1>9
<1>11. Sound(S \cup {new}, laid + 1)
  BY <1>2, <1>4, <1>7, <1>8, <1>10 DEF Sound
<1> QED BY <1>11 DEF new

\* What makes room keeps its distances, and leaves the place free.
LEMMA SoundMoved ==
    ASSUME NEW S, NEW n \in Nat, Sound(S, n), NEW at \in Nat, NEW by \in Nat, by % Grid = 0,
           \A e \in S : EndOf(e) <= at \/ at <= e.start
    PROVE  /\ Sound({Moved(e, at, by) : e \in S}, n)
           /\ \A e \in {Moved(x, at, by) : x \in S} : EndOf(e) <= at \/ at + by <= e.start
<1> DEFINE M(e) == Moved(e, at, by)
           T == {M(e) : e \in S}
<1>1. /\ S \subseteq Entry /\ IsFiniteSet(S) /\ Chained(S) /\ Grid \in Nat \ {0}
      /\ \A e \in S : /\ e.id \in 1..n /\ Fits(e) /\ Shape(e) \in Shapes[prefill]
                      /\ e.start % Grid = 0 /\ EndOf(e) % Grid = 0
  BY Bounds DEF Sound
<1>2. ASSUME NEW e \in S
      PROVE  /\ M(e) \in Entry /\ M(e).id = e.id /\ M(e).media = e.media /\ M(e).offset = e.offset
             /\ M(e).dur = e.dur /\ M(e).start = IF e.start >= at THEN e.start + by ELSE e.start
             /\ EndOf(M(e)) = IF e.start >= at THEN EndOf(e) + by ELSE EndOf(e)
             /\ e.start \in Nat /\ e.dur \in Nat /\ EndOf(e) = e.start + e.dur /\ e.dur > 0
  <2>1. e \in Entry /\ e.dur > 0
    BY <1>1 DEF Fits
  <2> QED BY <2>1 DEF Moved, Entry, EndOf
<1>3. ASSUME NEW e \in S
      PROVE  /\ M(e).id \in 1..n /\ Fits(M(e)) /\ Shape(M(e)) \in Shapes[prefill]
             /\ M(e).start % Grid = 0 /\ EndOf(M(e)) % Grid = 0
             /\ EndOf(M(e)) <= at \/ at + by <= M(e).start
  <2>1. /\ e.id \in 1..n /\ Fits(e) /\ Shape(e) \in Shapes[prefill]
        /\ e.start % Grid = 0 /\ EndOf(e) % Grid = 0 /\ EndOf(e) \in Nat
    BY <1>1, EntryFields
  <2>2. (e.start + by) % Grid = 0 /\ (EndOf(e) + by) % Grid = 0
    BY <1>1, <1>2, <2>1, GridSum
  <2>3. Fits(M(e)) /\ Shape(M(e)) \in Shapes[prefill]
    <3> HIDE DEF M
    <3> QED BY <1>2, <2>1 DEF Fits, Shape, MediaEnd
  <2>4. M(e).start % Grid = 0 /\ EndOf(M(e)) % Grid = 0
    <3> HIDE DEF M
    <3> QED BY <1>2, <2>1, <2>2
  <2>5. EndOf(M(e)) <= at \/ at + by <= M(e).start
    <3> HIDE DEF M
    <3> QED BY <1>2, <2>1
  <2> QED BY <1>2, <2>1, <2>3, <2>4, <2>5
<1>4. ASSUME NEW x \in S, NEW y \in S, Before(x, y) PROVE Before(M(x), M(y))
  <2>1. /\ M(x).id = x.id /\ EndOf(M(x)) = IF x.start >= at THEN EndOf(x) + by ELSE EndOf(x)
        /\ x.start \in Nat /\ x.dur \in Nat /\ EndOf(x) = x.start + x.dur /\ x.dur > 0
    BY <1>2
  <2>2. /\ M(y).id = y.id /\ M(y).start = IF y.start >= at THEN y.start + by ELSE y.start
        /\ y.start \in Nat
    BY <1>2
  <2>3. x.id # y.id /\ EndOf(x) <= y.start
    BY <1>4 DEF Before
  <2> HIDE DEF M
  <2>4. EndOf(M(x)) <= M(y).start
    BY <2>1, <2>2, <2>3
  <2> QED BY <2>1, <2>2, <2>3, <2>4 DEF Before
<1>5. Chained(T)
  <2>1. SUFFICES ASSUME NEW u \in T, NEW v \in T, u # v PROVE Before(u, v) \/ Before(v, u)
    BY DEF Chained
  <2>2. PICK x \in S : u = M(x)
    OBVIOUS
  <2>3. PICK y \in S : v = M(y)
    OBVIOUS
  <2>4. x # y
    BY <2>1, <2>2, <2>3
  <2>5. Before(x, y) \/ Before(y, x)
    BY <1>1, <2>4 DEF Chained
  <2> HIDE DEF M
  <2> QED BY <1>4, <2>2, <2>3, <2>5
<1>6. IsFiniteSet(T)
  <2> DEFINE f == [e \in S |-> M(e)]
  <2>1. f \in Surjection(S, T)
    <3>1. f \in [S -> T] /\ \A y \in T : \E x \in S : f[x] = y
      OBVIOUS
    <3> QED BY <3>1, Zenon DEF Surjection
  <2> QED BY <1>1, <2>1, FS_Surjection
<1>7. T \subseteq Entry
  BY <1>2
<1>8. \A e \in T : /\ e.id \in 1..n /\ Fits(e) /\ Shape(e) \in Shapes[prefill]
                   /\ e.start % Grid = 0 /\ EndOf(e) % Grid = 0
                   /\ EndOf(e) <= at \/ at + by <= e.start
  BY <1>3
<1>9. Sound(T, n)
  <2> HIDE DEF T
  <2> QED BY <1>5, <1>6, <1>7, <1>8 DEF Sound
<1> QED BY <1>8, <1>9

LEMMA SoundSubset ==
    ASSUME NEW S, NEW n, Sound(S, n), NEW T, T \subseteq S
    PROVE  Sound(T, n)
BY FS_Subset DEF Sound, Chained

LEMMA SchedSound ==
    ASSUME SchedInv
    PROVE  /\ Sound(schedule, laid) /\ prefill \in Modes /\ laid \in Nat /\ now \in Nat
           /\ MaxEntries[prefill] \in Nat /\ Horizon[prefill] \in Nat
BY Bounds DEF SchedInv, Sound

LEMMA SchedFromSound ==
    ASSUME prefill \in Modes, prefill' = prefill, laid' \in 0..MaxEntries[prefill],
           now' \in 0..Horizon[prefill], Sound(schedule', laid')
    PROVE  SchedInv'
BY DEF SchedInv, Sound, Chained, Before, Fits, Shape, EndOf, MediaEnd

LEMMA SchedStep == SchedInv /\ [Next]_vars => SchedInv'
<1> SUFFICES ASSUME SchedInv, [Next]_vars PROVE SchedInv'
  OBVIOUS
<1>0. /\ prefill \in Modes /\ MaxEntries[prefill] \in Nat /\ Horizon[prefill] \in Nat
      /\ laid \in 0..MaxEntries[prefill] /\ laid \in Nat /\ now \in 0..Horizon[prefill]
      /\ Sound(schedule, laid)
  BY SchedSound DEF SchedInv
<1>a. \A e \in schedule : e \in Entry /\ e.start \in Nat /\ EndOf(e) \in Nat /\ e.start <= EndOf(e)
                          /\ e.start % Grid = 0 /\ EndOf(e) % Grid = 0
  BY <1>0, EntryFields DEF Sound
<1>b. ASSUME prefill' = prefill, MayLay, now' = now, Sound(schedule', laid + 1) PROVE SchedInv'
  <2>1. laid' = laid + 1 /\ laid' \in 0..MaxEntries[prefill]
    BY <1>0, <1>b DEF MayLay
  <2> QED BY <1>0, <1>b, <2>1, SchedFromSound
<1>c. ASSUME prefill' = prefill, laid' = laid, now' = now, schedule' \subseteq schedule PROVE SchedInv'
  <2>1. Sound(schedule', laid')
    BY <1>0, <1>c, SoundSubset
  <2> QED BY <1>0, <1>c, <2>1, SchedFromSound
<1>1. ASSUME NEW s \in Shapes[prefill], ScheduleExtends(s) PROVE SchedInv'
  <2> DEFINE start == NextStart(now)
  <2>2. start \in Nat /\ start % Grid = 0 /\ \A e \in schedule : EndOf(e) <= start
    BY NextStartIs
  <2>3. MayLay /\ prefill' = prefill /\ now' = now /\ schedule' = schedule \cup {New(s, start)}
    BY <1>1 DEF ScheduleExtends, UnchangedButRows
  <2> HIDE DEF start
  <2>4. Sound(schedule \cup {New(s, start)}, laid + 1)
    BY <1>0, <2>2, SoundAdd
  <2> QED BY <1>b, <2>3, <2>4
<1>2. ASSUME NEW s \in Shapes[prefill], NEW t \in 0..Horizon[prefill], EntryPlaced(s, t) PROVE SchedInv'
  <2>1. /\ MayLay /\ prefill' = prefill /\ now' = now /\ schedule' = schedule \cup {New(s, t)}
        /\ t % Grid = 0 /\ \A e \in schedule : EndOf(e) <= t \/ t + s.dur <= e.start
    BY <1>2 DEF EntryPlaced, Free, UnchangedButRows
  <2>2. t \in Nat
    BY <1>0
  <2>3. Sound(schedule \cup {New(s, t)}, laid + 1)
    BY <1>0, <2>1, <2>2, SoundAdd
  <2> QED BY <1>b, <2>1, <2>3
<1>3. ASSUME NEW s \in Shapes[prefill], NEW x \in schedule, NEW after \in BOOLEAN, EntryInserted(s, x, after)
      PROVE  SchedInv'
  <2> DEFINE at == IF after THEN EndOf(x) ELSE x.start
             S == {Moved(e, at, s.dur) : e \in schedule}
  <2>1. MayLay /\ prefill' = prefill /\ now' = now /\ schedule' = S \cup {New(s, at)}
    BY <1>3 DEF EntryInserted, UnchangedButRows
  <2>2. s.dur \in Nat /\ s.dur % Grid = 0
    BY <1>0, ShapeFacts
  <2>3. at \in Nat /\ at % Grid = 0
    BY <1>a
  <2>4. ASSUME NEW e \in schedule PROVE EndOf(e) <= at \/ at <= e.start
    <3>1. e = x \/ EndOf(e) <= x.start \/ EndOf(x) <= e.start
      BY <1>0 DEF Sound, Chained, Before
    <3>2. e.start \in Nat /\ EndOf(e) \in Nat /\ x.start \in Nat /\ EndOf(x) \in Nat /\ x.start <= EndOf(x)
      BY <1>a
    <3> QED BY <3>1, <3>2
  <2> HIDE DEF at
  <2>5. Sound(S, laid) /\ \A e \in S : EndOf(e) <= at \/ at + s.dur <= e.start
    BY <1>0, <2>2, <2>3, <2>4, SoundMoved
  <2> HIDE DEF S
  <2>6. Sound(S \cup {New(s, at)}, laid + 1)
    BY <1>0, <2>3, <2>5, SoundAdd
  <2> QED BY <1>b, <2>1, <2>6
<1>4. CASE \/ \E x, y \in schedule : RowsDeleted(x, y)
           \/ \E m \in Media : MediaDeleted(m)
  BY <1>c, <1>4 DEF RowsDeleted, MediaDeleted, UnchangedButRows
<1>5. CASE Edit
  BY <1>2, <1>3, <1>4, <1>5 DEF Edit
<1>6. CASE AdvanceTime
  <2>1. UNCHANGED <<schedule, prefill, laid>> /\ now' = now + 1 /\ now < Horizon[prefill]
    BY <1>6 DEF AdvanceTime
  <2>2. now' \in 0..Horizon[prefill]
    BY <1>0, <2>1
  <2> QED BY <1>0, <2>1, <2>2, SchedFromSound
<1>7. CASE UNCHANGED <<prefill, schedule, laid, now>>
  BY <1>c, <1>7
<1>8. CASE \E m \in Media, p \in Profiles : PackageReady(m, p) \/ RequeueReadyPackage(m, p)
  BY <1>7, <1>8 DEF PackageReady, RequeueReadyPackage, UnchangedButRows
<1>9. CASE WritePackagedManifest
  BY <1>7, <1>9 DEF WritePackagedManifest
<1>10. CASE HandleManifest \/ \E w \in waiting : EnsureOnDemandMasterReady(w) \/ ManifestRefused(w)
  BY <1>7, <1>10 DEF HandleManifest, EnsureOnDemandMasterReady, ManifestRefused
<1>11. CASE \E i \in 1..laid : EncodingProgress(i) \/ PruneTrailing(i) \/ EncodingLost(i)
  BY <1>7, <1>11 DEF EncodingProgress, PruneTrailing, EncodingLost, UnchangedButEncodings
<1>12. CASE UNCHANGED vars
  BY <1>7, <1>12 DEF vars
<1> QED BY <1>1, <1>5, <1>6, <1>8, <1>9, <1>10, <1>11, <1>12 DEF Next

-----------------------------------------------------------------------------
(* Counting the segments before a segment.                                 *)

Good(S) == S \subseteq Entry /\ IsFiniteSet(S) /\ Chained(S) /\ \A e \in S : Fits(e)

LEMMA GoodSchedule == SchedInv => Good(schedule)
BY DEF SchedInv, Good

LEMMA GoodSub == ASSUME NEW S, Good(S), NEW T, T \subseteq S PROVE Good(T)
<1>1. T \in SUBSET S /\ IsFiniteSet(S)
  BY DEF Good
<1>2. IsFiniteSet(T)
  BY <1>1, FS_Subset
<1> QED BY <1>2 DEF Good, Chained

LEMMA BeforeStarts ==
    ASSUME NEW x \in Entry, NEW y \in Entry, Fits(x), Before(x, y)
    PROVE  x.id # y.id /\ x.start < y.start /\ EndOf(x) <= y.start /\ ~Before(y, x)
BY EntryFields DEF Before, Fits

\* In a schedule the entry that starts first is the one before.
LEMMA StartsOrder ==
    ASSUME NEW S, Good(S), NEW x \in S, NEW y \in S
    PROVE  /\ x.start < y.start <=> Before(x, y)
           /\ x.start <= y.start <=> (x = y \/ Before(x, y))
           /\ x.id = y.id => x = y
           /\ Before(x, y) => x # y
           /\ x.start = y.start => x = y
<1>1. x \in Entry /\ y \in Entry /\ Fits(x) /\ Fits(y)
  BY DEF Good
<1>2. x.start \in Nat /\ y.start \in Nat /\ x.id \in Nat /\ y.id \in Nat
  BY <1>1, EntryFields
<1>3. x = y \/ Before(x, y) \/ Before(y, x)
  BY DEF Good, Chained
<1>4. CASE Before(x, y)
  BY <1>1, <1>2, <1>4, BeforeStarts
<1>5. CASE Before(y, x)
  BY <1>1, <1>2, <1>5, BeforeStarts
<1>6. CASE x = y
  BY <1>1, <1>2, <1>6 DEF Before
<1> QED BY <1>3, <1>4, <1>5, <1>6

Own(e) == {<<e.id, n>> : n \in InEntry(e)}

LEMMA OwnCount ==
    ASSUME NEW e \in Entry, Fits(e)
    PROVE  IsFiniteSet(Own(e)) /\ Cardinality(Own(e)) = Cardinality(InEntry(e))
<1> DEFINE f == [n \in InEntry(e) |-> <<e.id, n>>]
<1>1. f \in Bijection(InEntry(e), Own(e))
  <2>1. f \in [InEntry(e) -> Own(e)]
    BY DEF Own
  <2>2. \A a, b \in InEntry(e) : f[a] = f[b] => a = b
    OBVIOUS
  <2>3. \A y \in Own(e) : \E x \in InEntry(e) : f[x] = y
    BY DEF Own
  <2> HIDE DEF f
  <2>4. f \in Injection(InEntry(e), Own(e))
    BY <2>1, <2>2 DEF Injection, IsInjective
  <2>5. f \in Surjection(InEntry(e), Own(e))
    BY <2>1, <2>3 DEF Surjection
  <2> QED BY <2>4, <2>5 DEF Bijection
<1>2. IsFiniteSet(InEntry(e))
  BY InEntryFacts
<1>3. ExistsBijection(InEntry(e), Own(e))
  BY <1>1 DEF ExistsBijection
<1> QED BY <1>2, <1>3, FS_Bijection

LEMMA SegmentsOwn == ASSUME NEW S PROVE SegmentsOf(S) = UNION {Own(x) : x \in S}
BY DEF SegmentsOf, Own

LEMMA SegmentsFinite ==
    ASSUME NEW S, Good(S)
    PROVE  IsFiniteSet(SegmentsOf(S)) /\ Cardinality(SegmentsOf(S)) \in Nat
<1> DEFINE f == [x \in S |-> Own(x)]
           T == {Own(x) : x \in S}
<1>1. f \in Surjection(S, T)
  <2>1. f \in [S -> T] /\ \A y \in T : \E x \in S : f[x] = y
    OBVIOUS
  <2> QED BY <2>1, Zenon DEF Surjection
<1>2. IsFiniteSet(T)
  BY <1>1, FS_Surjection DEF Good
<1>3. \A y \in T : IsFiniteSet(y)
  BY OwnCount DEF Good
<1> HIDE DEF T
<1>4. IsFiniteSet(UNION T)
  BY <1>2, <1>3, FS_UNION
<1>5. IsFiniteSet(SegmentsOf(S))
  BY <1>4, SegmentsOwn DEF T
<1> QED BY <1>5, FS_CardinalityType

LEMMA SegmentsAdd ==
    ASSUME NEW S, NEW e, Good(S \cup {e}), e \notin S
    PROVE  Cardinality(SegmentsOf(S \cup {e})) = Cardinality(SegmentsOf(S)) + Cardinality(InEntry(e))
<1>1. Good(S) /\ e \in Entry /\ Fits(e)
  <2>1. S \subseteq S \cup {e}
    OBVIOUS
  <2> QED BY <2>1, GoodSub DEF Good
<1>2. SegmentsOf(S \cup {e}) = SegmentsOf(S) \cup Own(e)
  BY SegmentsOwn
<1>3. SegmentsOf(S) \cap Own(e) = {}
  <2>1. ASSUME NEW x \in S PROVE x.id # e.id
    <3>1. x \in S \cup {e} /\ e \in S \cup {e} /\ x # e
      OBVIOUS
    <3> QED BY <3>1, StartsOrder
  <2>2. \A x \in S : Own(x) \cap Own(e) = {}
    BY <2>1 DEF Own
  <2> QED BY <2>2, SegmentsOwn
<1>4. IsFiniteSet(SegmentsOf(S)) /\ Cardinality(SegmentsOf(S)) \in Nat
  BY <1>1, SegmentsFinite
<1>5. IsFiniteSet(Own(e)) /\ Cardinality(Own(e)) = Cardinality(InEntry(e))
  BY <1>1, OwnCount
<1>6. Cardinality(InEntry(e)) \in Nat
  BY <1>1, InEntryFacts
<1>7. Cardinality(SegmentsOf(S) \cup Own(e)) = Cardinality(SegmentsOf(S)) + Cardinality(Own(e)) - Cardinality({})
  BY <1>3, <1>4, <1>5, FS_Union
<1>8. Cardinality({}) = 0
  BY FS_EmptySet
<1> DEFINE x == Cardinality(SegmentsOf(S))
           y == Cardinality(InEntry(e))
           z == Cardinality(SegmentsOf(S) \cup Own(e))
<1>9. z = x + y - 0 /\ x \in Nat /\ y \in Nat
  BY <1>4, <1>5, <1>6, <1>7, <1>8
<1> HIDE DEF x, y, z
<1>10. z = x + y
  BY <1>9
<1> QED BY <1>2, <1>10 DEF x, y, z

LEMMA SegmentsMono ==
    ASSUME NEW S, NEW T, Good(T), S \subseteq T
    PROVE  Cardinality(SegmentsOf(S)) <= Cardinality(SegmentsOf(T))
<1>1. SegmentsOf(S) \in SUBSET SegmentsOf(T)
  BY DEF SegmentsOf
<1>2. IsFiniteSet(SegmentsOf(T))
  BY SegmentsFinite
<1> QED BY <1>1, <1>2, FS_Subset

\* The place of a segment in its entry.
LEMMA OffsetIs ==
    ASSUME NEW e \in Entry, Fits(e), NEW n \in InEntry(e)
    PROVE  /\ SegmentOffset(e, n) = n - Least(InEntry(e))
           /\ SegmentOffset(e, n) \in Nat
<1> DEFINE l == Least(InEntry(e))
<1>1. /\ l \in InEntry(e) /\ \A j \in InEntry(e) : l <= j
      /\ \A j, k \in InEntry(e) : \A i \in Int : j <= i /\ i <= k => i \in InEntry(e)
      /\ InEntry(e) \subseteq Segments(e.media)
  BY InEntryFacts
<1> HIDE DEF l
<1>2. InEntry(e) \subseteq Int /\ n \in Int /\ l \in Int /\ l <= n
  BY <1>1, EntryFields, SegmentFacts
<1>3. {j \in InEntry(e) : j < n} = l..(n - 1)
  <2>1. ASSUME NEW j \in InEntry(e), j < n PROVE j \in l..(n - 1)
    BY <1>1, <1>2, <2>1
  <2>2. ASSUME NEW j \in l..(n - 1) PROVE j \in InEntry(e) /\ j < n
    BY <1>1, <1>2
  <2> QED BY <2>1, <2>2
<1>4. Cardinality(l..(n - 1)) = n - l
  <2>1. Cardinality(l..(n - 1)) = IF l > n - 1 THEN 0 ELSE (n - 1) - l + 1
    BY <1>2, FS_Interval
  <2> QED BY <1>2, <2>1
<1>5. SegmentOffset(e, n) = n - l
  BY <1>3, <1>4 DEF SegmentOffset
<1> QED BY <1>2, <1>5 DEF l

LEMMA InEntryCount ==
    ASSUME NEW e \in Entry, Fits(e)
    PROVE  Cardinality(InEntry(e)) = Most(InEntry(e)) - Least(InEntry(e)) + 1
<1> DEFINE l == Least(InEntry(e))
           h == Most(InEntry(e))
<1>1. /\ l \in InEntry(e) /\ h \in InEntry(e) /\ \A j \in InEntry(e) : l <= j /\ j <= h
      /\ \A j, k \in InEntry(e) : \A i \in Int : j <= i /\ i <= k => i \in InEntry(e)
      /\ InEntry(e) \subseteq Segments(e.media)
  BY InEntryFacts
<1> HIDE DEF l, h
<1>2. InEntry(e) \subseteq Int /\ h \in Int /\ l \in Int /\ l <= h
  BY <1>1, EntryFields, SegmentFacts
<1>3. InEntry(e) = l..h
  <2>1. ASSUME NEW j \in InEntry(e) PROVE j \in l..h
    BY <1>1, <1>2
  <2>2. ASSUME NEW j \in l..h PROVE j \in InEntry(e)
    BY <1>1, <1>2
  <2> QED BY <2>1, <2>2
<1>4. Cardinality(l..h) = IF l > h THEN 0 ELSE h - l + 1
  BY <1>2, FS_Interval
<1> QED BY <1>2, <1>3, <1>4 DEF l, h

-----------------------------------------------------------------------------
(* Sequence bases and discontinuities, of the entries that are counted.    *)

Below(e, C) == {x \in C : x.start < e.start}
Changed(S) == {x \in S : \E y \in S : /\ y.start < x.start /\ y.media # x.media
                                      /\ \A z \in S : z.start <= y.start \/ z.start >= x.start}
BaseIn(e, C) == Cardinality(SegmentsOf(Below(e, C)))
DiscIn(e, C) == Cardinality(Changed(Below(e, C) \cup {e}))

LEMMA RowsGood ==
    ASSUME SchedInv, NEW p
    PROVE  Good(ReadyRows(p)) /\ ReadyRows(p) \subseteq schedule
<1>1. Good(schedule) /\ ReadyRows(p) \subseteq schedule
  BY GoodSchedule DEF ReadyRows
<1> QED BY <1>1, GoodSub

LEMMA BaseIs ==
    ASSUME prefill = "eager", NEW e, NEW p
    PROVE  SequenceBase(e, p) = BaseIn(e, ReadyRows(p))
<1>1. {x \in Earlier(e) : Ready(x.media, p)} = Below(e, ReadyRows(p))
  BY DEF Below, Earlier, ReadyRows
<1> QED BY <1>1 DEF SequenceBase, BaseIn

LEMMA DiscIs ==
    ASSUME prefill = "eager", NEW p, NEW e, Ready(e.media, p)
    PROVE  Discontinuities(e, p) = DiscIn(e, ReadyRows(p))
<1>1. ReadyUpTo(e, p) = Below(e, ReadyRows(p)) \cup {e}
  BY DEF Below, Earlier, ReadyRows, ReadyUpTo
<1> QED BY <1>1 DEF Discontinuities, DiscIn, Changed

LEMMA BelowGood ==
    ASSUME NEW C, Good(C), NEW e \in C
    PROVE  /\ Good(Below(e, C)) /\ Good(Below(e, C) \cup {e}) /\ e \notin Below(e, C)
           /\ \A x \in Below(e, C) : x \in C /\ Before(x, e)
<1>1. Below(e, C) \subseteq C /\ Below(e, C) \cup {e} \subseteq C
  BY DEF Below
<1>2. \A x \in Below(e, C) : x \in C /\ Before(x, e)
  BY StartsOrder DEF Below
<1>3. e \notin Below(e, C)
  BY <1>2, StartsOrder
<1> QED BY <1>1, <1>2, <1>3, GoodSub

LEMMA ChangedFinite ==
    ASSUME NEW S, Good(S)
    PROVE  IsFiniteSet(Changed(S)) /\ Cardinality(Changed(S)) \in Nat
<1>1. Changed(S) \in SUBSET S /\ IsFiniteSet(S)
  BY DEF Changed, Good
<1>2. IsFiniteSet(Changed(S))
  BY <1>1, FS_Subset
<1> QED BY <1>2, FS_CardinalityType

LEMMA NumbersNat ==
    ASSUME NEW C, Good(C), NEW e \in C
    PROVE  BaseIn(e, C) \in Nat /\ DiscIn(e, C) \in Nat
BY BelowGood, SegmentsFinite, ChangedFinite DEF BaseIn, DiscIn

\* Between two rows of one schedule with different media there is a change, no
\* later than the second.
LEMMA ChangeBetween ==
    ASSUME NEW T, Good(T), NEW y \in T, NEW x \in T, y.start < x.start, y.media # x.media
    PROVE  \E z \in Changed(T) : y.start < z.start /\ z.start <= x.start
<1>1. \A e \in T : e.start \in Nat
  BY EntryFields DEF Good
<1> DEFINE W == {z \in T : y.start < z.start /\ z.start <= x.start /\ z.media # y.media}
           A == {z.start : z \in W}
<1>2. A \subseteq Nat /\ A # {}
  BY <1>1
<1>3. PICK t \in A : \A u \in A : t <= u
  <2> HIDE DEF A
  <2> QED BY <1>2, LeastNat
<1>4. PICK z \in W : z.start = t
  OBVIOUS
<1>5. \A v \in W : z.start <= v.start
  BY <1>3, <1>4
<1> DEFINE B == {u.start : u \in {v \in T : v.start < z.start}}
<1>6. /\ z \in T /\ y.start < z.start /\ z.start <= x.start /\ z.media # y.media
  BY <1>4
<1>7. B \subseteq Int /\ B # {} /\ IsFiniteSet(B)
  <2>1. B \in SUBSET (0..z.start)
    BY <1>1, <1>6
  <2>2. IsFiniteSet(0..z.start)
    <3> DEFINE n == z.start
    <3>1. 0 \in Int /\ n \in Int
      BY <1>1, <1>6
    <3> HIDE DEF n
    <3>2. IsFiniteSet(0..n)
      BY <3>1, FS_Interval
    <3> QED BY <3>2 DEF n
  <2>3. y.start \in B
    BY <1>6
  <2> HIDE DEF B
  <2>4. IsFiniteSet(B)
    BY <2>1, <2>2, FS_Subset
  <2> QED BY <2>1, <2>3, <2>4
<1>8. Most(B) \in B /\ \A k \in B : k <= Most(B)
  <2> HIDE DEF B
  <2> QED BY <1>7, MostIs
<1>9. PICK u \in T : u.start < z.start /\ u.start = Most(B)
  BY <1>8
<1>10. \A v \in T : v.start < z.start => v.start <= u.start
  BY <1>8, <1>9
<1>11. \A v \in T : v.start <= u.start \/ v.start >= z.start
  BY <1>1, <1>6, <1>10
<1>12. u.media = y.media
  <2>1. y.start <= u.start
    BY <1>6, <1>10
  <2>2. CASE y.start = u.start
    BY <2>2, StartsOrder
  <2>3. CASE y.start < u.start
    <3>1. u \notin W
      BY <1>1, <1>5, <1>6, <1>9
    <3> QED BY <1>1, <1>6, <1>9, <2>3, <3>1
  <2> QED BY <1>1, <2>1, <2>2, <2>3
<1>13. z \in Changed(T)
  BY <1>6, <1>9, <1>11, <1>12 DEF Changed
<1> QED BY <1>6, <1>13

\* More rows have no fewer changes.
LEMMA ChangedMono ==
    ASSUME NEW S, NEW T, Good(T), S \subseteq T
    PROVE  Cardinality(Changed(S)) <= Cardinality(Changed(T))
<1>1. \A e \in T : e.start \in Nat
  BY EntryFields DEF Good
<1> DEFINE Ch(x, z) == z.start <= x.start /\ \A w \in S : w.start < x.start => w.start < z.start
           g == [x \in Changed(S) |-> CHOOSE z \in Changed(T) : Ch(x, z)]
<1>2. ASSUME NEW x \in Changed(S) PROVE \E z \in Changed(T) : Ch(x, z)
  <2>1. PICK y \in S : /\ y.start < x.start /\ y.media # x.media
                       /\ \A z \in S : z.start <= y.start \/ z.start >= x.start
    BY DEF Changed
  <2>2. x \in S /\ x \in T /\ y \in T
    BY DEF Changed
  <2>3. PICK z \in Changed(T) : y.start < z.start /\ z.start <= x.start
    BY <2>1, <2>2, ChangeBetween
  <2>4. z \in T
    BY DEF Changed
  <2>5. \A w \in S : w.start < x.start => w.start < z.start
    BY <1>1, <2>1, <2>2, <2>3, <2>4
  <2> QED BY <2>3, <2>5
<1>3. ASSUME NEW x \in Changed(S) PROVE g[x] \in Changed(T) /\ Ch(x, g[x])
  <2> HIDE DEF Ch
  <2> QED BY <1>2
<1>4. ASSUME NEW x \in Changed(S), NEW w \in Changed(S), g[x] = g[w] PROVE x = w
  <2>1. x \in S /\ w \in S /\ x \in T /\ w \in T
    BY DEF Changed
  <2>2. g[x] \in T
    BY <1>3 DEF Changed
  <2>3. /\ g[x].start <= x.start /\ (w.start < x.start => w.start < g[x].start)
        /\ g[x].start <= w.start /\ (x.start < w.start => x.start < g[x].start)
    <3> HIDE DEF g
    <3> QED BY <1>3, <1>4, <2>1
  <2>4. x.start = w.start
    <3> HIDE DEF g
    <3> QED BY <1>1, <2>1, <2>2, <2>3
  <2> QED BY <2>1, <2>4, StartsOrder
<1>5. g \in Injection(Changed(S), Changed(T))
  <2>1. g \in [Changed(S) -> Changed(T)]
    BY <1>3
  <2> HIDE DEF g
  <2> QED BY <1>4, <2>1 DEF Injection, IsInjective
<1>6. IsFiniteSet(Changed(T))
  BY ChangedFinite
<1> HIDE DEF g
<1> QED BY <1>5, <1>6, FS_Injection

\* The rows below another one.
LEMMA BelowLess ==
    ASSUME NEW C, Good(C), NEW e \in C, NEW f \in C, Before(e, f)
    PROVE  Below(e, C) \cup {e} \subseteq Below(f, C)
<1>1. e.start < f.start
  BY StartsOrder
<1>2. \A x \in C : x.start \in Nat
  BY EntryFields DEF Good
<1> QED BY <1>1, <1>2 DEF Below

\* An entry counts the segments of a counted entry before it, and its changes.
LEMMA BaseMono ==
    ASSUME NEW C, Good(C), NEW e \in C, NEW f \in C, Before(e, f)
    PROVE  BaseIn(e, C) + Cardinality(InEntry(e)) <= BaseIn(f, C)
<1>1. Good(Below(e, C) \cup {e}) /\ e \notin Below(e, C) /\ Good(Below(f, C))
  BY BelowGood
<1>2. Cardinality(SegmentsOf(Below(e, C) \cup {e}))
        = Cardinality(SegmentsOf(Below(e, C))) + Cardinality(InEntry(e))
  BY <1>1, SegmentsAdd
<1> QED BY <1>1, <1>2, BelowLess, SegmentsMono DEF BaseIn

LEMMA DiscMono ==
    ASSUME NEW C, Good(C), NEW e \in C, NEW f \in C, Before(e, f)
    PROVE  DiscIn(e, C) <= DiscIn(f, C)
<1>1. Good(Below(f, C) \cup {f})
  BY BelowGood
<1>2. Below(e, C) \cup {e} \subseteq Below(f, C) \cup {f}
  BY BelowLess
<1> QED BY <1>1, <1>2, ChangedMono DEF DiscIn

\* Where nothing that was counted is missing, an entry's numbers are no smaller.
LEMMA HistoryMono ==
    ASSUME NEW C, NEW D, Good(D), NEW e \in D, Below(e, C) \subseteq D
    PROVE  BaseIn(e, C) <= BaseIn(e, D) /\ DiscIn(e, C) <= DiscIn(e, D)
<1>1. Good(Below(e, D)) /\ Good(Below(e, D) \cup {e})
  BY BelowGood
<1>2. Below(e, C) \subseteq Below(e, D) /\ Below(e, C) \cup {e} \subseteq Below(e, D) \cup {e}
  BY DEF Below
<1> QED BY <1>1, <1>2, SegmentsMono, ChangedMono DEF BaseIn, DiscIn

\* Nothing of the schedule lies between two entries.
Next2(e, f) == /\ Before(e, f)
               /\ \A x \in schedule : ~(Before(e, x) /\ Before(x, f))

LEMMA BelowNext ==
    ASSUME NEW C, Good(C), C \subseteq schedule, NEW e \in C, NEW f \in C, Next2(e, f)
    PROVE  Below(f, C) = Below(e, C) \cup {e}
<1>1. Below(e, C) \cup {e} \subseteq Below(f, C)
  BY BelowLess DEF Next2
<1>2. ASSUME NEW x \in Below(f, C) PROVE x = e \/ x \in Below(e, C)
  <2>1. x \in C /\ Before(x, f)
    BY BelowGood
  <2>2. x = e \/ Before(x, e) \/ Before(e, x)
    BY <2>1 DEF Good, Chained
  <2>3. x = e \/ Before(x, e)
    BY <2>1, <2>2 DEF Next2
  <2> QED BY <2>1, <2>3, StartsOrder DEF Below
<1> QED BY <1>1, <1>2

LEMMA BaseNext ==
    ASSUME NEW C, Good(C), C \subseteq schedule, NEW e \in C, NEW f \in C, Next2(e, f)
    PROVE  BaseIn(f, C) = BaseIn(e, C) + Cardinality(InEntry(e))
<1>1. Below(f, C) = Below(e, C) \cup {e}
  BY BelowNext
<1>2. Good(Below(e, C) \cup {e}) /\ e \notin Below(e, C)
  BY BelowGood
<1> QED BY <1>1, <1>2, SegmentsAdd DEF BaseIn

LEMMA DiscNext ==
    ASSUME NEW C, Good(C), C \subseteq schedule, NEW e \in C, NEW f \in C, Next2(e, f)
    PROVE  DiscIn(f, C) = DiscIn(e, C) + (IF e.media = f.media THEN 0 ELSE 1)
<1> DEFINE U == Below(e, C) \cup {e}
<1>1. Below(f, C) = U
  BY BelowNext
<1>2. Good(C) /\ Good(U)
  BY BelowGood
<1>3. \A x \in U : x \in C /\ x.start <= e.start /\ x.start < f.start
  <2>1. \A x \in U : x \in C /\ x.start <= e.start
    BY <1>2, EntryFields DEF Below, Good
  <2>2. e.start < f.start
    BY StartsOrder DEF Next2
  <2>3. \A x \in C : x.start \in Nat
    BY EntryFields DEF Good
  <2> QED BY <2>1, <2>2, <2>3
<1>4. e \in U /\ f \notin U
  BY <1>2, <1>3, EntryFields DEF Good
<1>5. \A x \in C : x.start \in Nat
  BY <1>2, EntryFields DEF Good
<1>5a. \A x \in U : x.start = e.start => x = e
  BY <1>2, <1>3, <1>5, StartsOrder
<1> HIDE DEF U
<1>6. ASSUME NEW x \in U PROVE x \in Changed(U \cup {f}) <=> x \in Changed(U)
  <2>1. ASSUME NEW y \in U
        PROVE  (\A z \in U \cup {f} : z.start <= y.start \/ z.start >= x.start)
                <=> (\A z \in U : z.start <= y.start \/ z.start >= x.start)
    BY <1>3, <1>5
  <2>2. ~(f.start < x.start)
    BY <1>3, <1>5
  <2> QED BY <2>1, <2>2 DEF Changed
<1>7. f \in Changed(U \cup {f}) <=> e.media # f.media
  <2>1. ASSUME e.media # f.media PROVE f \in Changed(U \cup {f})
    <3>1. \A z \in U \cup {f} : z.start <= e.start \/ z.start >= f.start
      BY <1>3, <1>5
    <3> QED BY <1>3, <1>4, <2>1, <3>1 DEF Changed
  <2>2. ASSUME f \in Changed(U \cup {f}) PROVE e.media # f.media
    <3>1. PICK y \in U \cup {f} : /\ y.start < f.start /\ y.media # f.media
                                  /\ \A z \in U \cup {f} : z.start <= y.start \/ z.start >= f.start
      BY <2>2 DEF Changed
    <3>2. y \in U
      BY <1>5, <3>1
    <3>3. e.start <= y.start
      BY <1>3, <1>4, <1>5, <3>1
    <3>4. y = e
      BY <1>3, <1>4, <1>5, <1>5a, <3>2, <3>3
    <3> QED BY <3>1, <3>4
  <2> QED BY <2>1, <2>2
<1>8. IsFiniteSet(Changed(U)) /\ Cardinality(Changed(U)) \in Nat /\ f \notin Changed(U)
  BY <1>2, <1>4, ChangedFinite DEF Changed
<1>9. CASE e.media = f.media
  <2>1. Changed(U \cup {f}) = Changed(U)
    BY <1>6, <1>7, <1>8, <1>9 DEF Changed
  <2> QED BY <1>1, <1>8, <1>9, <2>1 DEF DiscIn, U
<1>10. CASE e.media # f.media
  <2>1. Changed(U \cup {f}) = Changed(U) \cup {f}
    BY <1>6, <1>7, <1>10 DEF Changed
  <2>2. Cardinality(Changed(U) \cup {f}) = Cardinality(Changed(U)) + 1
    BY <1>8, FS_AddElement
  <2> QED BY <1>1, <1>8, <1>10, <2>1, <2>2 DEF DiscIn, U
<1> QED BY <1>9, <1>10

-----------------------------------------------------------------------------
(* One step of the loop.                                                   *)

Sources == ({"package"} \X Media) \cup ({"package"} \X Nat \X Media) \cup ({"encoding"} \X Nat \X Nat)
Item == [entry : Nat, source : Sources, segment : Nat, number : Int, disc : Int]
States == [list : Seq(Item), wall : Nat, go : BOOLEAN]
Going(s) == s.go /\ s.wall < Deadline /\ Len(s.list) < Limit

LEMMA StateFields ==
    ASSUME NEW s \in States
    PROVE  /\ s.list \in Seq(Item) /\ Len(s.list) \in Nat /\ s.wall \in Nat /\ s.go \in BOOLEAN
           /\ Stop(s) = [list |-> s.list, wall |-> s.wall, go |-> FALSE]
           /\ Stop(s) \in States /\ ~Going(Stop(s))
           /\ DOMAIN s.list = 1..Len(s.list)
<1>1. PICK l \in Seq(Item), w \in Nat, g \in BOOLEAN : s = [list |-> l, wall |-> w, go |-> g]
  BY DEF States
<1>2. s.list = l /\ s.wall = w /\ s.go = g /\ Len(l) \in Nat /\ DOMAIN l = 1..Len(l)
  BY <1>1
<1>3. Stop(s) = [list |-> l, wall |-> w, go |-> FALSE]
  BY <1>2 DEF Stop
<1>4. Stop(s) \in States
  <2>1. [list |-> l, wall |-> w, go |-> FALSE] \in States
    BY SMT DEF States
  <2> QED BY <1>3, <2>1, Zenon
<1>5. ~Going(Stop(s))
  BY <1>3 DEF Going
<1> QED BY <1>2, <1>3, <1>4, <1>5

\* One entry at most is on the air at a time.
LEMMA OnAirIs ==
    ASSUME SchedInv, NEW t \in Nat, NEW e \in OnAirAt(t)
    PROVE  /\ e \in schedule /\ e \in Entry /\ Fits(e) /\ e.start <= t /\ t < EndOf(e)
           /\ OnAirAt(t) = {e} /\ (CHOOSE x \in OnAirAt(t) : TRUE) = e
<1>1. e \in schedule /\ e.start <= t /\ t < EndOf(e)
  BY DEF OnAirAt, Window
<1>2. e \in Entry /\ Fits(e)
  BY <1>1 DEF SchedInv
<1>3. ASSUME NEW x \in OnAirAt(t) PROVE x = e
  <2>1. x \in schedule /\ x.start <= t /\ t < EndOf(x) /\ x \in Entry
    BY DEF OnAirAt, Window, SchedInv
  <2>2. ~Before(x, e) /\ ~Before(e, x)
    BY <1>1, <1>2, <2>1, EntryFields DEF Before
  <2> QED BY <1>1, <2>1, <2>2 DEF SchedInv, Chained
<1> QED BY <1>1, <1>2, <1>3

LEMMA Appended ==
    ASSUME NEW X, NEW a \in Seq(X), NEW n \in Nat, NEW b \in [1..n -> X]
    PROVE  /\ a \o b \in Seq(X) /\ Len(a \o b) = Len(a) + n /\ Len(a) \in Nat
           /\ \A k \in 1..Len(a) : (a \o b)[k] = a[k]
           /\ \A k \in 1..n : (a \o b)[Len(a) + k] = b[k] /\ Len(a) + k \in 1..Len(a \o b)
           /\ \A k \in 1..Len(a \o b) : k \in 1..Len(a) \/ k - Len(a) \in 1..n
<1>1. b \in Seq(X) /\ Len(b) = n
  OBVIOUS
<1> QED BY <1>1

FirstFrom(e, wall) == Least(From(e.media, e.offset + wall - e.start))
LastFrom(s, e) == Most(Listed(e, FirstFrom(e, s.wall), Room(s)))
WallAfter(e, n) == e.start + SegEnd(e.media, n) - e.offset

LEMMA PackagedIs ==
    ASSUME SchedInv, NEW s \in States, NEW e \in OnAirAt(s.wall), NEW p,
           now <= s.wall, s.wall < Deadline, Len(s.list) < Limit
    PROVE  /\ Packaged(s, e, p) =
                [list |-> s.list \o [k \in 1..(LastFrom(s, e) - FirstFrom(e, s.wall) + 1) |->
                                        PackagedItem(e, p, FirstFrom(e, s.wall), FirstFrom(e, s.wall) + k - 1)],
                 wall |-> WallAfter(e, LastFrom(s, e)), go |-> TRUE]
           /\ FirstFrom(e, s.wall) \in InEntry(e) /\ LastFrom(s, e) \in InEntry(e)
           /\ FirstFrom(e, s.wall) <= LastFrom(s, e)
           /\ LastFrom(s, e) - FirstFrom(e, s.wall) + 1 <= Limit - Len(s.list)
           /\ WallAt(e, FirstFrom(e, s.wall)) <= s.wall /\ s.wall < WallAfter(e, FirstFrom(e, s.wall))
           /\ \A n \in InEntry(e) : s.wall < WallAfter(e, n) => FirstFrom(e, s.wall) <= n
           /\ s.wall < WallAfter(e, LastFrom(s, e)) /\ WallAfter(e, LastFrom(s, e)) \in Nat
           /\ \/ LastFrom(s, e) = Most(InEntry(e))
              \/ WallAfter(e, LastFrom(s, e)) >= Deadline
              \/ LastFrom(s, e) - FirstFrom(e, s.wall) + 1 = Limit - Len(s.list)
<1> DEFINE pos == e.offset + s.wall - e.start
           first == FirstFrom(e, s.wall)
           last == LastFrom(s, e)
           L == Listed(e, first, Room(s))
<1>1. /\ e \in schedule /\ e \in Entry /\ Fits(e) /\ e.start <= s.wall /\ s.wall < EndOf(e)
      /\ s.wall \in Nat /\ Len(s.list) \in Nat
  BY OnAirIs, StateFields
<1>2. /\ e.start \in Nat /\ e.offset \in Nat /\ e.dur \in Nat /\ e.media \in Media
      /\ MediaEnd(e) = e.offset + e.dur /\ EndOf(e) = e.start + e.dur
  BY <1>1, EntryFields
<1>3. pos \in Nat /\ e.offset <= pos /\ pos < MediaEnd(e)
  BY <1>1, <1>2
<1>4. /\ first \in InEntry(e) /\ SegStart(e.media, first) <= pos /\ pos < SegEnd(e.media, first)
      /\ \A n \in From(e.media, pos) : first <= n
  <2> HIDE DEF pos
  <2>1. /\ Least(From(e.media, pos)) \in InEntry(e)
        /\ SegStart(e.media, Least(From(e.media, pos))) <= pos
        /\ pos < SegEnd(e.media, Least(From(e.media, pos)))
        /\ \A n \in From(e.media, pos) : Least(From(e.media, pos)) <= n
    BY <1>1, <1>3, EnteredAt
  <2> QED BY <2>1 DEF FirstFrom, pos
<1>5. /\ InEntry(e) \subseteq Segments(e.media) /\ IsFiniteSet(InEntry(e))
      /\ \A n \in InEntry(e) : n <= Most(InEntry(e))
      /\ Most(InEntry(e)) \in InEntry(e)
      /\ \A j, k \in InEntry(e) : \A n \in Int : j <= n /\ n <= k => n \in InEntry(e)
  BY <1>1, InEntryFacts
<1>6. /\ \A n \in InEntry(e) : /\ n \in Nat /\ SegStart(e.media, n) \in Nat /\ SegEnd(e.media, n) \in Nat
                               /\ SegStart(e.media, n) < SegEnd(e.media, n)
      /\ \A j, k \in InEntry(e) : j < k => SegEnd(e.media, j) <= SegStart(e.media, k)
      /\ \A n \in InEntry(e) : n + 1 \in InEntry(e) => SegEnd(e.media, n) = SegStart(e.media, n + 1)
  BY <1>2, <1>5, SegmentFacts
<1> HIDE DEF first
<1>7. Room(s) \in Nat /\ Room(s) > 0 /\ Room(s) = Limit - Len(s.list)
  BY <1>1, Bounds DEF Room
<1>8. L \subseteq InEntry(e) /\ first \in L
  BY <1>4, <1>6, <1>7 DEF Listed
<1>9. last \in L /\ \A n \in L : n <= last
  <2>1. L \in SUBSET InEntry(e) /\ L \subseteq Int
    BY <1>6, <1>8
  <2>2. IsFiniteSet(L)
    BY <1>5, <2>1, FS_Subset
  <2> HIDE DEF L
  <2>3. Most(L) \in L /\ \A y \in L : y <= Most(L)
    BY <1>8, <2>1, <2>2, MostIs
  <2>4. last = Most(L)
    BY DEF LastFrom, L, first
  <2> QED BY <2>3, <2>4
<1> HIDE DEF last
<1>10. last \in InEntry(e) /\ first <= last /\ last < first + Room(s)
  BY <1>8, <1>9 DEF Listed
<1>11. Packaged(s, e, p) =
                [list |-> s.list \o [k \in 1..(last - first + 1) |-> PackagedItem(e, p, first, first + k - 1)],
                 wall |-> WallAfter(e, last), go |-> TRUE]
  <2>1. \E n \in From(e.media, e.offset + s.wall - e.start) : n \in InEntry(e)
    <3>1. first \in Segments(e.media) /\ SegEnd(e.media, first) > pos
      BY <1>3, <1>4, <1>5, <1>6
    <3> QED BY <1>4, <3>1 DEF From
  <2>2. Packaged(s, e, p) = AppendPackaged(s, e, p)
    BY <2>1 DEF Packaged
  <2>3. AppendPackaged(s, e, p) =
                [list |-> s.list \o [k \in 1..(last - first + 1) |-> PackagedItem(e, p, first, first + k - 1)],
                 wall |-> WallAfter(e, last), go |-> TRUE]
    BY Zenon DEF AppendPackaged, first, last, FirstFrom, LastFrom, WallAfter
  <2> QED BY <2>2, <2>3
<1>12. WallAt(e, first) <= s.wall /\ s.wall < WallAfter(e, first)
  BY <1>1, <1>2, <1>3, <1>4, <1>6 DEF WallAt, WallAfter
<1>13. ASSUME NEW n \in InEntry(e), s.wall < WallAfter(e, n) PROVE first <= n
  <2>1. SegEnd(e.media, n) > pos
    BY <1>1, <1>2, <1>6, <1>13 DEF WallAfter
  <2>2. n \in From(e.media, pos)
    BY <1>5, <2>1 DEF From
  <2> QED BY <1>4, <2>2
<1>14. s.wall < WallAfter(e, last) /\ WallAfter(e, last) \in Nat
  <2>1. SegEnd(e.media, first) <= SegEnd(e.media, last)
    <3>1. first = last \/ first < last
      BY <1>4, <1>6, <1>10
    <3>2. CASE first < last
      BY <1>4, <1>6, <1>10, <3>2
    <3> QED BY <1>4, <1>6, <3>1, <3>2
  <2> DEFINE x == SegEnd(e.media, first)
             y == SegEnd(e.media, last)
  <2>2. x \in Nat /\ y \in Nat /\ pos < x /\ x <= y
    BY <1>4, <1>6, <1>10, <2>1
  <2>3. WallAfter(e, last) = e.start + y - e.offset
    BY DEF WallAfter
  <2> HIDE DEF x, y
  <2>4. pos < y
    BY <1>3, <2>2
  <2>5. s.wall < e.start + y - e.offset /\ e.start + y - e.offset \in Int
    BY <1>1, <1>2, <2>2, <2>4
  <2> QED BY <1>1, <2>3, <2>5
<1>15. \/ last = Most(InEntry(e)) \/ WallAfter(e, last) >= Deadline
       \/ last - first + 1 = Limit - Len(s.list)
  <2> SUFFICES ASSUME last # Most(InEntry(e)), last - first + 1 # Room(s)
               PROVE  WallAfter(e, last) >= Deadline
    BY <1>7
  <2>1. last + 1 \in InEntry(e) /\ last + 1 \in Nat
    <3>1. last < Most(InEntry(e)) /\ Most(InEntry(e)) \in Nat /\ last \in Nat
      BY <1>5, <1>6, <1>10
    <3>2. last + 1 \in Int /\ last <= last + 1 /\ last + 1 <= Most(InEntry(e))
      BY <3>1
    <3> QED BY <1>5, <1>10, <3>1, <3>2
  <2>2. last + 1 \notin L
    <3> HIDE DEF L
    <3>1. last \in Nat /\ ~(last + 1 <= last)
      BY <1>6, <1>10
    <3> QED BY <1>9, <3>1
  <2>3. first <= last + 1 /\ last + 1 < first + Room(s) /\ last + 1 > first
    BY <1>4, <1>6, <1>7, <1>10
  <2>4. ~(WallAt(e, last + 1) < Deadline)
    BY <2>1, <2>2, <2>3 DEF Listed
  <2>5. WallAt(e, last + 1) = WallAfter(e, last)
    BY <1>6, <1>10, <2>1 DEF WallAt, WallAfter
  <2>6. Deadline \in Nat
    BY Bounds DEF Deadline, SchedInv
  <2> QED BY <1>14, <2>4, <2>5, <2>6
<1>16. last - first + 1 <= Limit - Len(s.list)
  BY <1>4, <1>6, <1>7, <1>10
<1> HIDE DEF pos, L
<1> QED BY <1>4, <1>10, <1>11, <1>12, <1>13, <1>14, <1>15, <1>16 DEF first, last

-----------------------------------------------------------------------------
(* The loop on an eager channel.                                           *)

EagerItem(e, R, n) ==
    [entry |-> e.id, source |-> <<"package", e.media>>, segment |-> n,
     number |-> BaseIn(e, R) + SegmentOffset(e, n), disc |-> DiscIn(e, R)]
IsEager(x, R, wall) ==
    \E e \in R : e.start <= wall /\ \E n \in InEntry(e) : x = EagerItem(e, R, n)
IsFirst(x, R) ==
    \E e \in R : /\ e.start <= now /\ now < EndOf(e)
                 /\ \E n \in InEntry(e) : /\ x = EagerItem(e, R, n)
                                          /\ WallAt(e, n) <= now /\ now < WallAfter(e, n)
\* An item is of an entry that is no later than another item's.
NotAfter(x, y, R) == \E e, f \in R : x.entry = e.id /\ y.entry = f.id /\ e.start <= f.start

\* The next segment of a playlist, as a player counts.
Follows(x, y) == /\ y.number = x.number + 1
                 /\ y.disc = x.disc + (IF y.source = x.source THEN 0 ELSE 1)
Linked(list) == \A k \in 2..Len(list) : Follows(list[k - 1], list[k])

AtEntryEnd(s, R) ==
    \E e \in R : /\ s.list[Len(s.list)] = EagerItem(e, R, Most(InEntry(e)))
                 /\ s.wall = EndOf(e) + Overrun(e)

EagerState(s, R) ==
    /\ s \in States /\ now <= s.wall /\ Len(s.list) <= Limit
    /\ \A k \in 1..Len(s.list) : /\ IsEager(s.list[k], R, s.wall)
                                  /\ NotAfter(s.list[k], s.list[Len(s.list)], R)
    /\ IF s.list = <<>> THEN s.wall = now ELSE IsFirst(s.list[1], R)
    /\ CutsFit => /\ Linked(s.list)
                  /\ s.list # <<>> /\ Going(s) => AtEntryEnd(s, R)

LEMMA EagerItemIs ==
    ASSUME SchedInv, prefill = "eager", NEW p, NEW e \in schedule, Ready(e.media, p),
           NEW first \in InEntry(e), NEW n \in InEntry(e)
    PROVE  PackagedItem(e, p, first, n) = EagerItem(e, ReadyRows(p), n)
<1>1. e \in Entry /\ Fits(e)
  BY DEF SchedInv
<1>2. SequenceBase(e, p) = BaseIn(e, ReadyRows(p)) /\ BaseIn(e, ReadyRows(p)) \in Nat
      /\ Discontinuities(e, p) = DiscIn(e, ReadyRows(p))
  <2>1. e \in ReadyRows(p) /\ Good(ReadyRows(p))
    BY RowsGood DEF ReadyRows
  <2> QED BY <2>1, BaseIs, DiscIs, NumbersNat
<1> DEFINE l == Least(InEntry(e))
           b == BaseIn(e, ReadyRows(p))
<1>3. SegmentOffset(e, n) = n - l /\ SegmentOffset(e, first) = first - l
  BY <1>1, OffsetIs
<1>4. l \in Int /\ n \in Int /\ first \in Int
  BY <1>1, InEntryFacts, EntryFields, SegmentFacts
<1>5. b \in Nat
  BY <1>2
<1> HIDE DEF l, b
<1>6. b + SegmentOffset(e, first) + (n - first) = b + SegmentOffset(e, n)
  BY <1>3, <1>4, <1>5
<1>7. PackagedItem(e, p, first, n) =
        [entry |-> e.id, source |-> <<"package", e.media>>, segment |-> n,
          number |-> SequenceBase(e, p) + SegmentOffset(e, first) + (n - first),
          disc |-> Discontinuities(e, p)]
  BY DEF PackagedItem
<1> QED BY <1>2, <1>6, <1>7 DEF EagerItem, b

LEMMA EagerItemType ==
    ASSUME NEW R, Good(R), NEW e \in R, NEW n \in InEntry(e)
    PROVE  /\ EagerItem(e, R, n) \in Item /\ EagerItem(e, R, n).number \in Nat
           /\ EagerItem(e, R, n).source[1] = "package" /\ EagerItem(e, R, n).entry = e.id
<1>1. e \in Entry /\ Fits(e) /\ e.id \in Nat /\ e.media \in Media
  BY EntryFields DEF Good
<1>2. BaseIn(e, R) \in Nat /\ DiscIn(e, R) \in Nat
  BY NumbersNat
<1>3. SegmentOffset(e, n) \in Nat
  BY <1>1, OffsetIs
<1>4. n \in Nat
  BY <1>1, InEntryFacts, SegmentFacts
<1>5. BaseIn(e, R) + SegmentOffset(e, n) \in Nat
  BY <1>2, <1>3
<1>6. <<"package", e.media>> \in Sources
  BY <1>1 DEF Sources
<1> QED BY <1>1, <1>2, <1>4, <1>5, <1>6 DEF EagerItem, Item

LEMMA FollowsWithin ==
    ASSUME NEW R, Good(R), NEW e \in R, NEW n \in InEntry(e), NEW k \in InEntry(e), k = n + 1
    PROVE  Follows(EagerItem(e, R, n), EagerItem(e, R, k))
<1>1. e \in Entry /\ Fits(e)
  BY DEF Good
<1> DEFINE l == Least(InEntry(e))
<1>2. SegmentOffset(e, n) = n - l /\ SegmentOffset(e, k) = k - l
  BY <1>1, OffsetIs
<1>3. l \in Int /\ n \in Int /\ k \in Int
  BY <1>1, InEntryFacts, EntryFields, SegmentFacts
<1>4. BaseIn(e, R) \in Nat /\ DiscIn(e, R) \in Nat
  BY NumbersNat
<1> HIDE DEF l
<1>5. BaseIn(e, R) + SegmentOffset(e, k) = BaseIn(e, R) + SegmentOffset(e, n) + 1
  BY <1>2, <1>3, <1>4
<1> QED BY <1>4, <1>5 DEF Follows, EagerItem

LEMMA FollowsAcross ==
    ASSUME NEW R, Good(R), R \subseteq schedule, NEW d \in R, NEW e \in R, Next2(d, e)
    PROVE  Follows(EagerItem(d, R, Most(InEntry(d))), EagerItem(e, R, Least(InEntry(e))))
<1>1. d \in Entry /\ Fits(d) /\ e \in Entry /\ Fits(e)
  BY DEF Good
<1> DEFINE l == Least(InEntry(d))
           h == Most(InEntry(d))
           f == Least(InEntry(e))
           c == Cardinality(InEntry(d))
<1>2. l \in InEntry(d) /\ h \in InEntry(d) /\ f \in InEntry(e) /\ c = h - l + 1
  BY <1>1, InEntryFacts, InEntryCount
<1>3. l \in Int /\ h \in Int /\ f \in Int
  BY <1>1, <1>2, InEntryFacts, EntryFields, SegmentFacts
<1>4. SegmentOffset(d, h) = h - l /\ SegmentOffset(e, f) = f - f
  BY <1>1, <1>2, OffsetIs
<1>5. BaseIn(d, R) \in Nat /\ DiscIn(d, R) \in Nat
  BY NumbersNat
<1>6. /\ BaseIn(e, R) = BaseIn(d, R) + c
      /\ DiscIn(e, R) = DiscIn(d, R) + (IF d.media = e.media THEN 0 ELSE 1)
  BY BaseNext, DiscNext
<1> HIDE DEF l, h, f, c
<1>7. BaseIn(e, R) + SegmentOffset(e, f) = BaseIn(d, R) + SegmentOffset(d, h) + 1
  BY <1>2, <1>3, <1>4, <1>5, <1>6
<1>8. <<"package", e.media>> = <<"package", d.media>> <=> d.media = e.media
  OBVIOUS
<1>9. Follows(EagerItem(d, R, h), EagerItem(e, R, f))
  BY <1>6, <1>7, <1>8 DEF Follows, EagerItem
<1> QED BY <1>9 DEF h, f

LEMMA ShapeSame ==
    ASSUME NEW e
    PROVE  /\ InEntry(Shape(e)) = InEntry(e) /\ Overrun(Shape(e)) = Overrun(e)
           /\ Shape(e).offset = e.offset /\ Shape(e).dur = e.dur /\ Shape(e).media = e.media
<1>1. Shape(e).offset = e.offset /\ Shape(e).dur = e.dur /\ Shape(e).media = e.media
  BY DEF Shape
<1>2. MediaEnd(Shape(e)) = MediaEnd(e)
  BY <1>1 DEF MediaEnd
<1>3. InEntry(Shape(e)) = InEntry(e)
  BY <1>1, <1>2 DEF InEntry
<1> QED BY <1>1, <1>2, <1>3 DEF Overrun

\* Where the cuts fit, the loop goes from the end of an entry's last segment to
\* the entry after it and starts with that entry's first segment.
LEMMA EntersNext ==
    ASSUME SchedInv, prefill = "eager", CutsFit, NEW d \in schedule, NEW w \in Nat,
           w = EndOf(d) + Overrun(d), NEW e \in OnAirAt(w)
    PROVE  /\ Next2(d, e) /\ e \in schedule
           /\ w < WallAfter(e, Least(InEntry(e)))
<1>1. /\ d \in Entry /\ Fits(d) /\ e \in Entry /\ Fits(e) /\ e \in schedule
      /\ e.start <= w /\ w < EndOf(e)
  BY OnAirIs DEF SchedInv
<1>2. /\ d.start \in Nat /\ d.dur \in Nat /\ d.dur > 0 /\ EndOf(d) = d.start + d.dur
      /\ e.start \in Nat /\ e.dur \in Nat /\ e.offset \in Nat /\ EndOf(e) \in Nat
      /\ MediaEnd(d) \in Nat
  BY <1>1, EntryFields DEF Fits
<1>3. Most(InEntry(d)) \in InEntry(d) /\ SegEnd(d.media, Most(InEntry(d))) \in Nat
      /\ SegEnd(d.media, Most(InEntry(d))) >= MediaEnd(d)
  BY <1>1, InEntryFacts, EntryFields, SegmentFacts
<1>4. Overrun(d) \in Nat
  BY <1>2, <1>3 DEF Overrun
<1>5. ASSUME NEW x \in schedule PROVE /\ Overrun(d) < x.dur
                                      /\ Overrun(d) < SegEnd(x.media, Least(InEntry(x))) - x.offset
  <2>1. Shape(d) \in Shapes["eager"] /\ Shape(x) \in Shapes["eager"]
    BY DEF SchedInv
  <2>2. /\ Overrun(Shape(d)) < SegEnd(Shape(x).media, Least(InEntry(Shape(x)))) - Shape(x).offset
        /\ Overrun(Shape(d)) < Shape(x).dur
    BY <2>1 DEF CutsFit
  <2> QED BY <2>2, ShapeSame
<1>6. Before(d, e)
  <2>1. d # e
    BY <1>1, <1>2, <1>4
  <2>2. ~Before(e, d)
    BY <1>1, <1>2, <1>4 DEF Before
  <2> QED BY <1>1, <2>1, <2>2 DEF SchedInv, Chained
<1>7. ASSUME NEW x \in schedule, Before(d, x), Before(x, e) PROVE FALSE
  <2>1. x \in Entry /\ x.start \in Nat /\ x.dur \in Nat /\ EndOf(x) = x.start + x.dur
    BY EntryFields DEF SchedInv
  <2>2. EndOf(d) <= x.start /\ EndOf(x) <= e.start
    BY <1>7 DEF Before
  <2>3. Overrun(d) < x.dur
    BY <1>5
  <2> QED BY <1>1, <1>2, <1>4, <2>1, <2>2, <2>3
<1>8. w < WallAfter(e, Least(InEntry(e)))
  <2> DEFINE y == SegEnd(e.media, Least(InEntry(e)))
  <2>1. Overrun(d) < y - e.offset
    BY <1>1, <1>5
  <2>2. EndOf(d) <= e.start
    BY <1>6 DEF Before
  <2>3. y \in Nat
    BY <1>1, InEntryFacts, EntryFields, SegmentFacts
  <2>4. WallAfter(e, Least(InEntry(e))) = e.start + y - e.offset
    BY DEF WallAfter
  <2> HIDE DEF y
  <2> QED BY <1>2, <1>4, <2>1, <2>2, <2>3, <2>4
<1> QED BY <1>1, <1>6, <1>7, <1>8 DEF Next2

LEMMA EagerStart ==
    ASSUME SchedInv, NEW R
    PROVE  EagerState(Start, R)
<1>1. now \in Nat /\ Limit \in Nat
  BY Bounds DEF SchedInv
<1>2. Start \in States /\ Start.list = <<>> /\ Start.wall = now /\ Len(Start.list) = 0
  <2>1. <<>> \in Seq(Item)
    OBVIOUS
  <2> QED BY <1>1, <2>1 DEF Start, States
<1>3. Linked(Start.list)
  BY <1>2 DEF Linked
<1> QED BY <1>1, <1>2, <1>3 DEF EagerState

LEMMA EagerStop ==
    ASSUME NEW s, NEW R, EagerState(s, R)
    PROVE  EagerState(Stop(s), R)
<1>1. s \in States
  BY DEF EagerState
<1>2. Stop(s) \in States /\ ~Going(Stop(s)) /\ Stop(s).list = s.list /\ Stop(s).wall = s.wall
  BY <1>1, StateFields
<1> QED BY <1>2 DEF EagerState

LEMMA EagerPackaged ==
    ASSUME SchedInv, prefill = "eager", NEW p, NEW s, EagerState(s, ReadyRows(p)), Going(s),
           NEW e \in OnAirAt(s.wall), Ready(e.media, p)
    PROVE  EagerState(Packaged(s, e, p), ReadyRows(p)) /\ Packaged(s, e, p).list # <<>>
<1> DEFINE R == ReadyRows(p)
           first == FirstFrom(e, s.wall)
           last == LastFrom(s, e)
           n == last - first + 1
           b == [k \in 1..n |-> EagerItem(e, R, first + k - 1)]
           list == s.list \o b
           wall == WallAfter(e, last)
           t == [list |-> list, wall |-> wall, go |-> TRUE]
<1>1. s \in States /\ s.wall \in Nat /\ s.list \in Seq(Item) /\ Len(s.list) \in Nat
      /\ now <= s.wall /\ s.wall < Deadline /\ Len(s.list) < Limit /\ now \in Nat /\ Limit \in Nat
  BY StateFields, Bounds DEF EagerState, Going, SchedInv
<1>2. e \in schedule /\ e \in Entry /\ Fits(e) /\ e.start <= s.wall /\ s.wall < EndOf(e)
  BY <1>1, OnAirIs
<1>3. e \in R /\ Good(R) /\ R \subseteq schedule
  BY <1>2, RowsGood DEF ReadyRows
<1>4. /\ Packaged(s, e, p) =
                [list |-> s.list \o [k \in 1..n |-> PackagedItem(e, p, first, first + k - 1)],
                 wall |-> wall, go |-> TRUE]
      /\ first \in InEntry(e) /\ last \in InEntry(e) /\ first <= last /\ n <= Limit - Len(s.list)
      /\ WallAt(e, first) <= s.wall /\ s.wall < WallAfter(e, first)
      /\ \A j \in InEntry(e) : s.wall < WallAfter(e, j) => first <= j
      /\ s.wall < wall /\ wall \in Nat
      /\ last = Most(InEntry(e)) \/ wall >= Deadline \/ n = Limit - Len(s.list)
  BY <1>1, PackagedIs
<1>5. /\ InEntry(e) \subseteq Nat /\ Least(InEntry(e)) \in InEntry(e)
      /\ \A j \in InEntry(e) : Least(InEntry(e)) <= j
      /\ \A j, k \in InEntry(e) : \A i \in Int : j <= i /\ i <= k => i \in InEntry(e)
  BY <1>2, InEntryFacts, EntryFields, SegmentFacts
<1> HIDE DEF first, last, wall
<1>6. n \in Nat /\ n >= 1 /\ first \in Nat /\ last \in Nat
  BY <1>4, <1>5
<1>7. ASSUME NEW k \in 1..n PROVE first + k - 1 \in InEntry(e) /\ first + k - 1 \in Nat
  <2>1. first + k - 1 \in Int /\ first <= first + k - 1 /\ first + k - 1 <= last
    BY <1>6
  <2> QED BY <1>4, <1>5, <2>1
<1>8. [k \in 1..n |-> PackagedItem(e, p, first, first + k - 1)] = b
  BY <1>2, <1>4, <1>7, EagerItemIs
<1>9. Packaged(s, e, p) = t
  BY <1>4, <1>8
<1>10. b \in [1..n -> Item] /\ \A k \in 1..n : b[k] = EagerItem(e, R, first + k - 1)
  <2>1. \A k \in 1..n : EagerItem(e, R, first + k - 1) \in Item
    BY <1>3, <1>7, EagerItemType
  <2> HIDE DEF R, n
  <2> QED BY <2>1
<1> HIDE DEF b, R
<1>11. /\ list \in Seq(Item) /\ Len(list) = Len(s.list) + n
       /\ \A k \in 1..Len(s.list) : list[k] = s.list[k]
       /\ \A k \in 1..n : list[Len(s.list) + k] = b[k]
       /\ \A k \in 1..Len(list) : k \in 1..Len(s.list) \/ k - Len(s.list) \in 1..n
  <2> HIDE DEF n
  <2> QED BY <1>1, <1>6, <1>10, Appended
<1> HIDE DEF list
<1> DEFINE L == Len(s.list)
<1>12. L \in Nat /\ Len(list) \in Nat /\ Len(list) = L + n
  <2> HIDE DEF n
  <2>1. n \in Nat /\ L \in Nat /\ Len(list) = L + n
    BY <1>1, <1>6, <1>11
  <2> HIDE DEF L
  <2> QED BY <2>1
<1>13. /\ \A k \in 1..L : list[k] = s.list[k]
       /\ \A k \in 1..n : list[L + k] = EagerItem(e, R, first + k - 1)
       /\ \A k \in 1..Len(list) : k \in 1..L \/ (k - L \in 1..n /\ list[k] = EagerItem(e, R, first + (k - L) - 1))
  <2>1. \A k \in 1..n : list[L + k] = EagerItem(e, R, first + k - 1)
    BY <1>10, <1>11
  <2>2. \A k \in 1..Len(list) : L + (k - L) = k
    BY <1>12
  <2> HIDE DEF n
  <2> QED BY <1>11, <2>1, <2>2
<1> HIDE DEF L, n
<1>14. t \in States /\ t.list = list /\ t.wall = wall
  BY <1>4, <1>11, SMT DEF States
<1>15. now <= wall /\ Len(list) <= Limit
  BY <1>1, <1>4, <1>6, <1>12 DEF L
<1>16. ASSUME NEW k \in 1..Len(list)
       PROVE  IsEager(list[k], R, wall) /\ NotAfter(list[k], list[Len(list)], R)
  <2>1. list[Len(list)].entry = e.id /\ e.id \in Nat
    <3>1. n \in 1..n
      BY <1>6
    <3>2. list[L + n] = EagerItem(e, R, first + n - 1)
      BY <1>13, <3>1
    <3> QED BY <1>2, <1>12, <3>2, EntryFields DEF EagerItem
  <2>2. CASE k \in 1..L
    <3>1. list[k] = s.list[k] /\ IsEager(s.list[k], R, s.wall)
      BY <1>13, <2>2 DEF EagerState, L, R
    <3>2. PICK d \in R : d.start <= s.wall /\ \E j \in InEntry(d) : s.list[k] = EagerItem(d, R, j)
      BY <3>1 DEF IsEager
    <3>3. d \in Entry /\ d.start \in Nat /\ d.id \in Nat /\ EndOf(e) \in Nat
      BY <1>2, <1>3, EntryFields DEF Good
    <3>4. ~Before(e, d)
      BY <1>1, <1>2, <3>2, <3>3 DEF Before
    <3>5. d.start <= e.start
      BY <1>3, <3>4, StartsOrder DEF Good, Chained
    <3>6. d.start <= wall
      BY <1>1, <1>4, <3>2, <3>3
    <3>7. list[k].entry = d.id
      BY <3>1, <3>2 DEF EagerItem
    <3> QED BY <1>3, <2>1, <3>1, <3>2, <3>5, <3>6, <3>7 DEF IsEager, NotAfter
  <2>3. CASE k - L \in 1..n /\ list[k] = EagerItem(e, R, first + (k - L) - 1)
    <3>1. first + (k - L) - 1 \in InEntry(e)
      BY <1>7, <2>3
    <3>2. e.start <= wall
      BY <1>1, <1>2, <1>4, EntryFields
    <3>3. list[k].entry = e.id
      BY <2>3 DEF EagerItem
    <3>4. e.start <= e.start
      BY <1>2, EntryFields
    <3> QED BY <1>3, <2>1, <2>3, <3>1, <3>2, <3>3, <3>4 DEF IsEager, NotAfter
  <2> QED BY <1>13, <2>2, <2>3
<1>17. list # <<>> /\ IsFirst(list[1], R)
  <2>1. Len(list) > 0 /\ 1 \in 1..n
    BY <1>6, <1>12
  <2>2. list # <<>>
    BY <2>1
  <2>3. CASE s.list = <<>>
    <3>1. L = 0 /\ s.wall = now
      BY <2>3 DEF L, EagerState
    <3>2. list[1] = EagerItem(e, R, first)
      <4>1. list[L + 1] = EagerItem(e, R, first + 1 - 1) /\ first + 1 - 1 = first /\ L + 1 = 1
        BY <1>6, <1>13, <2>1, <3>1
      <4> QED BY <4>1
    <3> QED BY <1>2, <1>3, <1>4, <2>2, <3>1, <3>2 DEF IsFirst
  <2>4. CASE s.list # <<>>
    <3>1. 1 \in 1..L
      BY <1>1, <2>4 DEF L
    <3> QED BY <1>13, <2>2, <2>4, <3>1 DEF EagerState, R
  <2> QED BY <2>3, <2>4
<1>18. ASSUME CutsFit PROVE Linked(list)
  <2>1. Linked(s.list)
    BY <1>18 DEF EagerState
  <2>2. SUFFICES ASSUME NEW k \in 2..Len(list) PROVE Follows(list[k - 1], list[k])
    BY DEF Linked
  <2>3. k \in 1..Len(list) /\ k - 1 \in 1..Len(list)
    BY <1>12
  <2>4. CASE k \in 1..L
    <3>1. k \in 2..Len(s.list) /\ k - 1 \in 1..L
      BY <1>12, <2>4 DEF L
    <3> QED BY <1>13, <2>1, <2>4, <3>1 DEF Linked
  <2>5. CASE k = L + 1
    <3>1. L >= 1 /\ L \in 1..L /\ k - 1 = L /\ 1 \in 1..n /\ first + 1 - 1 = first
      BY <1>6, <1>12, <2>5
    <3>2. list[k] = EagerItem(e, R, first) /\ list[k - 1] = s.list[L]
      BY <1>13, <2>5, <3>1
    <3>3. s.list # <<>>
      BY <1>1, <3>1 DEF L
    <3>4. AtEntryEnd(s, R)
      BY <1>18, <3>3 DEF EagerState, R
    <3>5. PICK d \in R : /\ s.list[Len(s.list)] = EagerItem(d, R, Most(InEntry(d)))
                         /\ s.wall = EndOf(d) + Overrun(d)
      BY <3>4 DEF AtEntryEnd
    <3>6. Next2(d, e) /\ s.wall < WallAfter(e, Least(InEntry(e)))
      BY <1>1, <1>3, <1>18, <3>5, EntersNext
    <3>7. first = Least(InEntry(e))
      <4>1. first <= Least(InEntry(e)) /\ Least(InEntry(e)) <= first
        BY <1>4, <1>5, <3>6
      <4> QED BY <1>5, <1>6, <4>1
    <3>8. Follows(EagerItem(d, R, Most(InEntry(d))), EagerItem(e, R, Least(InEntry(e))))
      BY <1>3, <3>5, <3>6, FollowsAcross
    <3> QED BY <3>2, <3>5, <3>7, <3>8 DEF L
  <2>6. CASE k \notin 1..L /\ k # L + 1
    <3> DEFINE j == k - L
    <3>1. j \in 1..n /\ j - 1 \in 1..n /\ L + j = k /\ L + (j - 1) = k - 1
          /\ first + j - 1 = (first + (j - 1) - 1) + 1
      BY <1>6, <1>12, <2>3, <2>6
    <3> HIDE DEF j
    <3>2. list[k] = EagerItem(e, R, first + j - 1) /\ list[k - 1] = EagerItem(e, R, first + (j - 1) - 1)
      <4>1. list[L + j] = EagerItem(e, R, first + j - 1) /\ list[L + (j - 1)] = EagerItem(e, R, first + (j - 1) - 1)
        BY <1>13, <3>1
      <4> QED BY <3>1, <4>1
    <3>3. first + j - 1 \in InEntry(e) /\ first + (j - 1) - 1 \in InEntry(e)
      BY <1>7, <3>1
    <3> QED BY <1>3, <3>1, <3>2, <3>3, FollowsWithin
  <2> QED BY <2>4, <2>5, <2>6
<1>19. ASSUME Going(t) PROVE AtEntryEnd(t, R)
  <2>1. wall < Deadline /\ Len(list) < Limit
    BY <1>14, <1>19 DEF Going
  <2>2. last = Most(InEntry(e))
    <3>1. Deadline \in Nat
      BY <1>1, Bounds DEF Deadline
    <3> QED BY <1>1, <1>4, <1>6, <1>12, <2>1, <3>1 DEF L
  <2>3. n \in 1..n /\ L + n = Len(list) /\ first + n - 1 = last
    <3>1. first + n - 1 = last
      BY <1>6 DEF n
    <3> QED BY <1>6, <1>12, <3>1
  <2>4. list[Len(list)] = EagerItem(e, R, Most(InEntry(e)))
    <3>1. list[L + n] = EagerItem(e, R, first + n - 1)
      BY <1>13, <2>3
    <3> QED BY <2>2, <2>3, <3>1
  <2>5. wall = EndOf(e) + Overrun(e)
    <3> DEFINE y == SegEnd(e.media, Most(InEntry(e)))
    <3>1. y \in Nat
      BY <1>2, InEntryFacts, EntryFields, SegmentFacts
    <3>2. wall = e.start + y - e.offset /\ Overrun(e) = y - MediaEnd(e)
      BY <2>2 DEF wall, WallAfter, Overrun
    <3>3. /\ e.start \in Nat /\ e.dur \in Nat /\ e.offset \in Nat
          /\ EndOf(e) = e.start + e.dur /\ MediaEnd(e) = e.offset + e.dur
      BY <1>2, EntryFields
    <3> HIDE DEF y
    <3> QED BY <3>1, <3>2, <3>3
  <2> QED BY <1>2, <1>3, <1>14, <2>4, <2>5 DEF AtEntryEnd
<1> HIDE DEF t
<1>20. EagerState(t, R)
  BY <1>14, <1>15, <1>16, <1>17, <1>18, <1>19 DEF EagerState
<1> QED BY <1>9, <1>14, <1>17, <1>20 DEF R

LEMMA EagerPass ==
    ASSUME SchedInv, prefill = "eager", NEW p, NEW s, EagerState(s, ReadyRows(p))
    PROVE  /\ EagerState(Pass(s, p), ReadyRows(p))
           /\ s.list # <<>> => Pass(s, p).list # <<>>
<1>1. s.wall \in Nat /\ Len(s.list) \in Nat /\ Limit \in Nat
  BY StateFields, Bounds DEF EagerState
<1>2. EagerState(Stop(s), ReadyRows(p)) /\ Stop(s).list = s.list
  BY EagerStop DEF Stop
<1>3. CASE s.go /\ s.wall < Deadline /\ Room(s) > 0 /\ OnAirAt(s.wall) # {}
  <2>1. PICK e \in OnAirAt(s.wall) : TRUE
    BY <1>3
  <2>2. (CHOOSE x \in OnAirAt(s.wall) : TRUE) = e
    BY <1>1, OnAirIs
  <2>3. Pass(s, p) = AtEntry(s, e, p)
    BY <1>3, <2>2 DEF Pass
  <2>4. Going(s)
    BY <1>1, <1>3 DEF Going, Room
  <2>5. CASE Ready(e.media, p)
    <3>1. Pass(s, p) = Packaged(s, e, p)
      BY <2>3, <2>5 DEF AtEntry
    <3> QED BY <2>4, <2>5, <3>1, EagerPackaged
  <2>6. CASE ~Ready(e.media, p)
    <3>1. Pass(s, p) = Stop(s)
      BY <2>3, <2>6 DEF AtEntry
    <3> QED BY <1>2, <3>1
  <2> QED BY <2>5, <2>6
<1>4. CASE ~(s.go /\ s.wall < Deadline /\ Room(s) > 0 /\ OnAirAt(s.wall) # {})
  <2>1. Pass(s, p) = Stop(s)
    BY <1>4 DEF Pass
  <2> QED BY <1>2, <2>1
<1> QED BY <1>3, <1>4

LEMMA ScheduleCount == SchedInv => Cardinality(schedule) \in Nat
BY FS_CardinalityType DEF SchedInv

LEMMA EagerRan ==
    ASSUME SchedInv, prefill = "eager", NEW p
    PROVE  EagerState(Ran(p), ReadyRows(p))
<1> DEFINE T == {s \in States : EagerState(s, ReadyRows(p))}
<1>1. Start \in T
  BY EagerStart DEF EagerState
<1>2. ASSUME NEW s \in T PROVE Pass(s, p) \in T
  <2>1. EagerState(Pass(s, p), ReadyRows(p))
    BY EagerPass
  <2> QED BY <2>1 DEF EagerState
<1> HIDE DEF T
<1>3. Ran(p) \in T
  BY <1>1, <1>2, ScheduleCount, RanKeeps
<1> QED BY <1>3 DEF T

-----------------------------------------------------------------------------
(* The encodings of an on-demand channel.                                  *)

\* What an encoding or a waiting request belongs to: an entry that was laid, as it
\* was then; its row, where there still is one, may have moved.
Belongs(e, S, n) ==
    /\ e \in Entry /\ Fits(e) /\ e.id \in 1..n
    /\ \A x \in S : x.id = e.id => Shape(x) = Shape(e)

Encoding == [id : Nat, of : Entry, from : Nat, base : Nat, first : Nat, count : Nat]

EncInv ==
    /\ ready \subseteq Media \X Profiles
    /\ encoded \in 0..MaxEncodings /\ extraDisc \in Nat
    /\ highWater \in [1..MaxEntries[prefill] -> Int]
    /\ \A i \in 1..MaxEntries[prefill] : highWater[i] >= -1
    /\ \A i \in DOMAIN encodings :
          /\ encodings[i] \in Encoding
          /\ encodings[i].first <= encodings[i].count /\ encodings[i].id <= encoded
          /\ encodings[i].base + encodings[i].count - 1 <= Larger(highWater[i], encodings[i].base - 1)
          /\ encodings[i].of.id = i /\ Belongs(encodings[i].of, schedule, laid)
          /\ encodings[i].of.offset <= encodings[i].from
    /\ \A w \in waiting : w.at \in 0..now /\ Belongs(w.entry, schedule, laid)

\* Rows that are laid have new ids, and those that move keep all but their start.
Kept(S, T, n) ==
    \A x \in T : x.id \notin 1..n \/ \E y \in S : y.id = x.id /\ Shape(y) = Shape(x)

LEMMA BelongsKept ==
    ASSUME NEW S, NEW T, NEW n \in Nat, NEW m \in Nat, n <= m, Kept(S, T, n), NEW e, Belongs(e, S, n)
    PROVE  Belongs(e, T, m)
<1>1. e.id \in 1..n /\ e.id \in 1..m
  BY DEF Belongs
<1>2. ASSUME NEW x \in T, x.id = e.id PROVE Shape(x) = Shape(e)
  <2>1. PICK y \in S : y.id = x.id /\ Shape(y) = Shape(x)
    BY <1>1, <1>2 DEF Kept
  <2> QED BY <1>2, <2>1 DEF Belongs
<1> QED BY <1>1, <1>2 DEF Belongs

LEMMA RowBelongs ==
    ASSUME SchedInv, NEW e \in schedule
    PROVE  Belongs(e, schedule, laid)
<1>1. \A x \in schedule : x.id = e.id => x = e
  BY GoodSchedule, StartsOrder
<1> QED BY <1>1 DEF Belongs, SchedInv

LEMMA ShapeParts ==
    ASSUME NEW x, NEW y, Shape(x) = Shape(y)
    PROVE  x.media = y.media /\ x.offset = y.offset /\ x.dur = y.dur /\ MediaEnd(x) = MediaEnd(y)
<1>1. Shape(x).media = Shape(y).media /\ Shape(x).offset = Shape(y).offset /\ Shape(x).dur = Shape(y).dur
  OBVIOUS
<1> QED BY <1>1 DEF Shape, MediaEnd

LEMMA FromBelongs ==
    ASSUME EncInv, NEW e \in schedule, e.id \in DOMAIN encodings
    PROVE  e.offset <= encodings[e.id].from
<1>1. PICK f : f = encodings[e.id].of
  OBVIOUS
<1>2. Shape(e) = Shape(f)
  BY <1>1 DEF EncInv, Belongs
<1>3. e.offset = f.offset
  BY <1>2, ShapeParts
<1> QED BY <1>1, <1>3 DEF EncInv

LEMMA TimesMono ==
    ASSUME NEW a \in Nat, NEW b \in Nat, NEW g \in Nat, a <= b
    PROVE  a * g \in Nat /\ b * g \in Nat /\ a * g <= b * g
<1>1. PICK c \in Nat : b = a + c
  <2>1. b - a \in Nat /\ b = a + (b - a)
    OBVIOUS
  <2> QED BY <2>1
<1>2. (a + c) * g = a * g + c * g /\ c * g \in Nat /\ a * g \in Nat
  OBVIOUS
<1> QED BY <1>1, <1>2

LEMMA EncodedIs ==
    ASSUME EncInv, NEW e
    PROVE  /\ Encoded(e) \subseteq Nat /\ IsFiniteSet(Encoded(e))
           /\ Encoded(e) # {} => e.id \in DOMAIN encodings
           /\ \A n \in Encoded(e) : n < encodings[e.id].count
           /\ \A j, k \in Encoded(e) : \A n \in Int : j <= n /\ n <= k => n \in Encoded(e)
<1>1. CASE e.id \in DOMAIN encodings
  <2>1. encodings[e.id].first \in Nat /\ encodings[e.id].count \in Nat
    BY <1>1 DEF EncInv, Encoding
  <2> DEFINE a == encodings[e.id].first
             b == encodings[e.id].count - 1
  <2>2. a \in Nat /\ b \in Int /\ Encoded(e) = a..b
    BY <1>1, <2>1 DEF Encoded
  <2>3. \A n \in Encoded(e) : n < encodings[e.id].count
    BY <2>1, <2>2
  <2> HIDE DEF a, b
  <2>4. IsFiniteSet(a..b)
    BY <2>2, FS_Interval
  <2> QED BY <1>1, <2>2, <2>3, <2>4
<1>2. CASE e.id \notin DOMAIN encodings
  BY <1>2, FS_EmptySet DEF Encoded
<1> QED BY <1>1, <1>2

LEMMA EncPositions ==
    ASSUME SchedInv, EncInv, NEW e \in schedule, NEW n \in Encoded(e)
    PROVE  /\ EncStart(e, n) \in Nat /\ EncEnd(e, n) \in Nat
           /\ e.offset <= EncEnd(e, n) /\ EncEnd(e, n) <= MediaEnd(e)
           /\ \A k \in Encoded(e) : n <= k => EncStart(e, n) <= EncStart(e, k) /\ EncEnd(e, n) <= EncEnd(e, k)
<1>1. /\ e.id \in DOMAIN encodings /\ encodings[e.id] \in Encoding
      /\ e.offset <= encodings[e.id].from
      /\ e.offset \in Nat /\ e.dur \in Nat /\ MediaEnd(e) = e.offset + e.dur
  BY EncodedIs, EntryFields, FromBelongs DEF EncInv, SchedInv
<1> DEFINE f == encodings[e.id].from
<1>2. f \in Nat /\ Grid \in Nat /\ Encoded(e) \subseteq Nat
  BY <1>1, Bounds, EncodedIs DEF Encoding
<1> HIDE DEF f
<1>3. ASSUME NEW k \in Encoded(e)
      PROVE  /\ k * Grid \in Nat /\ (k + 1) * Grid \in Nat
             /\ EncStart(e, k) = f + k * Grid
             /\ EncEnd(e, k) = IF f + (k + 1) * Grid < MediaEnd(e) THEN f + (k + 1) * Grid ELSE MediaEnd(e)
  <2>1. k \in Nat /\ k + 1 \in Nat
    BY <1>2
  <2>2. k * Grid \in Nat /\ (k + 1) * Grid \in Nat
    BY <1>2, <2>1, TimesMono
  <2> QED BY <2>2 DEF EncStart, EncEnd, Smaller, f
<1>4. ASSUME NEW k \in Encoded(e), n <= k
      PROVE  n * Grid <= k * Grid /\ (n + 1) * Grid <= (k + 1) * Grid
  <2>1. n \in Nat /\ k \in Nat /\ n + 1 \in Nat /\ k + 1 \in Nat /\ n + 1 <= k + 1
    BY <1>2, <1>4
  <2> QED BY <1>2, <1>4, <2>1, TimesMono
<1>5. EncStart(e, n) \in Nat /\ EncEnd(e, n) \in Nat
      /\ e.offset <= EncEnd(e, n) /\ EncEnd(e, n) <= MediaEnd(e)
  BY <1>1, <1>2, <1>3 DEF f
<1>6. ASSUME NEW k \in Encoded(e), n <= k
      PROVE EncStart(e, n) <= EncStart(e, k) /\ EncEnd(e, n) <= EncEnd(e, k)
  <2> DEFINE a == n * Grid
             b == (n + 1) * Grid
             c == k * Grid
             d == (k + 1) * Grid
  <2>1. a \in Nat /\ b \in Nat /\ c \in Nat /\ d \in Nat /\ a <= c /\ b <= d
    BY <1>3, <1>4, <1>6
  <2>2. /\ EncStart(e, n) = f + a /\ EncStart(e, k) = f + c
        /\ EncEnd(e, n) = IF f + b < MediaEnd(e) THEN f + b ELSE MediaEnd(e)
        /\ EncEnd(e, k) = IF f + d < MediaEnd(e) THEN f + d ELSE MediaEnd(e)
    BY <1>3
  <2> HIDE DEF a, b, c, d
  <2>3. MediaEnd(e) \in Nat
    BY <1>1
  <2> QED BY <1>2, <2>1, <2>2, <2>3
<1> QED BY <1>5, <1>6

\* What a request is served is a run of the encoding's segments.
Run(S) == \A j, k \in S : \A n \in Int : j <= n /\ n <= k => n \in S

LEMMA ServedIs ==
    ASSUME SchedInv, EncInv, NEW e \in schedule, NEW wall \in Nat, NEW room \in Nat, room > 0
    PROVE  Served(e, wall, room) \subseteq Encoded(e) /\ Run(Served(e, wall, room))
<1> DEFINE pos == ServePosition(e, wall)
           ahead == {n \in Encoded(e) : EncEnd(e, n) > pos}
<1>1. pos \in Int
  <2>1. e.start \in Nat /\ e.offset \in Nat /\ Lag \in Nat /\ Warmup \in Nat
    BY EntryFields, Bounds DEF SchedInv
  <2> QED BY <2>1 DEF ServePosition, PlaybackWall, Larger
<1>2. Encoded(e) \subseteq Nat /\ Run(Encoded(e))
  BY EncodedIs DEF Run
<1> HIDE DEF pos
<1>3. ASSUME NEW j \in ahead, NEW n \in Encoded(e), j <= n PROVE n \in ahead
  <2>1. EncEnd(e, j) <= EncEnd(e, n) /\ EncEnd(e, j) \in Nat /\ EncEnd(e, n) \in Nat
    BY <1>3, EncPositions
  <2> QED BY <1>1, <2>1
<1>4. SegmentsFrom(e, pos, room) \subseteq Encoded(e) /\ Run(SegmentsFrom(e, pos, room))
  <2>1. SegmentsFrom(e, pos, room) = {n \in ahead : n < Least(ahead) + room}
    BY DEF SegmentsFrom
  <2>2. CASE ahead = {}
    <3>1. SegmentsFrom(e, pos, room) = {}
      BY <2>1, <2>2
    <3> QED BY <3>1 DEF Run
  <2>3. CASE ahead # {}
    <3>1. ahead \subseteq Encoded(e) /\ ahead \subseteq Nat
      BY <1>2
    <3> HIDE DEF ahead
    <3>2. Least(ahead) \in Nat
      BY <2>3, <3>1, LeastIs
    <3> DEFINE l == Least(ahead)
    <3> HIDE DEF l
    <3>3. l \in Nat
      BY <3>2 DEF l
    <3>4. ASSUME NEW j \in ahead, NEW k \in ahead, k < l + room, NEW n \in Int, j <= n, n <= k
          PROVE  n \in ahead /\ n < l + room
      <4>1. n \in Encoded(e)
        BY <1>2, <3>1, <3>4 DEF Run
      <4>2. n \in ahead
        BY <1>3, <3>4, <4>1
      <4>3. k \in Nat
        BY <3>1
      <4> QED BY <3>3, <3>4, <4>2, <4>3
    <3>5. SegmentsFrom(e, pos, room) = {n \in ahead : n < l + room}
      BY <2>1 DEF l
    <3> QED BY <3>1, <3>4, <3>5 DEF Run
  <2> QED BY <2>2, <2>3
<1>5. LatestSegments(e, room) \subseteq Encoded(e) /\ Run(LatestSegments(e, room))
  <2>1. CASE Encoded(e) = {}
    BY <2>1 DEF LatestSegments, Run
  <2>2. CASE Encoded(e) # {}
    <3> DEFINE c == encodings[e.id].count - room
    <3>1. c \in Int
      BY <2>2, EncodedIs DEF EncInv, Encoding
    <3>2. LatestSegments(e, room) = {n \in Encoded(e) : n >= c}
      BY DEF LatestSegments
    <3> HIDE DEF c
    <3> QED BY <1>2, <3>1, <3>2 DEF Run
  <2> QED BY <2>1, <2>2
<1>6. Served(e, wall, room) =
        IF SegmentsFrom(e, pos, room) # {} THEN SegmentsFrom(e, pos, room) ELSE LatestSegments(e, room)
  BY DEF Served, pos
<1> QED BY <1>4, <1>5, <1>6

LEMMA InTimeIs ==
    ASSUME SchedInv, EncInv, NEW e \in schedule, NEW wall \in Nat, wall < Deadline,
           NEW S, S \subseteq Encoded(e), Run(S)
    PROVE  /\ InTime(e, wall, S) \subseteq Encoded(e) /\ Run(InTime(e, wall, S))
           /\ S # {} => InTime(e, wall, S) # {}
<1> DEFINE T == InTime(e, wall, S)
<1>1. T \subseteq S
  BY DEF InTime
<1>2. S \subseteq Nat
  BY EncodedIs
<1>3. CASE S = {}
  BY <1>1, <1>3 DEF Run
<1>4. CASE S # {}
  <2> DEFINE l == Least(S)
  <2>1. l \in S /\ \A n \in S : l <= n
    BY <1>2, <1>4, LeastIs
  <2>2. T = {n \in S : IF n = l THEN wall < Deadline ELSE e.start + EncStart(e, n) - e.offset < Deadline}
    BY DEF InTime
  <2> HIDE DEF l, T
  <2>3. l \in T
    BY <2>1, <2>2
  <2>4. ASSUME NEW k \in T, NEW n \in S, n <= k PROVE n \in T
    <3>1. CASE n = l
      BY <2>3, <3>1
    <3>2. CASE n # l
      <4>1. k # l
        BY <1>2, <2>1, <2>2, <2>4, <3>2
      <4>2. e.start + EncStart(e, k) - e.offset < Deadline
        BY <2>2, <4>1
      <4>3. EncStart(e, n) <= EncStart(e, k) /\ EncStart(e, n) \in Nat /\ EncStart(e, k) \in Nat
        BY <1>1, <2>4, EncPositions
      <4>4. e.start \in Nat /\ e.offset \in Nat /\ Deadline \in Nat
        BY EntryFields, Bounds DEF SchedInv, Deadline
      <4>5. e.start + EncStart(e, n) - e.offset < Deadline
        BY <4>2, <4>3, <4>4
      <4> QED BY <2>2, <3>2, <4>5
    <3> QED BY <3>1, <3>2
  <2>5. Run(T)
    BY <1>1, <2>4 DEF Run
  <2> QED BY <1>1, <2>3, <2>5 DEF T
<1> QED BY <1>3, <1>4 DEF T

LEMMA RunIs ==
    ASSUME NEW S, S \subseteq Nat, IsFiniteSet(S), S # {}, Run(S)
    PROVE  /\ Least(S) \in S /\ Most(S) \in S /\ Least(S) <= Most(S) /\ S = Least(S)..Most(S)
           /\ Cardinality(S) = Most(S) - Least(S) + 1
<1> DEFINE l == Least(S)
           h == Most(S)
<1>1. l \in S /\ \A n \in S : l <= n
  BY LeastIs
<1>2. h \in S /\ \A n \in S : n <= h
  <2>1. S \subseteq Int
    OBVIOUS
  <2> QED BY <2>1, MostIs
<1> HIDE DEF l, h
<1>3. l \in Nat /\ h \in Nat /\ l <= h
  BY <1>1, <1>2
<1>4. S = l..h
  <2>1. ASSUME NEW n \in S PROVE n \in l..h
    BY <1>1, <1>2, <1>3
  <2>2. ASSUME NEW n \in l..h PROVE n \in S
    BY <1>1, <1>2, <1>3 DEF Run
  <2> QED BY <2>1, <2>2
<1>5. Cardinality(l..h) = IF l > h THEN 0 ELSE h - l + 1
  BY <1>3, FS_Interval
<1>6. Cardinality(S) = h - l + 1
  BY <1>3, <1>4, <1>5
<1> QED BY <1>1, <1>2, <1>3, <1>4, <1>6 DEF l, h

-----------------------------------------------------------------------------
(* The loop on an on-demand channel.                                       *)

ByPackage(x) == x.source[1] = "package"
ByEncoding(x) == x.source[1] = "encoding"
IsEncoded(x) == \E e \in schedule : \E n \in Encoded(e) : x = EncodingItem(e, n)
OfEntry(x) == \E e \in schedule : x.entry = e.id

AtEncodingEnd(s) ==
    \E e \in schedule : \E n \in Encoded(e) :
        s.list[Len(s.list)] = EncodingItem(e, n) /\ s.wall = EndOf(e)

DemandState(s) ==
    /\ s \in States
    /\ s.go => now <= s.wall
    /\ \A k \in 1..Len(s.list) : IsEncoded(s.list[k]) \/ (ByPackage(s.list[k]) /\ OfEntry(s.list[k]))
    /\ (\A k \in 1..Len(s.list) : ByEncoding(s.list[k])) =>
          /\ Linked(s.list)
          /\ s.list # <<>> /\ s.go => AtEncodingEnd(s)

LEMMA EncodingItemType ==
    ASSUME SchedInv, EncInv, NEW e \in schedule, NEW n \in Encoded(e)
    PROVE  /\ EncodingItem(e, n) \in Item /\ ByEncoding(EncodingItem(e, n))
           /\ EncodingItem(e, n).number \in Nat /\ EncodingItem(e, n).entry = e.id
           /\ e.id \in DOMAIN encodings
<1>1. e.id \in DOMAIN encodings /\ n \in Nat /\ encodings[e.id] \in Encoding
  BY EncodedIs DEF EncInv
<1>2. encodings[e.id].base \in Nat /\ encodings[e.id].id \in Nat
  BY <1>1 DEF Encoding
<1>3. e.id \in Nat
  BY EntryFields DEF SchedInv
<1>4. Cardinality(Earlier(e)) + extraDisc \in Nat
  <2>1. Earlier(e) \in SUBSET schedule /\ IsFiniteSet(schedule)
    BY DEF Earlier, SchedInv
  <2>2. Cardinality(Earlier(e)) \in Nat
    BY <2>1, FS_Subset, FS_CardinalityType
  <2>3. extraDisc \in Nat
    BY DEF EncInv
  <2> QED BY <2>2, <2>3
<1>5. <<"encoding", e.id, encodings[e.id].id>> \in Sources
  BY <1>2, <1>3 DEF Sources
<1>6. encodings[e.id].base + n \in Nat
  BY <1>1, <1>2
<1>7. EncodingItem(e, n) \in Item
  BY <1>1, <1>3, <1>4, <1>5, <1>6 DEF EncodingItem, Item, OnDemandDiscontinuities
<1> QED BY <1>1, <1>6, <1>7 DEF EncodingItem, ByEncoding

LEMMA OnDemandNumberInt ==
    ASSUME SchedInv, NEW e \in schedule, NEW first \in InEntry(e), NEW n \in InEntry(e), first <= n
    PROVE  OnDemandNumber(e, first, n) \in Int
<1> DEFINE f == [j \in first..n |-> GridNumber(e, SegStart(e.media, j)) + (n - j)]
           T == {GridNumber(e, SegStart(e.media, j)) + (n - j) : j \in first..n}
<1>1. /\ e \in Entry /\ Fits(e) /\ e.start \in Nat /\ e.offset \in Nat /\ Grid \in Nat \ {0}
  BY EntryFields, Bounds DEF SchedInv
<1>2. first \in Nat /\ n \in Nat
  BY <1>1, InEntryFacts, EntryFields, SegmentFacts
<1>3. ASSUME NEW j \in first..n PROVE GridNumber(e, SegStart(e.media, j)) + (n - j) \in Int
  <2>1. j \in InEntry(e)
    BY <1>1, <1>2, InEntryFacts
  <2>2. SegStart(e.media, j) \in Nat
    BY <1>1, <2>1, InEntryFacts, EntryFields, SegmentFacts
  <2> DEFINE v == SegStart(e.media, j) - e.offset
             h == Grid \div 2
  <2>3. v \in Int /\ h \in Int
    BY <1>1, <2>2
  <2> HIDE DEF v, h
  <2>4. DivRound(v, Grid) \in Int
    <3>1. (v + h) \div Grid \in Int /\ (h - v) \div Grid \in Int
      BY <1>1, <2>3
    <3>2. -((h - v) \div Grid) \in Int
      BY <3>1
    <3> QED BY <3>1, <3>2 DEF DivRound, h
  <2>5. e.start \div Grid \in Int
    BY <1>1
  <2>6. GridNumber(e, SegStart(e.media, j)) \in Int
    BY <2>4, <2>5 DEF GridNumber, v
  <2> QED BY <1>2, <2>6
<1>4. T \subseteq Int /\ T # {}
  <2>1. first \in first..n
    BY <1>2
  <2> QED BY <1>3, <2>1
<1>5. IsFiniteSet(T)
  <2>1. f \in Surjection(first..n, T)
    <3>1. f \in [first..n -> T] /\ \A y \in T : \E x \in first..n : f[x] = y
      OBVIOUS
    <3> QED BY <3>1, Zenon DEF Surjection
  <2>2. IsFiniteSet(first..n)
    BY <1>2, FS_Interval
  <2> QED BY <2>1, <2>2, FS_Surjection
<1>6. OnDemandNumber(e, first, n) = Most(T)
  BY DEF OnDemandNumber
<1> HIDE DEF T
<1> QED BY <1>4, <1>5, <1>6, MostIs

LEMMA PackagedItemType ==
    ASSUME SchedInv, EncInv, prefill = "on_demand", NEW p, NEW e \in schedule,
           NEW first \in InEntry(e), NEW n \in InEntry(e), first <= n
    PROVE  /\ PackagedItem(e, p, first, n) \in Item /\ ByPackage(PackagedItem(e, p, first, n))
           /\ PackagedItem(e, p, first, n).entry = e.id
<1>1. e.id \in Nat /\ e.media \in Media /\ n \in Nat
  BY EntryFields, InEntryFacts, SegmentFacts DEF SchedInv
<1>2. OnDemandNumber(e, first, n) \in Int
  BY OnDemandNumberInt
<1>3. OnDemandDiscontinuities(e) \in Int
  <2>1. Earlier(e) \in SUBSET schedule /\ IsFiniteSet(schedule)
    BY DEF Earlier, SchedInv
  <2>2. Cardinality(Earlier(e)) \in Nat
    BY <2>1, FS_Subset, FS_CardinalityType
  <2>3. extraDisc \in Nat
    BY DEF EncInv
  <2> QED BY <2>2, <2>3 DEF OnDemandDiscontinuities
<1>4. <<"package", e.id, e.media>> \in Sources
  BY <1>1 DEF Sources
<1>5. PackagedItem(e, p, first, n) =
        [entry |-> e.id, source |-> <<"package", e.id, e.media>>, segment |-> n,
          number |-> OnDemandNumber(e, first, n), disc |-> OnDemandDiscontinuities(e)]
  BY DEF PackagedItem
<1> QED BY <1>1, <1>2, <1>3, <1>4, <1>5 DEF Item, ByPackage

LEMMA DemandStart == SchedInv => DemandState(Start)
<1> SUFFICES ASSUME SchedInv PROVE DemandState(Start)
  OBVIOUS
<1>1. EagerState(Start, {})
  BY EagerStart
<1>2. Start.list = <<>> /\ Start.wall = now /\ Start \in States /\ Len(Start.list) = 0 /\ now \in Nat
  BY <1>1 DEF Start, EagerState, SchedInv
<1> QED BY <1>2 DEF DemandState, Linked

LEMMA DemandStop == ASSUME NEW s, DemandState(s) PROVE DemandState(Stop(s))
<1>1. s \in States
  BY DEF DemandState
<1>2. Stop(s) \in States /\ ~Stop(s).go /\ Stop(s).list = s.list
  BY <1>1, StateFields DEF Stop
<1> QED BY <1>2 DEF DemandState

LEMMA DemandPackaged ==
    ASSUME SchedInv, EncInv, prefill = "on_demand", NEW p, NEW s, DemandState(s), Going(s),
           NEW e \in OnAirAt(s.wall)
    PROVE  DemandState(Packaged(s, e, p)) /\ Packaged(s, e, p).list # <<>>
<1> DEFINE first == FirstFrom(e, s.wall)
           last == LastFrom(s, e)
           n == last - first + 1
           b == [k \in 1..n |-> PackagedItem(e, p, first, first + k - 1)]
           list == s.list \o b
           wall == WallAfter(e, last)
           t == [list |-> list, wall |-> wall, go |-> TRUE]
<1>1. s \in States /\ s.wall \in Nat /\ s.list \in Seq(Item) /\ Len(s.list) \in Nat
      /\ now <= s.wall /\ s.wall < Deadline /\ Len(s.list) < Limit /\ now \in Nat /\ Limit \in Nat
  BY StateFields, Bounds DEF DemandState, Going, SchedInv
<1>2. e \in schedule /\ e \in Entry /\ Fits(e)
  BY <1>1, OnAirIs
<1>3. /\ Packaged(s, e, p) = t
      /\ first \in InEntry(e) /\ last \in InEntry(e) /\ first <= last
      /\ s.wall < wall /\ wall \in Nat
  BY <1>1, PackagedIs
<1>4. /\ InEntry(e) \subseteq Nat
      /\ \A j, k \in InEntry(e) : \A i \in Int : j <= i /\ i <= k => i \in InEntry(e)
  BY <1>2, InEntryFacts, EntryFields, SegmentFacts
<1> HIDE DEF first, last, wall
<1>5. n \in Nat /\ n >= 1 /\ first \in Nat /\ last \in Nat
  BY <1>3, <1>4
<1>6. ASSUME NEW k \in 1..n PROVE first + k - 1 \in InEntry(e) /\ first <= first + k - 1
  <2>1. first + k - 1 \in Int /\ first <= first + k - 1 /\ first + k - 1 <= last
    BY <1>5
  <2> QED BY <1>3, <1>4, <2>1
<1>7. /\ b \in [1..n -> Item]
      /\ \A k \in 1..n : ByPackage(b[k]) /\ OfEntry(b[k])
  <2>1. \A k \in 1..n : /\ PackagedItem(e, p, first, first + k - 1) \in Item
                        /\ ByPackage(PackagedItem(e, p, first, first + k - 1))
                        /\ PackagedItem(e, p, first, first + k - 1).entry = e.id
    BY <1>2, <1>3, <1>6, PackagedItemType
  <2> HIDE DEF n
  <2> QED BY <1>2, <2>1 DEF OfEntry
<1> HIDE DEF b
<1>8. /\ list \in Seq(Item) /\ Len(list) = Len(s.list) + n
      /\ \A k \in 1..Len(s.list) : list[k] = s.list[k]
      /\ \A k \in 1..n : list[Len(s.list) + k] = b[k] /\ Len(s.list) + k \in 1..Len(list)
      /\ \A k \in 1..Len(list) : k \in 1..Len(s.list) \/ k - Len(s.list) \in 1..n
  <2> HIDE DEF n
  <2>1. b \in [1..n -> Item] /\ n \in Nat
    BY <1>5, <1>7
  <2>2. /\ list \in Seq(Item) /\ Len(list) = Len(s.list) + n
        /\ \A k \in 1..Len(s.list) : list[k] = s.list[k]
        /\ \A k \in 1..Len(list) : k \in 1..Len(s.list) \/ k - Len(s.list) \in 1..n
    BY <1>1, <2>1, Appended
  <2>3. \A k \in 1..n : list[Len(s.list) + k] = b[k] /\ Len(s.list) + k \in 1..Len(list)
    BY <1>1, <2>1, Appended
  <2> QED BY <2>2, <2>3
<1> DEFINE L == Len(s.list)
<1>8a. L \in Nat /\ Len(list) \in Nat
  <2> HIDE DEF n
  <2>1. n \in Nat /\ L \in Nat /\ Len(list) = L + n
    BY <1>1, <1>5, <1>8
  <2> HIDE DEF L
  <2> QED BY <2>1
<1> HIDE DEF list
<1>9. t \in States /\ t.list = list /\ t.wall = wall
  BY <1>3, <1>8, SMT DEF States
<1>10. ASSUME NEW k \in 1..Len(list)
       PROVE  IsEncoded(list[k]) \/ (ByPackage(list[k]) /\ OfEntry(list[k]))
  <2>1. CASE k \in 1..L
    BY <1>8, <2>1 DEF DemandState
  <2>2. CASE k - L \in 1..n
    <3>1. L + (k - L) = k
      BY <1>8a
    <3>2. list[k] = b[k - L]
      BY <1>8, <2>2, <3>1
    <3> QED BY <1>7, <2>2, <3>2
  <2> QED BY <1>8, <2>1, <2>2
<1>11. ~\A k \in 1..Len(list) : ByEncoding(list[k])
  <2>1. 1 \in 1..n
    BY <1>5
  <2> HIDE DEF n
  <2>2. ByPackage(list[L + 1]) /\ L + 1 \in 1..Len(list)
    BY <1>7, <1>8, <2>1
  <2> QED BY <2>2 DEF ByPackage, ByEncoding
<1>12. now <= wall
  BY <1>1, <1>3
<1>12a. list # <<>>
  <2>1. 1 \in 1..n
    BY <1>5
  <2> HIDE DEF n
  <2>2. L + 1 \in 1..Len(list)
    BY <1>8, <2>1
  <2>3. Len(list) # 0
    BY <1>8a, <2>2
  <2> QED BY <2>3
<1> HIDE DEF t, n
<1>13. DemandState(t)
  BY <1>9, <1>10, <1>11, <1>12 DEF DemandState
<1> QED BY <1>3, <1>9, <1>12a, <1>13

\* An entry that is on the air where another ends is the next.
LEMMA NextAtEnd ==
    ASSUME SchedInv, NEW d \in schedule, NEW e \in OnAirAt(EndOf(d))
    PROVE  /\ Next2(d, e) /\ d.id # e.id
           /\ Cardinality(Earlier(e)) = Cardinality(Earlier(d)) + 1
           /\ Cardinality(Earlier(d)) \in Nat
<1>1. /\ d \in Entry /\ Fits(d) /\ EndOf(d) \in Nat /\ d.start \in Nat /\ d.dur \in Nat /\ d.dur > 0
      /\ EndOf(d) = d.start + d.dur
  BY EntryFields DEF SchedInv, Fits
<1>2. /\ e \in schedule /\ e \in Entry /\ Fits(e) /\ e.start <= EndOf(d) /\ EndOf(d) < EndOf(e)
      /\ e.start \in Nat /\ EndOf(e) \in Nat
  BY <1>1, OnAirIs, EntryFields
<1>3. Good(schedule)
  BY GoodSchedule
<1>4. Before(d, e)
  <2>1. d # e
    BY <1>1, <1>2
  <2>2. ~Before(e, d)
    BY <1>1, <1>2 DEF Before
  <2> QED BY <1>2, <2>1, <2>2 DEF SchedInv, Chained
<1>5. ASSUME NEW x \in schedule, Before(d, x), Before(x, e) PROVE FALSE
  <2>1. x.start \in Nat /\ x.dur \in Nat /\ x.dur > 0 /\ EndOf(x) = x.start + x.dur
    BY EntryFields DEF SchedInv, Fits
  <2> QED BY <1>1, <1>2, <1>5, <2>1 DEF Before
<1>6. Next2(d, e)
  BY <1>4, <1>5 DEF Next2
<1>8. Below(e, schedule) = Below(d, schedule) \cup {d}
  BY <1>2, <1>3, <1>6, BelowNext
<1>9. Below(e, schedule) = Earlier(e) /\ Below(d, schedule) = Earlier(d)
  BY DEF Below, Earlier
<1>10. d \notin Earlier(d)
  BY <1>1 DEF Earlier
<1>11. IsFiniteSet(Earlier(d))
  <2>1. Earlier(d) \in SUBSET schedule /\ IsFiniteSet(schedule)
    BY DEF Earlier, SchedInv
  <2> QED BY <2>1, FS_Subset
<1>12. Cardinality(Earlier(d) \cup {d}) = Cardinality(Earlier(d)) + 1 /\ Cardinality(Earlier(d)) \in Nat
  BY <1>10, <1>11, FS_AddElement, FS_CardinalityType
<1>13. d.id # e.id
  BY <1>2, <1>3, <1>4, StartsOrder
<1> QED BY <1>6, <1>8, <1>9, <1>12, <1>13

LEMMA EncodingWithin ==
    ASSUME SchedInv, EncInv, NEW e \in schedule, NEW n \in Encoded(e), NEW k \in Encoded(e), k = n + 1
    PROVE  Follows(EncodingItem(e, n), EncodingItem(e, k))
<1>1. encodings[e.id].base \in Nat /\ n \in Nat
  BY EncodedIs DEF EncInv, Encoding
<1>2. EncodingItem(e, n).disc \in Int
  BY EncodingItemType DEF Item
<1>3. OnDemandDiscontinuities(e) \in Int
  BY <1>2 DEF EncodingItem
<1>4. encodings[e.id].base + k = encodings[e.id].base + n + 1
  BY <1>1
<1> QED BY <1>3, <1>4 DEF EncodingItem, Follows

LEMMA EncodingAcross ==
    ASSUME SchedInv, EncInv, NEW d \in schedule, NEW m \in Encoded(d), NEW e \in OnAirAt(EndOf(d)),
           NEW n \in Encoded(e), EncodingItem(d, m).number + 1 = EncodingItem(e, n).number
    PROVE  Follows(EncodingItem(d, m), EncodingItem(e, n))
<1>1. /\ d.id # e.id /\ Cardinality(Earlier(e)) = Cardinality(Earlier(d)) + 1
      /\ Cardinality(Earlier(d)) \in Nat
  BY NextAtEnd
<1>2. extraDisc \in Nat
  BY DEF EncInv
<1>3. OnDemandDiscontinuities(e) = OnDemandDiscontinuities(d) + 1
  BY <1>1, <1>2 DEF OnDemandDiscontinuities
<1>4. EncodingItem(e, n).source # EncodingItem(d, m).source
  BY <1>1 DEF EncodingItem
<1>5. EncodingItem(e, n).disc = EncodingItem(d, m).disc + 1
  BY <1>3 DEF EncodingItem
<1> QED BY <1>4, <1>5 DEF Follows

LEMMA DemandEncoded ==
    ASSUME SchedInv, EncInv, NEW s, DemandState(s), Going(s),
           NEW e \in OnAirAt(s.wall), NEW S, S \subseteq Encoded(e), Run(S), S # {}
    PROVE  /\ DemandState(AppendEncoded(s, e, S)) /\ AppendEncoded(s, e, S).list # <<>>
           /\ \E pre \in {<<>>, s.list}, m \in Nat : \E b \in [1..m -> Item] :
                 /\ AppendEncoded(s, e, S).list = pre \o b
                 /\ \A k \in 1..m : ByEncoding(b[k])
           /\ AppendEncoded(s, e, S).go => AppendEncoded(s, e, S).wall = EndOf(e)
<1> DEFINE l == Least(S)
           h == Most(S)
           n == Cardinality(S)
           items == [k \in 1..n |-> EncodingItem(e, l + k - 1)]
           pre == Following(s, items[1])
           list == pre \o items
           wall == e.start + EncEnd(e, h) - e.offset
           t == [list |-> list, wall |-> wall, go |-> wall >= EndOf(e)]
<1>1. s \in States /\ s.wall \in Nat /\ s.list \in Seq(Item) /\ Len(s.list) \in Nat
      /\ s.go /\ now <= s.wall /\ now \in Nat
  BY StateFields DEF DemandState, Going, SchedInv
<1>2. /\ e \in schedule /\ e \in Entry /\ s.wall < EndOf(e) /\ EndOf(e) \in Nat
      /\ e.start \in Nat /\ e.offset \in Nat
      /\ EndOf(e) = e.start + e.dur /\ e.dur \in Nat /\ MediaEnd(e) = e.offset + e.dur
  BY <1>1, OnAirIs, EntryFields
<1>3. /\ l \in S /\ h \in S /\ l <= h /\ S = l..h /\ n = h - l + 1
      /\ l \in Nat /\ h \in Nat
  <2>1. S \in SUBSET Encoded(e) /\ S \subseteq Nat /\ IsFiniteSet(Encoded(e))
    BY EncodedIs
  <2>2. IsFiniteSet(S)
    BY <2>1, FS_Subset
  <2>3. Least(S) \in S /\ Most(S) \in S /\ Least(S) <= Most(S) /\ S = Least(S)..Most(S)
           /\ Cardinality(S) = Most(S) - Least(S) + 1
    BY <2>1, <2>2, RunIs
  <2> QED BY <2>1, <2>3
<1>4. AppendEncoded(s, e, S) = t
  BY Zenon DEF AppendEncoded
<1> HIDE DEF l, h, n
<1>5. n \in Nat /\ n >= 1 /\ 1 \in 1..n /\ n \in 1..n /\ l + 1 - 1 = l /\ l + n - 1 = h
  BY <1>3
<1>6. ASSUME NEW k \in 1..n PROVE l + k - 1 \in S /\ l + k - 1 \in Encoded(e)
  <2>1. l + k - 1 \in l..h
    BY <1>3
  <2> QED BY <1>3, <2>1
<1>7. /\ items \in [1..n -> Item]
      /\ \A k \in 1..n : items[k] = EncodingItem(e, l + k - 1) /\ IsEncoded(items[k]) /\ ByEncoding(items[k])
  <2>1. \A k \in 1..n : /\ EncodingItem(e, l + k - 1) \in Item
                        /\ ByEncoding(EncodingItem(e, l + k - 1))
    BY <1>2, <1>6, EncodingItemType
  <2> QED BY <1>2, <1>6, <2>1 DEF IsEncoded
<1>8. \/ pre = <<>>
      \/ pre = s.list /\ s.list # <<>> /\ s.list[Len(s.list)].number + 1 = items[1].number
  BY DEF Following, Last
<1> HIDE DEF items, pre
<1>9. pre \in Seq(Item) /\ Len(pre) \in Nat /\ (pre = <<>> <=> Len(pre) = 0)
  <2>1. <<>> \in Seq(Item) /\ Len(<<>>) = 0
    OBVIOUS
  <2>2. pre \in Seq(Item)
    BY <1>1, <1>8, <2>1
  <2> QED BY <2>2
<1>10. /\ list \in Seq(Item) /\ Len(list) = Len(pre) + n
       /\ \A k \in 1..Len(pre) : list[k] = pre[k]
       /\ \A k \in 1..Len(list) : k \in 1..Len(pre) \/ k - Len(pre) \in 1..n
  BY <1>5, <1>7, <1>9, Appended
<1>11. \A k \in 1..n : list[Len(pre) + k] = items[k] /\ Len(pre) + k \in 1..Len(list)
  BY <1>5, <1>7, <1>9, Appended
<1> HIDE DEF list
<1> DEFINE L == Len(pre)
<1>12. L \in Nat /\ Len(list) \in Nat /\ Len(list) = L + n /\ list # <<>>
  BY <1>5, <1>9, <1>10
<1>13. wall \in Nat /\ wall <= EndOf(e)
  <2> DEFINE y == EncEnd(e, h)
  <2>1. y \in Nat /\ e.offset <= y /\ y <= MediaEnd(e)
    BY <1>2, <1>3, EncPositions
  <2> HIDE DEF y
  <2>2. wall = e.start + y - e.offset
    BY DEF y
  <2> HIDE DEF wall
  <2> QED BY <1>2, <2>1, <2>2
<1> HIDE DEF wall
<1>14. t \in States /\ t.list = list /\ t.wall = wall /\ (t.go => wall = EndOf(e))
  <2>1. CASE wall >= EndOf(e)
    <3>1. (wall >= EndOf(e)) = TRUE
      BY <2>1
    <3>2. t = [list |-> list, wall |-> wall, go |-> TRUE]
      BY <3>1, Zenon
    <3>3. [list |-> list, wall |-> wall, go |-> TRUE] \in States
      BY <1>10, <1>13, SMT DEF States
    <3>4. wall = EndOf(e)
      BY <1>2, <1>13, <2>1
    <3> HIDE DEF t
    <3> QED BY <3>2, <3>3, <3>4
  <2>2. CASE ~(wall >= EndOf(e))
    <3>1. (wall >= EndOf(e)) = FALSE
      BY <2>2
    <3>2. t = [list |-> list, wall |-> wall, go |-> FALSE]
      BY <3>1, Zenon
    <3>3. [list |-> list, wall |-> wall, go |-> FALSE] \in States
      BY <1>10, <1>13, SMT DEF States
    <3> HIDE DEF t
    <3> QED BY <3>2, <3>3
  <2> QED BY <2>1, <2>2
<1> HIDE DEF t
<1>15. t.go => now <= t.wall
  BY <1>1, <1>2, <1>14
<1>16. \A k \in 1..Len(list) : k \in 1..L \/ (k - L \in 1..n /\ list[k] = items[k - L])
  <2>1. \A k \in 1..Len(list) : L + (k - L) = k
    BY <1>12
  <2> QED BY <1>10, <1>11, <2>1
<1>17. ASSUME NEW k \in 1..Len(list)
       PROVE  IsEncoded(list[k]) \/ (ByPackage(list[k]) /\ OfEntry(list[k]))
  <2>1. CASE k \in 1..L
    <3>1. pre = s.list
      BY <1>8, <1>9, <1>12, <2>1
    <3> QED BY <1>10, <2>1, <3>1 DEF DemandState
  <2>2. CASE k - L \in 1..n /\ list[k] = items[k - L]
    BY <1>7, <2>2
  <2> QED BY <1>16, <2>1, <2>2
<1>18. ASSUME \A k \in 1..Len(list) : ByEncoding(list[k]) PROVE Linked(list)
  <2>1. SUFFICES ASSUME NEW k \in 2..Len(list) PROVE Follows(list[k - 1], list[k])
    BY DEF Linked
  <2>2. k \in 1..Len(list) /\ k - 1 \in 1..Len(list)
    BY <1>12
  <2>3. CASE k <= L + 1
    <3>1. L >= 1 /\ pre = s.list /\ s.list # <<>>
          /\ s.list[Len(s.list)].number + 1 = items[1].number
      BY <1>8, <1>9, <1>12, <2>2, <2>3
    <3>2. \A j \in 1..Len(s.list) : ByEncoding(s.list[j])
      <4>1. \A j \in 1..L : j \in 1..Len(list) /\ list[j] = s.list[j]
        BY <1>10, <1>12, <1>5, <3>1
      <4> QED BY <1>18, <3>1, <4>1
    <3>3. Linked(s.list) /\ AtEncodingEnd(s)
      BY <1>1, <3>1, <3>2 DEF DemandState
    <3>4. CASE k <= L
      <4>1. k \in 2..Len(s.list) /\ k \in 1..L /\ k - 1 \in 1..L
        BY <1>12, <2>2, <3>1, <3>4
      <4> QED BY <1>10, <3>1, <3>3, <4>1 DEF Linked
    <3>5. CASE k = L + 1
      <4>1. k - 1 = L /\ L \in 1..L
        BY <1>12, <3>1, <3>5
      <4>2. list[k] = items[1] /\ list[k - 1] = s.list[Len(s.list)]
        BY <1>5, <1>10, <1>11, <3>1, <3>5, <4>1
      <4>3. PICK d \in schedule : \E m \in Encoded(d) :
                s.list[Len(s.list)] = EncodingItem(d, m) /\ s.wall = EndOf(d)
        BY <3>3 DEF AtEncodingEnd
      <4>3a. PICK m \in Encoded(d) : s.list[Len(s.list)] = EncodingItem(d, m) /\ s.wall = EndOf(d)
        BY <4>3
      <4>4. items[1] = EncodingItem(e, l) /\ l \in Encoded(e)
        <5>1. items[1] = EncodingItem(e, l + 1 - 1) /\ l + 1 - 1 \in Encoded(e)
          BY <1>5, <1>6, <1>7
        <5> QED BY <1>5, <5>1
      <4>5. e \in OnAirAt(EndOf(d))
        BY <4>3a
      <4>6. EncodingItem(d, m).number + 1 = EncodingItem(e, l).number
        BY <3>1, <4>3a, <4>4
      <4>7. Follows(EncodingItem(d, m), EncodingItem(e, l))
        BY <4>4, <4>5, <4>6, EncodingAcross
      <4> QED BY <4>2, <4>3a, <4>4, <4>7
    <3> QED BY <1>12, <2>2, <2>3, <3>4, <3>5
  <2>4. CASE k > L + 1
    <3> DEFINE j == k - L
    <3>1. j \in 1..n /\ j - 1 \in 1..n /\ L + j = k /\ L + (j - 1) = k - 1
          /\ l + j - 1 = (l + (j - 1) - 1) + 1
      BY <1>3, <1>5, <1>12, <2>2, <2>4
    <3> HIDE DEF j
    <3>2. list[k] = items[j] /\ list[k - 1] = items[j - 1]
      <4>1. list[L + j] = items[j] /\ list[L + (j - 1)] = items[j - 1]
        BY <1>11, <3>1
      <4> QED BY <3>1, <4>1
    <3>3. list[k] = EncodingItem(e, l + j - 1) /\ list[k - 1] = EncodingItem(e, l + (j - 1) - 1)
      BY <1>7, <3>1, <3>2
    <3>4. l + j - 1 \in Encoded(e) /\ l + (j - 1) - 1 \in Encoded(e)
      BY <1>6, <3>1
    <3> QED BY <1>2, <3>1, <3>3, <3>4, EncodingWithin
  <2> QED BY <1>12, <2>2, <2>3, <2>4
<1>19. t.go => AtEncodingEnd(t)
  <2> SUFFICES ASSUME t.go PROVE AtEncodingEnd(t)
    OBVIOUS
  <2>1. list[Len(list)] = items[n] /\ items[n] = EncodingItem(e, l + n - 1) /\ l + n - 1 \in Encoded(e)
    BY <1>5, <1>6, <1>7, <1>11, <1>12
  <2>2. t.list[Len(t.list)] = EncodingItem(e, h) /\ h \in Encoded(e) /\ t.wall = EndOf(e)
    BY <1>5, <1>14, <2>1
  <2> QED BY <1>2, <2>2 DEF AtEncodingEnd
<1>20. DemandState(t)
  BY <1>14, <1>15, <1>17, <1>18, <1>19 DEF DemandState
<1>21. \E q \in {<<>>, s.list}, m \in Nat : \E b \in [1..m -> Item] :
         list = q \o b /\ \A k \in 1..m : ByEncoding(b[k])
  <2>1. pre \in {<<>>, s.list} /\ n \in Nat /\ items \in [1..n -> Item]
        /\ list = pre \o items /\ \A k \in 1..n : ByEncoding(items[k])
    BY <1>5, <1>7, <1>8 DEF list
  <2> QED BY <2>1
<1> QED BY <1>4, <1>12, <1>14, <1>20, <1>21

LEMMA DemandPass ==
    ASSUME SchedInv, EncInv, prefill = "on_demand", NEW p, NEW s, DemandState(s)
    PROVE  DemandState(Pass(s, p)) /\ (s.list # <<>> => Pass(s, p).list # <<>>)
<1>1. s.wall \in Nat /\ Len(s.list) \in Nat /\ Limit \in Nat
  BY StateFields, Bounds DEF DemandState
<1>2. DemandState(Stop(s)) /\ Stop(s).list = s.list
  BY DemandStop DEF Stop
<1>3. CASE s.go /\ s.wall < Deadline /\ Room(s) > 0 /\ OnAirAt(s.wall) # {}
  <2>1. PICK e \in OnAirAt(s.wall) : TRUE
    BY <1>3
  <2>2. (CHOOSE x \in OnAirAt(s.wall) : TRUE) = e /\ e \in schedule
    BY <1>1, OnAirIs
  <2>3. Pass(s, p) = AtEntry(s, e, p)
    BY <1>3, <2>2 DEF Pass
  <2>4. Going(s) /\ Room(s) \in Nat
    BY <1>1, <1>3 DEF Going, Room
  <2>5. CASE Ready(e.media, p)
    <3>1. Pass(s, p) = Packaged(s, e, p)
      BY <2>3, <2>5 DEF AtEntry
    <3> QED BY <2>4, <3>1, DemandPackaged
  <2>6. CASE ~Ready(e.media, p)
    <3> DEFINE S == InTime(e, s.wall, Served(e, s.wall, Room(s)))
    <3>1. Pass(s, p) = OnDemand(s, e)
      BY <2>3, <2>6 DEF AtEntry
    <3>2. S \subseteq Encoded(e) /\ Run(S)
      BY <1>1, <1>3, <2>2, <2>4, ServedIs, InTimeIs
    <3>3. OnDemand(s, e) = IF S # {} THEN AppendEncoded(s, e, S) ELSE Stop(s)
      BY DEF OnDemand
    <3> HIDE DEF S
    <3> QED BY <1>2, <2>4, <3>1, <3>2, <3>3, DemandEncoded
  <2> QED BY <2>5, <2>6
<1>4. CASE ~(s.go /\ s.wall < Deadline /\ Room(s) > 0 /\ OnAirAt(s.wall) # {})
  <2>1. Pass(s, p) = Stop(s)
    BY <1>4 DEF Pass
  <2> QED BY <1>2, <2>1
<1> QED BY <1>3, <1>4

LEMMA DemandRan ==
    ASSUME SchedInv, EncInv, prefill = "on_demand", NEW p
    PROVE  DemandState(Ran(p))
<1> DEFINE T == {s \in States : DemandState(s)}
<1>1. Start \in T
  BY DemandStart DEF DemandState
<1>2. ASSUME NEW s \in T PROVE Pass(s, p) \in T
  <2>1. DemandState(Pass(s, p))
    BY DemandPass
  <2> QED BY <2>1 DEF DemandState
<1> HIDE DEF T
<1>3. Ran(p) \in T
  BY <1>1, <1>2, ScheduleCount, RanKeeps
<1> QED BY <1>3 DEF T

LEMMA RanState == ASSUME SchedInv, EncInv, NEW p PROVE Ran(p) \in States
<1>1. prefill = "eager" \/ prefill = "on_demand"
  BY DEF SchedInv, Modes
<1> QED BY <1>1, EagerRan, DemandRan DEF EagerState, DemandState

-----------------------------------------------------------------------------
(* Encodings, step by step.                                                *)

EncodingOK(x, i, high, most, S, n) ==
    /\ x \in Encoding /\ x.first <= x.count /\ x.id <= most
    /\ x.base + x.count - 1 <= Larger(high, x.base - 1)
    /\ x.of.id = i /\ Belongs(x.of, S, n) /\ x.of.offset <= x.from
WaitOK(w, t, S, n) == w.at \in 0..t /\ Belongs(w.entry, S, n)

\* The entry that a request for the master playlist goes by.
LEMMA CurrentIs ==
    ASSUME SchedInv, Window # {}
    PROVE  /\ CurrentEntry \in schedule
           /\ \A e \in OnAirAt(now) : CurrentEntry = e
<1>1. now \in Nat
  BY SchedSound
<1>2. ASSUME NEW e \in OnAirAt(now) PROVE CurrentEntry = e /\ e \in schedule
  <2>1. e \in schedule /\ (CHOOSE x \in OnAirAt(now) : TRUE) = e
    BY <1>1, OnAirIs
  <2> QED BY <2>1 DEF CurrentEntry
<1>3. CASE OnAirAt(now) = {}
  <2> DEFINE S == {e.start : e \in Window}
  <2>1. Window \subseteq schedule /\ schedule \subseteq Entry
    BY DEF Window, SchedInv
  <2>2. S \subseteq Nat /\ S # {}
    BY <2>1, EntryFields
  <2> HIDE DEF S
  <2>3. PICK t \in S : \A y \in S : t <= y
    BY <2>2, LeastNat
  <2>4. \E e \in Window : \A x \in Window : e.start <= x.start
    BY <2>3 DEF S
  <2>5. (CHOOSE e \in Window : \A x \in Window : e.start <= x.start) \in Window
    BY <2>4
  <2> QED BY <1>3, <2>1, <2>5 DEF CurrentEntry
<1> QED BY <1>2, <1>3

LEMMA EncInit == Init => EncInv
<1> SUFFICES ASSUME Init PROVE EncInv
  OBVIOUS
<1>1. prefill \in Modes /\ MaxEntries[prefill] \in Nat /\ MaxEncodings \in Nat
  BY Bounds DEF Init
<1>2. DOMAIN encodings = {}
  BY DEF Init
<1>3. highWater = [i \in 1..MaxEntries[prefill] |-> -1]
  BY DEF Init
<1>4. /\ highWater \in [1..MaxEntries[prefill] -> Int]
      /\ \A i \in 1..MaxEntries[prefill] : highWater[i] >= -1
  BY <1>3
<1>5. waiting = {}
  BY DEF Init
<1> QED BY <1>1, <1>2, <1>4, <1>5 DEF Init, EncInv

LEMMA EncFacts ==
    ASSUME SchedInv, EncInv
    PROVE  /\ \A i \in DOMAIN encodings : /\ i \in 1..laid /\ i \in 1..MaxEntries[prefill] /\ i \in Nat
                                          /\ EncodingOK(encodings[i], i, highWater[i], encoded, schedule, laid)
           /\ laid \in Nat /\ MaxEntries[prefill] \in Nat /\ laid <= MaxEntries[prefill]
           /\ \A i \in 1..laid : highWater[i] \in Int /\ highWater[i] >= -1 /\ i \in 1..MaxEntries[prefill]
           /\ encoded \in Nat /\ MaxEncodings \in Nat /\ extraDisc \in Nat
           /\ \A w \in waiting : WaitOK(w, now, schedule, laid)
           /\ now \in Nat
<1>1. prefill \in Modes /\ laid \in 0..MaxEntries[prefill] /\ MaxEntries[prefill] \in Nat /\ MaxEncodings \in Nat
      /\ Horizon[prefill] \in Nat /\ now \in 0..Horizon[prefill]
  BY Bounds DEF SchedInv
<1>2. \A i \in 1..laid : i \in 1..MaxEntries[prefill] /\ i \in Nat
  BY <1>1
<1>3. ASSUME NEW i \in DOMAIN encodings
      PROVE  i \in 1..laid /\ EncodingOK(encodings[i], i, highWater[i], encoded, schedule, laid)
  BY DEF EncInv, EncodingOK, Belongs
<1>4. now \in Nat
  BY <1>1
<1> QED BY <1>1, <1>2, <1>3, <1>4 DEF EncInv, WaitOK

LEMMA EncReserved ==
    ASSUME SchedInv, EncInv, NEW e, Belongs(e, schedule, laid), NEW wall \in Nat, Reserve(e, wall),
           UNCHANGED <<prefill, schedule, laid, ready, highWater, extraDisc, now, waiting>>
    PROVE  EncInv'
<1>1. /\ \A i \in DOMAIN encodings : EncodingOK(encodings[i], i, highWater[i], encoded, schedule, laid)
      /\ \A i \in 1..laid : highWater[i] \in Int /\ highWater[i] >= -1
      /\ encoded \in Nat /\ MaxEncodings \in Nat /\ extraDisc \in Nat /\ laid \in Nat
      /\ \A w \in waiting : WaitOK(w, now, schedule, laid)
  BY EncFacts
<1> DEFINE from == e.offset + PlaybackWall(e, wall) - e.start
           base == Larger(GridNumber(e, from), highWater[e.id] + 1)
           new == [id |-> encoded', of |-> e, from |-> from, first |-> 0, count |-> 0, base |-> base]
<1>2. /\ e.id \notin DOMAIN encodings /\ encoded < MaxEncodings /\ encoded' = encoded + 1
      /\ encodings' = [i \in DOMAIN encodings \cup {e.id} |-> IF i = e.id THEN new ELSE encodings[i]]
  BY DEF Reserve
<1>3. /\ e \in Entry /\ e.id \in 1..laid /\ e.start \in Nat /\ e.offset \in Nat
      /\ Lag \in Nat /\ Grid \in Nat \ {0}
  BY EntryFields, Bounds DEF Belongs
<1>4. from \in Nat /\ from >= e.offset
  <2>1. PlaybackWall(e, wall) \in Nat /\ PlaybackWall(e, wall) >= e.start
    BY <1>3 DEF PlaybackWall, Larger
  <2> QED BY <1>3, <2>1
<1>5. GridNumber(e, from) \in Nat
  <2> DEFINE v == from - e.offset
             h == Grid \div 2
  <2>1. v \in Nat /\ h \in Nat
    BY <1>3, <1>4
  <2> HIDE DEF v, h
  <2>2. (v + h) \div Grid \in Nat
    <3>1. v + h \in Nat
      BY <2>1
    <3> QED BY <1>3, <3>1
  <2>3. DivRound(v, Grid) \in Nat
    BY <2>1, <2>2 DEF DivRound, h
  <2>4. e.start \div Grid \in Nat
    BY <1>3
  <2> QED BY <2>3, <2>4 DEF GridNumber, v
<1>6. highWater[e.id] \in Int /\ highWater[e.id] >= -1
  BY <1>1, <1>3
<1>7. base \in Nat /\ base >= highWater[e.id] + 1
  <2> DEFINE g == GridNumber(e, from)
  <2>1. g \in Nat
    BY <1>5
  <2> HIDE DEF g
  <2> QED BY <1>6, <2>1 DEF Larger, g
<1> HIDE DEF base, from
<1>8. new = [id |-> encoded + 1, of |-> e, from |-> from, first |-> 0, count |-> 0, base |-> base]
  BY <1>2
<1>9. new \in Encoding /\ new.from = from /\ new.first = 0 /\ new.count = 0 /\ new.id = encoded + 1
      /\ new.base = base /\ new.of = e
  BY <1>1, <1>3, <1>4, <1>7, <1>8 DEF Encoding
<1> HIDE DEF new
<1>10. EncodingOK(new, e.id, highWater[e.id], encoded + 1, schedule, laid)
  <2>1. base + 0 - 1 <= Larger(highWater[e.id], base - 1)
    BY <1>6, <1>7 DEF Larger
  <2> QED BY <1>1, <1>4, <1>9, <2>1 DEF EncodingOK
<1>11. ASSUME NEW i \in DOMAIN encodings'
       PROVE  EncodingOK(encodings'[i], i, highWater'[i], encoded', schedule', laid')
  <2>1. CASE i = e.id
    <3>1. encodings'[i] = new
      BY <1>2, <2>1
    <3> QED BY <1>2, <1>10, <2>1, <3>1
  <2>2. CASE i # e.id
    <3>1. i \in DOMAIN encodings /\ encodings'[i] = encodings[i]
      BY <1>2, <2>2
    <3>2. EncodingOK(encodings[i], i, highWater[i], encoded, schedule, laid)
      BY <1>1, <3>1
    <3>3. EncodingOK(encodings[i], i, highWater[i], encoded + 1, schedule, laid)
      BY <1>1, <3>2 DEF EncodingOK, Encoding
    <3> QED BY <1>2, <3>1, <3>3
  <2> QED BY <2>1, <2>2
<1>12. encoded' \in 0..MaxEncodings
  BY <1>1, <1>2
<1>13. /\ ready' \subseteq Media \X Profiles /\ extraDisc' \in Nat
       /\ highWater' \in [1..MaxEntries[prefill'] -> Int]
       /\ \A i \in 1..MaxEntries[prefill'] : highWater'[i] >= -1
  BY DEF EncInv
<1>14. \A w \in waiting' : WaitOK(w, now', schedule', laid')
  BY <1>1
<1> QED BY <1>11, <1>12, <1>13, <1>14 DEF EncInv, EncodingOK, WaitOK

LEMMA EncWritten ==
    ASSUME SchedInv, EncInv, NEW i \in 1..laid, EncodingProgress(i)
    PROVE  EncInv'
<1>1. /\ \A j \in DOMAIN encodings : /\ j \in 1..laid /\ j \in Nat
                                     /\ EncodingOK(encodings[j], j, highWater[j], encoded, schedule, laid)
      /\ \A w \in waiting : WaitOK(w, now, schedule, laid)
      /\ \A j \in 1..laid : highWater[j] \in Int /\ highWater[j] >= -1 /\ j \in 1..MaxEntries[prefill]
      /\ laid \in Nat
  <2>1. laid \in Nat /\ MaxEntries[prefill] \in Nat /\ laid <= MaxEntries[prefill]
    BY EncFacts
  <2> QED BY <2>1, EncFacts
<1>2. /\ UNCHANGED <<prefill, schedule, laid, ready, extraDisc, encoded, now, waiting, heard>>
      /\ i \in DOMAIN encodings
      /\ encodings' = [encodings EXCEPT ![i].count = @ + 1]
      /\ highWater' = [highWater EXCEPT ![i] = Larger(@, encodings[i].base + encodings[i].count)]
  BY DEF EncodingProgress, UnchangedButEncodings
<1> DEFINE x == encodings[i]
           y == [x EXCEPT !.count = @ + 1]
           w == Larger(highWater[i], x.base + x.count)
<1>3. /\ x \in Encoding /\ x.of \in Entry /\ x.id \in Nat /\ x.from \in Nat /\ x.base \in Nat /\ x.first \in Nat /\ x.count \in Nat
      /\ x.first <= x.count /\ x.id <= encoded
      /\ x.of.id = i /\ Belongs(x.of, schedule, laid) /\ x.of.offset <= x.from
  BY <1>1, <1>2 DEF EncodingOK, Encoding
<1>4. w \in Int /\ w >= highWater[i] /\ w >= x.base + x.count /\ w >= -1
  <2>1. highWater[i] \in Int /\ highWater[i] >= -1 /\ x.base + x.count \in Int
    BY <1>1, <1>3
  <2> HIDE DEF x
  <2> QED BY <2>1 DEF Larger
<1>5. /\ y \in Encoding /\ y.id = x.id /\ y.from = x.from /\ y.base = x.base /\ y.first = x.first
      /\ y.count = x.count + 1 /\ y.of = x.of
  <2> HIDE DEF x
  <2> QED BY <1>3 DEF Encoding
<1>6. /\ DOMAIN encodings' = DOMAIN encodings /\ encodings'[i] = y
      /\ \A j \in DOMAIN encodings : j # i => encodings'[j] = encodings[j]
  BY <1>2
<1>7. /\ highWater' \in [1..MaxEntries[prefill] -> Int] /\ highWater'[i] = w
      /\ \A j \in 1..MaxEntries[prefill] : j # i => highWater'[j] = highWater[j]
  <2> HIDE DEF w
  <2>1. highWater' = [highWater EXCEPT ![i] = w]
    BY <1>2 DEF w
  <2>2. highWater \in [1..MaxEntries[prefill] -> Int] /\ i \in 1..MaxEntries[prefill]
    BY <1>1 DEF EncInv
  <2> QED BY <1>4, <2>1, <2>2
<1> HIDE DEF x, y, w
<1>8. EncodingOK(y, i, w, encoded, schedule, laid)
  <2>1. y.base + y.count - 1 <= w
    BY <1>3, <1>4, <1>5
  <2>2. y.base + y.count - 1 <= Larger(w, y.base - 1)
    BY <1>3, <1>4, <1>5, <2>1 DEF Larger
  <2> QED BY <1>3, <1>5, <2>2 DEF EncodingOK
<1>9. \A j \in DOMAIN encodings' : EncodingOK(encodings'[j], j, highWater'[j], encoded', schedule', laid')
  <2> TAKE j \in DOMAIN encodings'
  <2>1. CASE j = i
    BY <1>2, <1>6, <1>7, <1>8, <2>1
  <2>2. CASE j # i
    <3>1. j \in DOMAIN encodings /\ j \in 1..laid /\ encodings'[j] = encodings[j] /\ highWater'[j] = highWater[j]
      BY <1>1, <1>6, <1>7, <2>2
    <3> QED BY <1>1, <1>2, <3>1
  <2> QED BY <2>1, <2>2
<1>10. \A v \in waiting' : WaitOK(v, now', schedule', laid')
  BY <1>1, <1>2
<1>11. \A j \in 1..MaxEntries[prefill] : highWater'[j] >= -1
  BY <1>4, <1>7 DEF EncInv
<1>12. /\ ready' \subseteq Media \X Profiles /\ extraDisc' \in Nat /\ encoded' \in 0..MaxEncodings
  BY <1>2 DEF EncInv
<1> QED BY <1>2, <1>7, <1>9, <1>10, <1>11, <1>12 DEF EncInv, EncodingOK, WaitOK

LEMMA EncPruned ==
    ASSUME SchedInv, EncInv, NEW i \in 1..laid, PruneTrailing(i)
    PROVE  EncInv'
<1> DEFINE e == encodings[i].of
           x == encodings[i]
           m == Most(Trailing(e))
           y == [x EXCEPT !.first = m + 1]
<1>1. /\ \A j \in DOMAIN encodings : /\ j \in 1..laid /\ j \in Nat
                                     /\ EncodingOK(encodings[j], j, highWater[j], encoded, schedule, laid)
      /\ \A w \in waiting : WaitOK(w, now, schedule, laid)
  BY EncFacts
<1>2. /\ i \in DOMAIN encodings /\ Trailing(e) # {}
      /\ encodings' = [encodings EXCEPT ![i].first = m + 1]
  BY DEF PruneTrailing
<1>3. UNCHANGED <<prefill, schedule, laid, ready, highWater, extraDisc, encoded, now, waiting, heard>>
  BY DEF PruneTrailing, UnchangedButEncodings
<1>3a. e.id = i
  BY <1>1, <1>2 DEF EncodingOK
<1> HIDE DEF e
<1>4. m \in Encoded(e)
  <2>1. Trailing(e) \in SUBSET Encoded(e) /\ Trailing(e) \subseteq Int /\ IsFiniteSet(Encoded(e))
    BY EncodedIs DEF Trailing
  <2>2. IsFiniteSet(Trailing(e))
    BY <2>1, FS_Subset
  <2>3. m \in Trailing(e)
    BY <1>2, <2>1, <2>2, MostIs DEF m
  <2> QED BY <2>1, <2>3
<1> HIDE DEF m
<1>5. i \in DOMAIN encodings /\ m \in Nat /\ m < x.count
  BY <1>2, <1>3a, <1>4, EncodedIs
<1>6. /\ x \in Encoding /\ x.of \in Entry /\ x.id \in Nat /\ x.from \in Nat /\ x.base \in Nat /\ x.first \in Nat /\ x.count \in Nat
      /\ EncodingOK(x, i, highWater[i], encoded, schedule, laid)
  BY <1>1, <1>5 DEF EncodingOK, Encoding
<1>7. /\ y \in Encoding /\ y.id = x.id /\ y.from = x.from /\ y.base = x.base /\ y.first = m + 1
      /\ y.count = x.count /\ y.of = x.of
  <2> HIDE DEF x
  <2> QED BY <1>5, <1>6 DEF Encoding
<1>8. /\ DOMAIN encodings' = DOMAIN encodings /\ encodings'[i] = y
      /\ \A j \in DOMAIN encodings : j # i => encodings'[j] = encodings[j]
  BY <1>2, <1>5 DEF m
<1> HIDE DEF x, y
<1>9. EncodingOK(y, i, highWater[i], encoded, schedule, laid)
  <2>1. m + 1 <= x.count
    BY <1>5, <1>6
  <2> QED BY <1>6, <1>7, <2>1 DEF EncodingOK
<1>10. \A j \in DOMAIN encodings' : EncodingOK(encodings'[j], j, highWater'[j], encoded', schedule', laid')
  BY <1>1, <1>3, <1>8, <1>9
<1>11. \A w \in waiting' : WaitOK(w, now', schedule', laid')
  BY <1>1, <1>3
<1>12. /\ ready' \subseteq Media \X Profiles /\ extraDisc' \in Nat /\ encoded' \in 0..MaxEncodings
       /\ highWater' \in [1..MaxEntries[prefill'] -> Int]
       /\ \A j \in 1..MaxEntries[prefill'] : highWater'[j] >= -1
  BY <1>3 DEF EncInv
<1> QED BY <1>10, <1>11, <1>12 DEF EncInv, EncodingOK, WaitOK

\* What leaves the encodings alone and keeps the rows.
LEMMA EncSame ==
    ASSUME SchedInv, SchedInv', EncInv, UNCHANGED <<prefill, encodings, highWater, extraDisc, encoded>>,
           ready' \subseteq Media \X Profiles, laid' >= laid, Kept(schedule, schedule', laid),
           now' >= now, waiting' \subseteq waiting
    PROVE  EncInv'
<1>1. /\ \A i \in DOMAIN encodings : EncodingOK(encodings[i], i, highWater[i], encoded, schedule, laid)
      /\ \A w \in waiting : WaitOK(w, now, schedule, laid)
      /\ laid \in Nat /\ now \in Nat
  BY EncFacts
<1>2. laid' \in Nat /\ now' \in Nat
  <2>1. prefill' \in Modes /\ laid' \in 0..MaxEntries[prefill'] /\ now' \in 0..Horizon[prefill']
    BY DEF SchedInv
  <2>2. MaxEntries[prefill'] \in Nat /\ Horizon[prefill'] \in Nat
    BY <2>1, Bounds
  <2> QED BY <2>1, <2>2
<1>3. PICK S, T, m : S = schedule /\ T = schedule' /\ m = laid'
  OBVIOUS
<1>4. ASSUME NEW e, Belongs(e, schedule, laid) PROVE Belongs(e, schedule', laid')
  <2>1. PICK n : n = laid
    OBVIOUS
  <2>2. Belongs(e, S, n) /\ Kept(S, T, n) /\ n \in Nat /\ m \in Nat /\ n <= m
    BY <1>1, <1>2, <1>3, <1>4, <2>1
  <2>3. Belongs(e, T, m)
    BY <2>2, BelongsKept
  <2> QED BY <1>3, <2>3
<1>5. ASSUME NEW i \in DOMAIN encodings'
      PROVE  EncodingOK(encodings'[i], i, highWater'[i], encoded', schedule', laid')
  <2>1. EncodingOK(encodings[i], i, highWater[i], encoded, schedule, laid)
    BY <1>1
  <2>2. Belongs(encodings[i].of, schedule', laid')
    BY <1>4, <2>1 DEF EncodingOK
  <2> QED BY <2>1, <2>2 DEF EncodingOK
<1>6. ASSUME NEW w \in waiting' PROVE WaitOK(w, now', schedule', laid')
  <2>1. WaitOK(w, now, schedule, laid)
    BY <1>1
  <2>2. Belongs(w.entry, schedule', laid')
    BY <1>4, <2>1 DEF WaitOK
  <2> QED BY <1>1, <1>2, <2>1, <2>2 DEF WaitOK
<1>7. /\ extraDisc' \in Nat /\ encoded' \in 0..MaxEncodings
      /\ highWater' \in [1..MaxEntries[prefill'] -> Int]
      /\ \A j \in 1..MaxEntries[prefill'] : highWater'[j] >= -1
  BY DEF EncInv
<1> QED BY <1>5, <1>6, <1>7 DEF EncInv, EncodingOK, WaitOK

LEMMA KeptSubset == ASSUME NEW S, NEW T, T \subseteq S, NEW n PROVE Kept(S, T, n)
BY DEF Kept

LEMMA KeptEdited ==
    ASSUME laid \in Nat, NEW S, NEW s, NEW t
    PROVE  Kept(S, S \cup {New(s, t)}, laid)
<1>1. New(s, t).id \notin 1..laid
  BY DEF New
<1> QED BY <1>1 DEF Kept

LEMMA KeptMoved ==
    ASSUME laid \in Nat, NEW S, NEW T, NEW s, NEW at, NEW by,
           T = {Moved(e, at, by) : e \in S} \cup {New(s, at)}
    PROVE  Kept(S, T, laid)
<1>1. New(s, at).id \notin 1..laid
  BY DEF New
<1>2. \A e \in S : Moved(e, at, by).id = e.id /\ Shape(Moved(e, at, by)) = Shape(e)
  BY DEF Moved, Shape
<1> QED BY <1>1, <1>2 DEF Kept

LEMMA EncStep == SchedInv /\ SchedInv' /\ EncInv /\ [Next]_vars => EncInv'
<1> SUFFICES ASSUME SchedInv, SchedInv', EncInv, [Next]_vars PROVE EncInv'
  OBVIOUS
<1>1. /\ \A i \in DOMAIN encodings : EncodingOK(encodings[i], i, highWater[i], encoded, schedule, laid)
      /\ \A w \in waiting : WaitOK(w, now, schedule, laid)
      /\ laid \in Nat /\ now \in Nat /\ extraDisc \in Nat /\ ready \subseteq Media \X Profiles
  BY EncFacts DEF EncInv
<1>2. Kept(schedule, schedule, laid) /\ laid <= laid /\ now <= now /\ laid + 1 >= laid
  BY <1>1, KeptSubset
<1>3. ASSUME NEW s \in Shapes[prefill], ScheduleExtends(s) PROVE EncInv'
  <2>1. /\ laid' = laid + 1 /\ UNCHANGED <<ready, prefill, encodings, highWater, extraDisc, encoded, now, waiting>>
        /\ schedule' = schedule \cup {New(s, NextStart(now))}
    BY <1>3 DEF ScheduleExtends, MayLay, UnchangedButRows
  <2>2. Kept(schedule, schedule', laid)
    BY <1>1, <2>1, KeptEdited
  <2> QED BY <1>1, <1>2, <2>1, <2>2, EncSame
<1>4. CASE Edit
  <2>1. ASSUME NEW s \in Shapes[prefill], NEW t, EntryPlaced(s, t) PROVE EncInv'
    <3>1. /\ laid' = laid + 1 /\ UNCHANGED <<ready, prefill, encodings, highWater, extraDisc, encoded, now, waiting>>
          /\ schedule' = schedule \cup {New(s, t)}
      BY <2>1 DEF EntryPlaced, MayLay, UnchangedButRows
    <3>2. Kept(schedule, schedule', laid)
      BY <1>1, <3>1, KeptEdited
    <3> QED BY <1>1, <1>2, <3>1, <3>2, EncSame
  <2>2. ASSUME NEW s \in Shapes[prefill], NEW x \in schedule, NEW after \in BOOLEAN, EntryInserted(s, x, after)
        PROVE  EncInv'
    <3>1. PICK at : at = IF after THEN EndOf(x) ELSE x.start
      OBVIOUS
    <3>2. /\ laid' = laid + 1 /\ UNCHANGED <<ready, prefill, encodings, highWater, extraDisc, encoded, now, waiting>>
          /\ schedule' = {Moved(e, at, s.dur) : e \in schedule} \cup {New(s, at)}
      BY <2>2, <3>1 DEF EntryInserted, MayLay, UnchangedButRows
    <3>3. PICK S, T, by : S = schedule /\ T = schedule' /\ by = s.dur
      OBVIOUS
    <3>4. T = {Moved(e, at, by) : e \in S} \cup {New(s, at)}
      BY <3>2, <3>3
    <3>5. Kept(S, T, laid)
      BY <1>1, <3>4, KeptMoved
    <3>6. Kept(schedule, schedule', laid)
      BY <3>3, <3>5
    <3> QED BY <1>1, <1>2, <3>2, <3>6, EncSame
  <2>3. ASSUME NEW x \in schedule, NEW y \in schedule, RowsDeleted(x, y) PROVE EncInv'
    <3>1. /\ UNCHANGED <<laid, ready, prefill, encodings, highWater, extraDisc, encoded, now, waiting>>
          /\ schedule' \subseteq schedule
      BY <2>3 DEF RowsDeleted, UnchangedButRows
    <3> QED BY <1>1, <1>2, <3>1, KeptSubset, EncSame
  <2>4. ASSUME NEW m \in Media, MediaDeleted(m) PROVE EncInv'
    <3>1. /\ UNCHANGED <<laid, prefill, encodings, highWater, extraDisc, encoded, now, waiting>>
          /\ schedule' \subseteq schedule /\ ready' \subseteq ready
      BY <2>4 DEF MediaDeleted, UnchangedButRows
    <3> QED BY <1>1, <1>2, <3>1, KeptSubset, EncSame
  <2> QED BY <1>4, <2>1, <2>2, <2>3, <2>4 DEF Edit
<1>5. ASSUME NEW m \in Media, NEW p \in Profiles, PackageReady(m, p) \/ RequeueReadyPackage(m, p) PROVE EncInv'
  <2>1. /\ UNCHANGED <<schedule, laid, prefill, encodings, highWater, extraDisc, encoded, now, waiting>>
        /\ ready' \subseteq ready \cup {<<m, p>>}
    BY <1>5 DEF PackageReady, RequeueReadyPackage, UnchangedButRows
  <2>2. ready' \subseteq Media \X Profiles
    BY <1>1, <2>1
  <2> QED BY <1>2, <2>1, <2>2, EncSame
<1>6. CASE WritePackagedManifest
  <2>1. UNCHANGED <<prefill, schedule, laid, ready, highWater, extraDisc, now, waiting>>
    BY <1>6 DEF WritePackagedManifest
  <2>2. CASE UNCHANGED <<encodings, encoded>>
    BY <1>1, <1>2, <2>1, <2>2, EncSame
  <2>3. ASSUME NEW e \in Wanting(played), Reserve(e, Ran(played).wall) PROVE EncInv'
    <3>1. PICK wall : wall = Ran(played).wall
      OBVIOUS
    <3>2. wall \in Nat
      BY <3>1, RanState, StateFields
    <3>3. Belongs(e, schedule, laid)
      BY RowBelongs DEF Wanting, OnAirAt, Window
    <3>4. Reserve(e, wall)
      BY <2>3, <3>1 DEF Reserve
    <3> QED BY <2>1, <3>2, <3>3, <3>4, EncReserved
  <2> QED BY <1>6, <2>2, <2>3 DEF WritePackagedManifest
<1>7. CASE HandleManifest
  <2>1. UNCHANGED <<prefill, schedule, laid, ready, encodings, highWater, extraDisc, encoded, now>>
    BY <1>7 DEF HandleManifest
  <2>2. CurrentEntry \in schedule
    <3>1. Window # {}
      BY <1>7 DEF HandleManifest
    <3> QED BY <3>1, CurrentIs
  <2>3. Belongs(CurrentEntry, schedule, laid)
    BY <2>2, RowBelongs
  <2>4. PICK e : e = CurrentEntry
    OBVIOUS
  <2>5. waiting' = {[entry |-> e, at |-> now]}
    BY <1>7, <2>4 DEF HandleManifest
  <2>6. WaitOK([entry |-> e, at |-> now], now, schedule, laid)
    BY <1>1, <2>3, <2>4 DEF WaitOK
  <2>7. \A w \in waiting' : WaitOK(w, now', schedule', laid')
    BY <2>1, <2>5, <2>6
  <2>8. \A i \in DOMAIN encodings' : EncodingOK(encodings'[i], i, highWater'[i], encoded', schedule', laid')
    BY <1>1, <2>1
  <2> QED BY <2>1, <2>7, <2>8 DEF EncInv, EncodingOK, WaitOK
<1>8. ASSUME NEW w \in waiting, EnsureOnDemandMasterReady(w) PROVE EncInv'
  <2>1. UNCHANGED <<prefill, schedule, laid, ready, highWater, extraDisc, now>>
    BY <1>8 DEF EnsureOnDemandMasterReady
  <2>2. CASE w.entry.id \notin DOMAIN encodings
    <3>1. Reserve(w.entry, w.at) /\ UNCHANGED waiting
      BY <1>8, <2>2 DEF EnsureOnDemandMasterReady
    <3>2. Belongs(w.entry, schedule, laid) /\ w.at \in Nat
      BY <1>1 DEF WaitOK
    <3> QED BY <2>1, <3>1, <3>2, EncReserved
  <2>3. CASE w.entry.id \in DOMAIN encodings
    <3>1. waiting' \subseteq waiting /\ UNCHANGED <<encodings, encoded>>
      BY <1>8, <2>3 DEF EnsureOnDemandMasterReady
    <3> QED BY <1>1, <1>2, <2>1, <3>1, EncSame
  <2> QED BY <2>2, <2>3
<1>9. ASSUME NEW w \in waiting, ManifestRefused(w) PROVE EncInv'
  <2>1. /\ UNCHANGED <<prefill, schedule, laid, ready, encodings, highWater, extraDisc, encoded, now>>
        /\ waiting' \subseteq waiting
    BY <1>9 DEF ManifestRefused
  <2> QED BY <1>1, <1>2, <2>1, EncSame
<1>10. ASSUME NEW i \in 1..laid, EncodingProgress(i) PROVE EncInv'
  BY <1>10, EncWritten
<1>11. ASSUME NEW i \in 1..laid, PruneTrailing(i) PROVE EncInv'
  BY <1>11, EncPruned
<1>12. ASSUME NEW i \in 1..laid, EncodingLost(i) PROVE EncInv'
  <2>1. /\ UNCHANGED <<schedule, laid, prefill, ready, highWater, encoded, now, waiting>> /\ extraDisc' = extraDisc + 1
        /\ encodings' = [j \in DOMAIN encodings \ {i} |-> encodings[j]]
    BY <1>12 DEF EncodingLost, UnchangedButEncodings
  <2>2. DOMAIN encodings' \subseteq DOMAIN encodings /\ \A j \in DOMAIN encodings' : encodings'[j] = encodings[j]
    BY <2>1
  <2>3. extraDisc' \in Nat
    BY <1>1, <2>1
  <2> QED BY <2>1, <2>2, <2>3 DEF EncInv
<1>13. CASE AdvanceTime
  <2>1. /\ UNCHANGED <<schedule, laid, prefill, ready, encodings, highWater, extraDisc, encoded>>
        /\ now' = now + 1 /\ waiting' \subseteq waiting
    BY <1>13 DEF AdvanceTime
  <2>2. now' >= now
    BY <1>1, <2>1
  <2> QED BY <1>1, <1>2, <2>1, <2>2, EncSame
<1>14. CASE UNCHANGED vars
  <2>1. UNCHANGED <<schedule, laid, prefill, ready, encodings, highWater, extraDisc, encoded, now, waiting>>
    BY <1>14 DEF vars
  <2> QED BY <1>1, <1>2, <2>1, EncSame
<1> QED BY <1>3, <1>4, <1>5, <1>6, <1>7, <1>8, <1>9, <1>10, <1>11, <1>12, <1>13, <1>14 DEF Next

-----------------------------------------------------------------------------
(* What a player reads.                                                    *)

LEMMA ItemFields ==
    ASSUME NEW x \in Item
    PROVE  x.number \in Int /\ x.disc \in Int /\ x.entry \in Nat
BY DEF Item

LEMMA LinkedNumbers ==
    ASSUME NEW list \in Seq(Item), Linked(list), NEW k \in 1..Len(list)
    PROVE  /\ list[k].number = list[1].number + k - 1
           /\ list[k].disc = list[1].disc + Changes(list, k)
<1> DEFINE n == Len(list)
           D(j) == {i \in 2..j : list[i].source # list[i - 1].source}
           T == {0} \cup {j \in 1..n : /\ list[j].number = list[1].number + j - 1
                                       /\ list[j].disc = list[1].disc + Cardinality(D(j))}
<1>1. n \in Nat /\ n >= 1 /\ \A j \in 1..n : list[j] \in Item /\ list[j].number \in Int /\ list[j].disc \in Int
  BY ItemFields
<1>2. \A j \in 1..n : \A i \in 2..j : i \in 2..n
  BY <1>1
<1>3. ASSUME NEW j \in Nat PROVE IsFiniteSet(D(j)) /\ Cardinality(D(j)) \in Nat
  <2>1. IsFiniteSet(2..j) /\ D(j) \in SUBSET (2..j)
    BY FS_Interval
  <2> HIDE DEF D
  <2>2. IsFiniteSet(D(j))
    BY <2>1, FS_Subset
  <2> QED BY <2>2, FS_CardinalityType
<1>4. 1 \in T
  <2>1. D(1) = {}
    OBVIOUS
  <2>2. Cardinality(D(1)) = 0
    BY <2>1, FS_EmptySet
  <2> HIDE DEF D
  <2> QED BY <1>1, <2>2
<1>5. ASSUME NEW j \in 2..n, j - 1 \in T PROVE j \in T
  <2>1. j \in 1..n /\ j - 1 \in 1..n /\ j \in Nat /\ j - 1 \in Nat /\ j - 1 # 0
    BY <1>1
  <2>2. Follows(list[j - 1], list[j])
    BY <1>5 DEF Linked
  <2>3. /\ list[j].number = list[j - 1].number + 1
        /\ list[j].disc = list[j - 1].disc + (IF list[j].source = list[j - 1].source THEN 0 ELSE 1)
    BY <2>2 DEF Follows
  <2>4. /\ list[j - 1].number = list[1].number + (j - 1) - 1
        /\ list[j - 1].disc = list[1].disc + Cardinality(D(j - 1))
    BY <1>5, <2>1
  <2>5. Cardinality(D(j)) = Cardinality(D(j - 1)) + (IF list[j].source = list[j - 1].source THEN 0 ELSE 1)
    <3>1. 2..j = (2..(j - 1)) \cup {j} /\ j \notin 2..(j - 1)
      BY <2>1
    <3>2. j \notin D(j - 1)
      BY <3>1
    <3>3. CASE list[j].source = list[j - 1].source
      <4>1. D(j) = D(j - 1)
        BY <3>1, <3>3
      <4> HIDE DEF D
      <4> QED BY <1>3, <2>1, <3>3, <4>1
    <3>4. CASE list[j].source # list[j - 1].source
      <4>1. D(j) = D(j - 1) \cup {j}
        BY <3>1, <3>4
      <4> HIDE DEF D
      <4>2. Cardinality(D(j - 1) \cup {j}) = Cardinality(D(j - 1)) + 1
        BY <1>3, <2>1, <3>2, FS_AddElement
      <4> QED BY <3>4, <4>1, <4>2
    <3> QED BY <3>3, <3>4
  <2> DEFINE a == Cardinality(D(j - 1))
             b == Cardinality(D(j))
             c == IF list[j].source = list[j - 1].source THEN 0 ELSE 1
  <2>5a. 1 \in 1..n /\ c \in Nat /\ a \in Nat
    <3>1. 1 \in 1..n
      BY <1>1
    <3>2. c \in Nat
      OBVIOUS
    <3>3. a \in Nat
      <4> HIDE DEF D
      <4> QED BY <1>3, <2>1
    <3> QED BY <3>1, <3>2, <3>3
  <2>6. a \in Nat /\ b = a + c /\ c \in Nat /\ list[1].disc \in Int /\ list[1].number \in Int
        /\ list[j].disc = list[j - 1].disc + c /\ list[j - 1].disc = list[1].disc + a
    <3> HIDE DEF D
    <3> QED BY <1>1, <2>5a, <2>3, <2>4, <2>5
  <2> HIDE DEF a, b, c
  <2>7. list[j].disc = list[1].disc + b
    BY <2>6
  <2>8. list[j].number = list[1].number + j - 1
    <3> DEFINE x == list[1].number
               y == list[j - 1].number
               z == list[j].number
    <3>1. x \in Int /\ y = x + (j - 1) - 1 /\ z = y + 1 /\ j \in Nat
      BY <2>1, <2>3, <2>4, <2>6
    <3> HIDE DEF x, y, z
    <3>2. z = x + j - 1
      BY <3>1
    <3> QED BY <3>2 DEF x, z
  <2> HIDE DEF D
  <2> QED BY <2>1, <2>7, <2>8 DEF b
<1> HIDE DEF D, T
<1>6. \A j \in 1..n : j - 1 \in T => j \in T
  <2> TAKE j \in 1..n
  <2>1. j = 1 \/ j \in 2..n
    BY <1>1
  <2> QED BY <1>4, <1>5, <2>1
<1>7. 0 \in T
  BY DEF T
<1>8. \A j \in 0..n : j \in T
  <2> HIDE DEF n
  <2> QED BY <1>1, <1>6, <1>7, Climb
<1>9. k \in T /\ k # 0
  BY <1>1, <1>8
<1>10. Changes(list, k) = Cardinality(D(k))
  BY DEF Changes, D
<1> QED BY <1>9, <1>10 DEF T

LEMMA LinkedImplied ==
    ASSUME NEW h, h.list \in Seq(Item), Linked(h.list)
    PROVE  Implied(h) = Range(h.list)
<1> DEFINE list == h.list
<1>1. DOMAIN list = 1..Len(list) /\ \A k \in 1..Len(list) : list[k] \in Item
  OBVIOUS
<1>2. ASSUME NEW k \in 1..Len(list)
      PROVE  [list[k] EXCEPT !.number = list[1].number + k - 1, !.disc = list[1].disc + Changes(list, k)] = list[k]
  <2>1. list[k].number = list[1].number + k - 1 /\ list[k].disc = list[1].disc + Changes(list, k)
    BY LinkedNumbers
  <2>2. list[k] \in Item
    BY <1>1
  <2> DEFINE x == list[k]
             a == list[1].number + k - 1
             b == list[1].disc + Changes(list, k)
  <2>3. x \in Item /\ x.number = a /\ x.disc = b
    BY <2>1, <2>2
  <2> HIDE DEF x, a, b
  <2>4. [x EXCEPT !.number = a, !.disc = b] = x
    BY <2>3 DEF Item
  <2> QED BY <2>4 DEF x, a, b
<1>3. Implied(h) = {list[k] : k \in 1..Len(list)}
  BY <1>1, <1>2 DEF Implied
<1> QED BY <1>1, <1>3 DEF Range

HeardInv ==
    /\ heard.list \in Seq(Item)
    /\ \A k \in 1..Len(heard.list) :
          /\ heard.list[k].entry \in 1..laid
          /\ prefill = "eager" \/ ByEncoding(heard.list[k]) => heard.list[k].number \in Nat
    /\ (prefill = "eager" => CutsFit) =>
          (prefill = "eager" \/ (\A k \in 1..Len(heard.list) : ByEncoding(heard.list[k]))
             => Linked(heard.list))

LEMMA ItemsIs ==
    ASSUME SchedInv, EncInv, NEW p
    PROVE  /\ Items(p) \in Seq(Item)
           /\ \A k \in 1..Len(Items(p)) :
                /\ Items(p)[k].entry \in 1..laid
                /\ prefill = "eager" \/ ByEncoding(Items(p)[k]) => Items(p)[k].number \in Nat
           /\ (prefill = "eager" => CutsFit) =>
                (prefill = "eager" \/ (\A k \in 1..Len(Items(p)) : ByEncoding(Items(p)[k]))
                   => Linked(Items(p)))
<1> DEFINE s == Ran(p)
           list == s.list
<1>1. Items(p) = list
  BY DEF Items
<1>2. \A e \in schedule : e.id \in 1..laid
  BY DEF SchedInv
<1>3. CASE prefill = "eager"
  <2>1. EagerState(s, ReadyRows(p))
    BY <1>3, EagerRan
  <2> HIDE DEF s
  <2>2. list \in Seq(Item)
    BY <2>1, StateFields DEF EagerState
  <2>3. ASSUME NEW k \in 1..Len(list) PROVE list[k].entry \in 1..laid /\ list[k].number \in Nat
    <3>0. PICK R : R = ReadyRows(p)
      OBVIOUS
    <3>1. IsEager(list[k], R, s.wall)
      BY <2>1, <3>0 DEF EagerState
    <3>2. PICK e \in R : \E n \in InEntry(e) : list[k] = EagerItem(e, R, n)
      BY <3>1 DEF IsEager
    <3>3. Good(R) /\ e \in schedule
      BY <3>0, RowsGood
    <3> QED BY <1>2, <3>2, <3>3, EagerItemType
  <2>4. CutsFit => Linked(list)
    BY <2>1 DEF EagerState
  <2>5. (prefill = "eager" => CutsFit) =>
           (prefill = "eager" \/ (\A k \in 1..Len(list) : ByEncoding(list[k])) => Linked(list))
    BY <2>4, <1>3
  <2> HIDE DEF list
  <2> QED BY <1>1, <2>2, <2>3, <2>5
<1>4. CASE prefill = "on_demand"
  <2>1. DemandState(s)
    BY <1>4, DemandRan
  <2> HIDE DEF s
  <2>2. list \in Seq(Item)
    BY <2>1, StateFields DEF DemandState
  <2>3. ASSUME NEW k \in 1..Len(list)
        PROVE list[k].entry \in 1..laid /\ (ByEncoding(list[k]) => list[k].number \in Nat)
    <3>1. CASE IsEncoded(list[k])
      <4>1. PICK e \in schedule : \E n \in Encoded(e) : list[k] = EncodingItem(e, n)
        BY <3>1 DEF IsEncoded
      <4> QED BY <1>2, <4>1, EncodingItemType
    <3>2. CASE ByPackage(list[k]) /\ OfEntry(list[k])
      BY <1>2, <3>2 DEF ByPackage, ByEncoding, OfEntry
    <3> QED BY <2>1, <3>1, <3>2 DEF DemandState
  <2>4. (\A k \in 1..Len(list) : ByEncoding(list[k])) => Linked(list)
    BY <2>1 DEF DemandState
  <2>5. (prefill = "eager" => CutsFit) =>
           (prefill = "eager" \/ (\A k \in 1..Len(list) : ByEncoding(list[k])) => Linked(list))
    BY <2>4, <1>4
  <2> HIDE DEF list
  <2> QED BY <1>1, <1>4, <2>2, <2>3, <2>5
<1> QED BY <1>3, <1>4 DEF SchedInv, Modes

LEMMA HeardInit == Init => HeardInv
<1> SUFFICES ASSUME Init PROVE HeardInv
  OBVIOUS
<1>1. heard.list = <<>>
  BY DEF Init, Nothing
<1>2. <<>> \in Seq(Item) /\ Len(<<>>) = 0
  OBVIOUS
<1> QED BY <1>1, <1>2 DEF HeardInv, Linked

\* Nothing but a poll changes what was heard, and the clock goes on.
LEMMA Unheard ==
    ASSUME SchedInv, [Next]_vars
    PROVE  /\ prefill' = prefill
           /\ now' \in Nat /\ now <= now' /\ laid' \in Nat /\ laid <= laid'
           /\ WritePackagedManifest \/ heard' = heard
<1>1. now \in Nat /\ laid \in Nat
  BY SchedSound
<1>2. now <= now /\ laid <= laid /\ laid <= laid + 1 /\ laid + 1 \in Nat /\ now <= now + 1 /\ now + 1 \in Nat
  BY <1>1
<1>3. CASE WritePackagedManifest
  BY <1>1, <1>2, <1>3 DEF WritePackagedManifest
<1>4. ASSUME NEW s \in Shapes[prefill], ScheduleExtends(s) PROVE UNCHANGED <<prefill, heard, now>> /\ laid' = laid + 1
  BY <1>4 DEF ScheduleExtends, MayLay, UnchangedButRows
<1>5. CASE Edit
  <2>1. UNCHANGED <<prefill, heard, now>>
    BY <1>5 DEF Edit, EntryPlaced, EntryInserted, RowsDeleted, MediaDeleted, UnchangedButRows
  <2>2. laid' = laid \/ laid' = laid + 1
    BY <1>5 DEF Edit, EntryPlaced, EntryInserted, RowsDeleted, MediaDeleted, MayLay
  <2> QED BY <1>1, <1>2, <2>1, <2>2
<1>6. CASE \E m \in Media, p \in Profiles : PackageReady(m, p) \/ RequeueReadyPackage(m, p)
  BY <1>1, <1>2, <1>6 DEF PackageReady, RequeueReadyPackage, UnchangedButRows
<1>7. CASE HandleManifest \/ \E w \in waiting : EnsureOnDemandMasterReady(w) \/ ManifestRefused(w)
  BY <1>1, <1>2, <1>7 DEF HandleManifest, EnsureOnDemandMasterReady, ManifestRefused
<1>8. CASE \E i \in 1..laid : EncodingProgress(i) \/ PruneTrailing(i) \/ EncodingLost(i)
  BY <1>1, <1>2, <1>8 DEF EncodingProgress, PruneTrailing, EncodingLost, UnchangedButEncodings
<1>9. CASE AdvanceTime \/ UNCHANGED vars
  BY <1>1, <1>2, <1>9 DEF AdvanceTime, vars
<1> QED BY <1>1, <1>2, <1>3, <1>4, <1>5, <1>6, <1>7, <1>8, <1>9 DEF Next

LEMMA HeardStep == SchedInv /\ SchedInv' /\ EncInv /\ HeardInv /\ [Next]_vars => HeardInv'
<1> SUFFICES ASSUME SchedInv, SchedInv', EncInv, HeardInv, [Next]_vars PROVE HeardInv'
  OBVIOUS
<1>0. laid \in Nat /\ \A k \in 1..Len(heard.list) : heard.list[k].entry \in 1..laid
  BY DEF SchedInv, HeardInv
<1>1. CASE WritePackagedManifest
  <2>1. UNCHANGED <<prefill, laid>>
    BY <1>1 DEF WritePackagedManifest
  <2>2. heard'.list = heard.list \/ heard'.list = Items(played)
    <3>1. heard' = IF Items(played) = <<>> THEN heard
                ELSE [list |-> Items(played),
                      rows |-> UpTo(ReadyRows(played), Last(Items(played)).entry)]
      BY <1>1 DEF WritePackagedManifest
    <3> QED BY <3>1
  <2>3. CASE heard'.list = heard.list
    BY <2>1, <2>3 DEF HeardInv, ByEncoding, Linked, Follows
  <2>4. CASE heard'.list = Items(played)
    <3> DEFINE list == Items(played)
    <3>1. /\ list \in Seq(Item)
          /\ \A k \in 1..Len(list) :
                /\ list[k].entry \in 1..laid
                /\ prefill = "eager" \/ ByEncoding(list[k]) => list[k].number \in Nat
          /\ (prefill = "eager" => CutsFit) => (prefill = "eager" \/ (\A k \in 1..Len(list) : ByEncoding(list[k])) => Linked(list))
      BY ItemsIs
    <3>2. heard'.list = list
      BY <2>4
    <3> HIDE DEF list
    <3> QED BY <2>1, <3>1, <3>2 DEF HeardInv, ByEncoding, Linked, Follows
  <2> QED BY <2>2, <2>3, <2>4
<1>2. CASE ~WritePackagedManifest
  <2>1. UNCHANGED <<prefill, heard>> /\ laid' \in Nat /\ laid' >= laid
    BY <1>2, Unheard
  <2>2. \A k \in 1..Len(heard.list) : heard.list[k].entry \in 1..laid'
    BY <1>0, <2>1
  <2> QED BY <2>1, <2>2 DEF HeardInv, ByEncoding, Linked, Follows
<1> QED BY <1>1, <1>2

LEMMA Invariants == Spec => [](SchedInv /\ EncInv /\ HeardInv)
<1>1. Init => SchedInv /\ EncInv /\ HeardInv
  BY SchedInit, EncInit, HeardInit
<1>2. SchedInv /\ EncInv /\ HeardInv /\ [Next]_vars => (SchedInv /\ EncInv /\ HeardInv)'
  BY SchedStep, EncStep, HeardStep
<1> QED BY <1>1, <1>2, PTL DEF Spec

\* Entries are apart, encodings within what their high-water mark says, and no
\* number is one nobody assigned.
THEOREM PlaybackTyped == Spec => []PlaybackTypeOK
<1>1. SchedInv /\ EncInv /\ HeardInv => PlaybackTypeOK
  <2> SUFFICES ASSUME SchedInv, EncInv, HeardInv PROVE PlaybackTypeOK
    OBVIOUS
  <2>1. \A e, f \in schedule : e # f => e.id # f.id /\ (EndOf(e) <= f.start \/ EndOf(f) <= e.start)
    BY DEF SchedInv, Chained, Before
  <2>1a. \A w \in waiting : w.entry.id \in 1..laid /\ w.at \in 0..now
    BY DEF EncInv, Belongs
  <2>2. DOMAIN heard.list = 1..Len(heard.list)
    BY DEF HeardInv
  <2>3. \A k \in DOMAIN heard.list :
          /\ heard.list[k].entry \in 1..laid
          /\ heard.list[k].number \in
                IF prefill = "eager" \/ heard.list[k].source[1] = "encoding" THEN Nat ELSE Int
    <3>1. \A k \in 1..Len(heard.list) : heard.list[k].number \in Int
      BY ItemFields DEF HeardInv
    <3> QED BY <2>2, <3>1 DEF HeardInv, ByEncoding
  <2> QED BY <2>1, <2>1a, <2>3 DEF PlaybackTypeOK, SchedInv, EncInv
<1> QED BY <1>1, Invariants, PTL

LEMMA HeardCounts ==
    ASSUME HeardInv, prefill = "eager" => CutsFit
    PROVE  ItemsNumbered
<1> SUFFICES ASSUME prefill = "eager" \/ FromEncodings(heard)
             PROVE  Implied(heard) = Range(heard.list)
  BY DEF ItemsNumbered
<1>1. heard.list \in Seq(Item) /\ DOMAIN heard.list = 1..Len(heard.list)
  BY DEF HeardInv
<1>2. Linked(heard.list)
  BY <1>1 DEF HeardInv, FromEncodings, ByEncoding
<1> QED BY <1>1, <1>2, LinkedImplied

\* The numbers a player counts to are those of the segments, whatever is laid,
\* packaged, encoded, replaced and pruned, where no package's cut runs past the
\* first segment of the next entry.
THEOREM PlayerCounts == CutsFit => (Spec => []ItemsNumbered)
<1> SUFFICES ASSUME CutsFit PROVE Spec => []ItemsNumbered
  OBVIOUS
<1>1. SchedInv /\ EncInv /\ HeardInv => ItemsNumbered
  BY HeardCounts
<1> QED BY <1>1, Invariants, PTL

\* On an on-demand channel they are so whatever the cuts.
THEOREM DemandCounts == Spec => [](prefill = "on_demand" => ItemsNumbered)
<1>1. SchedInv /\ EncInv /\ HeardInv => (prefill = "on_demand" => ItemsNumbered)
  BY HeardCounts
<1> QED BY <1>1, Invariants, PTL

-----------------------------------------------------------------------------
(* The master playlist.                                                    *)

LEMMA SomeEntry ==
    ASSUME SchedInv, OnAirAt(now) # {}
    PROVE  Cardinality(schedule) \in Nat /\ Cardinality(schedule) >= 1
<1>1. schedule # {}
  BY DEF OnAirAt, Window
<1>2. Cardinality(schedule) \in Nat /\ IsFiniteSet(schedule)
  BY ScheduleCount DEF SchedInv
<1>3. Cardinality(schedule) # 0
  BY <1>1, <1>2, FS_EmptySet
<1> QED BY <1>2, <1>3

\* What the first pass has listed is not taken away.
LEMMA ListedStays ==
    ASSUME SchedInv, EncInv, OnAirAt(now) # {}, NEW p, Pass(Start, p).list # <<>>
    PROVE  Items(p) # <<>>
<1> DEFINE T == {s \in States : /\ prefill = "eager" => EagerState(s, ReadyRows(p))
                                /\ prefill = "on_demand" => DemandState(s)
                                /\ s.list # <<>>}
<1>1. prefill = "eager" \/ prefill = "on_demand"
  BY DEF SchedInv, Modes
<1>2. /\ prefill = "eager" => EagerState(Start, ReadyRows(p))
      /\ prefill = "on_demand" => DemandState(Start)
  BY EagerStart, DemandStart
<1>3. ASSUME NEW s, prefill = "eager" => EagerState(s, ReadyRows(p)),
             prefill = "on_demand" => DemandState(s)
      PROVE  /\ Pass(s, p) \in States
             /\ prefill = "eager" => EagerState(Pass(s, p), ReadyRows(p))
             /\ prefill = "on_demand" => DemandState(Pass(s, p))
             /\ s.list # <<>> => Pass(s, p).list # <<>>
  <2>1. CASE prefill = "eager"
    <3>1. EagerState(Pass(s, p), ReadyRows(p)) /\ (s.list # <<>> => Pass(s, p).list # <<>>)
      BY <1>3, <2>1, EagerPass
    <3> QED BY <2>1, <3>1 DEF EagerState
  <2>2. CASE prefill = "on_demand"
    <3>1. DemandState(Pass(s, p)) /\ (s.list # <<>> => Pass(s, p).list # <<>>)
      BY <1>3, <2>2, DemandPass
    <3> QED BY <2>2, <3>1 DEF DemandState
  <2> QED BY <1>1, <2>1, <2>2
<1>4. Pass(Start, p) \in T
  BY <1>2, <1>3
<1>5. \A s \in T : Pass(s, p) \in T
  BY <1>3
<1> HIDE DEF T
<1>6. Ran(p) \in T
  BY <1>4, <1>5, SomeEntry, RanKeeps
<1> QED BY <1>6 DEF T, Items

LEMMA FirstPass ==
    ASSUME SchedInv, EncInv, NEW e \in OnAirAt(now), NEW p,
           Ready(e.media, p) \/ (prefill = "on_demand" /\ InTime(e, now, Served(e, now, Limit)) # {})
    PROVE  Pass(Start, p).list # <<>>
<1>1. now \in Nat /\ e \in schedule /\ (CHOOSE x \in OnAirAt(now) : TRUE) = e /\ OnAirAt(now) = {e}
      /\ Limit \in Nat /\ Limit > 0 /\ now < Deadline
  BY OnAirIs, Bounds DEF SchedInv, Deadline
<1>2. Start.list = <<>> /\ Start.wall = now /\ Start.go /\ Len(Start.list) = 0
  BY DEF Start
<1>3. Room(Start) = Limit /\ Going(Start)
  BY <1>1, <1>2 DEF Room, Going
<1>4. Pass(Start, p) = AtEntry(Start, e, p)
  BY <1>1, <1>2, <1>3 DEF Pass
<1>5. e \in OnAirAt(Start.wall)
  BY <1>2
<1>6. CASE Ready(e.media, p)
  <2>1. Pass(Start, p) = Packaged(Start, e, p)
    BY <1>4, <1>6 DEF AtEntry
  <2>2. CASE prefill = "eager"
    <3>1. EagerState(Start, ReadyRows(p))
      BY EagerStart
    <3> QED BY <1>3, <1>5, <1>6, <2>1, <2>2, <3>1, EagerPackaged
  <2>3. CASE prefill = "on_demand"
    <3>1. DemandState(Start)
      BY DemandStart
    <3> QED BY <1>3, <1>5, <2>1, <2>3, <3>1, DemandPackaged
  <2> QED BY <2>2, <2>3 DEF SchedInv, Modes
<1>7. CASE ~Ready(e.media, p)
  <2> DEFINE S == InTime(e, now, Served(e, now, Limit))
  <2>1. prefill = "on_demand" /\ S # {}
    BY <1>7
  <2>2. S \subseteq Encoded(e) /\ Run(S)
    BY <1>1, ServedIs, InTimeIs
  <2>3. Pass(Start, p) = OnDemand(Start, e)
    BY <1>4, <1>7, <2>1 DEF AtEntry
  <2>4. OnDemand(Start, e) = AppendEncoded(Start, e, S)
    BY <1>2, <1>3, <2>1 DEF OnDemand
  <2>5. DemandState(Start)
    BY DemandStart
  <2> HIDE DEF S
  <2> QED BY <1>3, <1>5, <2>1, <2>2, <2>3, <2>4, <2>5, DemandEncoded
<1> QED BY <1>6, <1>7

\* Where enough was there ahead of some position, an encoding has something to
\* list wherever playback is now.
LEMMA CoveredEncoded ==
    ASSUME NEW e \in Entry, NEW at \in Nat, MasterReady(e, at)
    PROVE  Encoded(e) # {}
<1> DEFINE pos == ServePosition(e, at)
           S == SegmentsFrom(e, pos, Limit)
<1>1. NeededCoverage(e, at) \in Int /\ NeededCoverage(e, at) >= 1
  <2>1. e.start \in Nat /\ e.offset \in Nat /\ MediaEnd(e) \in Nat
        /\ Coverage \in Nat /\ Lag \in Nat /\ Warmup \in Nat
    BY EntryFields, Bounds
  <2>2. pos \in Int
    BY <2>1 DEF ServePosition, PlaybackWall, Larger
  <2> HIDE DEF pos
  <2>3. MediaEnd(e) - pos \in Int
    BY <2>1, <2>2
  <2> DEFINE x == Smaller(Coverage, MediaEnd(e) - pos)
  <2>4. x \in Int
    BY <2>1, <2>3 DEF Smaller
  <2>5. NeededCoverage(e, at) = Larger(1, x)
    BY DEF NeededCoverage, pos
  <2> HIDE DEF x
  <2> QED BY <2>4, <2>5 DEF Larger
<1>2. S # {}
  <2> SUFFICES ASSUME S = {} PROVE FALSE
    OBVIOUS
  <2>1. UNION {EncStart(e, n)..(EncEnd(e, n) - 1) : n \in S} = {}
    OBVIOUS
  <2>2. CoverageOf(e, S) = Cardinality({})
    BY <2>1 DEF CoverageOf
  <2>3. CoverageOf(e, S) = 0
    BY <2>2, FS_EmptySet
  <2>4. CoverageOf(e, S) >= NeededCoverage(e, at)
    BY DEF MasterReady
  <2> QED BY <1>1, <2>3, <2>4
<1>3. S \subseteq Encoded(e)
  BY DEF SegmentsFrom
<1> QED BY <1>2, <1>3

LEMMA EncodedServed ==
    ASSUME SchedInv, EncInv, NEW e \in OnAirAt(now), Encoded(e) # {}
    PROVE  InTime(e, now, Served(e, now, Limit)) # {}
<1>1. now \in Nat /\ e \in schedule /\ Limit \in Nat /\ Limit > 0 /\ now < Deadline
  BY OnAirIs, Bounds DEF SchedInv, Deadline
<1>2. PICK n \in Encoded(e) : TRUE
  OBVIOUS
<1>3. /\ e.id \in DOMAIN encodings /\ n \in Nat /\ n < encodings[e.id].count
      /\ encodings[e.id] \in Encoding
  BY EncodedIs DEF EncInv
<1>4. encodings[e.id].count \in Nat /\ encodings[e.id].first \in Nat
      /\ Encoded(e) = encodings[e.id].first..(encodings[e.id].count - 1)
  BY <1>3 DEF Encoding, Encoded
<1>5. encodings[e.id].count - 1 \in LatestSegments(e, Limit)
  <2> DEFINE c == encodings[e.id].count
             f == encodings[e.id].first
  <2>1. c \in Nat /\ f \in Nat /\ n \in f..(c - 1) /\ Encoded(e) = f..(c - 1)
    BY <1>4
  <2> HIDE DEF c, f
  <2>2. c - 1 \in f..(c - 1) /\ c - 1 >= c - Limit
    BY <1>1, <2>1
  <2> QED BY <2>1, <2>2 DEF LatestSegments, c
<1>6. Served(e, now, Limit) # {}
  BY <1>5 DEF Served
<1>7. Served(e, now, Limit) \subseteq Encoded(e) /\ Run(Served(e, now, Limit))
  BY <1>1, ServedIs
<1> QED BY <1>1, <1>6, <1>7, InTimeIs

\* Only on-demand channels make a request wait.
WaitInv == waiting # {} => prefill = "on_demand"

LEMMA WaitStep == SchedInv /\ WaitInv /\ [Next]_vars => WaitInv'
<1> SUFFICES ASSUME SchedInv, WaitInv, [Next]_vars PROVE WaitInv'
  OBVIOUS
<1>1. prefill' = prefill
  BY Unheard
<1>2. ASSUME waiting' \subseteq waiting PROVE WaitInv'
  BY <1>1, <1>2 DEF WaitInv
<1>3. CASE HandleManifest
  BY <1>1, <1>3 DEF HandleManifest, WaitInv
<1>4. CASE \E w \in waiting : EnsureOnDemandMasterReady(w) \/ ManifestRefused(w)
  BY <1>2, <1>4 DEF EnsureOnDemandMasterReady, ManifestRefused
<1>5. CASE Edit \/ \E s \in Shapes[prefill] : ScheduleExtends(s)
  BY <1>2, <1>5 DEF Edit, ScheduleExtends, EntryPlaced, EntryInserted, RowsDeleted, MediaDeleted, UnchangedButRows
<1>6. CASE \E m \in Media, p \in Profiles : PackageReady(m, p) \/ RequeueReadyPackage(m, p)
  BY <1>2, <1>6 DEF PackageReady, RequeueReadyPackage, UnchangedButRows
<1>7. CASE \E i \in 1..laid : EncodingProgress(i) \/ PruneTrailing(i) \/ EncodingLost(i)
  BY <1>2, <1>7 DEF EncodingProgress, PruneTrailing, EncodingLost, UnchangedButEncodings
<1>8. CASE WritePackagedManifest \/ AdvanceTime \/ UNCHANGED vars
  BY <1>2, <1>8 DEF WritePackagedManifest, AdvanceTime, vars
<1> QED BY <1>3, <1>4, <1>5, <1>6, <1>7, <1>8 DEF Next

\* A master playlist leads somewhere: answered at once, every profile it names has
\* segments to play while something is on the air; answered after a wait, by the
\* entry and the time it began with, the required profile has as long as that entry
\* is on the air, whatever was edited and wherever the clock and the encoding are.
THEOREM MasterLeadsSomewhere == Spec => []MasterPlayable
<1>1. SchedInv /\ EncInv /\ WaitInv => MasterPlayable
  <2> SUFFICES ASSUME SchedInv, EncInv, WaitInv PROVE MasterPlayable
    OBVIOUS
  <2>1. ASSUME NEW e \in OnAirAt(now), NEW p \in Master PROVE Items(p) # <<>>
    <3>1. Window # {} /\ CurrentEntry = e /\ Ready(e.media, p)
      BY <2>1, CurrentIs DEF Master, Variants
    <3>2. Pass(Start, p).list # <<>>
      BY <3>1, FirstPass
    <3> QED BY <3>2, ListedStays
  <2>2. ASSUME NEW w \in waiting, MasterReady(w.entry, w.at), NEW e \in OnAirAt(now), e.id = w.entry.id
        PROVE  Items(Required) # <<>>
    <3>1. w.entry \in Entry /\ w.at \in Nat
      BY EncFacts DEF WaitOK, Belongs
    <3>2. Encoded(w.entry) # {}
      BY <2>2, <3>1, CoveredEncoded
    <3>3. Encoded(e) # {}
      BY <2>2, <3>2 DEF Encoded
    <3>4. InTime(e, now, Served(e, now, Limit)) # {} /\ prefill = "on_demand"
      BY <3>3, EncodedServed DEF WaitInv
    <3>5. Pass(Start, Required).list # <<>>
      BY <3>4, FirstPass
    <3> QED BY <3>5, ListedStays
  <2> QED BY <2>1, <2>2 DEF MasterPlayable
<1>2. Init => WaitInv
  BY DEF Init, WaitInv
<1>3. Spec => []WaitInv
  <2>1. SchedInv /\ EncInv /\ HeardInv /\ WaitInv /\ [Next]_vars => WaitInv'
    BY WaitStep
  <2> QED BY <1>2, <2>1, Invariants, PTL DEF Spec
<1> QED BY <1>1, <1>3, Invariants, PTL

-----------------------------------------------------------------------------
(* Two playlists of an eager channel.                                      *)

\* Of two rows that are counted together the later has the greater numbers.
LEMMA EagerOrder ==
    ASSUME NEW R, Good(R), NEW e \in R, NEW f \in R, Before(e, f),
           NEW n \in InEntry(e), NEW m \in InEntry(f)
    PROVE  /\ EagerItem(e, R, n).number < EagerItem(f, R, m).number
           /\ EagerItem(e, R, n).disc <= EagerItem(f, R, m).disc
<1>1. e \in Entry /\ Fits(e) /\ f \in Entry /\ Fits(f)
  BY DEF Good
<1> DEFINE l == Least(InEntry(e))
           h == Most(InEntry(e))
           a == BaseIn(e, R)
           b == BaseIn(f, R)
           c == Cardinality(InEntry(e))
           i == SegmentOffset(e, n)
           j == SegmentOffset(f, m)
<1>2. c = h - l + 1 /\ i = n - l /\ i \in Nat /\ j \in Nat
  BY <1>1, InEntryCount, OffsetIs
<1>3. h \in Int /\ l \in Int /\ n \in Int /\ n <= h
  BY <1>1, InEntryFacts, EntryFields, SegmentFacts
<1>4. a \in Nat /\ b \in Nat /\ a + c <= b /\ DiscIn(e, R) <= DiscIn(f, R)
  BY NumbersNat, BaseMono, DiscMono
<1>5. /\ EagerItem(e, R, n).number = a + i /\ EagerItem(f, R, m).number = b + j
      /\ EagerItem(e, R, n).disc = DiscIn(e, R) /\ EagerItem(f, R, m).disc = DiscIn(f, R)
  BY DEF EagerItem
<1> HIDE DEF l, h, a, b, c, i, j
<1>6. a + i < b + j
  BY <1>2, <1>3, <1>4
<1> QED BY <1>4, <1>5, <1>6

LEMMA EagerWithin ==
    ASSUME NEW R, Good(R), NEW e \in R, NEW n \in InEntry(e), NEW m \in InEntry(e), n <= m
    PROVE  /\ EagerItem(e, R, n).number <= EagerItem(e, R, m).number
           /\ EagerItem(e, R, n).number = EagerItem(e, R, m).number => n = m
           /\ EagerItem(e, R, n).disc = EagerItem(e, R, m).disc
<1>1. e \in Entry /\ Fits(e)
  BY DEF Good
<1> DEFINE l == Least(InEntry(e))
           a == BaseIn(e, R)
           i == SegmentOffset(e, n)
           j == SegmentOffset(e, m)
<1>2. i = n - l /\ j = m - l
  BY <1>1, OffsetIs
<1>3. l \in Int /\ n \in Int /\ m \in Int
  BY <1>1, InEntryFacts, EntryFields, SegmentFacts
<1>4. a \in Nat
  BY NumbersNat
<1>5. /\ EagerItem(e, R, n).number = a + i /\ EagerItem(e, R, m).number = a + j
      /\ EagerItem(e, R, n).disc = EagerItem(e, R, m).disc
  BY DEF EagerItem
<1> HIDE DEF l, a, i, j
<1>6. a + i <= a + j /\ (a + i = a + j => n = m)
  BY <1>2, <1>3, <1>4
<1> QED BY <1>5, <1>6

LEMMA EagerAgree ==
    ASSUME NEW R, Good(R), NEW e \in R, NEW f \in R,
           NEW n \in InEntry(e), NEW m \in InEntry(f)
    PROVE  LET x == EagerItem(e, R, n)
               y == EagerItem(f, R, m)
           IN  /\ Segment(x) = Segment(y) <=> x.number = y.number
               /\ Segment(x) = Segment(y) => x.disc = y.disc
<1> DEFINE x == EagerItem(e, R, n)
           y == EagerItem(f, R, m)
<1>1. /\ Segment(x) = <<e.id, <<"package", e.media>>, n>> /\ Segment(y) = <<f.id, <<"package", f.media>>, m>>
      /\ x.number \in Nat /\ y.number \in Nat
  <2>1. x.number \in Nat /\ y.number \in Nat
    BY EagerItemType
  <2> QED BY <2>1 DEF EagerItem, Segment
<1>2. n \in Int /\ m \in Int
  BY InEntryFacts, EntryFields, SegmentFacts DEF Good
<1>3. CASE e = f
  <2>1. n <= m \/ m <= n
    BY <1>2
  <2>2. x.number = y.number => n = m
    BY <1>3, <2>1, EagerWithin
  <2>3. Segment(x) = Segment(y) => n = m
    BY <1>1
  <2> HIDE DEF x, y
  <2>4. n = m => x = y
    BY <1>3 DEF x, y
  <2> QED BY <2>2, <2>3, <2>4 DEF x, y
<1>4. CASE e # f
  <2>1. e.id # f.id
    BY <1>4, StartsOrder
  <2>2. Segment(x) # Segment(y)
    BY <1>1, <2>1
  <2>3. x.number # y.number
    <3>1. Before(e, f) \/ Before(f, e)
      BY <1>4 DEF Good, Chained
    <3>2. x.number < y.number \/ y.number < x.number
      BY <3>1, EagerOrder
    <3> HIDE DEF x, y
    <3> QED BY <1>1, <3>2
  <2> QED BY <2>2, <2>3
<1> QED BY <1>3, <1>4

\* The rows counted up to one are it and those below.
LEMMA UpToIs ==
    ASSUME NEW R, Good(R), NEW e \in R
    PROVE  UpTo(R, e.id) = Below(e, R) \cup {e}
<1>1. \A x \in R : x.id = e.id => x = e
  BY StartsOrder
<1>2. \A x \in R : x.start <= e.start <=> x.start < e.start \/ x = e
  <2> TAKE x \in R
  <2>1. x.start \in Nat /\ e.start \in Nat
    BY EntryFields DEF Good
  <2>2. x.start = e.start => x = e
    BY StartsOrder
  <2> QED BY <2>1, <2>2
<1>3. UpTo(R, e.id) = {x \in R : x.start <= e.start}
  BY <1>1 DEF UpTo
<1> QED BY <1>2, <1>3 DEF Below

\* Where two playlists count the same up to a row, the row's items are the same.
LEMMA SameItem ==
    ASSUME NEW R, NEW Q, Good(R), Good(Q), NEW e \in R, UpTo(R, e.id) = UpTo(Q, e.id)
    PROVE  e \in Q /\ \A n : EagerItem(e, R, n) = EagerItem(e, Q, n)
<1>1. UpTo(R, e.id) = Below(e, R) \cup {e}
  BY UpToIs
<1>2. e \in Q
  BY <1>1 DEF UpTo
<1>3. UpTo(Q, e.id) = Below(e, Q) \cup {e}
  BY <1>2, UpToIs
<1>4. e \notin Below(e, R) /\ e \notin Below(e, Q)
  BY <1>2, BelowGood
<1>5. Below(e, R) = Below(e, Q)
  <2> DEFINE A == Below(e, R)
             B == Below(e, Q)
  <2>1. A \cup {e} = B \cup {e} /\ e \notin A /\ e \notin B
    BY <1>1, <1>3, <1>4
  <2> HIDE DEF A, B
  <2>2. A = B
    BY <2>1
  <2> QED BY <2>2 DEF A, B
<1>6. BaseIn(e, R) = BaseIn(e, Q) /\ DiscIn(e, R) = DiscIn(e, Q)
  BY <1>5 DEF BaseIn, DiscIn
<1> QED BY <1>2, <1>6 DEF EagerItem

-----------------------------------------------------------------------------
(* What a player has read from an eager channel, at any time after.        *)

OfRow(x, e, R) == \E n \in InEntry(e) : x = EagerItem(e, R, n)
Started(x, e, R, t) == e.start <= t /\ \E n \in InEntry(e) : x = EagerItem(e, R, n) /\ WallAt(e, n) <= t
Current(x, e, R) ==
    /\ e.start <= now /\ now < EndOf(e)
    /\ \E n \in InEntry(e) : x = EagerItem(e, R, n) /\ WallAt(e, n) <= now /\ now < WallAfter(e, n)

\* The items are those of the rows counted then, whatever has become of them, and
\* the first of the list had started.
HeardEager ==
    prefill = "eager" =>
        /\ heard.list = <<>> => heard = Nothing
        /\ Good(heard.rows)
        /\ \A k \in 1..Len(heard.list) : \E e \in heard.rows : OfRow(heard.list[k], e, heard.rows)
        /\ heard.list # <<>> => \E e \in heard.rows : Started(heard.list[1], e, heard.rows, now)

\* Counted up to the last, every item is of a row that is counted.
LEMMA CountedUpTo ==
    ASSUME NEW R, Good(R), NEW f \in R, NEW Q, Q = UpTo(R, f.id)
    PROVE  /\ Good(Q) /\ Q \subseteq R
           /\ \A e \in R : e.start <= f.start => e \in Q
           /\ \A e \in Q : \A n : EagerItem(e, R, n) = EagerItem(e, Q, n)
<1>1. \A x \in R : x.start \in Nat
  BY EntryFields DEF Good
<1>2. \A x \in R : x.id = f.id => x = f
  BY StartsOrder
<1>3. Q = {x \in R : x.start <= f.start}
  BY <1>2 DEF UpTo
<1>4. Good(Q) /\ Q \subseteq R
  <2>1. Q \subseteq R
    BY <1>3
  <2> QED BY <2>1, GoodSub
<1>5. ASSUME NEW e \in Q, NEW n PROVE EagerItem(e, R, n) = EagerItem(e, Q, n)
  <2>1. Below(e, R) = Below(e, Q)
    BY <1>1, <1>3 DEF Below
  <2>2. BaseIn(e, R) = BaseIn(e, Q) /\ DiscIn(e, R) = DiscIn(e, Q)
    BY <2>1 DEF BaseIn, DiscIn
  <2> QED BY <2>2 DEF EagerItem
<1> QED BY <1>3, <1>4, <1>5

LEMMA PolledEager ==
    ASSUME SchedInv, prefill = "eager", NEW p, Items(p) # <<>>,
           NEW Q, Q = UpTo(ReadyRows(p), Last(Items(p)).entry)
    PROVE  /\ Good(Q) /\ Q \subseteq schedule
           /\ \A k \in 1..Len(Items(p)) : \E e \in Q : OfRow(Items(p)[k], e, Q)
           /\ \E e \in Q : Current(Items(p)[1], e, Q)
           /\ 1 \in 1..Len(Items(p))
<1>1. PICK s, list, R : s = Ran(p) /\ list = s.list /\ R = ReadyRows(p)
  OBVIOUS
<1>2. EagerState(s, R) /\ Items(p) = list
  BY <1>1, EagerRan DEF Items
<1>3. Good(R) /\ R \subseteq schedule
  BY <1>1, RowsGood
<1>4. list \in Seq(Item) /\ Len(list) \in Nat /\ Len(list) > 0
  <2>1. list \in Seq(Item)
    BY <1>1, <1>2, StateFields DEF EagerState
  <2> QED BY <1>2, <2>1
<1>5. 1 \in 1..Len(list) /\ Len(list) \in 1..Len(list)
  BY <1>4
<1>6. PICK f \in R : list[Len(list)].entry = f.id
  BY <1>1, <1>2, <1>5 DEF EagerState, NotAfter
<1>7. Q = UpTo(R, f.id)
  BY <1>1, <1>2, <1>6 DEF Last
<1>8. /\ Good(Q) /\ Q \subseteq R
      /\ \A e \in R : e.start <= f.start => e \in Q
  BY <1>3, <1>7, CountedUpTo
<1>9. ASSUME NEW e \in Q, NEW n PROVE EagerItem(e, R, n) = EagerItem(e, Q, n)
  BY <1>3, <1>7, CountedUpTo
<1>10. ASSUME NEW k \in 1..Len(list), NEW e \in R, list[k].entry = e.id PROVE e \in Q
  <2>1. NotAfter(list[k], list[Len(list)], R)
    BY <1>1, <1>2 DEF EagerState
  <2>2. PICK x \in R, y \in R : list[k].entry = x.id /\ list[Len(list)].entry = y.id /\ x.start <= y.start
    BY <2>1 DEF NotAfter
  <2>3. x = e /\ y = f
    BY <1>3, <1>6, <1>10, <2>2, StartsOrder
  <2> QED BY <1>8, <2>2, <2>3
<1>11. ASSUME NEW k \in 1..Len(list) PROVE \E e \in Q : OfRow(list[k], e, Q)
  <2>0. PICK e \in R : \E n \in InEntry(e) : list[k] = EagerItem(e, R, n)
    BY <1>1, <1>2 DEF EagerState, IsEager
  <2>1. PICK n \in InEntry(e) : list[k] = EagerItem(e, R, n)
    BY <2>0
  <2>2. list[k].entry = e.id
    BY <2>1 DEF EagerItem
  <2>3. e \in Q
    BY <1>10, <2>2
  <2>4. list[k] = EagerItem(e, Q, n)
    BY <1>9, <2>1, <2>3
  <2> QED BY <2>3, <2>4 DEF OfRow
<1>12. \E e \in Q : Current(list[1], e, Q)
  <2>1. IsFirst(list[1], R)
    BY <1>1, <1>2, <1>4 DEF EagerState
  <2>1a. PICK e \in R :
            /\ e.start <= now /\ now < EndOf(e)
            /\ \E n \in InEntry(e) :
                  list[1] = EagerItem(e, R, n) /\ WallAt(e, n) <= now /\ now < WallAfter(e, n)
    BY <2>1 DEF IsFirst
  <2>2. PICK n \in InEntry(e) :
            list[1] = EagerItem(e, R, n) /\ WallAt(e, n) <= now /\ now < WallAfter(e, n)
    BY <2>1a
  <2>3. list[1].entry = e.id
    BY <2>2 DEF EagerItem
  <2>4. e \in Q
    BY <1>5, <1>10, <2>3
  <2>5. list[1] = EagerItem(e, Q, n)
    BY <1>9, <2>2, <2>4
  <2> QED BY <2>1a, <2>2, <2>4, <2>5 DEF Current
<1> QED BY <1>2, <1>3, <1>5, <1>8, <1>11, <1>12

LEMMA EagerHeardInit == Init => HeardEager
<1> SUFFICES ASSUME Init PROVE HeardEager
  OBVIOUS
<1>1. heard = Nothing /\ heard.list = <<>> /\ heard.rows = {} /\ Len(heard.list) = 0
  BY DEF Init, Nothing
<1>2. Good({})
  BY FS_EmptySet DEF Good, Chained
<1> QED BY <1>1, <1>2 DEF HeardEager

\* A poll that changes what was heard.
LEMMA Polled ==
    ASSUME SchedInv, [Next]_vars, heard' # heard
    PROVE  /\ UNCHANGED <<prefill, schedule, now>> /\ Items(played) # <<>>
           /\ heard'.list = Items(played)
           /\ heard'.rows = UpTo(ReadyRows(played), Last(Items(played)).entry)
<1>1. WritePackagedManifest
  BY Unheard
<1> QED BY <1>1 DEF WritePackagedManifest

LEMMA EagerHeardStep ==
    SchedInv /\ SchedInv' /\ HeardInv /\ HeardEager /\ [Next]_vars => HeardEager'
<1> SUFFICES ASSUME SchedInv, SchedInv', HeardInv, HeardEager, [Next]_vars, prefill = "eager"
             PROVE  HeardEager'
  BY Unheard DEF HeardEager, OfRow, Started
<1>1. prefill' = "eager" /\ now' \in Nat /\ now \in Nat /\ now <= now'
  BY Unheard, SchedSound
<1>2. CASE heard' = heard
  <2>1. PICK R, list : R = heard.rows /\ list = heard.list
    OBVIOUS
  <2>2. heard'.list = list /\ heard'.rows = R
    BY <1>2, <2>1
  <2>3. ASSUME list # <<>> PROVE \E e \in R : Started(list[1], e, R, now')
    <3>1. Good(R)
      BY <2>1 DEF HeardEager
    <3>2. PICK e \in R : Started(list[1], e, R, now)
      BY <2>1, <2>3 DEF HeardEager
    <3>3. PICK n \in InEntry(e) : list[1] = EagerItem(e, R, n) /\ WallAt(e, n) <= now
      BY <3>2 DEF Started
    <3>4. e \in Entry /\ Fits(e) /\ e.start \in Nat /\ e.offset \in Nat
      BY <3>1, EntryFields DEF Good
    <3>5. SegStart(e.media, n) \in Nat
      BY <3>4, InEntryFacts, EntryFields, SegmentFacts
    <3>6. WallAt(e, n) \in Int
      BY <3>4, <3>5 DEF WallAt
    <3>7. e.start <= now' /\ WallAt(e, n) <= now'
      BY <1>1, <3>2, <3>3, <3>4, <3>6 DEF Started
    <3> QED BY <3>3, <3>7 DEF Started
  <2>4. list = <<>> => heard' = Nothing'
    BY <1>2, <2>1 DEF HeardEager, Nothing
  <2>5. Good(R) /\ \A k \in 1..Len(list) : \E e \in R : OfRow(list[k], e, R)
    BY <2>1 DEF HeardEager
  <2> QED BY <1>1, <2>2, <2>3, <2>4, <2>5 DEF HeardEager, OfRow, Started
<1>3. CASE heard' # heard
  <2>1. PICK Q, list : Q = heard'.rows /\ list = heard'.list
    OBVIOUS
  <2>2. /\ list = Items(played) /\ list # <<>> /\ now' = now
        /\ Q = UpTo(ReadyRows(played), Last(Items(played)).entry)
    BY <1>3, <2>1, Polled
  <2>3. /\ Good(Q)
        /\ \A k \in 1..Len(list) : \E e \in Q : OfRow(list[k], e, Q)
        /\ \E e \in Q : Current(list[1], e, Q)
    BY <2>2, PolledEager
  <2>4. \E e \in Q : Started(list[1], e, Q, now')
    BY <2>2, <2>3 DEF Current, Started
  <2> QED BY <1>1, <2>1, <2>2, <2>3, <2>4 DEF HeardEager, OfRow, Started
<1> QED BY <1>2, <1>3

-----------------------------------------------------------------------------
(* Two polls of an eager channel.                                          *)

LEMMA PollsAgree ==
    ASSUME NEW R, NEW Q, Good(R), Good(Q), NEW x, NEW y, NEW e \in R, NEW f \in Q,
           OfRow(x, e, R), OfRow(y, f, Q),
           UpTo(R, x.entry) = UpTo(Q, x.entry) \/ UpTo(R, y.entry) = UpTo(Q, y.entry)
    PROVE  /\ Segment(x) = Segment(y) <=> x.number = y.number
           /\ Segment(x) = Segment(y) => x.disc = y.disc
<1>1. PICK n \in InEntry(e) : x = EagerItem(e, R, n)
  BY DEF OfRow
<1>2. PICK m \in InEntry(f) : y = EagerItem(f, Q, m)
  BY DEF OfRow
<1>3. x.entry = e.id /\ y.entry = f.id
  BY <1>1, <1>2 DEF EagerItem
<1>4. CASE UpTo(R, e.id) = UpTo(Q, e.id)
  <2>1. e \in Q /\ EagerItem(e, R, n) = EagerItem(e, Q, n)
    BY <1>4, SameItem
  <2>2. /\ Segment(EagerItem(e, Q, n)) = Segment(EagerItem(f, Q, m))
              <=> EagerItem(e, Q, n).number = EagerItem(f, Q, m).number
        /\ Segment(EagerItem(e, Q, n)) = Segment(EagerItem(f, Q, m))
              => EagerItem(e, Q, n).disc = EagerItem(f, Q, m).disc
    BY <2>1, EagerAgree
  <2> QED BY <1>1, <1>2, <2>1, <2>2
<1>5. CASE UpTo(R, f.id) = UpTo(Q, f.id)
  <2>1. f \in R /\ EagerItem(f, R, m) = EagerItem(f, Q, m)
    BY <1>5, SameItem
  <2>2. /\ Segment(EagerItem(e, R, n)) = Segment(EagerItem(f, R, m))
              <=> EagerItem(e, R, n).number = EagerItem(f, R, m).number
        /\ Segment(EagerItem(e, R, n)) = Segment(EagerItem(f, R, m))
              => EagerItem(e, R, n).disc = EagerItem(f, R, m).disc
    BY <2>1, EagerAgree
  <2> QED BY <1>1, <1>2, <2>1, <2>2
<1> QED BY <1>3, <1>4, <1>5

\* What is current now comes no earlier than what had started before, where
\* nothing is missing that was counted up to it.
LEMMA PollsGoOn ==
    ASSUME NEW R, NEW Q, Good(R), Good(Q), NEW x, NEW y, NEW e \in R, NEW f \in Q, now \in Nat,
           UpTo(R, x.entry) \subseteq Q,
           Started(x, e, R, now), Current(y, f, Q)
    PROVE  x.number <= y.number /\ x.disc <= y.disc
<1>1. PICK n \in InEntry(e) : x = EagerItem(e, R, n) /\ WallAt(e, n) <= now
  BY DEF Started
<1>2. PICK m \in InEntry(f) : y = EagerItem(f, Q, m) /\ now < WallAfter(f, m)
  BY DEF Current
<1>3. /\ e \in Entry /\ f \in Entry /\ Fits(e) /\ Fits(f) /\ now \in Nat
      /\ e.start <= now /\ now < EndOf(f)
  BY DEF Good, Started, Current
<1>4. e \in Q /\ Below(e, R) \subseteq Q
  <2>1. x.entry = e.id
    BY <1>1 DEF EagerItem
  <2> QED BY <2>1, UpToIs
<1>5. EagerItem(e, R, n).number <= EagerItem(e, Q, n).number /\ EagerItem(e, R, n).disc <= EagerItem(e, Q, n).disc
      /\ EagerItem(e, R, n).number \in Nat /\ EagerItem(e, R, n).disc \in Int
  <2> DEFINE a == BaseIn(e, R)
             b == BaseIn(e, Q)
             i == SegmentOffset(e, n)
  <2>1. a <= b /\ DiscIn(e, R) <= DiscIn(e, Q)
    BY <1>4, HistoryMono
  <2>2. a \in Nat /\ b \in Nat /\ i \in Nat /\ DiscIn(e, R) \in Nat
    BY <1>3, <1>4, NumbersNat, OffsetIs
  <2>3. EagerItem(e, R, n).number = a + i /\ EagerItem(e, Q, n).number = b + i
        /\ EagerItem(e, R, n).disc = DiscIn(e, R) /\ EagerItem(e, Q, n).disc = DiscIn(e, Q)
    BY DEF EagerItem
  <2> HIDE DEF a, b, i
  <2> QED BY <2>1, <2>2, <2>3
<1>6. EagerItem(e, Q, n).number <= y.number /\ EagerItem(e, Q, n).disc <= y.disc
      /\ EagerItem(e, Q, n).number \in Int /\ EagerItem(e, Q, n).disc \in Int /\ y.number \in Int /\ y.disc \in Int
  <2>0. EagerItem(e, Q, n) \in Item /\ y \in Item
    BY <1>2, <1>4, EagerItemType
  <2>0a. EagerItem(e, Q, n).number \in Int /\ EagerItem(e, Q, n).disc \in Int /\ y.number \in Int /\ y.disc \in Int
    BY <2>0, ItemFields
  <2>1. CASE e = f
    <3>1. /\ e.start \in Nat /\ e.offset \in Nat
          /\ SegStart(e.media, n) \in Nat /\ SegEnd(e.media, m) \in Nat /\ n \in Int /\ m \in Int
          /\ m < n => SegEnd(e.media, m) <= SegStart(e.media, n)
      BY <1>3, <2>1, EntryFields, InEntryFacts, SegmentFacts
    <3>2. SegStart(e.media, n) < SegEnd(e.media, m)
      <4> DEFINE a == SegStart(e.media, n)
                 b == SegEnd(e.media, m)
      <4>1. e.start + a - e.offset <= now /\ now < e.start + b - e.offset /\ a \in Nat /\ b \in Nat
        BY <1>1, <1>2, <2>1, <3>1 DEF WallAt, WallAfter
      <4> HIDE DEF a, b
      <4>2. a < b
        BY <1>3, <3>1, <4>1
      <4> QED BY <4>2 DEF a, b
    <3>3. n <= m
      BY <3>1, <3>2
    <3>4. /\ EagerItem(e, Q, n).number <= EagerItem(e, Q, m).number
          /\ EagerItem(e, Q, n).disc = EagerItem(e, Q, m).disc
      BY <1>4, <2>1, <3>3, EagerWithin
    <3> QED BY <1>2, <2>0a, <2>1, <3>4
  <2>2. CASE e # f
    <3>1. ~Before(f, e)
      BY <1>3, EntryFields DEF Before
    <3>2. Before(e, f)
      BY <1>4, <2>2, <3>1 DEF Good, Chained
    <3>3. /\ EagerItem(e, Q, n).number < EagerItem(f, Q, m).number
          /\ EagerItem(e, Q, n).disc <= EagerItem(f, Q, m).disc
      BY <1>4, <3>2, EagerOrder
    <3> QED BY <1>2, <2>0a, <3>3
  <2> QED BY <2>0a, <2>1, <2>2
<1>7. x.number <= y.number
  BY <1>1, <1>5, <1>6
<1> QED BY <1>1, <1>5, <1>6, <1>7

-----------------------------------------------------------------------------
(* What a player has read from an on-demand channel, at any time after.    *)

\* A number an encoding has used is below those of the encodings after it.
Numbered(x) ==
    \E id \in Nat :
        /\ x.source = <<"encoding", x.entry, id>> /\ id <= encoded
        /\ x.number <= highWater[x.entry]
        /\ x.entry \in DOMAIN encodings =>
              IF encodings[x.entry].id = id
              THEN x.number = encodings[x.entry].base + x.segment
              ELSE x.number < encodings[x.entry].base

HeardDemand ==
    prefill = "on_demand" =>
        \A k \in 1..Len(heard.list) : ByEncoding(heard.list[k]) => Numbered(heard.list[k])

LEMMA EncodedNumbered ==
    ASSUME SchedInv, EncInv, NEW e \in schedule, NEW n \in Encoded(e)
    PROVE  Numbered(EncodingItem(e, n))
<1>1. PICK c : c = encodings[e.id]
  OBVIOUS
<1>2. /\ e.id \in DOMAIN encodings /\ n \in Nat /\ n < c.count
      /\ EncodingOK(c, e.id, highWater[e.id], encoded, schedule, laid) /\ highWater[e.id] \in Int
  BY <1>1, EncodedIs, EncFacts
<1>3. c.id \in Nat /\ c.base \in Nat /\ c.count \in Nat /\ c.id <= encoded
      /\ c.base + c.count - 1 <= Larger(highWater[e.id], c.base - 1)
  BY <1>2 DEF EncodingOK, Encoding
<1>4. c.base + n <= highWater[e.id]
  BY <1>2, <1>3 DEF Larger
<1>5. /\ EncodingItem(e, n).source = <<"encoding", e.id, c.id>> /\ EncodingItem(e, n).entry = e.id
      /\ EncodingItem(e, n).number = c.base + n /\ EncodingItem(e, n).segment = n
  BY <1>1 DEF EncodingItem
<1> QED BY <1>1, <1>2, <1>3, <1>4, <1>5 DEF Numbered

LEMMA GridNumberInt ==
    ASSUME NEW e \in Entry, NEW pos \in Int
    PROVE  GridNumber(e, pos) \in Int
<1> DEFINE v == pos - e.offset
           h == Grid \div 2
<1>1. e.start \in Nat /\ e.offset \in Nat /\ Grid \in Nat \ {0}
  BY EntryFields, Bounds
<1>2. v \in Int /\ h \in Int
  BY <1>1
<1> HIDE DEF v, h
<1>3. DivRound(v, Grid) \in Int
  <2>1. (v + h) \div Grid \in Int /\ (h - v) \div Grid \in Int
    BY <1>1, <1>2
  <2>2. -((h - v) \div Grid) \in Int
    BY <2>1
  <2> QED BY <2>1, <2>2 DEF DivRound, h
<1>4. e.start \div Grid \in Int
  BY <1>1
<1> QED BY <1>3, <1>4 DEF GridNumber, v

\* A new encoding begins past all numbers of those before it.
LEMMA ReservedPast ==
    ASSUME SchedInv, EncInv, NEW e \in Entry, e.id \in 1..laid, NEW wall \in Nat, Reserve(e, wall),
           highWater' = highWater, NEW x \in Item, x.entry \in 1..laid, Numbered(x)
    PROVE  Numbered(x)'
<1> DEFINE from == e.offset + PlaybackWall(e, wall) - e.start
           base == Larger(GridNumber(e, from), highWater[e.id] + 1)
           new == [id |-> encoded', of |-> e, from |-> from, first |-> 0, count |-> 0, base |-> base]
<1>1. /\ encoded' = encoded + 1
      /\ encodings' = [i \in DOMAIN encodings \cup {e.id} |-> IF i = e.id THEN new ELSE encodings[i]]
  BY DEF Reserve
<1>2. new.id = encoded + 1 /\ new.base = base
  BY <1>1
<1>3. /\ highWater[e.id] \in Int /\ highWater[x.entry] \in Int
      /\ encoded \in Nat /\ x.number \in Int /\ x.segment \in Nat
  BY EncFacts DEF Item
<1>4. base \in Int /\ base > highWater[e.id]
  <2>1. e.start \in Nat /\ e.offset \in Nat /\ Lag \in Nat
    BY EntryFields, Bounds
  <2>2. from \in Int
    BY <2>1 DEF PlaybackWall, Larger
  <2> DEFINE g == GridNumber(e, from)
  <2>3. g \in Int
    BY <2>2, GridNumberInt
  <2> HIDE DEF g
  <2> QED BY <1>3, <2>3 DEF Larger, g
<1> HIDE DEF from, base, new
<1>5. PICK id \in Nat :
        /\ x.source = <<"encoding", x.entry, id>> /\ id <= encoded
        /\ x.number <= highWater[x.entry]
        /\ x.entry \in DOMAIN encodings =>
              IF encodings[x.entry].id = id
              THEN x.number = encodings[x.entry].base + x.segment
              ELSE x.number < encodings[x.entry].base
  BY DEF Numbered
<1>6. id <= encoded'
  BY <1>1, <1>3, <1>5
<1>7. CASE x.entry = e.id
  <2>1. encodings'[x.entry] = new
    BY <1>1, <1>7
  <2>2. new.id # id /\ x.number < new.base
    BY <1>2, <1>3, <1>4, <1>5, <1>7
  <2> QED BY <1>5, <1>6, <2>1, <2>2 DEF Numbered
<1>8. CASE x.entry # e.id
  <2>1. x.entry \in DOMAIN encodings' <=> x.entry \in DOMAIN encodings
    BY <1>1, <1>8
  <2>2. x.entry \in DOMAIN encodings => encodings'[x.entry] = encodings[x.entry]
    BY <1>1, <1>8
  <2> QED BY <1>5, <1>6, <2>1, <2>2 DEF Numbered
<1> QED BY <1>7, <1>8

LEMMA NumberedKept ==
    ASSUME SchedInv, EncInv, [Next]_vars, NEW x \in Item, x.entry \in 1..laid, Numbered(x)
    PROVE  Numbered(x)'
<1>1. /\ \A i \in DOMAIN encodings : EncodingOK(encodings[i], i, highWater[i], encoded, schedule, laid) /\ i \in 1..laid
      /\ \A i \in 1..laid : highWater[i] \in Int /\ i \in 1..MaxEntries[prefill]
      /\ encoded \in Nat /\ x.number \in Int /\ x.segment \in Nat
  <2>1. x.number \in Int /\ x.segment \in Nat
    BY DEF Item
  <2>2. laid \in Nat /\ MaxEntries[prefill] \in Nat /\ laid <= MaxEntries[prefill]
    BY EncFacts
  <2> QED BY <2>1, <2>2, EncFacts
<1>2. PICK id \in Nat :
        /\ x.source = <<"encoding", x.entry, id>> /\ id <= encoded
        /\ x.number <= highWater[x.entry]
        /\ x.entry \in DOMAIN encodings =>
              IF encodings[x.entry].id = id
              THEN x.number = encodings[x.entry].base + x.segment
              ELSE x.number < encodings[x.entry].base
  BY DEF Numbered
<1>3. CASE UNCHANGED <<encodings, highWater, encoded>>
  BY <1>2, <1>3 DEF Numbered
<1>4. CASE WritePackagedManifest
  <2>1. highWater' = highWater
    BY <1>4 DEF WritePackagedManifest
  <2>2. CASE UNCHANGED <<encodings, encoded>>
    BY <1>3, <2>1, <2>2
  <2>3. ASSUME NEW e \in Wanting(played), Reserve(e, Ran(played).wall) PROVE Numbered(x)'
    <3>1. PICK wall : wall = Ran(played).wall
      OBVIOUS
    <3>2. wall \in Nat
      BY <3>1, RanState, StateFields
    <3>3. e \in Entry /\ e.id \in 1..laid
      BY DEF Wanting, OnAirAt, Window, SchedInv
    <3>4. Reserve(e, wall)
      BY <2>3, <3>1 DEF Reserve
    <3> QED BY <2>1, <3>2, <3>3, <3>4, ReservedPast
  <2> QED BY <1>4, <2>2, <2>3 DEF WritePackagedManifest
<1>4a. ASSUME NEW w \in waiting, EnsureOnDemandMasterReady(w) PROVE Numbered(x)'
  <2>1. highWater' = highWater
    BY <1>4a DEF EnsureOnDemandMasterReady
  <2>2. CASE w.entry.id \in DOMAIN encodings
    BY <1>3, <1>4a, <2>1, <2>2 DEF EnsureOnDemandMasterReady
  <2>3. CASE w.entry.id \notin DOMAIN encodings
    <3>1. Reserve(w.entry, w.at)
      BY <1>4a, <2>3 DEF EnsureOnDemandMasterReady
    <3>2. w.entry \in Entry /\ w.entry.id \in 1..laid /\ w.at \in Nat
      BY EncFacts DEF WaitOK, Belongs
    <3> QED BY <2>1, <3>1, <3>2, ReservedPast
  <2> QED BY <2>2, <2>3
<1>5. ASSUME NEW i \in 1..laid, EncodingProgress(i) PROVE Numbered(x)'
  <2>1. /\ i \in DOMAIN encodings /\ encoded' = encoded
        /\ encodings' = [encodings EXCEPT ![i].count = @ + 1]
        /\ highWater' = [highWater EXCEPT ![i] = Larger(@, encodings[i].base + encodings[i].count)]
    BY <1>5 DEF EncodingProgress, UnchangedButEncodings
  <2>2. PICK c : c = encodings[i]
    OBVIOUS
  <2>3. c \in Encoding
    BY <1>1, <2>1, <2>2 DEF EncodingOK
  <2>4. DOMAIN encodings' = DOMAIN encodings
        /\ encodings'[i] = [c EXCEPT !.count = @ + 1]
        /\ \A j \in DOMAIN encodings : j # i => encodings'[j] = encodings[j]
    BY <2>1, <2>2
  <2>5. [c EXCEPT !.count = @ + 1].id = c.id /\ [c EXCEPT !.count = @ + 1].base = c.base
        /\ c.base + c.count \in Int
    BY <2>3 DEF Encoding
  <2>6. \A j \in DOMAIN encodings : encodings'[j].id = encodings[j].id /\ encodings'[j].base = encodings[j].base
    BY <2>2, <2>4, <2>5
  <2>7. PICK w : w = Larger(highWater[i], encodings[i].base + encodings[i].count)
    OBVIOUS
  <2>8. w \in Int /\ w >= highWater[i]
    BY <1>1, <2>2, <2>5, <2>7 DEF Larger
  <2>9. highWater' = [highWater EXCEPT ![i] = w] /\ highWater \in [1..MaxEntries[prefill] -> Int]
    BY <2>1, <2>7 DEF EncInv
  <2>10. highWater[x.entry] \in Int /\ highWater'[x.entry] \in Int /\ highWater[x.entry] <= highWater'[x.entry]
    <3>1. CASE x.entry = i
      BY <1>1, <2>8, <2>9, <3>1
    <3>2. CASE x.entry # i
      BY <1>1, <2>9, <3>2
    <3> QED BY <3>1, <3>2
  <2>11. x.number <= highWater'[x.entry]
    BY <1>1, <1>2, <2>10
  <2> QED BY <1>2, <2>1, <2>4, <2>6, <2>11 DEF Numbered
<1>6. ASSUME NEW i \in 1..laid, PruneTrailing(i) PROVE Numbered(x)'
  <2>1. PICK c, m : c = encodings[i] /\ m = Most(Trailing(encodings[i].of)) + 1
    OBVIOUS
  <2>2. /\ i \in DOMAIN encodings /\ UNCHANGED <<highWater, encoded>>
        /\ encodings' = [encodings EXCEPT ![i].first = m]
    BY <1>6, <2>1 DEF PruneTrailing, UnchangedButEncodings
  <2>3. c \in Encoding
    BY <1>1, <2>1, <2>2 DEF EncodingOK
  <2>4. DOMAIN encodings' = DOMAIN encodings
        /\ encodings'[i] = [c EXCEPT !.first = m]
        /\ \A j \in DOMAIN encodings : j # i => encodings'[j] = encodings[j]
    BY <2>1, <2>2
  <2>5. [c EXCEPT !.first = m].id = c.id /\ [c EXCEPT !.first = m].base = c.base
    BY <2>3 DEF Encoding
  <2>6. \A j \in DOMAIN encodings : encodings'[j].id = encodings[j].id /\ encodings'[j].base = encodings[j].base
    BY <2>1, <2>4, <2>5
  <2> QED BY <1>2, <2>2, <2>4, <2>6 DEF Numbered
<1>7. ASSUME NEW i \in 1..laid, EncodingLost(i) PROVE Numbered(x)'
  <2>1. UNCHANGED <<highWater, encoded>> /\ encodings' = [j \in DOMAIN encodings \ {i} |-> encodings[j]]
    BY <1>7 DEF EncodingLost, UnchangedButEncodings
  <2>2. DOMAIN encodings' \subseteq DOMAIN encodings /\ \A j \in DOMAIN encodings' : encodings'[j] = encodings[j]
    BY <2>1
  <2> QED BY <1>2, <2>1, <2>2 DEF Numbered
<1>8. CASE Edit \/ \E s \in Shapes[prefill] : ScheduleExtends(s)
  BY <1>3, <1>8 DEF Edit, ScheduleExtends, EntryPlaced, EntryInserted, RowsDeleted, MediaDeleted, UnchangedButRows
<1>9. CASE HandleManifest \/ (\E w \in waiting : ManifestRefused(w)) \/ AdvanceTime \/ UNCHANGED vars
  BY <1>3, <1>9 DEF HandleManifest, ManifestRefused, AdvanceTime, vars
<1>10. CASE \E m \in Media, p \in Profiles : PackageReady(m, p) \/ RequeueReadyPackage(m, p)
  BY <1>3, <1>10 DEF PackageReady, RequeueReadyPackage, UnchangedButRows
<1> QED BY <1>4, <1>4a, <1>5, <1>6, <1>7, <1>8, <1>9, <1>10 DEF Next

LEMMA PolledDemand ==
    ASSUME SchedInv, EncInv, prefill = "on_demand", NEW p, NEW k \in 1..Len(Items(p)),
           ByEncoding(Items(p)[k])
    PROVE  \E e \in schedule : \E n \in Encoded(e) : Items(p)[k] = EncodingItem(e, n)
<1>1. DemandState(Ran(p))
  BY DemandRan
<1>2. Items(p) = Ran(p).list
  BY DEF Items
<1>3. IsEncoded(Items(p)[k]) \/ ByPackage(Items(p)[k])
  BY <1>1, <1>2 DEF DemandState
<1> QED BY <1>3 DEF IsEncoded, ByPackage, ByEncoding

LEMMA DemandHeardStep ==
    SchedInv /\ EncInv /\ HeardInv /\ HeardDemand /\ [Next]_vars => HeardDemand'
<1> SUFFICES ASSUME SchedInv, EncInv, HeardInv, HeardDemand, [Next]_vars, prefill = "on_demand"
             PROVE  HeardDemand'
  BY Unheard DEF HeardDemand
<1>1. prefill' = "on_demand"
  BY Unheard
<1>2. PICK list : list = heard'.list
  OBVIOUS
<1>3. ASSUME NEW k \in 1..Len(list), ByEncoding(list[k]) PROVE Numbered(list[k])'
  <2>1. CASE heard' = heard
    <3>1. list[k] \in Item /\ list[k].entry \in 1..laid /\ Numbered(list[k])
      BY <1>2, <1>3, <2>1 DEF HeardInv, HeardDemand
    <3> QED BY <3>1, NumberedKept
  <2>2. CASE heard' # heard
    <3>1. list = Items(played)
      <4>1. WritePackagedManifest
        BY <2>2, Unheard
      <4> QED BY <1>2, <2>2, <4>1 DEF WritePackagedManifest
    <3>2. PICK e \in schedule : \E n \in Encoded(e) : list[k] = EncodingItem(e, n)
      BY <1>3, <3>1, PolledDemand
    <3>3. list[k] \in Item /\ list[k].entry \in 1..laid
      BY <3>2, EncodingItemType DEF SchedInv
    <3>4. Numbered(list[k])
      BY <3>2, EncodedNumbered
    <3> QED BY <3>3, <3>4, NumberedKept
  <2> QED BY <2>1, <2>2
<1> QED BY <1>1, <1>2, <1>3 DEF HeardDemand, ByEncoding, Numbered

LEMMA HeardInvariants == Spec => [](SchedInv /\ EncInv /\ HeardInv /\ HeardEager /\ HeardDemand)
<1>1. Init => SchedInv /\ EncInv /\ HeardInv /\ HeardEager /\ HeardDemand
  <2>1. Init => HeardDemand
    BY DEF Init, Nothing, HeardDemand
  <2> QED BY <2>1, SchedInit, EncInit, HeardInit, EagerHeardInit
<1>2. SchedInv /\ EncInv /\ HeardInv /\ HeardEager /\ HeardDemand /\ [Next]_vars
        => (SchedInv /\ EncInv /\ HeardInv /\ HeardEager /\ HeardDemand)'
  BY SchedStep, EncStep, HeardStep, EagerHeardStep, DemandHeardStep
<1> QED BY <1>1, <1>2, PTL DEF Spec

\* Two playlists agree on what both list, by encodings of the same entry.
LEMMA EncodingsAgree ==
    ASSUME SchedInv, EncInv, NEW x \in Item, NEW y, Numbered(x),
           NEW e \in schedule, NEW n \in Encoded(e), y = EncodingItem(e, n), x.entry = y.entry
    PROVE  Segment(x) = Segment(y) <=> x.number = y.number
<1>1. PICK c : c = encodings[e.id]
  OBVIOUS
<1>2. e.id \in DOMAIN encodings /\ n \in Nat /\ c \in Encoding
  BY <1>1, EncodedIs DEF EncInv
<1>3. y.entry = e.id /\ y.source = <<"encoding", e.id, c.id>> /\ y.segment = n /\ y.number = c.base + n
  BY <1>1 DEF EncodingItem
<1>4. c.base \in Nat /\ c.id \in Nat /\ x.segment \in Nat /\ x.number \in Int
  BY <1>2 DEF Encoding, Item
<1>5. PICK id \in Nat : /\ x.source = <<"encoding", x.entry, id>>
                        /\ IF c.id = id THEN x.number = c.base + x.segment ELSE x.number < c.base
  BY <1>1, <1>2, <1>3 DEF Numbered
<1>6. Segment(x) = Segment(y) <=> x.source = y.source /\ x.segment = y.segment
  BY <1>3 DEF Segment
<1>7. x.source = y.source <=> id = c.id
  BY <1>3, <1>5
<1>8. CASE c.id = id
  <2>1. x.number = c.base + x.segment /\ y.number = c.base + n
    BY <1>3, <1>5, <1>8
  <2>2. x.number = y.number <=> x.segment = n
    BY <1>2, <1>4, <2>1
  <2> QED BY <1>3, <1>6, <1>7, <1>8, <2>2
<1>9. CASE c.id # id
  BY <1>2, <1>3, <1>4, <1>5, <1>6, <1>7, <1>9
<1> QED BY <1>8, <1>9

\* A segment keeps its number and a number its segment from one poll to another,
\* whatever was laid, moved, deleted and packaged in between, as long as the rows
\* counted up to one of the two are the same.
THEOREM SegmentsKeepNumbers == CutsFit => (Spec => NumbersStable)
<1> SUFFICES ASSUME CutsFit PROVE Spec => NumbersStable
  OBVIOUS
<1> DEFINE A == \A x \in Implied(heard), y \in Implied(heard') : Comparable(x, y) => Agree(x, y)
<1>1. SchedInv /\ EncInv /\ HeardInv /\ HeardEager /\ HeardDemand /\ [Next]_vars => [A]_heard
  <2> SUFFICES ASSUME SchedInv, EncInv, HeardInv, HeardEager, HeardDemand, [Next]_vars, heard' # heard,
                      NEW x \in Implied(heard), NEW y \in Implied(heard'), Comparable(x, y)
               PROVE  Agree(x, y)
    OBVIOUS
  <2>1. PICK h, g : h = heard /\ g = heard'
    OBVIOUS
  <2>2. g.list = Items(played) /\ Items(played) # <<>>
        /\ g.rows = UpTo(ReadyRows(played), Last(Items(played)).entry)
    BY <2>1, Polled
  <2>3. prefill = "eager" \/ prefill = "on_demand"
    BY DEF SchedInv, Modes
  <2>4. prefill = "on_demand" => FromEncodings(h) /\ FromEncodings(g) /\ x.entry = y.entry
    BY <2>1 DEF Comparable
  <2>5. /\ h.list \in Seq(Item) /\ g.list \in Seq(Item)
        /\ DOMAIN h.list = 1..Len(h.list) /\ DOMAIN g.list = 1..Len(g.list)
    BY <2>1, <2>2, ItemsIs DEF HeardInv
  <2>6. Linked(h.list)
    BY <2>1, <2>3, <2>4, <2>5 DEF HeardInv, FromEncodings, ByEncoding
  <2>7. Linked(g.list)
    BY <2>2, <2>3, <2>4, <2>5, ItemsIs DEF FromEncodings, ByEncoding
  <2>8. Implied(h) = Range(h.list) /\ Implied(g) = Range(g.list)
    BY <2>5, <2>6, <2>7, LinkedImplied
  <2>9. PICK j \in 1..Len(h.list), k \in 1..Len(g.list) : x = h.list[j] /\ y = g.list[k]
    BY <2>1, <2>5, <2>8 DEF Range
  <2>10. CASE prefill = "eager"
    <3>1. UpTo(h.rows, x.entry) = UpTo(g.rows, x.entry) \/ UpTo(h.rows, y.entry) = UpTo(g.rows, y.entry)
      BY <2>1, <2>10 DEF Comparable, SameHistory
    <3>2. Good(h.rows) /\ \E e \in h.rows : OfRow(x, e, h.rows)
      BY <2>1, <2>9, <2>10 DEF HeardEager
    <3>3. Good(g.rows) /\ \E f \in g.rows : OfRow(y, f, g.rows)
      BY <2>2, <2>9, <2>10, PolledEager
    <3>4. PICK e \in h.rows, f \in g.rows : OfRow(x, e, h.rows) /\ OfRow(y, f, g.rows)
      BY <3>2, <3>3
    <3>5. /\ Segment(x) = Segment(y) <=> x.number = y.number
          /\ Segment(x) = Segment(y) => x.disc = y.disc
      BY <3>1, <3>2, <3>3, <3>4, PollsAgree
    <3> QED BY <3>5 DEF Agree
  <2>11. CASE prefill = "on_demand"
    <3>1. ByEncoding(x) /\ ByEncoding(y) /\ x.entry = y.entry
      BY <2>4, <2>5, <2>9, <2>11 DEF FromEncodings, ByEncoding
    <3>2. Numbered(x) /\ x \in Item
      BY <2>1, <2>5, <2>9, <2>11, <3>1 DEF HeardDemand
    <3>3. PICK e \in schedule : \E n \in Encoded(e) : y = EncodingItem(e, n)
      BY <2>2, <2>9, <2>11, <3>1, PolledDemand
    <3>4. Segment(x) = Segment(y) <=> x.number = y.number
      BY <3>1, <3>2, <3>3, EncodingsAgree
    <3> QED BY <2>11, <3>4 DEF Agree
  <2> QED BY <2>3, <2>10, <2>11
<1>2. [][A]_heard => NumbersStable
  BY DEF NumbersStable
<1>3. Spec => [][Next]_vars
  BY DEF Spec
<1> HIDE DEF A
<1> QED BY <1>1, <1>2, <1>3, HeardInvariants, PTL

\* What an eager channel's playlists begin with never gets a smaller number, nor
\* a smaller discontinuity number, whatever the cuts and the edits, as long as none
\* of the rows that were counted up to it is withdrawn.
THEOREM BeginningsGoOn == Spec => NeverBack
<1> DEFINE B == prefill = "eager" /\ heard # Nothing /\ NoneWithdrawn(heard.list[1].entry) =>
                       /\ heard.list[1].number <= heard'.list[1].number
                       /\ heard.list[1].disc <= heard'.list[1].disc
<1>1. SchedInv /\ EncInv /\ HeardInv /\ HeardEager /\ HeardDemand /\ [Next]_vars => [B]_heard
  <2> SUFFICES ASSUME SchedInv, HeardInv, HeardEager, [Next]_vars, heard' # heard,
                      prefill = "eager", heard # Nothing, NoneWithdrawn(heard.list[1].entry)
               PROVE  /\ heard.list[1].number <= heard'.list[1].number
                      /\ heard.list[1].disc <= heard'.list[1].disc
    OBVIOUS
  <2>1. PICK h, g, x, y : h = heard /\ g = heard' /\ x = h.list[1] /\ y = g.list[1]
    OBVIOUS
  <2>2. g.list = Items(played) /\ Items(played) # <<>>
        /\ g.rows = UpTo(ReadyRows(played), Last(Items(played)).entry)
    BY <2>1, Polled
  <2>3. Good(h.rows) /\ \E e \in h.rows : Started(x, e, h.rows, now)
    BY <2>1 DEF HeardEager
  <2>4. Good(g.rows) /\ \E f \in g.rows : Current(y, f, g.rows)
    BY <2>1, <2>2, PolledEager
  <2>5. PICK e \in h.rows, f \in g.rows : Started(x, e, h.rows, now) /\ Current(y, f, g.rows)
    BY <2>3, <2>4
  <2>6. UpTo(h.rows, x.entry) \subseteq g.rows /\ now \in Nat
    BY <2>1, SchedSound DEF NoneWithdrawn
  <2>7. x.number <= y.number /\ x.disc <= y.disc
    BY <2>3, <2>4, <2>5, <2>6, PollsGoOn
  <2> QED BY <2>1, <2>7
<1>2. [][B]_heard => NeverBack
  BY DEF NeverBack
<1>3. Spec => [][Next]_vars
  BY DEF Spec
<1> HIDE DEF B
<1> QED BY <1>1, <1>2, <1>3, HeardInvariants, PTL

-----------------------------------------------------------------------------
(* Where the packaged items of a playlist are.                             *)
Placed(x) == \E e \in schedule : x.entry = e.id /\ Last(x.source) = e.media /\ x.segment \in InEntry(e)
BehindWall(x, wall) == \A e \in schedule : e.id = x.entry => WallAfter(e, x.segment) <= wall
InOrder(list) ==
    \A j, k \in 1..Len(list) :
        /\ j < k /\ ByPackage(list[j])
        /\ list[j].entry = list[k].entry /\ list[j].source = list[k].source
        => list[j].segment < list[k].segment
PlacedState(s) ==
    /\ s.go => now <= s.wall
    /\ \A k \in 1..Len(s.list) : ByPackage(s.list[k]) =>
          Placed(s.list[k]) /\ (s.go => BehindWall(s.list[k], s.wall))
    /\ InOrder(s.list)

LEMMA PlacedStart == ASSUME SchedInv PROVE PlacedState(Start)
<1>1. Start.list = <<>> /\ Len(Start.list) = 0 /\ Start.wall = now /\ now <= now
  BY DEF Start, SchedInv
<1> QED BY <1>1 DEF PlacedState, InOrder

LEMMA PlacedStop == ASSUME NEW s, PlacedState(s) PROVE PlacedState(Stop(s))
<1>1. ~Stop(s).go /\ Stop(s).list = s.list
  BY DEF Stop
<1> QED BY <1>1 DEF PlacedState

LEMMA PackagedPlaced ==
    ASSUME SchedInv, EncInv, NEW p, NEW e \in schedule, Ready(e.media, p),
           NEW first \in InEntry(e), NEW n \in InEntry(e), first <= n
    PROVE  LET x == PackagedItem(e, p, first, n)
           IN  /\ x \in Item /\ ByPackage(x) /\ Placed(x)
               /\ x.entry = e.id /\ x.segment = n
<1> DEFINE x == PackagedItem(e, p, first, n)
<1>1. x.entry = e.id /\ x.segment = n /\ (x.source = <<"package", e.media>> \/ x.source = <<"package", e.id, e.media>>)
  BY DEF PackagedItem
<1>2. x.source[1] = "package" /\ Last(x.source) = e.media
  <2>1. CASE x.source = <<"package", e.media>>
    BY ONLY <2>1 DEF Last
  <2>2. CASE x.source = <<"package", e.id, e.media>>
    BY ONLY <2>2 DEF Last
  <2> QED BY <1>1, <2>1, <2>2
<1>3. x \in Item
  <2>1. CASE prefill = "eager"
    <3>1. PICK R : R = ReadyRows(p)
      OBVIOUS
    <3>2. Good(R) /\ e \in R
      BY <2>1, <3>1, RowsGood DEF ReadyRows
    <3>3. PackagedItem(e, p, first, n) = EagerItem(e, R, n)
      BY <2>1, <3>1, EagerItemIs
    <3> QED BY <3>2, <3>3, EagerItemType
  <2>2. CASE prefill = "on_demand"
    BY <2>2, PackagedItemType
  <2> QED BY <2>1, <2>2 DEF SchedInv, Modes
<1> HIDE DEF x
<1>4. ByPackage(x) /\ Placed(x)
  BY <1>1, <1>2 DEF ByPackage, Placed
<1> QED BY <1>1, <1>3, <1>4 DEF x

\* Later segments of an entry end later.
LEMMA WallsMono ==
    ASSUME SchedInv, NEW e \in schedule, NEW j \in InEntry(e), NEW k \in InEntry(e)
    PROVE  /\ j \in Nat /\ WallAfter(e, j) \in Int
           /\ j <= k => WallAfter(e, j) <= WallAfter(e, k)
           /\ WallAfter(e, j) < WallAfter(e, k) => j < k
<1>1. e \in Entry /\ Fits(e)
  BY DEF SchedInv
<1>2. e.media \in Media /\ e.start \in Nat /\ e.offset \in Nat
  BY <1>1, EntryFields
<1>3. j \in Segments(e.media) /\ k \in Segments(e.media)
  BY <1>1, InEntryFacts
<1>4. /\ j \in Nat /\ SegStart(e.media, j) \in Nat /\ SegEnd(e.media, j) \in Nat
      /\ k \in Nat /\ SegStart(e.media, k) \in Nat /\ SegEnd(e.media, k) \in Nat
      /\ SegStart(e.media, j) < SegEnd(e.media, j) /\ SegStart(e.media, k) < SegEnd(e.media, k)
      /\ j < k => SegEnd(e.media, j) <= SegStart(e.media, k)
      /\ k < j => SegEnd(e.media, k) <= SegStart(e.media, j)
  BY <1>2, <1>3, SegmentFacts
<1>5. /\ WallAfter(e, j) = e.start + SegEnd(e.media, j) - e.offset
      /\ WallAfter(e, k) = e.start + SegEnd(e.media, k) - e.offset
  BY DEF WallAfter
<1>6. j <= k => SegEnd(e.media, j) <= SegEnd(e.media, k)
  BY <1>4
<1>7. k <= j => SegEnd(e.media, k) <= SegEnd(e.media, j)
  BY <1>4
<1> QED BY ONLY <1>2, <1>4, <1>5, <1>6, <1>7

LEMMA PlacedPackaged ==
    ASSUME SchedInv, EncInv, NEW p, NEW s \in States, PlacedState(s), Going(s),
           NEW e \in OnAirAt(s.wall), Ready(e.media, p)
    PROVE  PlacedState(Packaged(s, e, p))
<1> DEFINE first == FirstFrom(e, s.wall)
           last == LastFrom(s, e)
           n == last - first + 1
           b == [k \in 1..n |-> PackagedItem(e, p, first, first + k - 1)]
           list == s.list \o b
           wall == WallAfter(e, last)
           t == [list |-> list, wall |-> wall, go |-> TRUE]
           L == Len(s.list)
<1>1. s.wall \in Nat /\ s.list \in Seq(Item) /\ L \in Nat
      /\ s.go /\ now <= s.wall /\ s.wall < Deadline /\ Len(s.list) < Limit /\ now \in Nat
  BY StateFields DEF PlacedState, Going, SchedInv
<1>2. e \in schedule /\ e \in Entry /\ Fits(e)
  BY <1>1, OnAirIs
<1>3. /\ Packaged(s, e, p) = t
      /\ first \in InEntry(e) /\ last \in InEntry(e) /\ first <= last
      /\ s.wall < WallAfter(e, first)
      /\ s.wall < wall /\ wall \in Nat
  BY <1>1, PackagedIs
<1>4. /\ InEntry(e) \subseteq Nat
      /\ \A j, k \in InEntry(e) : \A i \in Int : j <= i /\ i <= k => i \in InEntry(e)
  BY <1>2, InEntryFacts, EntryFields, SegmentFacts
<1> HIDE DEF first, last, wall
<1>5. n \in Nat /\ n >= 1 /\ first \in Nat /\ last \in Nat
  BY <1>3, <1>4
<1>6. ASSUME NEW k \in 1..n
      PROVE  /\ first + k - 1 \in InEntry(e) /\ first + k - 1 \in Nat
             /\ first <= first + k - 1 /\ first + k - 1 <= last
  <2>1. first + k - 1 \in Int /\ first <= first + k - 1 /\ first + k - 1 <= last
    BY <1>5
  <2> QED BY <1>3, <1>4, <2>1
<1>7. ASSUME NEW k \in 1..n
      PROVE  /\ PackagedItem(e, p, first, first + k - 1) \in Item
             /\ ByPackage(PackagedItem(e, p, first, first + k - 1))
             /\ Placed(PackagedItem(e, p, first, first + k - 1))
             /\ PackagedItem(e, p, first, first + k - 1).entry = e.id
             /\ PackagedItem(e, p, first, first + k - 1).segment = first + k - 1
  BY <1>2, <1>3, <1>6, PackagedPlaced
<1>8. /\ b \in [1..n -> Item]
      /\ \A k \in 1..n : ByPackage(b[k]) /\ Placed(b[k]) /\ b[k].entry = e.id /\ b[k].segment = first + k - 1
  <2> HIDE DEF n
  <2> QED BY <1>7
<1> HIDE DEF b, n
<1>9. /\ list \in Seq(Item) /\ Len(list) = L + n
      /\ \A k \in 1..L : list[k] = s.list[k]
      /\ \A k \in 1..n : list[L + k] = b[k]
      /\ \A k \in 1..Len(list) : k \in 1..L \/ k - L \in 1..n
  BY <1>1, <1>5, <1>8, Appended
<1> HIDE DEF list, L
<1>10. /\ \A k \in 1..L : ByPackage(list[k]) => Placed(list[k]) /\ BehindWall(list[k], s.wall)
       /\ InOrder(s.list)
  BY <1>1, <1>9 DEF PlacedState, L
<1>11. ASSUME NEW k \in 1..Len(list)
       PROVE  \/ k \in 1..L /\ list[k] = s.list[k]
              \/ /\ k \in (L + 1)..(L + n) /\ k - L \in 1..n
                 /\ list[k] = b[k - L] /\ ByPackage(list[k]) /\ Placed(list[k])
                 /\ list[k].entry = e.id /\ list[k].segment = first + (k - L) - 1
  <2>1. CASE k \in 1..L
    BY <1>9, <2>1
  <2>2. CASE k - L \in 1..n
    <3>1. L + (k - L) = k /\ k \in (L + 1)..(L + n)
      BY <1>1, <1>5, <2>2 DEF L
    <3>2. list[k] = b[k - L]
      BY <1>9, <2>2, <3>1
    <3> QED BY <1>8, <2>2, <3>1, <3>2
  <2> QED BY <1>9, <2>1, <2>2
\* An item of this entry that was there is before its first segment.
<1>12. ASSUME NEW k \in 1..L, ByPackage(list[k]), list[k].entry = e.id
       PROVE  list[k].segment \in Nat /\ list[k].segment < first
  <2>1. PICK d \in schedule : list[k].entry = d.id /\ list[k].segment \in InEntry(d)
    BY <1>10, <1>12 DEF Placed
  <2>2. d = e
    BY <1>2, <1>12, <2>1, GoodSchedule, StartsOrder
  <2>3. WallAfter(e, list[k].segment) <= s.wall
    BY <1>2, <1>10, <1>12 DEF BehindWall
  <2>4. list[k].segment \in Nat /\ WallAfter(e, list[k].segment) \in Int
    BY <1>2, <2>1, <2>2, WallsMono
  <2>5. WallAfter(e, first) \in Int
    BY <1>2, <1>3, WallsMono
  <2>6. WallAfter(e, list[k].segment) < WallAfter(e, first)
    BY <1>1, <1>3, <2>3, <2>4, <2>5
  <2> QED BY <1>2, <1>3, <2>1, <2>2, <2>4, <2>6, WallsMono
<1>13. InOrder(list)
  <2> SUFFICES ASSUME NEW j \in 1..Len(list), NEW k \in 1..Len(list), j < k, ByPackage(list[j]),
                      list[j].entry = list[k].entry, list[j].source = list[k].source
               PROVE  list[j].segment < list[k].segment
    BY DEF InOrder
  <2>1. CASE k \in 1..L
    <3>1. j \in 1..L
      BY <1>1, <2>1 DEF L
    <3> QED BY <1>9, <1>10, <2>1, <3>1 DEF InOrder, L
  <2>2. CASE k \in (L + 1)..(L + n) /\ list[k].entry = e.id /\ list[k].segment = first + (k - L) - 1
    <3>1. CASE j \in 1..L
      <4>1. list[j].segment \in Nat /\ list[j].segment < first
        BY <1>12, <2>2, <3>1
      <4>2. L \in Nat /\ k \in Nat /\ k - L >= 1
        BY <1>1, <1>5, <2>2
      <4> QED BY <1>5, <2>2, <4>1, <4>2
    <3>2. CASE j \in (L + 1)..(L + n) /\ list[j].segment = first + (j - L) - 1
      <4>1. L \in Nat /\ j \in Int /\ k \in Int /\ first \in Nat /\ j < k
        BY <1>1, <1>5
      <4>2. first + (j - L) - 1 < first + (k - L) - 1
        BY ONLY <4>1
      <4> QED BY ONLY <2>2, <3>2, <4>2
    <3> QED BY <1>11, <3>1, <3>2
  <2> QED BY <1>11, <2>1, <2>2
<1>14. ASSUME NEW k \in 1..Len(list), ByPackage(list[k])
       PROVE  Placed(list[k]) /\ BehindWall(list[k], wall)
  <2>1. CASE k \in 1..L
    <3>1. Placed(list[k]) /\ BehindWall(list[k], s.wall)
      BY <1>10, <1>14, <2>1
    <3>2. PICK c \in schedule : c.id = list[k].entry /\ list[k].segment \in InEntry(c)
      BY <3>1 DEF Placed
    <3>3. ASSUME NEW d \in schedule, d.id = list[k].entry
          PROVE  WallAfter(d, list[k].segment) <= wall
      <4>1. d = c
        BY <3>2, <3>3, GoodSchedule, StartsOrder
      <4>2. WallAfter(d, list[k].segment) \in Int /\ WallAfter(d, list[k].segment) <= s.wall
        BY <3>1, <3>2, <3>3, <4>1, WallsMono DEF BehindWall
      <4> QED BY <1>1, <1>3, <4>2
    <3> QED BY <3>1, <3>3 DEF BehindWall
  <2>2. CASE /\ k \in (L + 1)..(L + n) /\ k - L \in 1..n /\ Placed(list[k])
             /\ list[k].entry = e.id /\ list[k].segment = first + (k - L) - 1
    <3>1. list[k].segment \in InEntry(e) /\ list[k].segment <= last
      BY <1>6, <2>2
    <3>2. ASSUME NEW d \in schedule, d.id = list[k].entry
          PROVE  WallAfter(d, list[k].segment) <= wall
      <4>1. d = e
        BY <1>2, <2>2, <3>2, GoodSchedule, StartsOrder
      <4> QED BY <1>2, <1>3, <3>1, <4>1, WallsMono DEF wall
    <3> QED BY <2>2, <3>2 DEF BehindWall
  <2> QED BY <1>11, <2>1, <2>2
<1>15. t.list = list /\ t.wall = wall /\ t.go
  OBVIOUS
<1>16. now <= wall
  BY <1>1, <1>3
<1> HIDE DEF t
<1>17. PlacedState(t)
  BY <1>13, <1>14, <1>15, <1>16 DEF PlacedState
<1> QED BY <1>3, <1>17

LEMMA PlacedEncoded ==
    ASSUME SchedInv, EncInv, NEW s \in States, DemandState(s), PlacedState(s), Going(s),
           NEW e \in OnAirAt(s.wall), NEW S, S \subseteq Encoded(e), Run(S), S # {}
    PROVE  PlacedState(AppendEncoded(s, e, S))
<1> DEFINE t == AppendEncoded(s, e, S)
<1>1. s.wall \in Nat /\ s.list \in Seq(Item) /\ Len(s.list) \in Nat /\ s.go /\ now <= s.wall /\ now \in Nat
  BY StateFields DEF PlacedState, Going, SchedInv
<1>2. e \in Entry /\ s.wall < EndOf(e) /\ EndOf(e) \in Nat
  BY <1>1, OnAirIs, EntryFields
<1>3. PICK pre \in {<<>>, s.list}, n \in Nat : \E b \in [1..n -> Item] :
         t.list = pre \o b /\ \A k \in 1..n : ByEncoding(b[k])
  BY DemandEncoded
<1>4. PICK b \in [1..n -> Item] : t.list = pre \o b /\ \A k \in 1..n : ByEncoding(b[k])
  BY <1>3
<1>5. t.go => t.wall = EndOf(e)
  BY DemandEncoded
<1> HIDE DEF t
<1>6. /\ pre \in Seq(Item) /\ Len(pre) \in Nat
      /\ \A k \in 1..Len(pre) : ByPackage(pre[k]) => Placed(pre[k]) /\ BehindWall(pre[k], s.wall)
      /\ InOrder(pre)
  <2>1. CASE pre = <<>>
    BY <2>1 DEF InOrder
  <2>2. CASE pre = s.list
    BY <1>1, <2>2 DEF PlacedState
  <2> QED BY <2>1, <2>2
<1> DEFINE L == Len(pre)
<1>7. /\ Len(t.list) = L + n
      /\ \A k \in 1..L : t.list[k] = pre[k]
      /\ \A k \in 1..n : t.list[L + k] = b[k]
      /\ \A k \in 1..Len(t.list) : k \in 1..L \/ k - L \in 1..n
  BY <1>4, <1>6, Appended
<1>8. ASSUME NEW k \in 1..Len(t.list)
      PROVE  (k \in 1..L /\ t.list[k] = pre[k]) \/ ByEncoding(t.list[k])
  <2>1. CASE k - L \in 1..n
    <3>1. L + (k - L) = k
      BY <1>6, <2>1
    <3> QED BY <1>4, <1>7, <2>1, <3>1
  <2> QED BY <1>7, <2>1
<1>9. \A x : ByEncoding(x) => ~ByPackage(x)
  BY DEF ByEncoding, ByPackage
<1>10. InOrder(t.list)
  <2> SUFFICES ASSUME NEW j \in 1..Len(t.list), NEW k \in 1..Len(t.list), j < k, ByPackage(t.list[j]),
                      t.list[j].entry = t.list[k].entry, t.list[j].source = t.list[k].source
               PROVE  t.list[j].segment < t.list[k].segment
    BY DEF InOrder
  <2>1. ByPackage(t.list[k])
    BY DEF ByPackage
  <2>2. j \in 1..L /\ t.list[j] = pre[j] /\ k \in 1..L /\ t.list[k] = pre[k]
    BY <1>8, <1>9, <2>1
  <2> QED BY <1>6, <2>2 DEF InOrder
<1>11. ASSUME NEW k \in 1..Len(t.list), ByPackage(t.list[k])
       PROVE  Placed(t.list[k]) /\ (t.go => BehindWall(t.list[k], t.wall))
  <2>1. k \in 1..L /\ t.list[k] = pre[k]
    BY <1>8, <1>9, <1>11
  <2>2. Placed(t.list[k]) /\ BehindWall(t.list[k], s.wall)
    BY <1>6, <1>11, <2>1
  <2>3. ASSUME t.go, NEW d \in schedule, d.id = t.list[k].entry
        PROVE  WallAfter(d, t.list[k].segment) <= t.wall
    <3>1. PICK c \in schedule : c.id = t.list[k].entry /\ t.list[k].segment \in InEntry(c)
      BY <2>2 DEF Placed
    <3>2. d = c
      BY <2>3, <3>1, GoodSchedule, StartsOrder
    <3>3. WallAfter(d, t.list[k].segment) \in Int /\ WallAfter(d, t.list[k].segment) <= s.wall
      BY <2>2, <2>3, <3>1, <3>2, WallsMono DEF BehindWall
    <3> QED BY <1>1, <1>2, <1>5, <2>3, <3>3
  <2> QED BY <2>2, <2>3 DEF BehindWall
<1>12. t.go => now <= t.wall
  BY <1>1, <1>2, <1>5
<1>13. PlacedState(t)
  BY <1>10, <1>11, <1>12 DEF PlacedState
<1> QED BY <1>13 DEF t

LEMMA PlacedPass ==
    ASSUME SchedInv, EncInv, NEW p, NEW s \in States, PlacedState(s), prefill = "on_demand" => DemandState(s)
    PROVE  PlacedState(Pass(s, p))
<1>1. s.wall \in Nat /\ Len(s.list) \in Nat /\ Limit \in Nat
  BY StateFields, Bounds
<1>2. PlacedState(Stop(s))
  BY PlacedStop
<1>3. CASE s.go /\ s.wall < Deadline /\ Room(s) > 0 /\ OnAirAt(s.wall) # {}
  <2>1. PICK e \in OnAirAt(s.wall) : TRUE
    BY <1>3
  <2>2. (CHOOSE x \in OnAirAt(s.wall) : TRUE) = e /\ e \in schedule
    BY <1>1, OnAirIs
  <2>3. Pass(s, p) = AtEntry(s, e, p)
    BY <1>3, <2>2 DEF Pass
  <2>4. Going(s) /\ Room(s) \in Nat
    BY <1>1, <1>3 DEF Going, Room
  <2>5. CASE Ready(e.media, p)
    <3>1. Pass(s, p) = Packaged(s, e, p)
      BY <2>3, <2>5 DEF AtEntry
    <3> QED BY <2>4, <2>5, <3>1, PlacedPackaged
  <2>6. CASE ~Ready(e.media, p) /\ prefill = "on_demand"
    <3> DEFINE S == InTime(e, s.wall, Served(e, s.wall, Room(s)))
    <3>1. Pass(s, p) = OnDemand(s, e)
      BY <2>3, <2>6 DEF AtEntry
    <3>2. S \subseteq Encoded(e) /\ Run(S)
      BY <1>1, <1>3, <2>2, <2>4, ServedIs, InTimeIs
    <3>3. OnDemand(s, e) = IF S # {} THEN AppendEncoded(s, e, S) ELSE Stop(s)
      BY DEF OnDemand
    <3> HIDE DEF S
    <3> QED BY <1>2, <2>4, <2>6, <3>1, <3>2, <3>3, PlacedEncoded
  <2>7. CASE ~Ready(e.media, p) /\ prefill # "on_demand"
    <3>1. Pass(s, p) = Stop(s)
      BY <2>3, <2>7 DEF AtEntry
    <3> QED BY <1>2, <3>1
  <2> QED BY <2>5, <2>6, <2>7
<1>4. CASE ~(s.go /\ s.wall < Deadline /\ Room(s) > 0 /\ OnAirAt(s.wall) # {})
  <2>1. Pass(s, p) = Stop(s)
    BY <1>4 DEF Pass
  <2> QED BY <1>2, <2>1
<1> QED BY <1>3, <1>4

LEMMA PlacedRan == ASSUME SchedInv, EncInv, NEW p PROVE PlacedState(Ran(p))
<1>1. CASE prefill = "on_demand"
  <2> DEFINE T == {s \in States : DemandState(s) /\ PlacedState(s)}
  <2>1. Start \in T
    BY DemandStart, PlacedStart DEF DemandState
  <2>2. ASSUME NEW s \in T PROVE Pass(s, p) \in T
    <3>1. DemandState(Pass(s, p))
      BY <1>1, DemandPass
    <3>2. PlacedState(Pass(s, p))
      BY PlacedPass
    <3> QED BY <3>1, <3>2 DEF DemandState
  <2> HIDE DEF T
  <2>3. Ran(p) \in T
    BY <2>1, <2>2, ScheduleCount, RanKeeps
  <2> QED BY <2>3 DEF T
<1>2. CASE prefill = "eager"
  <2> DEFINE R == ReadyRows(p)
             T == {s \in States : EagerState(s, R) /\ PlacedState(s)}
  <2>1. Start \in T
    BY EagerStart, PlacedStart DEF EagerState
  <2>2. ASSUME NEW s \in T PROVE Pass(s, p) \in T
    <3>1. EagerState(Pass(s, p), R)
      BY <1>2, EagerPass
    <3>2. PlacedState(Pass(s, p))
      BY <1>2, PlacedPass
    <3> QED BY <3>1, <3>2 DEF EagerState
  <2> HIDE DEF T
  <2>3. Ran(p) \in T
    BY <2>1, <2>2, ScheduleCount, RanKeeps
  <2> QED BY <2>3 DEF T
<1> QED BY <1>1, <1>2 DEF SchedInv, Modes

\* The packaged items a player has are segments of their packages, of the media
\* of their entries, and each passage goes on.
PlacedHeard(x) ==
    /\ Last(x.source) \in Media /\ x.segment \in Segments(Last(x.source))
    /\ \A e \in schedule : e.id = x.entry => e.media = Last(x.source)
HeardPlaced ==
    /\ \A k \in 1..Len(heard.list) : ByPackage(heard.list[k]) => PlacedHeard(heard.list[k])
    /\ InOrder(heard.list)

\* A row keeps its media wherever it is moved.
LEMMA RowsKept == ASSUME SchedInv, [Next]_vars PROVE Kept(schedule, schedule', laid)
<1>1. laid \in Nat
  BY SchedSound
<1>2. CASE schedule' \subseteq schedule
  BY <1>2, KeptSubset
<1>3. ASSUME NEW s, NEW t, schedule' = schedule \cup {New(s, t)} PROVE Kept(schedule, schedule', laid)
  BY <1>1, <1>3, KeptEdited
<1>4. ASSUME NEW s \in Shapes[prefill], NEW x \in schedule, NEW after \in BOOLEAN, EntryInserted(s, x, after)
      PROVE  Kept(schedule, schedule', laid)
  <2>1. PICK at : at = IF after THEN EndOf(x) ELSE x.start
    OBVIOUS
  <2>2. PICK S, T, by : S = schedule /\ T = schedule' /\ by = s.dur
    OBVIOUS
  <2>3. T = {Moved(e, at, by) : e \in S} \cup {New(s, at)}
    BY <1>4, <2>1, <2>2 DEF EntryInserted
  <2>4. Kept(S, T, laid)
    BY <1>1, <2>3, KeptMoved
  <2> QED BY <2>2, <2>4
<1>5. ASSUME NEW s \in Shapes[prefill], ScheduleExtends(s) PROVE schedule' = schedule \cup {New(s, NextStart(now))}
  BY <1>5 DEF ScheduleExtends
<1>6. CASE Edit
  <2>1. ASSUME NEW s \in Shapes[prefill], NEW t, EntryPlaced(s, t) PROVE schedule' = schedule \cup {New(s, t)}
    BY <2>1 DEF EntryPlaced
  <2>2. ASSUME NEW x \in schedule, NEW y \in schedule, RowsDeleted(x, y) PROVE schedule' \subseteq schedule
    BY <2>2 DEF RowsDeleted
  <2>3. ASSUME NEW m \in Media, MediaDeleted(m) PROVE schedule' \subseteq schedule
    BY <2>3 DEF MediaDeleted
  <2> QED BY <1>2, <1>3, <1>4, <1>6, <2>1, <2>2, <2>3 DEF Edit
<1>7. ASSUME NEW m \in Media, NEW p \in Profiles, PackageReady(m, p) \/ RequeueReadyPackage(m, p)
      PROVE  schedule' = schedule
  BY <1>7 DEF PackageReady, RequeueReadyPackage
<1>8. CASE WritePackagedManifest \/ HandleManifest \/ AdvanceTime \/ UNCHANGED vars
  BY <1>2, <1>8 DEF WritePackagedManifest, HandleManifest, AdvanceTime, vars
<1>9. ASSUME NEW w \in waiting, EnsureOnDemandMasterReady(w) \/ ManifestRefused(w) PROVE schedule' = schedule
  BY <1>9 DEF EnsureOnDemandMasterReady, ManifestRefused
<1>10. ASSUME NEW i \in 1..laid, EncodingProgress(i) \/ PruneTrailing(i) \/ EncodingLost(i) PROVE schedule' = schedule
  BY <1>10 DEF EncodingProgress, PruneTrailing, EncodingLost, UnchangedButEncodings
<1> QED BY <1>2, <1>3, <1>5, <1>6, <1>7, <1>8, <1>9, <1>10 DEF Next

LEMMA PlacedInit == Init => HeardPlaced
BY DEF Init, HeardPlaced, Nothing, InOrder

LEMMA PlacedStep ==
    SchedInv /\ SchedInv' /\ EncInv /\ HeardInv /\ HeardPlaced /\ [Next]_vars => HeardPlaced'
<1> SUFFICES ASSUME SchedInv, SchedInv', EncInv, HeardInv, HeardPlaced, [Next]_vars PROVE HeardPlaced'
  OBVIOUS
<1>1. CASE heard' = heard
  <2>1. InOrder(heard.list)'
    BY <1>1 DEF HeardPlaced, InOrder, ByPackage
  <2>2. ASSUME NEW k \in 1..Len(heard'.list), ByPackage(heard'.list[k])
        PROVE  PlacedHeard(heard.list[k])'
    <3>1. k \in 1..Len(heard.list) /\ PlacedHeard(heard.list[k]) /\ heard.list[k].entry \in 1..laid
      BY <1>1, <2>2 DEF HeardPlaced, HeardInv
    <3>2. ASSUME NEW e \in schedule', e.id = heard.list[k].entry
          PROVE  e.media = Last(heard.list[k].source)
      <4>1. PICK y \in schedule : y.id = e.id /\ Shape(y) = Shape(e)
        BY <3>1, <3>2, RowsKept DEF Kept
      <4>2. y.media = e.media
        BY <4>1, ShapeParts
      <4> QED BY <3>1, <3>2, <4>1, <4>2 DEF PlacedHeard
    <3> QED BY <1>1, <3>1, <3>2 DEF PlacedHeard, Segments
  <2> QED BY <2>1, <2>2 DEF HeardPlaced, ByPackage
<1>2. CASE heard' # heard
  <2>1. UNCHANGED <<prefill, schedule, now>> /\ heard'.list = Items(played)
    BY <1>2, Polled
  <2>2. PlacedState(Ran(played)) /\ Items(played) = Ran(played).list
    BY PlacedRan DEF Items
  <2> DEFINE list == Items(played)
  <2>3. InOrder(list) /\ \A k \in 1..Len(list) : ByPackage(list[k]) => Placed(list[k])
    BY <2>2 DEF PlacedState
  <2> HIDE DEF list
  <2>4. heard'.list = list
    BY <2>1 DEF list
  <2>5. InOrder(heard.list)'
    BY <2>3, <2>4 DEF InOrder, ByPackage
  <2>6. ASSUME NEW k \in 1..Len(list), ByPackage(list[k])
        PROVE  PlacedHeard(list[k])
    <3>1. PICK e \in schedule : list[k].entry = e.id /\ Last(list[k].source) = e.media
                                /\ list[k].segment \in InEntry(e)
      BY <2>3, <2>6 DEF Placed
    <3>2. e \in Entry /\ Fits(e)
      BY DEF SchedInv
    <3>3. e.media \in Media /\ list[k].segment \in Segments(e.media)
      BY <3>1, <3>2, EntryFields, InEntryFacts
    <3>4. ASSUME NEW d \in schedule, d.id = list[k].entry PROVE d = e
      BY <3>1, <3>4, GoodSchedule, StartsOrder
    <3> QED BY <3>1, <3>3, <3>4 DEF PlacedHeard
  <2>7. ASSUME NEW k \in 1..Len(heard'.list), ByPackage(heard'.list[k])
        PROVE  PlacedHeard(heard.list[k])'
    BY <2>1, <2>4, <2>6, <2>7 DEF PlacedHeard, Segments
  <2> QED BY <2>5, <2>7 DEF HeardPlaced, ByPackage
<1> QED BY <1>1, <1>2

-----------------------------------------------------------------------------
(* The track of a rendition.                                               *)
LEMMA PreferredIs ==
    ASSUME NEW s, NEW t
    PROVE  Preferred(s, t) <=>
              \/ t.sdh /\ ~s.sdh
              \/ (s.sdh <=> t.sdh) /\ t.manual /\ ~s.manual
              \/ (s.sdh <=> t.sdh) /\ (s.manual <=> t.manual) /\ s.stream < t.stream
<1> DEFINE D(x) == IF x.sdh THEN 1 ELSE 0
           M(x) == IF x.manual THEN 1 ELSE 0
<1>1. \A x : Rank(x)[1] = D(x) /\ Rank(x)[2] = M(x) /\ Rank(x)[3] = x.stream
  BY DEF Rank
<1>2. Preferred(s, t) <=>
              \/ Rank(s)[1] < Rank(t)[1]
              \/ Rank(s)[1] = Rank(t)[1] /\ Rank(s)[2] < Rank(t)[2]
              \/ Rank(s)[1] = Rank(t)[1] /\ Rank(s)[2] = Rank(t)[2] /\ Rank(s)[3] < Rank(t)[3]
  <2> HIDE DEF D, M
  <2>1. 1..3 = {1, 2, 3} /\ 1..(1 - 1) = {} /\ 1..(2 - 1) = {1} /\ 1..(3 - 1) = {1, 2}
    OBVIOUS
  <2> QED BY <2>1 DEF Preferred
<1>3. /\ D(s) < D(t) <=> t.sdh /\ ~s.sdh
      /\ D(s) = D(t) <=> (s.sdh <=> t.sdh)
      /\ M(s) < M(t) <=> t.manual /\ ~s.manual
      /\ M(s) = M(t) <=> (s.manual <=> t.manual)
  OBVIOUS
<1> QED BY <1>1, <1>2, <1>3

LEMMA TrackFacts ==
    ASSUME NEW g
    PROVE  /\ \A s, t \in TracksOf(g) : s.stream = t.stream => s = t
           /\ \A t \in TracksOf(g) : t.stream \in Nat
           /\ \A t \in TracksOf(g) : t.sidecar # NoSidecar =>
                /\ IsFiniteSet(t.sidecar)
                /\ \A c \in t.sidecar : c.from \in Nat /\ c.to \in Nat /\ c.from < c.to
BY SubtitleAssumption DEF SubtitleAssumption, TracksOf

\* Where there is a track that serves a rendition, one does, and full dialogue
\* before captions for the deaf.
LEMMA SelectedIs ==
    ASSUME NEW g, NEW r, Candidates(TracksOf(g), r) # {}
    PROVE  \E t \in Candidates(TracksOf(g), r) :
              /\ Selected(TracksOf(g), r) = {t}
              /\ t.sdh => \A u \in Candidates(TracksOf(g), r) : u.sdh
<1> DEFINE C == Candidates(TracksOf(g), r)
           D == IF \E t \in C : ~t.sdh THEN {t \in C : ~t.sdh} ELSE C
           M == IF \E t \in D : ~t.manual THEN {t \in D : ~t.manual} ELSE D
           N == {t.stream : t \in M}
<1>1. C \subseteq TracksOf(g)
  BY DEF Candidates
<1>2. /\ \A s, t \in C : s.stream = t.stream => s = t
      /\ \A t \in C : t.stream \in Nat
  BY <1>1, TrackFacts
<1>3. Selected(TracksOf(g), r) = {t \in C : \A s \in C : ~Preferred(s, t)}
  BY DEF Selected
<1> HIDE DEF C
<1>4. C # {}
  BY DEF C
<1>5. D # {} /\ D \subseteq C /\ M # {} /\ M \subseteq D
  BY <1>4
<1>6. N \subseteq Nat /\ N # {}
  BY <1>2, <1>5
<1>7. PICK n \in N : \A y \in N : n <= y
  BY <1>6, LeastNat
<1>8. PICK t \in M : n = t.stream
  BY <1>7
<1>9. t \in C /\ \A u \in M : t.stream <= u.stream
  BY <1>5, <1>7, <1>8
<1>10. t.sdh => \A u \in C : u.sdh
  BY <1>5, <1>8
<1>11. \A s \in C : s.sdh \/ s \in D
  OBVIOUS
<1>12. \A s \in C : (s.sdh <=> t.sdh) => s \in D
  BY <1>5, <1>8, <1>10
<1>13. t.manual => \A u \in D : u.manual
  BY <1>8
<1>14. \A s \in D : (s.manual <=> t.manual) => s \in M
  BY <1>8, <1>13
<1> HIDE DEF D, M, N
<1>15. ASSUME NEW s \in C PROVE ~Preferred(s, t)
  <2>1. ~(t.sdh /\ ~s.sdh)
    BY <1>10
  <2>2. ~((s.sdh <=> t.sdh) /\ t.manual /\ ~s.manual)
    BY <1>12, <1>13
  <2>3. ~((s.sdh <=> t.sdh) /\ (s.manual <=> t.manual) /\ s.stream < t.stream)
    BY <1>2, <1>9, <1>12, <1>14
  <2> QED BY <2>1, <2>2, <2>3, PreferredIs
<1>16. ASSUME NEW u \in C, \A s \in C : ~Preferred(s, u) PROVE u = t
  <2>1. ~Preferred(t, u) /\ ~Preferred(u, t)
    BY <1>9, <1>15, <1>16
  <2>2. u.stream \in Nat /\ t.stream \in Nat
    BY <1>2, <1>9
  <2>3. u.stream = t.stream
    BY <2>1, <2>2, PreferredIs
  <2> QED BY <1>2, <1>9, <2>3
<1>17. Selected(TracksOf(g), r) = {t}
  BY <1>3, <1>9, <1>15, <1>16
<1> QED BY <1>9, <1>10, <1>17 DEF C

-----------------------------------------------------------------------------
(* What is on the screen.                                                  *)
\* A reference fetches the cues of the track that overlap the segment, cut to it.
CutTo(c, start, end) == [id |-> c.id, from |-> Larger(c.from, start), to |-> Smaller(c.to, end)]
Overlapping(t, start, end) == {c \in t.sidecar : c.to > start /\ c.from < end}

LEMMA FetchedIs ==
    ASSUME NEW r, NEW j \in DOMAIN Fetched(r), NEW m \in Media, Last(heard.list[j].source) = m,
           NEW n \in Segments(m), heard.list[j].segment = n,
           NEW t \in TracksOf(<<m, played>>), t.sidecar # NoSidecar,
           Selected(TracksOf(<<m, played>>), r) = {t}
    PROVE  Fetched(r)[j] = {CutTo(c, SegStart(m, n), SegEnd(m, n)) :
                               c \in Overlapping(t, SegStart(m, n), SegEnd(m, n))}
<1> DEFINE start == SegStart(m, n)
           end == SegEnd(m, n)
           ref == Reference(heard.list[j], played)
           Whole(c) == [id |-> c.id, from |-> ref.start + c.from, to |-> ref.start + c.to]
<1>1. start \in Nat /\ end \in Nat /\ start < end
  BY SegmentFacts
<1>2. ref = [package |-> <<m, played>>, start |-> start, dur |-> end - start]
  BY DEF Reference
<1>3. Fetched(r)[j] = {Whole(c) : c \in SubtitleVTT(ref, r)}
  BY DEF Fetched
<1>4. ref.package = <<m, played>> /\ ref.start = start /\ ref.dur = end - start /\ start + (end - start) = end
  BY <1>1, <1>2
<1> HIDE DEF ref, start, end
<1>5. SubtitleVTT(ref, r) = Clip(t.sidecar, start, end - start)
  BY <1>4 DEF SubtitleVTT
<1>6. Clip(t.sidecar, start, end - start) = {Clipped(c, start, end - start) : c \in Overlapping(t, start, end)}
  BY <1>4 DEF Clip, Overlapping
<1>7. ASSUME NEW c \in Overlapping(t, start, end)
      PROVE  Whole(Clipped(c, start, end - start)) = CutTo(c, start, end)
  <2>1. c.from \in Nat /\ c.to \in Nat
    BY TrackFacts DEF Overlapping
  <2> DEFINE a == Larger(c.from, start)
             b == Smaller(c.to, end)
  <2>2. a \in Nat /\ b \in Nat
    BY <1>1, <2>1 DEF Larger, Smaller, start, end
  <2>3. Clipped(c, start, end - start) = [id |-> c.id, from |-> a - start, to |-> b - start]
    BY <1>4 DEF Clipped
  <2>4. CutTo(c, start, end) = [id |-> c.id, from |-> a, to |-> b]
    BY DEF CutTo
  <2> HIDE DEF a, b
  <2>5. start + (a - start) = a /\ start + (b - start) = b
    BY <1>1, <2>2 DEF start
  <2> QED BY <1>4, <2>3, <2>4, <2>5
<1> HIDE DEF Whole
<1>8. Fetched(r)[j] = {CutTo(c, start, end) : c \in Overlapping(t, start, end)}
  BY <1>3, <1>5, <1>6, <1>7
<1> QED BY <1>8 DEF start, end

\* At a position of a segment: what is spoken there, from that segment's part.
LEMMA CutShown ==
    ASSUME NEW m \in Media, NEW n \in Segments(m), NEW j \in Segments(m),
           NEW pos \in SegStart(m, n)..(SegEnd(m, n) - 1),
           NEW c, c.from \in Nat, c.to \in Nat, c.from < c.to
    PROVE  LET x == CutTo(c, SegStart(m, j), SegEnd(m, j))
           IN  /\ x.id = c.id
               /\ (c.to > SegStart(m, j) /\ c.from < SegEnd(m, j) /\ x.from <= pos /\ pos < x.to)
                     <=> (j = n /\ c.from <= pos /\ pos < c.to)
<1> DEFINE s == SegStart(m, n)
           e == SegEnd(m, n)
           u == SegStart(m, j)
           v == SegEnd(m, j)
           x == CutTo(c, u, v)
<1>1. /\ s \in Nat /\ e \in Nat /\ u \in Nat /\ v \in Nat /\ s < e /\ u < v
      /\ n \in Nat /\ j \in Nat
      /\ j < n => v <= s
      /\ n < j => e <= u
      /\ n = j => s = u /\ e = v
  BY SegmentFacts
<1>2. pos \in Nat /\ s <= pos /\ pos < e
  BY <1>1
<1>3. x.id = c.id /\ x.from = Larger(c.from, u) /\ x.to = Smaller(c.to, v)
  BY DEF CutTo
<1> HIDE DEF s, e, u, v, x
<1>4. /\ Larger(c.from, u) <= pos <=> c.from <= pos /\ u <= pos
      /\ pos < Smaller(c.to, v) <=> pos < c.to /\ pos < v
  BY <1>1, <1>2 DEF Larger, Smaller
<1>5. (u <= pos /\ pos < v) <=> j = n
  BY <1>1, <1>2
<1>6. (c.to > u /\ c.from < v /\ x.from <= pos /\ pos < x.to) <=> (j = n /\ c.from <= pos /\ pos < c.to)
  BY <1>1, <1>2, <1>3, <1>4, <1>5
<1> QED BY <1>3, <1>6 DEF s, e, u, v, x

LEMMA ShownOnce ==
    ASSUME NEW k, NEW A, IsFiniteSet(A), NEW S, S = {<<k, i>> : i \in A}
    PROVE  Exactly(S, A)
<1>1. {x[2] : x \in S} = A
  <2>1. \A i \in A : <<k, i>> \in S /\ <<k, i>>[2] = i
    OBVIOUS
  <2>2. \A x \in S : \E i \in A : x = <<k, i>>
    OBVIOUS
  <2>3. \A x \in S : x[2] \in A
    BY <2>1, <2>2
  <2>4. \A i \in A : \E x \in S : x[2] = i
    BY <2>1
  <2> QED BY <2>3, <2>4
<1> DEFINE f == [i \in A |-> <<k, i>>]
<1>2. f \in Bijection(A, S)
  BY DEF Bijection, Injection, Surjection, IsInjective
<1>3. ExistsBijection(A, S)
  BY <1>2 DEF ExistsBijection
<1>4. Cardinality(S) = Cardinality(A)
  BY <1>3, FS_Bijection
<1> QED BY <1>1, <1>4 DEF Exactly

LEMMA SpokenFinite ==
    ASSUME NEW t, IsFiniteSet(t.sidecar), NEW pos
    PROVE  IsFiniteSet(Spoken(t, pos))
<1> DEFINE A == {x \in t.sidecar : x.from <= pos /\ pos < x.to}
           f == [c \in A |-> c.id]
<1>1. IsFiniteSet(A)
  BY FS_Subset
<1>2. Spoken(t, pos) = {c.id : c \in A}
  BY DEF Spoken
<1> HIDE DEF A
<1>3. f \in Surjection(A, Spoken(t, pos))
  BY <1>2 DEF Surjection
<1> QED BY <1>1, <1>3, FS_Surjection

\* The parts of other segments of the passage show nothing at a position.
LEMMA OnScreenIs ==
    ASSUME SchedInv, HeardInv, HeardPlaced, NEW r, NEW k \in Playable,
           NEW m, m = Last(heard.list[k].source),
           NEW t \in TracksOf(<<m, played>>), t.sidecar # NoSidecar,
           Selected(TracksOf(<<m, played>>), r) = {t},
           NEW pos \in SegStart(m, heard.list[k].segment)..(SegEnd(m, heard.list[k].segment) - 1)
    PROVE  OnScreen(k, Fetched(r), pos) = {<<k, i>> : i \in Spoken(t, pos)}
<1> DEFINE n == heard.list[k].segment
           F == Fetched(r)
           Seg(j) == heard.list[j].segment
           P == Passage(k, DOMAIN F)
<1>1. heard.list \in Seq(Item) /\ DOMAIN heard.list = 1..Len(heard.list) /\ Len(heard.list) \in Nat
  BY DEF HeardInv
<1>2. k \in 1..Len(heard.list) /\ ByPackage(heard.list[k]) /\ m \in Media /\ n \in Segments(m)
  BY <1>1 DEF Playable, ByPackage, HeardPlaced, PlacedHeard
<1>3. DOMAIN F = Playable \cap Referring(heard.list, played, r)
  BY DEF Fetched
<1>4. ASSUME NEW j \in P
      PROVE  /\ j \in DOMAIN F /\ j \in 1..Len(heard.list) /\ ByPackage(heard.list[j])
             /\ heard.list[j].entry = heard.list[k].entry /\ heard.list[j].source = heard.list[k].source
             /\ Last(heard.list[j].source) = m /\ Seg(j) \in Segments(m)
             /\ Seg(j) = n => j = k
  <2>1. /\ j \in DOMAIN F /\ j \in 1..Len(heard.list) /\ ByPackage(heard.list[j])
        /\ heard.list[j].entry = heard.list[k].entry /\ heard.list[j].source = heard.list[k].source
    BY <1>1, <1>3 DEF Passage, Playable, ByPackage
  <2>2. Last(heard.list[j].source) = m /\ Seg(j) \in Segments(m)
    BY <2>1 DEF HeardPlaced, PlacedHeard
  <2>3. Seg(j) \in Nat /\ n \in Nat
    BY <1>2, <2>2, SegmentFacts
  <2>4. j < k => Seg(j) < n
    BY <1>2, <2>1 DEF HeardPlaced, InOrder
  <2>5. k < j => n < Seg(j)
    BY <1>2, <2>1 DEF HeardPlaced, InOrder
  <2> QED BY <1>2, <2>1, <2>2, <2>3, <2>4, <2>5
<1>5. k \in P
  BY <1>1, <1>2, <1>3 DEF Passage, Referring, ByPackage
<1>6. ASSUME NEW j \in P
      PROVE  F[j] = {CutTo(c, SegStart(m, Seg(j)), SegEnd(m, Seg(j))) :
                        c \in Overlapping(t, SegStart(m, Seg(j)), SegEnd(m, Seg(j)))}
  <2> DEFINE q == Seg(j)
  <2>1. /\ j \in DOMAIN Fetched(r) /\ Last(heard.list[j].source) = m
        /\ q \in Segments(m) /\ heard.list[j].segment = q
        /\ m \in Media /\ t \in TracksOf(<<m, played>>) /\ t.sidecar # NoSidecar
        /\ Selected(TracksOf(<<m, played>>), r) = {t}
    BY <1>2, <1>4
  <2> HIDE DEF q
  <2>2. Fetched(r)[j] = {CutTo(c, SegStart(m, q), SegEnd(m, q)) :
                           c \in Overlapping(t, SegStart(m, q), SegEnd(m, q))}
    BY ONLY <2>1, FetchedIs
  <2> QED BY <2>2 DEF q
<1>7. \A c \in t.sidecar : c.from \in Nat /\ c.to \in Nat /\ c.from < c.to
  BY TrackFacts
<1> HIDE DEF F, P
<1>8. OnScreen(k, F, pos) = UNION {{<<j, x.id>> : x \in {y \in F[j] : y.from <= pos /\ pos < y.to}} : j \in P}
  BY DEF OnScreen, P
<1>9. ASSUME NEW j \in P, NEW x \in F[j], x.from <= pos, pos < x.to
      PROVE  j = k /\ x.id \in Spoken(t, pos)
  <2>1. PICK c \in Overlapping(t, SegStart(m, Seg(j)), SegEnd(m, Seg(j))) :
              x = CutTo(c, SegStart(m, Seg(j)), SegEnd(m, Seg(j)))
    BY <1>6, <1>9
  <2>2. c \in t.sidecar /\ c.to > SegStart(m, Seg(j)) /\ c.from < SegEnd(m, Seg(j))
    BY DEF Overlapping
  <2>3. Seg(j) = n /\ c.from <= pos /\ pos < c.to /\ x.id = c.id
    BY <1>2, <1>4, <1>7, <1>9, <2>1, <2>2, CutShown
  <2> QED BY <1>4, <2>2, <2>3 DEF Spoken
<1>10. ASSUME NEW i \in Spoken(t, pos)
       PROVE  \E x \in F[k] : x.from <= pos /\ pos < x.to /\ x.id = i
  <2>1. PICK c \in t.sidecar : c.from <= pos /\ pos < c.to /\ c.id = i
    BY DEF Spoken
  <2> DEFINE x == CutTo(c, SegStart(m, n), SegEnd(m, n))
  <2>2. x.id = i /\ c.to > SegStart(m, n) /\ c.from < SegEnd(m, n) /\ x.from <= pos /\ pos < x.to
    BY <1>2, <1>7, <2>1, CutShown
  <2>3. x \in F[k]
    BY <1>5, <1>6, <2>1, <2>2 DEF Overlapping
  <2> QED BY <2>2, <2>3
<1>11. ASSUME NEW z \in OnScreen(k, F, pos) PROVE \E i \in Spoken(t, pos) : z = <<k, i>>
  <2>1. PICK j \in P : \E x \in F[j] : x.from <= pos /\ pos < x.to /\ z = <<j, x.id>>
    BY <1>8
  <2> QED BY <1>9, <2>1
<1>12. ASSUME NEW i \in Spoken(t, pos) PROVE <<k, i>> \in OnScreen(k, F, pos)
  <2>1. PICK x \in F[k] : x.from <= pos /\ pos < x.to /\ x.id = i
    BY <1>10
  <2> QED BY <1>5, <1>8, <2>1
<1>13. OnScreen(k, F, pos) = {<<k, i>> : i \in Spoken(t, pos)}
  BY <1>11, <1>12
<1> QED BY <1>13 DEF F

LEMMA PromisedIs ==
    ASSUME NEW m, NEW r
    PROVE  LET C == Candidates(TracksOf(<<m, played>>), r)
           IN  Promised(m, r) = {t \in C : t.sdh => \A u \in C : u.sdh}
BY DEF Promised, Candidates

\* Nothing is promised where no track serves the rendition: nothing is fetched.
LEMMA NothingPromised ==
    ASSUME NEW r, NEW k \in Playable, Promised(Last(heard.list[k].source), r) = {}, NEW pos
    PROVE  OnScreen(k, Fetched(r), pos) = {}
<1> DEFINE m == Last(heard.list[k].source)
           C == Candidates(TracksOf(<<m, played>>), r)
<1>1. C = {}
  <2>1. SUFFICES ASSUME C # {} PROVE FALSE
    OBVIOUS
  <2>2. PICK t \in C : t.sdh => \A u \in C : u.sdh
    BY <2>1, SelectedIs
  <2> QED BY <2>2, PromisedIs
<1>2. Selected(TracksOf(<<m, played>>), r) = {}
  BY <1>1 DEF Selected
<1>3. ASSUME NEW j \in Passage(k, DOMAIN Fetched(r)) PROVE FALSE
  <2>1. j \in Referring(heard.list, played, r) /\ heard.list[j].source = heard.list[k].source
    BY DEF Passage, Fetched
  <2> QED BY <1>2, <2>1 DEF Referring
<1> QED BY <1>3 DEF OnScreen

LEMMA IsTold ==
    ASSUME SchedInv, HeardInv, HeardPlaced, NEW r \in Renditions, NEW k \in Playable,
           NEW t \in Candidates(TracksOf(<<Last(heard.list[k].source), played>>), r)
    PROVE  Told(k, r)
<1> DEFINE m == Last(heard.list[k].source)
<1>1. r = [lang |-> r.lang, forced |-> r.forced]
  BY DEF Renditions
<1>2. t \in TracksOf(<<m, played>>) /\ t.lang = r.lang /\ t.forced = r.forced /\ t.sidecar # NoSidecar
  BY DEF Candidates
<1>3. k \in 1..Len(heard.list) /\ ByPackage(heard.list[k]) /\ Ready(m, played)
  BY DEF Playable, HeardInv, ByPackage
<1>4. \A e \in schedule : e.id = heard.list[k].entry => e.media = m
  BY <1>3 DEF HeardPlaced, PlacedHeard
<1>5. ASSUME NEW e \in Window, e.id = heard.list[k].entry
      PROVE  r \in Offered(played)
  <2>1. e.media = m
    BY <1>4, <1>5 DEF Window
  <2> HIDE DEF m
  <2> DEFINE W == {y \in Window : Ready(y.media, played)}
             U == UNION {TracksOf(<<y.media, played>>) : y \in W}
  <2>2. e \in W
    BY <1>3, <2>1
  <2>3. t \in U
    BY <1>2, <2>1, <2>2
  <2> HIDE DEF W, U
  <2>4. r \in {[lang |-> x.lang, forced |-> x.forced] : x \in {y \in U : y.sidecar # NoSidecar}}
    BY <1>1, <1>2, <2>3
  <2> QED BY <2>4 DEF Offered, U, W
<1>6. ASSUME FirstVariant(CurrentEntry) = played, r \in Offered(played)
      PROVE  [profile |-> played, rendition |-> r] \in Advertised <=> ~BurnedIn(played, r)
  <2>1. Advertised = {[profile |-> played, rendition |-> x] : x \in {y \in Offered(played) : ~BurnedIn(played, y)}}
    BY <1>6 DEF Advertised
  <2>2. \A x : [profile |-> played, rendition |-> x].rendition = x
    OBVIOUS
  <2> QED BY <1>6, <2>1, <2>2
<1> QED BY <1>5, <1>6 DEF Told

LEMMA CuesPlaced ==
    ASSUME SchedInv, HeardInv, HeardPlaced
    PROVE  CuesInPlace
<1> SUFFICES ASSUME NEW r \in Renditions, NEW k \in Playable
             PROVE  LET m == Last(heard.list[k].source)
                        shown == SegStart(m, heard.list[k].segment)..(SegEnd(m, heard.list[k].segment) - 1)
                    IN  IF Promised(m, r) = {} THEN \A pos \in shown : OnScreen(k, Fetched(r), pos) = {}
                        ELSE /\ Told(k, r)
                             /\ \E t \in Promised(m, r) :
                                   \A pos \in shown : Exactly(OnScreen(k, Fetched(r), pos), Spoken(t, pos))
  BY DEF CuesInPlace
<1> DEFINE m == Last(heard.list[k].source)
           shown == SegStart(m, heard.list[k].segment)..(SegEnd(m, heard.list[k].segment) - 1)
           C == Candidates(TracksOf(<<m, played>>), r)
<1>1. CASE Promised(m, r) = {}
  BY <1>1, NothingPromised
<1>2. CASE Promised(m, r) # {}
  <2>1. C # {}
    BY <1>2, PromisedIs
  <2>2. PICK t \in C : Selected(TracksOf(<<m, played>>), r) = {t} /\ (t.sdh => \A u \in C : u.sdh)
    BY <2>1, SelectedIs
  <2>3. Told(k, r) /\ t \in Promised(m, r)
    BY <2>2, IsTold, PromisedIs
  <2>4. t \in TracksOf(<<m, played>>) /\ t.sidecar # NoSidecar
    BY DEF Candidates
  <2>5. ASSUME NEW pos \in shown
        PROVE  Exactly(OnScreen(k, Fetched(r), pos), Spoken(t, pos))
    <3>1. OnScreen(k, Fetched(r), pos) = {<<k, i>> : i \in Spoken(t, pos)}
      BY <2>2, <2>4, OnScreenIs
    <3>2. IsFiniteSet(Spoken(t, pos))
      BY <2>4, TrackFacts, SpokenFinite
    <3> QED BY <3>1, <3>2, ShownOnce
  <2> QED BY <1>2, <2>3, <2>5
<1> QED BY <1>1, <1>2

\* Cutting a sidecar along the segments of a package loses and doubles nothing,
\* and a master playlist whose subtitles are of the profile played names the
\* rendition exactly where its text is not in the video already, for any cuts,
\* cues, tracks, ladder and burned languages, whatever is laid, moved and deleted.
THEOREM CuesAppear == Spec => []CuesInPlace
<1>1. Init => HeardPlaced
  BY PlacedInit
<1>2. SchedInv /\ SchedInv' /\ EncInv /\ HeardInv /\ HeardPlaced /\ [Next]_vars => HeardPlaced'
  BY PlacedStep
<1>3. SchedInv /\ HeardInv /\ HeardPlaced => CuesInPlace
  BY CuesPlaced
<1> QED BY <1>1, <1>2, <1>3, Invariants, PTL DEF Spec

==============================================================================
