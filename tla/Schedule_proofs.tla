-------------------------- MODULE Schedule_proofs --------------------------
(***************************************************************************)
(* Proofs about Schedule: that rows stay in order, one after the other and *)
(* each anchored to the row before it, through every extension, edit and   *)
(* repair; and what follows for readers, for the audit and for the air.    *)
(***************************************************************************)
EXTENDS Schedule, FiniteSetTheorems, NaturalsInduction, WellFoundedInduction, TLAPS

-----------------------------------------------------------------------------
(* Least elements and induction over an interval.                          *)

LEMMA LeastNat ==
    ASSUME NEW S, S \subseteq Nat, S # {}
    PROVE  \E x \in S : \A y \in S : x <= y
<1>1. PICK x \in S : \A y \in S : <<y, x>> \notin OpToRel(<, Nat)
  BY WFMin, NatLessThanWellFounded, Zenon
<1>2. \A y \in S : ~(y < x)
  BY <1>1, Zenon DEF OpToRel
<1>3. \A y \in S : x \in Int /\ y \in Int
  OBVIOUS
<1> QED
  BY <1>2, <1>3

\* Induction up to n, over a set.
LEMMA Climb ==
    ASSUME NEW n \in Nat, NEW T, 0 \in T, \A k \in 1..n : k - 1 \in T => k \in T
    PROVE  \A k \in 0..n : k \in T
<1> DEFINE S == {k \in 0..n : k \notin T}
<1> SUFFICES ASSUME S # {} PROVE FALSE
  OBVIOUS
<1>1. PICK x \in S : \A y \in S : x <= y
  <2>1. S \subseteq Nat
    OBVIOUS
  <2> HIDE DEF S
  <2> QED BY <2>1, LeastNat
<1>2. x \in 1..n /\ x - 1 \in 0..n
  OBVIOUS
<1>3. x - 1 \notin S
  BY <1>1, <1>2
<1> QED BY <1>2, <1>3

\* f runs from s0 by n steps.
Runs(f, n, S, s0, step) ==
    f \in [0..n -> S] /\ f = [k \in 0..n |-> IF k = 0 THEN s0 ELSE step[k][f[k - 1]]]

LEMMA Recursion ==
    ASSUME NEW S, NEW n \in Nat, NEW step \in [1..n -> [S -> S]], NEW s0 \in S
    PROVE  \E f : Runs(f, n, S, s0, step)
<1> DEFINE R(f, k) == f \in [0..k -> S] /\ f[0] = s0 /\ \A j \in 1..k : f[j] = step[j][f[j - 1]]
           T == {k \in Nat : \E f : R(f, k)}
<1>1. 0 \in T
  <2>1. R([j \in 0..0 |-> s0], 0)
    OBVIOUS
  <2> QED BY <2>1
<1>2. ASSUME NEW k \in 1..n, k - 1 \in T PROVE k \in T
  <2>1. PICK f : R(f, k - 1)
    BY <1>2
  <2> DEFINE g == [j \in 0..k |-> IF j = k THEN step[k][f[k - 1]] ELSE f[j]]
  <2>2. R(g, k)
    <3>1. \A j \in 0..k - 1 : g[j] = f[j] /\ f[j] \in S
      BY <2>1
    <3>2. g[k] = step[k][f[k - 1]] /\ g[k] \in S
      BY <2>1, <3>1
    <3>3. \A j \in 1..k : g[j] = step[j][g[j - 1]]
      BY <2>1, <3>1, <3>2
    <3> QED BY <2>1, <3>1, <3>2, <3>3
  <2> HIDE DEF g, R
  <2> QED BY <2>2
<1> HIDE DEF T
<1>3. n \in T
  <2>1. \A k \in 1..n : k - 1 \in T => k \in T
    BY <1>2
  <2>2. \A k \in 0..n : k \in T
    BY <1>1, <2>1, Climb
  <2> QED BY <2>2
<1>4. PICK f : R(f, n)
  BY <1>3 DEF T
<1>5. \A k \in 0..n : f[k] = IF k = 0 THEN s0 ELSE step[k][f[k - 1]]
  BY <1>4
<1>6. f = [k \in 0..n |-> IF k = 0 THEN s0 ELSE step[k][f[k - 1]]]
  BY <1>4, <1>5
<1> QED BY <1>4, <1>6 DEF Runs

\* A finite set of numbers that is not empty has a greatest.
LEMMA GreatestNat ==
    ASSUME NEW S, S \subseteq Nat, IsFiniteSet(S), S # {}
    PROVE  \E x \in S : \A y \in S : y <= x
<1> DEFINE U == {n \in Nat : \A y \in S : y <= n}
<1>1. U # {}
  <2> DEFINE n == Cardinality(S)
  <2> SUFFICES ASSUME \A u \in Nat : \E y \in S : y > u PROVE FALSE
    <3>1. (\E u \in Nat : \A y \in S : ~(y > u)) => U # {}
      OBVIOUS
    <3> QED BY <3>1
  <2>n. n \in Nat
    BY FS_CardinalityType
  \* a strictly increasing chain of elements, longer than the set
  <2> DEFINE up == [u \in S |-> CHOOSE y \in S : y > u]
  <2>1. up \in [S -> S] /\ \A u \in S : up[u] > u
    OBVIOUS
  <2>2. PICK s0 : s0 \in S
    OBVIOUS
  <2> DEFINE step == [k \in 1..n |-> up]
  <2>3. step \in [1..n -> [S -> S]]
    BY <2>1
  <2> HIDE DEF n, up
  <2>4. PICK f : Runs(f, n, S, s0, step)
    <3> HIDE DEF step
    <3> QED BY <2>n, <2>2, <2>3, Recursion
  <2>5. f \in [0..n -> S] /\ \A k \in 1..n : f[k] = up[f[k - 1]]
    <3>1. f \in [0..n -> S]
      BY <2>4 DEF Runs
    <3>2. ASSUME NEW k \in 1..n PROVE f[k] = up[f[k - 1]]
      <4>1. f[k] = step[k][f[k - 1]]
        BY <2>n, <2>4 DEF Runs
      <4> QED BY <4>1
    <3> QED BY <3>1, <3>2
  <2>6. \A k \in 1..n : f[k - 1] \in S /\ f[k] \in S /\ f[k] > f[k - 1]
    <3> TAKE k \in 1..n
    <3>1. f[k - 1] \in S /\ f[k] \in S
      BY <2>n, <2>5
    <3> QED BY <2>1, <2>5, <3>1
  <2> DEFINE T == {k \in Nat : \A j \in 0..n : j < k /\ k <= n => f[j] < f[k]}
  <2>7. 0 \in T
    OBVIOUS
  <2>8. ASSUME NEW k \in 1..n, k - 1 \in T PROVE k \in T
    <3> SUFFICES ASSUME NEW j \in 0..n, j < k PROVE f[j] < f[k]
      BY <2>n, <2>8
    <3>1. f[j] \in Nat /\ f[k - 1] \in Nat /\ f[k] \in Nat /\ f[k] > f[k - 1]
      BY <2>n, <2>5, <2>6
    <3>2. j = k - 1 \/ f[j] < f[k - 1]
      BY <2>n, <2>8
    <3> QED BY <3>1, <3>2
  <2>9. \A k \in 0..n : k \in T
    <3> HIDE DEF T
    <3> QED BY <2>n, <2>7, <2>8, Climb
  <2>10. \A j, k \in 0..n : j < k => f[j] < f[k]
    BY <2>n, <2>9
  <2>11. \A j, k \in 0..n : j # k => f[j] # f[k]
    <3> SUFFICES ASSUME NEW j \in 0..n, NEW k \in 0..n, j # k PROVE f[j] # f[k]
      OBVIOUS
    <3>1. f[j] \in Nat /\ f[k] \in Nat
      BY <2>5
    <3> QED BY <2>n, <2>10, <3>1
  <2>12. Cardinality(0..n) = n + 1 /\ IsFiniteSet(0..n)
    BY <2>n, FS_Interval
  <2>13. Cardinality(S) < Cardinality(0..n)
    BY <2>n, <2>12 DEF n
  <2>14. f \in [0..n -> S]
    BY <2>5
  <2> DEFINE D == 0..n
  <2>15. /\ IsFiniteSet(D) /\ Cardinality(S) < Cardinality(D) /\ f \in [D -> S]
         /\ \A j, k \in D : j # k => f[j] # f[k]
    BY <2>11, <2>12, <2>13, <2>14
  <2> HIDE DEF D
  <2> QED BY <2>15, FS_PigeonHole
<1>2. PICK n \in U : \A u \in U : n <= u
  <2>1. U \subseteq Nat
    OBVIOUS
  <2> HIDE DEF U
  <2> QED BY <1>1, <2>1, LeastNat
<1>3. n \in S
  <2> SUFFICES ASSUME n \notin S PROVE FALSE
    OBVIOUS
  <2>1. \A y \in S : y \in Nat /\ y < n
    BY <1>2
  <2>2. n # 0
    <3>1. \E y \in S : y \in Nat /\ y < n
      BY <2>1
    <3> QED BY <3>1
  <2>3. n - 1 \in U
    BY <1>2, <2>1, <2>2
  <2> QED BY <1>2, <2>3
<1> QED BY <1>2, <1>3

LEMMA ImageFinite ==
    ASSUME NEW S, IsFiniteSet(S), NEW f
    PROVE  IsFiniteSet({f[x] : x \in S})
<1> DEFINE g == [x \in S |-> f[x]]
           T == {f[x] : x \in S}
<1>1. g \in Surjection(S, T)
  BY DEF Surjection
<1> HIDE DEF g, T
<1>2. IsFiniteSet(T)
  BY <1>1, FS_Surjection
<1> QED BY <1>2 DEF T

LEMMA MaxIs ==
    ASSUME NEW S, S \subseteq Nat, IsFiniteSet(S), S # {}
    PROVE  Max(S) \in S /\ \A y \in S : y <= Max(S)
<1>1. PICK x \in S : \A y \in S : y <= x
  BY GreatestNat
<1> QED BY <1>1 DEF Max

LEMMA MinIs ==
    ASSUME NEW S, S \subseteq Nat, S # {}
    PROVE  Min(S) \in S /\ \A y \in S : Min(S) <= y
<1>1. PICK x \in S : \A y \in S : x <= y
  BY LeastNat
<1> QED BY <1>1 DEF Min

-----------------------------------------------------------------------------
(* What a schedule is.                                                     *)

Rows(rs) ==
    /\ DOMAIN rs \subseteq Ids /\ IsFiniteSet(DOMAIN rs)
    /\ rs \in [DOMAIN rs -> [start : Nat, media : Schedulable, offset : Nat, dur : Nat \ {0},
                             kind : {"primary", "filler"}, anchor : Ids \cup {NoEntry}]]
Apart(rs) ==
    \A i, j \in DOMAIN rs : i # j => End(rs[i]) <= rs[j].start \/ End(rs[j]) <= rs[i].start
Within(rs) == \A i \in DOMAIN rs : rs[i].offset + rs[i].dur <= Duration[rs[i].media]

\* Each row but x names the row before it.
Linked(rs, x) == \A i \in DOMAIN rs \ {x} : rs[i].anchor = LastBefore(rs, rs[i].start)

Sound(rs, x) == Rows(rs) /\ Apart(rs) /\ Within(rs) /\ Linked(rs, x)
Good(rs) == Sound(rs, NoEntry)

LEMMA NoEntryNoId == NoEntry \notin Ids
BY BuilderAssumption DEF Ids

LEMMA RowFields ==
    ASSUME NEW rs, Rows(rs), NEW i \in DOMAIN rs
    PROVE  /\ i \in Ids /\ i # NoEntry
           /\ rs[i].start \in Nat /\ rs[i].dur \in Nat \ {0} /\ rs[i].offset \in Nat
           /\ rs[i].media \in Schedulable /\ rs[i].anchor \in Ids \cup {NoEntry}
           /\ rs[i].kind \in {"primary", "filler"}
           /\ End(rs[i]) \in Nat /\ End(rs[i]) > rs[i].start
           /\ End(rs[i]) = rs[i].start + rs[i].dur
BY NoEntryNoId DEF Rows, End

LEMMA DistinctStarts ==
    ASSUME NEW rs, Rows(rs), Apart(rs), NEW i \in DOMAIN rs, NEW j \in DOMAIN rs, i # j
    PROVE  rs[i].start # rs[j].start
BY RowFields DEF Apart

\* What starts earlier ends before.
LEMMA EndsBefore ==
    ASSUME NEW rs, Rows(rs), Apart(rs), NEW i \in DOMAIN rs, NEW j \in DOMAIN rs,
           rs[i].start < rs[j].start
    PROVE  End(rs[i]) <= rs[j].start
<1>1. i # j
  BY RowFields
<1>2. End(rs[i]) <= rs[j].start \/ End(rs[j]) <= rs[i].start
  BY <1>1 DEF Apart
<1>3. End(rs[j]) > rs[j].start /\ rs[i].start \in Nat /\ rs[j].start \in Nat /\ End(rs[j]) \in Nat
  BY RowFields
<1> QED BY <1>2, <1>3

LEMMA StartsOf ==
    ASSUME NEW rs, Rows(rs), NEW S \in SUBSET DOMAIN rs
    PROVE  {rs[i].start : i \in S} \subseteq Nat /\ IsFiniteSet({rs[i].start : i \in S})
<1>1. IsFiniteSet(S)
  BY FS_Subset DEF Rows
<1> DEFINE f == [i \in S |-> rs[i].start]
<1>2. IsFiniteSet({f[i] : i \in S})
  <2> HIDE DEF f
  <2> QED BY <1>1, ImageFinite
<1>3. {f[i] : i \in S} = {rs[i].start : i \in S}
  OBVIOUS
<1>4. {rs[i].start : i \in S} \subseteq Nat
  BY RowFields
<1> QED BY <1>2, <1>3, <1>4

LEMMA LatestIs ==
    ASSUME NEW rs, Rows(rs), NEW S \in SUBSET DOMAIN rs, S # {}
    PROVE  Latest(rs, S) \in S /\ \A j \in S : rs[j].start <= rs[Latest(rs, S)].start
<1> DEFINE U == {rs[i].start : i \in S}
<1>1. U \subseteq Nat /\ IsFiniteSet(U) /\ U # {}
  BY StartsOf
<1> HIDE DEF U
<1>2. PICK x \in U : \A y \in U : y <= x
  BY <1>1, GreatestNat
<1>3. \E i \in S : \A j \in S : rs[j].start <= rs[i].start
  BY <1>2 DEF U
<1> QED BY <1>3 DEF Latest

LEMMA EarliestIs ==
    ASSUME NEW rs, Rows(rs), NEW S \in SUBSET DOMAIN rs, S # {}
    PROVE  Earliest(rs, S) \in S /\ \A j \in S : rs[Earliest(rs, S)].start <= rs[j].start
<1> DEFINE U == {rs[i].start : i \in S}
<1>1. U \subseteq Nat /\ U # {}
  BY StartsOf
<1> HIDE DEF U
<1>2. PICK x \in U : \A y \in U : x <= y
  BY <1>1, LeastNat
<1>3. \E i \in S : \A j \in S : rs[i].start <= rs[j].start
  BY <1>2 DEF U
<1> QED BY <1>3 DEF Earliest

LEMMA LatestUnique ==
    ASSUME NEW rs, Rows(rs), Apart(rs), NEW S \in SUBSET DOMAIN rs, NEW i \in S,
           \A j \in S : rs[j].start <= rs[i].start
    PROVE  Latest(rs, S) = i
<1>1. Latest(rs, S) \in S /\ \A j \in S : rs[j].start <= rs[Latest(rs, S)].start
  BY LatestIs
<1>2. rs[i].start \in Nat /\ rs[Latest(rs, S)].start \in Nat
  BY <1>1, RowFields
<1>3. rs[i].start = rs[Latest(rs, S)].start
  BY <1>1, <1>2
<1> QED BY <1>1, <1>3, DistinctStarts

LEMMA EarliestUnique ==
    ASSUME NEW rs, Rows(rs), Apart(rs), NEW S \in SUBSET DOMAIN rs, NEW i \in S,
           \A j \in S : rs[i].start <= rs[j].start
    PROVE  Earliest(rs, S) = i
<1>1. Earliest(rs, S) \in S /\ \A j \in S : rs[Earliest(rs, S)].start <= rs[j].start
  BY EarliestIs
<1>2. rs[i].start \in Nat /\ rs[Earliest(rs, S)].start \in Nat
  BY <1>1, RowFields
<1>3. rs[i].start = rs[Earliest(rs, S)].start
  BY <1>1, <1>2
<1> QED BY <1>1, <1>3, DistinctStarts

LEMMA NoLatest == ASSUME NEW rs PROVE Latest(rs, {}) = NoEntry /\ Earliest(rs, {}) = NoEntry
BY DEF Latest, Earliest

\* The latest of a set of rows, whether there is one or not.
LEMMA LatestCases ==
    ASSUME NEW rs, Rows(rs), NEW S \in SUBSET DOMAIN rs
    PROVE  IF S = {} THEN Latest(rs, S) = NoEntry
           ELSE Latest(rs, S) \in S /\ \A j \in S : rs[j].start <= rs[Latest(rs, S)].start
BY LatestIs, NoLatest

\* It depends on the starts only.
LEMMA LatestSame ==
    ASSUME NEW rs, NEW ts, Rows(rs), Rows(ts), Apart(ts), NEW S, S \subseteq DOMAIN rs, S \subseteq DOMAIN ts,
           \A i \in S : rs[i].start = ts[i].start
    PROVE  Latest(ts, S) = Latest(rs, S)
<1>1. CASE S = {}
  BY <1>1, NoLatest
<1>2. CASE S # {}
  <2>1. Latest(rs, S) \in S /\ \A j \in S : rs[j].start <= rs[Latest(rs, S)].start
    BY <1>2, LatestIs
  <2> QED BY <2>1, LatestUnique
<1> QED BY <1>1, <1>2

LEMMA LastBeforeIs ==
    ASSUME NEW rs, Rows(rs), Apart(rs), NEW t \in Nat
    PROVE  /\ LastBefore(rs, t) = NoEntry <=> \A i \in DOMAIN rs : rs[i].start >= t
           /\ LastBefore(rs, t) # NoEntry =>
                /\ LastBefore(rs, t) \in DOMAIN rs /\ rs[LastBefore(rs, t)].start < t
                /\ \A i \in DOMAIN rs : rs[i].start < t => rs[i].start <= rs[LastBefore(rs, t)].start
           /\ \A i \in DOMAIN rs : /\ rs[i].start < t
                                   /\ \A j \in DOMAIN rs : rs[j].start < t => rs[j].start <= rs[i].start
                                   => LastBefore(rs, t) = i
<1> DEFINE S == {i \in DOMAIN rs : rs[i].start < t}
<1>1. LastBefore(rs, t) = Latest(rs, S)
  BY DEF LastBefore
<1>2. \A i \in DOMAIN rs : rs[i].start \in Nat /\ i # NoEntry
  BY RowFields
<1>3. CASE S = {}
  BY <1>1, <1>2, <1>3, NoLatest
<1>4. CASE S # {}
  <2>1. S \in SUBSET DOMAIN rs
    OBVIOUS
  <2>2. Latest(rs, S) \in S /\ \A j \in S : rs[j].start <= rs[Latest(rs, S)].start
    <3> HIDE DEF S
    <3> QED BY <2>1, <1>4, LatestIs
  <2>3. ASSUME NEW i \in S, \A j \in S : rs[j].start <= rs[i].start PROVE Latest(rs, S) = i
    <3> HIDE DEF S
    <3> QED BY <2>1, <2>3, LatestUnique
  <2> QED BY <1>1, <1>2, <2>2, <2>3
<1> QED BY <1>3, <1>4

LEMMA GoodIndexed == ASSUME NEW rs, Good(rs) PROVE Indexed(rs)
<1> SUFFICES ASSUME NEW i \in DOMAIN rs, NEW j \in DOMAIN rs, i # j
             PROVE  rs[i].start # rs[j].start /\ rs[i].anchor # rs[j].anchor
  BY DEF Indexed
<1>1. Rows(rs) /\ Apart(rs) /\ \A k \in DOMAIN rs : rs[k].anchor = LastBefore(rs, rs[k].start)
  BY RowFields DEF Good, Sound, Linked
<1>2. rs[i].start # rs[j].start /\ rs[i].start \in Nat /\ rs[j].start \in Nat
  BY <1>1, DistinctStarts, RowFields
<1>3. ASSUME NEW x \in DOMAIN rs, NEW y \in DOMAIN rs, rs[x].start < rs[y].start
      PROVE  rs[x].anchor # rs[y].anchor
  <2>1. rs[x].start \in Nat /\ rs[y].start \in Nat
    BY <1>1, RowFields
  <2> DEFINE a == LastBefore(rs, rs[x].start)
             b == LastBefore(rs, rs[y].start)
  <2>2. b # NoEntry /\ rs[b].start >= rs[x].start
    BY <1>1, <1>3, <2>1, LastBeforeIs
  <2>3. a # NoEntry => rs[a].start < rs[x].start /\ rs[a].start \in Nat
    BY <1>1, <2>1, LastBeforeIs, RowFields
  <2>4. b \in DOMAIN rs /\ rs[b].start \in Nat
    BY <1>1, <2>1, <2>2, LastBeforeIs, RowFields
  <2>5. a # b
    <3> HIDE DEF a, b
    <3> QED BY <2>1, <2>2, <2>3, <2>4
  <2> QED BY <1>1, <2>5
<1>4. rs[i].start < rs[j].start \/ rs[j].start < rs[i].start
  BY <1>2
<1> QED BY <1>2, <1>3, <1>4

-----------------------------------------------------------------------------
(* Readers meet every row of such a schedule, in time order.               *)

Rank(rs, i) == Cardinality({j \in DOMAIN rs : rs[j].start <= rs[i].start})

LEMMA RankRange ==
    ASSUME NEW rs, Good(rs), NEW i \in DOMAIN rs
    PROVE  /\ Cardinality(DOMAIN rs) \in Nat /\ Rank(rs, i) \in 1..Cardinality(DOMAIN rs)
           /\ Rank(rs, i) = Cardinality(DOMAIN rs) => \A j \in DOMAIN rs : rs[j].start <= rs[i].start
<1> DEFINE S == {j \in DOMAIN rs : rs[j].start <= rs[i].start}
<1>0. Rows(rs) /\ IsFiniteSet(DOMAIN rs)
  BY DEF Good, Sound, Rows
<1>1. S \subseteq DOMAIN rs /\ i \in S
  BY <1>0, RowFields
<1> HIDE DEF S
<1>2. IsFiniteSet(S) /\ Cardinality(S) <= Cardinality(DOMAIN rs)
      /\ (Cardinality(S) = Cardinality(DOMAIN rs) => S = DOMAIN rs)
  BY <1>0, <1>1, FS_Subset
<1>3. Cardinality(S) \in Nat /\ Cardinality(DOMAIN rs) \in Nat /\ Cardinality(S) # 0
  BY <1>0, <1>1, <1>2, FS_CardinalityType, FS_EmptySet
<1> QED BY <1>2, <1>3 DEF S, Rank

LEMMA RankOne ==
    ASSUME NEW rs, Good(rs), NEW i \in DOMAIN rs, NEW j \in DOMAIN rs, Rank(rs, i) = Rank(rs, j)
    PROVE  i = j
<1>0. Rows(rs) /\ Apart(rs) /\ IsFiniteSet(DOMAIN rs)
  BY DEF Good, Sound, Rows
<1>1. ASSUME NEW x \in DOMAIN rs, NEW y \in DOMAIN rs, rs[x].start < rs[y].start
      PROVE  Rank(rs, x) # Rank(rs, y)
  <2> DEFINE S == {k \in DOMAIN rs : rs[k].start <= rs[x].start}
             U == {k \in DOMAIN rs : rs[k].start <= rs[y].start}
  <2>1. \A k \in DOMAIN rs : rs[k].start \in Nat
    BY <1>0, RowFields
  <2>2. S \subseteq U /\ y \in U /\ y \notin S /\ U \subseteq DOMAIN rs
    BY <1>1, <2>1
  <2> HIDE DEF S, U
  <2>3. IsFiniteSet(U)
    BY <1>0, <2>2, FS_Subset
  <2>4. Cardinality(S) # Cardinality(U)
    BY <2>2, <2>3, FS_Subset
  <2> QED BY <2>4 DEF Rank, S, U
<1>2. rs[i].start = rs[j].start
  <2>1. rs[i].start \in Nat /\ rs[j].start \in Nat
    BY <1>0, RowFields
  <2>2. ~(rs[i].start < rs[j].start) /\ ~(rs[j].start < rs[i].start)
    BY <1>1
  <2> QED BY <2>1, <2>2
<1> QED BY <1>0, <1>2, DistinctStarts

LEMMA RankFirst ==
    ASSUME NEW rs, Good(rs), NEW i \in DOMAIN rs, rs[i].anchor = NoEntry
    PROVE  Rank(rs, i) = 1
<1>0. Rows(rs) /\ Apart(rs) /\ rs[i].anchor = LastBefore(rs, rs[i].start) /\ \A j \in DOMAIN rs : rs[j].start \in Nat
  BY RowFields DEF Good, Sound, Linked
<1>1. \A j \in DOMAIN rs : rs[j].start >= rs[i].start
  BY <1>0, LastBeforeIs
<1>2. {j \in DOMAIN rs : rs[j].start <= rs[i].start} = {i}
  <2> SUFFICES ASSUME NEW j \in DOMAIN rs, rs[j].start <= rs[i].start PROVE j = i
    BY <1>0
  <2>1. rs[j].start = rs[i].start
    BY <1>0, <1>1
  <2> QED BY <1>0, <2>1, DistinctStarts
<1> QED BY <1>2, FS_Singleton DEF Rank

LEMMA RankNext ==
    ASSUME NEW rs, Good(rs), NEW i \in DOMAIN rs, NEW p \in DOMAIN rs, rs[i].anchor = p
    PROVE  Rank(rs, i) = Rank(rs, p) + 1
<1> DEFINE S == {j \in DOMAIN rs : rs[j].start <= rs[p].start}
           U == {j \in DOMAIN rs : rs[j].start <= rs[i].start}
<1>0. Rows(rs) /\ Apart(rs) /\ IsFiniteSet(DOMAIN rs)
      /\ rs[i].anchor = LastBefore(rs, rs[i].start) /\ \A j \in DOMAIN rs : rs[j].start \in Nat
      /\ p # NoEntry
  BY RowFields DEF Good, Sound, Linked, Rows
<1>1. /\ rs[p].start < rs[i].start
      /\ \A j \in DOMAIN rs : rs[j].start < rs[i].start => rs[j].start <= rs[p].start
  BY <1>0, LastBeforeIs
<1>2. U = S \cup {i} /\ i \notin S /\ S \subseteq DOMAIN rs
  <2>1. i \notin S /\ i \in U /\ S \subseteq U
    BY <1>0, <1>1
  <2>2. ASSUME NEW j \in U, j # i PROVE j \in S
    <3>1. rs[j].start # rs[i].start
      BY <1>0, <2>2, DistinctStarts
    <3> QED BY <1>0, <1>1, <3>1
  <2> QED BY <2>1, <2>2
<1> HIDE DEF S, U
<1>3. IsFiniteSet(S)
  BY <1>0, <1>2, FS_Subset
<1>4. Cardinality(U) = Cardinality(S) + 1
  BY <1>2, <1>3, FS_AddElement
<1> QED BY <1>4 DEF Rank, S, U

\* A row that is not the last has a row behind it.
LEMMA Successor ==
    ASSUME NEW rs, Good(rs), NEW p \in DOMAIN rs, Rank(rs, p) # Cardinality(DOMAIN rs)
    PROVE  \E i \in DOMAIN rs : rs[i].anchor = p
<1> DEFINE S == {j \in DOMAIN rs : rs[j].start > rs[p].start}
<1>0. Rows(rs) /\ Apart(rs) /\ IsFiniteSet(DOMAIN rs) /\ \A j \in DOMAIN rs : rs[j].start \in Nat
  BY RowFields DEF Good, Sound, Linked, Rows
<1>1. S # {}
  <2> SUFFICES ASSUME S = {} PROVE FALSE
    OBVIOUS
  <2>1. {j \in DOMAIN rs : rs[j].start <= rs[p].start} = DOMAIN rs
    BY <1>0
  <2> QED BY <2>1 DEF Rank
<1>2. S \subseteq DOMAIN rs
  OBVIOUS
<1> DEFINE e == Earliest(rs, S)
<1>3. e \in S /\ \A j \in S : rs[e].start <= rs[j].start
  <2> HIDE DEF S
  <2> QED BY <1>0, <1>1, <1>2, EarliestIs
<1> HIDE DEF e
<1>4. LastBefore(rs, rs[e].start) = p
  BY <1>0, <1>3, LastBeforeIs
<1>5. e # NoEntry
  BY <1>0, <1>3, RowFields
<1> QED BY <1>3, <1>4, <1>5 DEF Good, Sound, Linked

LEMMA Leader ==
    ASSUME NEW rs, Good(rs), DOMAIN rs # {}
    PROVE  \E i \in DOMAIN rs : rs[i].anchor = NoEntry
<1>0. Rows(rs) /\ Apart(rs) /\ \A j \in DOMAIN rs : rs[j].start \in Nat
  BY RowFields DEF Good, Sound, Linked, Rows
<1> DEFINE e == Earliest(rs, DOMAIN rs)
<1>1. e \in DOMAIN rs /\ \A j \in DOMAIN rs : rs[e].start <= rs[j].start
  BY <1>0, EarliestIs
<1> HIDE DEF e
<1>2. LastBefore(rs, rs[e].start) = NoEntry
  BY <1>0, <1>1, LastBeforeIs
<1>3. e # NoEntry
  BY <1>0, <1>1, RowFields
<1> QED BY <1>1, <1>2, <1>3 DEF Good, Sound, Linked

LEMMA WalkMeetsAll ==
    ASSUME NEW rs, Good(rs)
    PROVE  /\ Intact(rs)
           /\ DOMAIN rs = {} => LastEntry(rs) = NoEntry
           /\ DOMAIN rs # {} => LastEntry(rs) \in DOMAIN rs /\ LastEntry(rs) = Latest(rs, DOMAIN rs)
<1> DEFINE N == Cardinality(DOMAIN rs)
           Followers(i) == {j \in DOMAIN rs : rs[j].anchor = i}
           Follower(i) == IF Followers(i) = {} THEN NoEntry ELSE CHOOSE j \in Followers(i) : TRUE
           path == CHOOSE path : path = [n \in 0..N |->
                      IF n = 0 THEN NoEntry
                      ELSE IF n > 1 /\ path[n - 1] = NoEntry THEN NoEntry ELSE Follower(path[n - 1])]
           S == Ids \cup {NoEntry}
           step == [k \in 1..N |-> [s \in S |-> IF k > 1 /\ s = NoEntry THEN NoEntry ELSE Follower(s)]]
<1>0. Rows(rs) /\ Apart(rs) /\ IsFiniteSet(DOMAIN rs) /\ DOMAIN rs \subseteq Ids
  BY DEF Good, Sound, Rows
<1>1. N \in Nat
  BY <1>0, FS_CardinalityType
<1>2. Walk(rs) = path
  BY DEF Walk
<1>3. \A i : Followers(i) # {} => Follower(i) \in DOMAIN rs /\ rs[Follower(i)].anchor = i
  <2> TAKE i
  <2>1. Followers(i) # {} => Follower(i) \in Followers(i)
    OBVIOUS
  <2> HIDE DEF Follower
  <2> QED BY <2>1
<1>3a. \A i : Follower(i) \in S
  BY <1>0, <1>3
<1>4. step \in [1..N -> [S -> S]]
  <2> HIDE DEF Follower, N
  <2> QED BY <1>3a
<1>5. path = [n \in 0..N |-> IF n = 0 THEN NoEntry
                      ELSE IF n > 1 /\ path[n - 1] = NoEntry THEN NoEntry ELSE Follower(path[n - 1])]
  <2>1. PICK f : Runs(f, N, S, NoEntry, step)
    <3>1. NoEntry \in S
      OBVIOUS
    <3> HIDE DEF step, N, S
    <3> QED BY <1>1, <1>4, <3>1, Recursion
  <2>2. \A k \in 1..N : f[k - 1] \in S
    <3>1. f \in [0..N -> S]
      BY <2>1 DEF Runs
    <3> HIDE DEF step, N, S
    <3> QED BY <1>1, <3>1
  <2> HIDE DEF Follower, N, S
  <2>3. f = [k \in 0..N |-> IF k = 0 THEN NoEntry ELSE step[k][f[k - 1]]]
    BY <2>1 DEF Runs
  <2>4. \A k \in 1..N : step[k][f[k - 1]] = IF k > 1 /\ f[k - 1] = NoEntry THEN NoEntry ELSE Follower(f[k - 1])
    BY <2>2
  <2> HIDE DEF step
  <2>5. f = [n \in 0..N |-> IF n = 0 THEN NoEntry
                      ELSE IF n > 1 /\ f[n - 1] = NoEntry THEN NoEntry ELSE Follower(f[n - 1])]
    BY <1>1, <2>3, <2>4
  <2> QED BY <2>5
<1> HIDE DEF path, step
<1>6. path[0] = NoEntry
  BY <1>1, <1>5
<1> DEFINE T == {k \in Nat : k \in 1..N => path[k] \in DOMAIN rs /\ Rank(rs, path[k]) = k}
<1>7. 0 \in T
  OBVIOUS
<1>8. ASSUME NEW k \in 1..N, k - 1 \in T PROVE k \in T
  <2>1. k \in Nat /\ k \in 0..N /\ k - 1 \in 0..N
    BY <1>1
  <2>2. CASE k = 1
    <3>1. path[k] = Follower(NoEntry)
      <4> HIDE DEF Follower, N
      <4> QED BY <2>1, <2>2, <1>5, <1>6
    <3>2. DOMAIN rs # {}
      <4> SUFFICES ASSUME DOMAIN rs = {} PROVE FALSE
        OBVIOUS
      <4> QED BY <1>1, FS_EmptySet
    <3>3. Followers(NoEntry) # {}
      BY <3>2, Leader
    <3>4. path[k] \in DOMAIN rs /\ rs[path[k]].anchor = NoEntry
      <4> HIDE DEF Follower, Followers
      <4> QED BY <3>1, <3>3, <1>3
    <3> QED BY <2>1, <2>2, <3>4, RankFirst
  <2>3. CASE k # 1
    <3>1. path[k - 1] \in DOMAIN rs /\ Rank(rs, path[k - 1]) = k - 1 /\ k > 1
      BY <1>1, <1>8, <2>3
    <3>2. path[k - 1] # NoEntry
      BY <1>0, <3>1, NoEntryNoId
    <3>3. path[k] = Follower(path[k - 1])
      <4> HIDE DEF Follower, N
      <4> QED BY <2>1, <2>3, <3>2, <1>5
    <3>4. Rank(rs, path[k - 1]) # Cardinality(DOMAIN rs)
      BY <1>1, <3>1
    <3>5. Followers(path[k - 1]) # {}
      BY <3>1, <3>4, Successor
    <3>6. path[k] \in DOMAIN rs /\ rs[path[k]].anchor = path[k - 1]
      <4> HIDE DEF Follower, Followers
      <4> QED BY <3>3, <3>5, <1>3
    <3>7. Rank(rs, path[k]) = k - 1 + 1
      BY <3>1, <3>6, RankNext
    <3> QED BY <2>1, <3>6, <3>7
  <2> QED BY <2>2, <2>3
<1>9. \A k \in 1..N : path[k] \in DOMAIN rs /\ Rank(rs, path[k]) = k
  <2>1. \A k \in 0..N : k \in T
    <3> HIDE DEF T, N
    <3> QED BY <1>1, <1>7, <1>8, Climb
  <2> QED BY <1>1, <2>1
<1>10. ASSUME NEW i \in DOMAIN rs PROVE i \in Range(path)
  <2>1. Rank(rs, i) \in 1..N
    BY RankRange
  <2>2. path[Rank(rs, i)] = i
    BY <1>9, <2>1, RankOne
  <2>3. Rank(rs, i) \in DOMAIN path
    <3> HIDE DEF Follower, N
    <3> QED BY <1>1, <1>5, <2>1
  <2> QED BY <2>2, <2>3 DEF Range
<1>11. LastEntry(rs) = path[N]
  BY <1>2 DEF LastEntry
<1>12. CASE DOMAIN rs = {}
  <2>1. N = 0
    BY <1>12, FS_EmptySet
  <2> QED BY <1>2, <1>6, <1>10, <1>11, <1>12, <2>1 DEF Intact
<1>13. CASE DOMAIN rs # {}
  <2>1. N \in 1..N
    BY <1>0, <1>1, <1>13, FS_EmptySet
  <2>2. path[N] \in DOMAIN rs /\ Rank(rs, path[N]) = N
    BY <1>9, <2>1
  <2>3. \A j \in DOMAIN rs : rs[j].start <= rs[path[N]].start
    BY <2>2, RankRange
  <2>4. Latest(rs, DOMAIN rs) = path[N]
    <3> HIDE DEF N
    <3> QED BY <1>0, <2>2, <2>3, LatestUnique
  <2> QED BY <1>2, <1>10, <1>11, <1>13, <2>2, <2>4 DEF Intact
<1> QED BY <1>12, <1>13

-----------------------------------------------------------------------------
(* What InsertScheduleEntries leaves.                                      *)

EntryType == [start : Nat, media : Schedulable, offset : Nat, dur : Nat \ {0},
              kind : {"primary", "filler"}]

\* Entries that may be laid together.
Batched(B) ==
    /\ IsFiniteSet(B) /\ B \subseteq EntryType
    /\ \A d, e \in B : d # e => End(d) <= e.start \/ End(e) <= d.start
    /\ \A e \in B : e.offset + e.dur <= Duration[e.media]

\* ts is rs with the entries of B chained behind first.
Inserts(ts, rs, B, first) ==
    LET N == DOMAIN ts \ DOMAIN rs
    IN  /\ DOMAIN rs \subseteq DOMAIN ts /\ \A i \in DOMAIN rs : ts[i] = rs[i]
        /\ Rows(ts)
        /\ \A e \in B : \E i \in N : ts[i] = Row(e, ts[i].anchor)
        /\ \A i \in N : \E e \in B : ts[i] = Row(e, ts[i].anchor)
        /\ \A i, j \in N : i # j => End(ts[i]) <= ts[j].start \/ End(ts[j]) <= ts[i].start
        /\ \A i \in N :
              \/ /\ ts[i].anchor = first
                 /\ \A k \in N : ts[k].start >= ts[i].start
              \/ /\ ts[i].anchor \in N
                 /\ ts[ts[i].anchor].start < ts[i].start
                 /\ \A k \in N : ts[k].start < ts[i].start => ts[k].start <= ts[ts[i].anchor].start

LEMMA EntryFields ==
    ASSUME NEW e \in EntryType
    PROVE  /\ e.start \in Nat /\ e.dur \in Nat \ {0} /\ e.offset \in Nat
           /\ e.media \in Schedulable /\ e.kind \in {"primary", "filler"}
           /\ End(e) \in Nat /\ End(e) > e.start /\ End(e) = e.start + e.dur
BY DEF EntryType, End

LEMMA RowOfEntry ==
    ASSUME NEW e, NEW a
    PROVE  LET r == Row(e, a)
           IN  /\ r.start = e.start /\ r.media = e.media /\ r.offset = e.offset
               /\ r.dur = e.dur /\ r.kind = e.kind /\ r.anchor = a /\ End(r) = End(e)
BY DEF Row, End

\* There is a fresh id for every start.
LEMMA Fresh ==
    ASSUME NEW used, IsFiniteSet(used), NEW s \in Nat
    PROVE  LET g == CHOOSE g \in 0..Cardinality(used) :
                       <<s, g>> \notin used /\ \A h \in 0..(g - 1) : <<s, h>> \in used
           IN  g \in Nat /\ <<s, g>> \notin used
<1> DEFINE n == Cardinality(used)
<1>1. n \in Nat
  BY FS_CardinalityType
<1>2. ASSUME NEW m \in Nat, \A h \in 0..(m - 1) : <<s, h>> \in used PROVE m <= n
  <2> SUFFICES ASSUME n < m PROVE FALSE
    BY <1>1
  <2> DEFINE f == [h \in 0..(m - 1) |-> <<s, h>>]
  <2>1. f \in [0..(m - 1) -> used]
    BY <1>2
  <2>2. IsFiniteSet(0..(m - 1)) /\ Cardinality(0..(m - 1)) = m
    BY FS_Interval
  <2>3. \E x, y \in 0..(m - 1) : x # y /\ f[x] = f[y]
    <3> HIDE DEF f
    <3> QED BY <2>1, <2>2, <1>1, FS_PigeonHole
  <2> QED BY <2>3
<1> DEFINE S == {h \in Nat : <<s, h>> \notin used}
<1>3. S # {}
  <2> SUFFICES ASSUME \A h \in Nat : <<s, h>> \in used PROVE FALSE
    OBVIOUS
  <2>1. n + 1 \in Nat /\ \A h \in 0..(n + 1 - 1) : <<s, h>> \in used
    BY <1>1
  <2>2. n + 1 <= n
    <3> HIDE DEF n
    <3> QED BY <2>1, <1>2
  <2> QED BY <1>1, <2>2
<1>4. PICK g \in S : \A h \in S : g <= h
  <2>1. S \subseteq Nat
    OBVIOUS
  <2> HIDE DEF S
  <2> QED BY <1>3, <2>1, LeastNat
<1>5. g \in Nat /\ <<s, g>> \notin used /\ \A h \in 0..(g - 1) : <<s, h>> \in used
  <2>1. \A h \in 0..(g - 1) : h \in Nat /\ ~(g <= h)
    BY <1>4
  <2> QED BY <1>4, <2>1
<1>6. g \in 0..n
  BY <1>1, <1>2, <1>5
<1> HIDE DEF S
<1>7. \E x \in 0..Cardinality(used) : <<s, x>> \notin used /\ \A h \in 0..(x - 1) : <<s, h>> \in used
  BY <1>5, <1>6
<1> QED BY <1>1, <1>7

LEMMA Inserted ==
    ASSUME NEW rs, Rows(rs), NEW ch, IsFiniteSet(ch.held), NEW B, Batched(B),
           NEW first \in Ids \cup {NoEntry}
    PROVE  Inserts(Insert(ch, rs, B, first), rs, B, first)
<1> DEFINE used == DOMAIN rs \cup ch.held \cup {rs[i].anchor : i \in DOMAIN rs}
           Id(e) == <<e.start, CHOOSE g \in 0..Cardinality(used) :
                              /\ <<e.start, g>> \notin used
                              /\ \A h \in 0..(g - 1) : <<e.start, h>> \in used>>
           Earlier(e) == {d \in B : d.start < e.start}
           Before(e) == CHOOSE d \in Earlier(e) : \A b \in Earlier(e) : b.start <= d.start
           Anchor(e) == IF Earlier(e) = {} THEN first ELSE Id(Before(e))
           The(i) == CHOOSE e \in B : Id(e) = i
           new == [i \in {Id(e) : e \in B} |-> Row(The(i), Anchor(The(i)))]
           ts == [i \in DOMAIN new \cup DOMAIN rs |-> IF i \in DOMAIN new THEN new[i] ELSE rs[i]]
<1>1. Insert(ch, rs, B, first) = ts
  BY DEF Insert
<1>2. IsFiniteSet(used)
  <2>1. IsFiniteSet(DOMAIN rs)
    BY DEF Rows
  <2> DEFINE f == [i \in DOMAIN rs |-> rs[i].anchor]
  <2>2. IsFiniteSet({f[i] : i \in DOMAIN rs})
    <3> HIDE DEF f
    <3> QED BY <2>1, ImageFinite
  <2>3. {f[i] : i \in DOMAIN rs} = {rs[i].anchor : i \in DOMAIN rs}
    OBVIOUS
  <2>4. IsFiniteSet(DOMAIN rs \cup ch.held)
    BY <2>1, FS_Union
  <2> QED BY <2>2, <2>3, <2>4, FS_Union
<1>3. \A e \in B : e \in EntryType /\ e.start \in Nat
  BY EntryFields DEF Batched
<1>4. \A e \in B : Id(e) \in Ids /\ Id(e) \notin used /\ Id(e)[1] = e.start
  <2> TAKE e \in B
  <2> DEFINE g == CHOOSE g \in 0..Cardinality(used) :
                              /\ <<e.start, g>> \notin used
                              /\ \A h \in 0..(g - 1) : <<e.start, h>> \in used
  <2>1. g \in Nat /\ <<e.start, g>> \notin used
    <3> HIDE DEF used
    <3> QED BY <1>2, <1>3, Fresh
  <2>2. Id(e) = <<e.start, g>>
    OBVIOUS
  <2> HIDE DEF g, used, Id
  <2> QED BY <1>3, <2>1, <2>2 DEF Ids
<1>5. \A d, e \in B : d # e => d.start # e.start
  <2> TAKE d \in B, e \in B
  <2>1. End(d) > d.start /\ End(e) > e.start /\ d.start \in Nat /\ e.start \in Nat
        /\ End(d) \in Nat /\ End(e) \in Nat
    BY <1>3, EntryFields
  <2> QED BY <2>1 DEF Batched
<1> HIDE DEF Id, used
<1>6. \A d, e \in B : Id(d) = Id(e) => d = e
  BY <1>4, <1>5
<1>7. \A e \in B : The(Id(e)) = e
  BY <1>6
<1>8. \A e \in B : Earlier(e) # {} =>
         /\ Before(e) \in B /\ Before(e).start < e.start
         /\ \A b \in B : b.start < e.start => b.start <= Before(e).start
  <2> TAKE e \in B
  <2> HAVE Earlier(e) # {}
  <2> DEFINE f == [d \in Earlier(e) |-> d.start]
             U == {f[d] : d \in Earlier(e)}
  <2>1. IsFiniteSet(Earlier(e))
    BY FS_Subset DEF Batched
  <2>2. IsFiniteSet(U)
    <3> HIDE DEF f
    <3> QED BY <2>1, ImageFinite
  <2>3. U \subseteq Nat /\ U # {}
    BY <1>3
  <2>4. PICK x \in U : \A y \in U : y <= x
    <3> HIDE DEF U
    <3> QED BY <2>2, <2>3, GreatestNat
  <2>5. \E d \in Earlier(e) : \A b \in Earlier(e) : b.start <= d.start
    BY <2>4
  <2>6. Before(e) \in Earlier(e) /\ \A b \in Earlier(e) : b.start <= Before(e).start
    BY <2>5
  <2> HIDE DEF Before
  <2> QED BY <2>6
<1> HIDE DEF Before
<1>9. \A e \in B : Anchor(e) \in Ids \cup {NoEntry}
  BY <1>4, <1>8
<1> HIDE DEF The, Anchor
<1>10. DOMAIN new = {Id(e) : e \in B} /\ \A e \in B : new[Id(e)] = Row(e, Anchor(e))
  BY <1>7
<1> DEFINE N == DOMAIN ts \ DOMAIN rs
<1>11. N = {Id(e) : e \in B}
  BY <1>4, <1>10 DEF used
<1>12. \A i \in DOMAIN rs : i \in DOMAIN ts /\ ts[i] = rs[i]
  BY <1>4, <1>10 DEF used
<1>13. \A e \in B : Id(e) \in N /\ ts[Id(e)] = Row(e, Anchor(e))
  BY <1>10, <1>11
<1>14. DOMAIN ts = DOMAIN rs \cup {Id(e) : e \in B}
  BY <1>10
<1> HIDE DEF ts, new
<1>15. \A e \in B : LET r == ts[Id(e)] IN
          /\ r = Row(e, r.anchor) /\ r.anchor = Anchor(e) /\ r.start = e.start /\ End(r) = End(e)
          /\ r \in [start : Nat, media : Schedulable, offset : Nat, dur : Nat \ {0},
                    kind : {"primary", "filler"}, anchor : Ids \cup {NoEntry}]
  <2> TAKE e \in B
  <2>1. ts[Id(e)] = Row(e, Anchor(e))
    BY <1>13
  <2>2. e \in EntryType /\ Anchor(e) \in Ids \cup {NoEntry}
    BY <1>3, <1>9
  <2> HIDE DEF Earlier
  <2> QED BY <2>1, <2>2, RowOfEntry, EntryFields DEF Row
<1>16. Rows(ts)
  <2>1. IsFiniteSet({Id(e) : e \in B})
    <3> DEFINE f == [e \in B |-> Id(e)]
    <3>1. IsFiniteSet({f[e] : e \in B})
      <4> HIDE DEF f
      <4> QED BY ImageFinite DEF Batched
    <3>2. {f[e] : e \in B} = {Id(e) : e \in B}
      OBVIOUS
    <3> QED BY <3>1, <3>2
  <2>2. IsFiniteSet(DOMAIN ts)
    <3>1. IsFiniteSet(DOMAIN rs)
      BY DEF Rows
    <3>2. IsFiniteSet(DOMAIN rs \cup {Id(e) : e \in B})
      BY <2>1, <3>1, FS_Union
    <3> QED BY <1>14, <3>2
  <2>3. DOMAIN ts \subseteq Ids
    BY <1>4, <1>14 DEF Rows
  <2>4. \A i \in DOMAIN ts : ts[i] \in
            [start : Nat, media : Schedulable, offset : Nat, dur : Nat \ {0},
             kind : {"primary", "filler"}, anchor : Ids \cup {NoEntry}]
    BY <1>12, <1>14, <1>15 DEF Rows
  <2>5. ts = [i \in DOMAIN ts |-> ts[i]]
    BY DEF ts
  <2> QED BY <2>2, <2>3, <2>4, <2>5 DEF Rows
<1>17. \A e \in B : \E i \in N : ts[i] = Row(e, ts[i].anchor)
  BY <1>13, <1>15
<1>18. \A i \in N : \E e \in B : ts[i] = Row(e, ts[i].anchor)
  BY <1>11, <1>15
<1>19. \A i, j \in N : i # j => End(ts[i]) <= ts[j].start \/ End(ts[j]) <= ts[i].start
  BY <1>11, <1>15 DEF Batched
<1>20. \A i \in N :
              \/ /\ ts[i].anchor = first
                 /\ \A k \in N : ts[k].start >= ts[i].start
              \/ /\ ts[i].anchor \in N
                 /\ ts[ts[i].anchor].start < ts[i].start
                 /\ \A k \in N : ts[k].start < ts[i].start => ts[k].start <= ts[ts[i].anchor].start
  <2> TAKE i \in N
  <2>1. PICK e \in B : i = Id(e)
    BY <1>11
  <2>2. CASE Earlier(e) = {}
    <3>1. ts[i].anchor = first
      BY <1>15, <2>1, <2>2 DEF Anchor
    <3>2. \A d \in B : d.start >= e.start
      BY <1>3, <2>2
    <3>3. \A k \in N : ts[k].start >= ts[i].start
      BY <1>11, <1>15, <2>1, <3>2
    <3> QED BY <3>1, <3>3
  <2>3. CASE Earlier(e) # {}
    <3>1. ts[i].anchor = Id(Before(e)) /\ ts[i].start = e.start
      BY <1>15, <2>1, <2>3 DEF Anchor
    <3>2. /\ Before(e) \in B /\ Before(e).start < e.start
          /\ \A b \in B : b.start < e.start => b.start <= Before(e).start
      BY <1>8, <2>3
    <3>3. ts[i].anchor \in N /\ ts[ts[i].anchor].start = Before(e).start
      BY <1>13, <1>15, <3>1, <3>2
    <3>4. \A k \in N : \E d \in B : ts[k].start = d.start
      BY <1>11, <1>15
    <3> QED BY <3>1, <3>2, <3>3, <3>4
  <2> QED BY <2>2, <2>3
<1>21. Inserts(ts, rs, B, first)
  BY <1>12, <1>16, <1>17, <1>18, <1>19, <1>20 DEF Inserts
<1> QED BY <1>1, <1>21

-----------------------------------------------------------------------------
(* Splicing, relinking and clearing.                                       *)

LEMMA FirstFromIs ==
    ASSUME NEW rs, Rows(rs), Apart(rs), NEW t \in Nat
    PROVE  /\ FirstFrom(rs, t) = NoEntry <=> \A i \in DOMAIN rs : rs[i].start < t
           /\ FirstFrom(rs, t) # NoEntry =>
                /\ FirstFrom(rs, t) \in DOMAIN rs /\ rs[FirstFrom(rs, t)].start >= t
                /\ \A i \in DOMAIN rs : rs[i].start >= t => rs[FirstFrom(rs, t)].start <= rs[i].start
           /\ \A i \in DOMAIN rs : /\ rs[i].start >= t
                                   /\ \A j \in DOMAIN rs : rs[j].start >= t => rs[i].start <= rs[j].start
                                   => FirstFrom(rs, t) = i
<1> DEFINE S == {i \in DOMAIN rs : rs[i].start >= t}
<1>1. FirstFrom(rs, t) = Earliest(rs, S)
  BY DEF FirstFrom
<1>2. \A i \in DOMAIN rs : rs[i].start \in Nat /\ i # NoEntry
  BY RowFields
<1>3. CASE S = {}
  <2>1. FirstFrom(rs, t) = NoEntry
    <3> HIDE DEF S
    <3> QED BY <1>1, <1>3, NoLatest
  <2>2. \A i \in DOMAIN rs : ~(rs[i].start >= t)
    BY <1>3
  <2>3. \A i \in DOMAIN rs : rs[i].start < t
    <3> TAKE i \in DOMAIN rs
    <3>1. rs[i].start \in Nat /\ ~(rs[i].start >= t)
      BY <1>2, <2>2
    <3> QED BY ONLY <3>1, t \in Nat
  <2> HIDE DEF S
  <2> QED BY <2>1, <2>2, <2>3
<1>4. CASE S # {}
  <2>1. S \in SUBSET DOMAIN rs
    OBVIOUS
  <2>2. Earliest(rs, S) \in S /\ \A j \in S : rs[Earliest(rs, S)].start <= rs[j].start
    <3> HIDE DEF S
    <3> QED BY <2>1, <1>4, EarliestIs
  <2>3. ASSUME NEW i \in S, \A j \in S : rs[i].start <= rs[j].start PROVE Earliest(rs, S) = i
    <3> HIDE DEF S
    <3> QED BY <2>1, <2>3, EarliestUnique
  <2> QED BY <1>1, <1>2, <2>2, <2>3
<1> QED BY <1>3, <1>4

\* Entries laid in the gap behind p, the row that was first there being linked anew afterwards.
LEMMA InsertSound ==
    ASSUME NEW rs, NEW x, Sound(rs, x), NEW B, Batched(B), NEW first, NEW ts,
           Inserts(ts, rs, B, first), NEW p \in Nat,
           first = LastBefore(rs, p), x = FirstFrom(rs, p),
           \A e \in B : e.start >= p,
           \A i \in DOMAIN rs : rs[i].start < p => End(rs[i]) <= p,
           \A i \in DOMAIN rs, e \in B : rs[i].start >= p => End(e) <= rs[i].start
    PROVE  /\ Sound(ts, x)
           /\ x # NoEntry /\ B # {} =>
                /\ DOMAIN ts \ DOMAIN rs # {}
                /\ LastBefore(ts, ts[x].start) = Latest(ts, DOMAIN ts \ DOMAIN rs)
<1> DEFINE N == DOMAIN ts \ DOMAIN rs
<1>0. Rows(rs) /\ Apart(rs) /\ Within(rs) /\ Linked(rs, x)
  BY DEF Sound
<1>1. /\ DOMAIN rs \subseteq DOMAIN ts /\ \A i \in DOMAIN rs : ts[i] = rs[i]
      /\ Rows(ts)
      /\ \A e \in B : \E i \in N : ts[i] = Row(e, ts[i].anchor)
      /\ \A i \in N : \E e \in B : ts[i] = Row(e, ts[i].anchor)
      /\ \A i, j \in N : i # j => End(ts[i]) <= ts[j].start \/ End(ts[j]) <= ts[i].start
      /\ \A i \in N :
              \/ /\ ts[i].anchor = first
                 /\ \A k \in N : ts[k].start >= ts[i].start
              \/ /\ ts[i].anchor \in N
                 /\ ts[ts[i].anchor].start < ts[i].start
                 /\ \A k \in N : ts[k].start < ts[i].start => ts[k].start <= ts[ts[i].anchor].start
  BY DEF Inserts
<1>2. \A i \in N : /\ ts[i].start >= p
                   /\ \A j \in DOMAIN rs : rs[j].start >= p => End(ts[i]) <= rs[j].start
                   /\ ts[i].offset + ts[i].dur <= Duration[ts[i].media]
  <2> TAKE i \in N
  <2>1. PICK e \in B : ts[i] = Row(e, ts[i].anchor)
    BY <1>1
  <2>2. ts[i].start = e.start /\ End(ts[i]) = End(e) /\ ts[i].offset = e.offset
        /\ ts[i].dur = e.dur /\ ts[i].media = e.media
    BY <2>1, RowOfEntry
  <2> QED BY <2>2 DEF Batched
<1>3. \A i \in DOMAIN ts : /\ ts[i].start \in Nat /\ End(ts[i]) \in Nat /\ ts[i].start < End(ts[i])
                           /\ i # NoEntry
  BY <1>1, RowFields
<1>4. \A i \in DOMAIN ts : i \in N \/ (i \in DOMAIN rs /\ ts[i] = rs[i])
  BY <1>1
<1> HIDE DEF N
<1>5. Apart(ts)
  <2> SUFFICES ASSUME NEW i \in DOMAIN ts, NEW j \in DOMAIN ts, i # j
               PROVE  End(ts[i]) <= ts[j].start \/ End(ts[j]) <= ts[i].start
    BY DEF Apart
  <2>1. CASE i \in N /\ j \in N
    BY <1>1, <2>1
  <2>2. CASE i \in DOMAIN rs /\ j \in DOMAIN rs
    BY <1>0, <1>1, <2>2 DEF Apart
  <2>3. ASSUME NEW a \in N, NEW b \in DOMAIN rs
        PROVE  End(ts[a]) <= ts[b].start \/ End(ts[b]) <= ts[a].start
    <3>1. ts[b] = rs[b] /\ b \in DOMAIN ts /\ a \in DOMAIN ts
      BY <1>1 DEF N
    <3>2. CASE rs[b].start >= p
      BY <1>2, <3>1, <3>2
    <3>3. CASE rs[b].start < p
      BY <1>2, <1>3, <3>1, <3>3
    <3>4. rs[b].start \in Nat
      BY <1>3, <3>1
    <3> QED BY <3>2, <3>3, <3>4
  <2> QED BY <1>4, <2>1, <2>2, <2>3
<1>6. Within(ts)
  BY <1>0, <1>2, <1>4 DEF Within
<1>7. /\ first = NoEntry <=> \A i \in DOMAIN rs : rs[i].start >= p
      /\ first # NoEntry => /\ first \in DOMAIN rs /\ rs[first].start < p
                            /\ \A i \in DOMAIN rs : rs[i].start < p => rs[i].start <= rs[first].start
  BY <1>0, LastBeforeIs
<1>8. /\ x = NoEntry <=> \A i \in DOMAIN rs : rs[i].start < p
      /\ x # NoEntry => /\ x \in DOMAIN rs /\ rs[x].start >= p
                        /\ \A i \in DOMAIN rs : rs[i].start >= p => rs[x].start <= rs[i].start
  BY <1>0, FirstFromIs
<1>9. ASSUME NEW i \in N PROVE ts[i].anchor = LastBefore(ts, ts[i].start)
  <2>0. i \in DOMAIN ts /\ ts[i].start \in Nat
    BY <1>3 DEF N
  <2>1. \A k \in DOMAIN rs : ts[k] = rs[k] /\ (rs[k].start < ts[i].start => rs[k].start < p)
    <3> TAKE k \in DOMAIN rs
    <3>1. rs[k].start \in Nat /\ ts[k] = rs[k]
      BY <1>1, <1>3
    <3>2. rs[k].start >= p => End(ts[i]) <= rs[k].start
      BY <1>2
    <3> QED BY <1>3, <2>0, <3>1, <3>2
  <2>2. CASE ts[i].anchor = first /\ \A k \in N : ts[k].start >= ts[i].start
    <3>1. CASE first = NoEntry
      <4>1. \A k \in DOMAIN ts : ts[k].start >= ts[i].start
        BY <1>3, <1>4, <1>7, <2>0, <2>1, <2>2, <3>1
      <4> QED BY <1>1, <1>5, <2>0, <2>2, <3>1, <4>1, LastBeforeIs
    <3>2. CASE first # NoEntry
      <4>1. first \in DOMAIN ts /\ ts[first] = rs[first] /\ ts[first].start < ts[i].start
        BY <1>1, <1>2, <1>3, <1>7, <2>0, <3>2
      <4>2. \A k \in DOMAIN ts : ts[k].start < ts[i].start => ts[k].start <= ts[first].start
        BY <1>3, <1>4, <1>7, <2>0, <2>1, <2>2, <3>2, <4>1
      <4> QED BY <1>1, <1>5, <2>0, <2>2, <4>1, <4>2, LastBeforeIs
    <3> QED BY <3>1, <3>2
  <2>3. CASE /\ ts[i].anchor \in N
             /\ ts[ts[i].anchor].start < ts[i].start
             /\ \A k \in N : ts[k].start < ts[i].start => ts[k].start <= ts[ts[i].anchor].start
    <3> DEFINE a == ts[i].anchor
    <3>1. a \in DOMAIN ts /\ ts[a].start >= p /\ ts[a].start \in Nat
      BY <1>2, <1>3, <2>3 DEF N
    <3>2. \A k \in DOMAIN ts : ts[k].start < ts[i].start => ts[k].start <= ts[a].start
      BY <1>3, <1>4, <2>0, <2>1, <2>3, <3>1
    <3> HIDE DEF a
    <3>3. ts[a].start < ts[i].start
      BY <2>3 DEF a
    <3>4. LastBefore(ts, ts[i].start) = a
      BY <1>1, <1>5, <2>0, <3>1, <3>2, <3>3, LastBeforeIs
    <3> QED BY <3>4 DEF a
  <2> QED BY <1>1, <2>2, <2>3
<1>10. ASSUME NEW i \in DOMAIN rs, i # x PROVE ts[i].anchor = LastBefore(ts, ts[i].start)
  <2>0. i \in DOMAIN ts /\ ts[i].start \in Nat /\ ts[i] = rs[i] /\ rs[i].anchor = LastBefore(rs, rs[i].start)
    BY <1>0, <1>1, <1>3, <1>10 DEF Linked
  <2> DEFINE a == rs[i].anchor
             t == rs[i].start
  <2>1. t \in Nat
    BY <2>0
  <2>2. /\ a = NoEntry <=> \A k \in DOMAIN rs : rs[k].start >= t
        /\ a # NoEntry => /\ a \in DOMAIN rs /\ rs[a].start < t
                          /\ \A k \in DOMAIN rs : rs[k].start < t => rs[k].start <= rs[a].start
    BY <1>0, <2>0, <2>1, LastBeforeIs
  <2>3. CASE t < p
    <3>1. \A k \in N : ts[k].start >= t
      BY <1>2, <1>3, <2>1, <2>3 DEF N
    <3>2. CASE a = NoEntry
      <4>1. \A k \in DOMAIN ts : ts[k].start >= t
        BY <1>4, <2>2, <3>1, <3>2
      <4>2. LastBefore(ts, t) = NoEntry
        BY <1>1, <1>5, <2>1, <4>1, LastBeforeIs
      <4> QED BY <2>0, <3>2, <4>2
    <3>3. CASE a # NoEntry
      <4>1. a \in DOMAIN ts /\ ts[a].start < t /\ \A k \in DOMAIN ts : ts[k].start < t => ts[k].start <= ts[a].start
        BY <1>1, <1>3, <1>4, <2>1, <2>2, <3>1, <3>3
      <4>2. LastBefore(ts, t) = a
        <5> HIDE DEF a, t
        <5> QED BY <1>1, <1>5, <2>1, <4>1, LastBeforeIs
      <4> QED BY <2>0, <4>2
    <3> QED BY <3>2, <3>3
  <2>4. CASE t >= p
    <3>1. x # NoEntry /\ rs[x].start <= t /\ x \in DOMAIN rs
      BY <1>8, <2>1, <2>4
    <3>2. rs[x].start # t /\ rs[x].start \in Nat
      BY <1>0, <1>10, <3>1, DistinctStarts, RowFields
    <3>3. a # NoEntry /\ rs[x].start <= rs[a].start /\ a \in DOMAIN rs /\ rs[a].start < t
      BY <2>1, <2>2, <3>1, <3>2
    <3>4. \A k \in N : ts[k].start <= rs[x].start
      <4> TAKE k \in N
      <4>1. k \in DOMAIN ts /\ End(ts[k]) <= rs[x].start
        BY <1>2, <1>8, <3>1 DEF N
      <4> QED BY <1>3, <3>2, <4>1
    <3>5. a \in DOMAIN ts /\ ts[a] = rs[a] /\ ts[a].start \in Nat
      BY <1>1, <1>3, <3>3
    <3>6. \A k \in DOMAIN ts : ts[k].start < t => ts[k].start <= ts[a].start
      <4> TAKE k \in DOMAIN ts
      <4>1. CASE k \in N
        BY <1>3, <3>2, <3>3, <3>4, <3>5, <4>1
      <4>2. CASE k \in DOMAIN rs
        BY <1>1, <2>2, <3>3, <3>5, <4>2
      <4> QED BY <1>4, <4>1, <4>2
    <3>7. LastBefore(ts, t) = a
      <4>1. ts[a].start < t
        BY <3>3, <3>5
      <4> HIDE DEF a, t
      <4> QED BY <1>1, <1>5, <2>1, <3>5, <3>6, <4>1, LastBeforeIs
    <3> QED BY <2>0, <3>7
  <2>5. p \in Nat
    OBVIOUS
  <2> QED BY <2>1, <2>3, <2>4, <2>5
<1>11. Linked(ts, x)
  BY <1>4, <1>9, <1>10 DEF Linked
<1>12. ASSUME x # NoEntry, B # {}
       PROVE  N # {} /\ LastBefore(ts, ts[x].start) = Latest(ts, N)
  <2>1. N # {} /\ N \subseteq DOMAIN ts
    BY <1>1, <1>12 DEF N
  <2> DEFINE n == Latest(ts, N)
  <2>2. n \in N /\ \A k \in N : ts[k].start <= ts[n].start
    BY <1>1, <2>1, LatestIs
  <2> HIDE DEF n
  <2>3. x \in DOMAIN rs /\ rs[x].start >= p /\ ts[x] = rs[x] /\ ts[x].start \in Nat
    BY <1>1, <1>3, <1>8, <1>12
  <2>4. n \in DOMAIN ts /\ ts[n].start \in Nat /\ ts[n].start >= p /\ ts[n].start < ts[x].start
    <3>1. n \in DOMAIN ts
      BY <2>1, <2>2
    <3>2. End(ts[n]) <= rs[x].start /\ ts[n].start >= p
      BY <1>2, <2>2, <2>3
    <3> QED BY <1>3, <2>3, <3>1, <3>2
  <2>5. \A k \in DOMAIN ts : ts[k].start < ts[x].start => ts[k].start <= ts[n].start
    <3> TAKE k \in DOMAIN ts
    <3> HAVE ts[k].start < ts[x].start
    <3>1. CASE k \in N
      BY <2>2, <3>1
    <3>2. CASE k \in DOMAIN rs
      <4>1. ts[k] = rs[k] /\ rs[k].start \in Nat
        BY <1>1, <1>3, <3>2
      <4>2. ~(rs[k].start >= p)
        BY <1>8, <1>12, <2>3, <3>2, <4>1
      <4> QED BY <2>4, <4>1, <4>2
    <3> QED BY <1>4, <3>1, <3>2
  <2>6. LastBefore(ts, ts[x].start) = n
    BY <1>1, <1>5, <2>3, <2>4, <2>5, LastBeforeIs
  <2> QED BY <2>1, <2>6 DEF n
<1> QED BY <1>1, <1>5, <1>6, <1>11, <1>12 DEF Sound, N

\* Row i names the row before it.
Behind(rs, i) ==
    \/ rs[i].anchor = NoEntry /\ \A k \in DOMAIN rs : rs[k].start >= rs[i].start
    \/ /\ rs[i].anchor \in DOMAIN rs /\ rs[rs[i].anchor].start < rs[i].start
       /\ \A k \in DOMAIN rs : rs[k].start < rs[i].start => rs[k].start <= rs[rs[i].anchor].start

LEMMA BehindIs ==
    ASSUME NEW rs, Rows(rs), Apart(rs), NEW i \in DOMAIN rs
    PROVE  rs[i].anchor = LastBefore(rs, rs[i].start) <=> Behind(rs, i)
<1>1. rs[i].start \in Nat /\ \A k \in DOMAIN rs : rs[k].start \in Nat /\ k # NoEntry
  BY RowFields
<1> DEFINE t == rs[i].start
           a == rs[i].anchor
           b == LastBefore(rs, t)
<1>2. /\ b = NoEntry <=> \A k \in DOMAIN rs : rs[k].start >= t
      /\ b # NoEntry =>
           /\ b \in DOMAIN rs /\ rs[b].start < t
           /\ \A k \in DOMAIN rs : rs[k].start < t => rs[k].start <= rs[b].start
      /\ \A l \in DOMAIN rs : /\ rs[l].start < t
                              /\ \A j \in DOMAIN rs : rs[j].start < t => rs[j].start <= rs[l].start
                              => b = l
  BY <1>1, LastBeforeIs
<1> QED BY <1>1, <1>2 DEF Behind

LEMMA LinkedIs ==
    ASSUME NEW rs, Rows(rs), Apart(rs), NEW x
    PROVE  Linked(rs, x) <=> \A i \in DOMAIN rs \ {x} : Behind(rs, i)
BY BehindIs DEF Linked

LEMMA GoodIs ==
    ASSUME NEW rs
    PROVE  Good(rs) <=> Rows(rs) /\ Apart(rs) /\ Within(rs) /\ \A i \in DOMAIN rs : Behind(rs, i)
<1>1. ASSUME Rows(rs) PROVE DOMAIN rs \ {NoEntry} = DOMAIN rs
  BY <1>1, RowFields
<1> QED BY <1>1, LinkedIs DEF Good, Sound

LEMMA EmptyGood == Good(<<>>)
<1>1. DOMAIN <<>> = {}
  OBVIOUS
<1>2. Rows(<<>>)
  <2>1. IsFiniteSet({})
    BY FS_EmptySet
  <2> QED BY <1>1, <2>1 DEF Rows
<1> QED BY <1>1, <1>2, GoodIs DEF Apart, Within

\* ts and rs differ in anchors only.
Alike(ts, rs) ==
    /\ DOMAIN ts = DOMAIN rs
    /\ \A i \in DOMAIN rs : /\ ts[i].start = rs[i].start /\ ts[i].dur = rs[i].dur
                            /\ ts[i].offset = rs[i].offset /\ ts[i].media = rs[i].media
                            /\ ts[i].kind = rs[i].kind

LEMMA AlikeApart ==
    ASSUME NEW rs, NEW ts, Alike(ts, rs), Apart(rs), Within(rs)
    PROVE  Apart(ts) /\ Within(ts)
BY DEF Alike, Apart, Within, End

\* The row that is linked anew.
LEMMA Relinked ==
    ASSUME NEW rs, NEW x \in DOMAIN rs, Sound(rs, x), NEW v, v = LastBefore(rs, rs[x].start)
    PROVE  /\ Good([rs EXCEPT ![x].anchor = v])
           /\ Alike([rs EXCEPT ![x].anchor = v], rs)
<1> DEFINE ts == [rs EXCEPT ![x].anchor = v]
           R == [start : Nat, media : Schedulable, offset : Nat, dur : Nat \ {0},
                 kind : {"primary", "filler"}, anchor : Ids \cup {NoEntry}]
<1>0. Rows(rs) /\ Apart(rs) /\ Within(rs) /\ Linked(rs, x)
  BY DEF Sound
<1>1. rs \in [DOMAIN rs -> R] /\ DOMAIN rs \subseteq Ids /\ IsFiniteSet(DOMAIN rs)
  BY <1>0 DEF Rows
<1>2. v \in Ids \cup {NoEntry}
  <2>1. rs[x].start \in Nat
    BY <1>0, RowFields
  <2>2. v # NoEntry => v \in DOMAIN rs
    BY <1>0, <2>1, LastBeforeIs
  <2> QED BY <1>1, <2>2
<1>3. /\ DOMAIN ts = DOMAIN rs
      /\ \A i \in DOMAIN rs : ts[i] = IF i = x THEN [rs[x] EXCEPT !.anchor = v] ELSE rs[i]
      /\ ts = [i \in DOMAIN rs |-> ts[i]]
  BY <1>1
<1>4. rs[x] \in R /\ [rs[x] EXCEPT !.anchor = v] \in R
  BY <1>1, <1>2
<1>5. /\ [rs[x] EXCEPT !.anchor = v].start = rs[x].start /\ [rs[x] EXCEPT !.anchor = v].dur = rs[x].dur
      /\ [rs[x] EXCEPT !.anchor = v].offset = rs[x].offset
      /\ [rs[x] EXCEPT !.anchor = v].media = rs[x].media
      /\ [rs[x] EXCEPT !.anchor = v].kind = rs[x].kind
      /\ [rs[x] EXCEPT !.anchor = v].anchor = v
  BY <1>4
<1> HIDE DEF ts
<1>6. Alike(ts, rs)
  BY <1>3, <1>5 DEF Alike
<1>7. Rows(ts)
  <2>1. \A i \in DOMAIN rs : ts[i] \in R
    BY <1>1, <1>3, <1>4
  <2>2. [i \in DOMAIN rs |-> ts[i]] \in [DOMAIN rs -> R]
    <3> HIDE DEF R
    <3> QED BY <2>1
  <2>3. ts \in [DOMAIN rs -> R]
    BY <1>3, <2>2
  <2> QED BY <1>1, <1>3, <2>3 DEF Rows
<1>8. Apart(ts) /\ Within(ts)
  BY <1>0, <1>6, AlikeApart
<1>9. \A i \in DOMAIN ts : Behind(ts, i)
  <2>1. \A i \in DOMAIN rs \ {x} : Behind(rs, i)
    BY <1>0, LinkedIs
  <2>2. \A i \in DOMAIN rs \ {x} : Behind(ts, i)
    BY <1>3, <1>6, <2>1 DEF Behind, Alike
  <2>3. LastBefore(ts, ts[x].start) = v
    <3>1. ts[x].start = rs[x].start
      BY <1>6 DEF Alike
    <3>2. {i \in DOMAIN ts : ts[i].start < rs[x].start} = {i \in DOMAIN rs : rs[i].start < rs[x].start}
      BY <1>6 DEF Alike
    <3> DEFINE S == {i \in DOMAIN rs : rs[i].start < rs[x].start}
    <3>3. S \subseteq DOMAIN rs /\ S \subseteq DOMAIN ts /\ \A i \in S : rs[i].start = ts[i].start
      BY <1>6 DEF Alike
    <3>4. v = Latest(rs, S) /\ LastBefore(ts, ts[x].start) = Latest(ts, S)
      BY <3>1, <3>2 DEF LastBefore
    <3> HIDE DEF S
    <3> QED BY <1>0, <1>7, <1>8, <3>3, <3>4, LatestSame
  <2>4. ts[x].anchor = v
    BY <1>3, <1>5
  <2>5. Behind(ts, x)
    BY <1>3, <1>7, <1>8, <2>3, <2>4, BehindIs
  <2> QED BY <1>3, <2>2, <2>5
<1>10. Good(ts)
  BY <1>7, <1>8, <1>9, GoodIs
<1> QED BY <1>6, <1>10 DEF ts

\* Some of the rows.
LEMMA KeptRows ==
    ASSUME NEW rs, Rows(rs), Apart(rs), Within(rs), NEW S \in SUBSET DOMAIN rs
    PROVE  /\ Rows(Keep(rs, S)) /\ Apart(Keep(rs, S)) /\ Within(Keep(rs, S))
           /\ DOMAIN Keep(rs, S) = S /\ \A i \in S : Keep(rs, S)[i] = rs[i]
<1> DEFINE ks == Keep(rs, S)
<1>1. ks = [i \in S |-> rs[i]] /\ DOMAIN ks = S /\ \A i \in S : ks[i] = rs[i]
  BY DEF Keep
<1>2. IsFiniteSet(S) /\ S \subseteq Ids
  BY FS_Subset DEF Rows
<1>3. Rows(ks)
  BY <1>1, <1>2 DEF Rows
<1>4. Apart(ks) /\ Within(ks)
  BY <1>1 DEF Apart, Within
<1> QED BY <1>1, <1>3, <1>4

\* handleChannelClearSchedule and every edit that rebuilds what follows it.
LEMMA ClearAfterGood ==
    ASSUME NEW rs, Good(rs), NEW t \in Nat
    PROVE  /\ Good(ClearAfter(rs, t))
           /\ DOMAIN ClearAfter(rs, t) = {i \in DOMAIN rs : rs[i].start < t}
           /\ \A i \in DOMAIN ClearAfter(rs, t) : ClearAfter(rs, t)[i] = rs[i]
<1> DEFINE S == {i \in DOMAIN rs : rs[i].start < t}
           ks == ClearAfter(rs, t)
<1>1. Rows(rs) /\ Apart(rs) /\ Within(rs) /\ \A i \in DOMAIN rs : Behind(rs, i)
  BY GoodIs
<1>2. ks = Keep(rs, S) /\ S \in SUBSET DOMAIN rs
  BY DEF ClearAfter
<1>3. Rows(ks) /\ Apart(ks) /\ Within(ks) /\ DOMAIN ks = S /\ \A i \in S : ks[i] = rs[i]
  <2> HIDE DEF S
  <2> QED BY <1>1, <1>2, KeptRows
<1> HIDE DEF ks
<1>4. \A i \in DOMAIN ks : Behind(ks, i)
  <2> TAKE i \in DOMAIN ks
  <2>1. Behind(rs, i) /\ i \in DOMAIN rs /\ ks[i] = rs[i] /\ rs[i].start < t
    BY <1>1, <1>3
  <2>2. \A k \in DOMAIN rs : rs[k].start \in Nat
    BY <1>1, RowFields
  <2>3. \A k \in DOMAIN rs : rs[k].start < rs[i].start => k \in S
    BY <2>1, <2>2
  <2> QED BY <1>3, <2>1, <2>2, <2>3 DEF Behind
<1> QED BY <1>3, <1>4, GoodIs DEF ks

\* The rows outside a window; the first behind it is to be linked anew.
LEMMA WindowKept ==
    ASSUME NEW rs, Good(rs), NEW from \in Nat, NEW to \in Nat, from < to
    PROVE  LET ks == Keep(rs, DOMAIN rs \ Intersecting(rs, from, to))
               x == FirstFrom(rs, to)
           IN  /\ Sound(ks, x) /\ FirstFrom(ks, from) = x
               /\ DOMAIN ks = DOMAIN rs \ Intersecting(rs, from, to)
               /\ \A i \in DOMAIN ks : ks[i] = rs[i]
               /\ \A i \in DOMAIN ks : rs[i].start < from => End(rs[i]) <= from
               /\ \A i \in DOMAIN ks : rs[i].start >= from => rs[i].start >= to
               /\ x # NoEntry => x \in DOMAIN ks /\ rs[x].start >= to
<1> DEFINE S == DOMAIN rs \ Intersecting(rs, from, to)
           ks == Keep(rs, S)
           x == FirstFrom(rs, to)
<1>1. Rows(rs) /\ Apart(rs) /\ Within(rs) /\ \A i \in DOMAIN rs : Behind(rs, i)
  BY GoodIs
<1>2. Rows(ks) /\ Apart(ks) /\ Within(ks) /\ DOMAIN ks = S /\ \A i \in S : ks[i] = rs[i]
  <2>1. S \in SUBSET DOMAIN rs
    OBVIOUS
  <2> HIDE DEF S
  <2> QED BY <1>1, <2>1, KeptRows
<1>3. \A i \in DOMAIN rs : /\ rs[i].start \in Nat /\ End(rs[i]) \in Nat /\ rs[i].start < End(rs[i])
                           /\ i # NoEntry
  BY <1>1, RowFields
<1>4. \A i \in DOMAIN rs : i \in S <=> rs[i].start >= to \/ End(rs[i]) <= from
  BY <1>3 DEF Intersecting
<1>5. /\ x = NoEntry <=> \A i \in DOMAIN rs : rs[i].start < to
      /\ x # NoEntry => /\ x \in DOMAIN rs /\ rs[x].start >= to
                        /\ \A i \in DOMAIN rs : rs[i].start >= to => rs[x].start <= rs[i].start
  BY <1>1, FirstFromIs
<1>6. S \subseteq DOMAIN rs
  OBVIOUS
<1> HIDE DEF S, ks, x
<1>7. /\ \A i \in S : rs[i].start < from => End(rs[i]) <= from
      /\ \A i \in S : rs[i].start >= from => rs[i].start >= to
      /\ x # NoEntry => x \in S /\ rs[x].start >= to
  BY <1>3, <1>4, <1>5, <1>6
<1>8. FirstFrom(ks, from) = x
  <2>1. CASE x = NoEntry
    <3>1. \A i \in DOMAIN ks : ks[i].start < from
      BY <1>2, <1>3, <1>5, <1>6, <1>7, <2>1
    <3> QED BY <1>2, <2>1, <3>1, FirstFromIs
  <2>2. CASE x # NoEntry
    <3>1. x \in DOMAIN ks /\ ks[x].start >= from
      BY <1>2, <1>3, <1>5, <1>7, <2>2
    <3>2. \A i \in DOMAIN ks : ks[i].start >= from => ks[x].start <= ks[i].start
      BY <1>2, <1>5, <1>6, <1>7, <2>2
    <3> QED BY <1>2, <3>1, <3>2, FirstFromIs
  <2> QED BY <2>1, <2>2
<1>9. ASSUME NEW i \in DOMAIN ks \ {x} PROVE Behind(ks, i)
  <2>1. i \in DOMAIN rs /\ i \in S /\ ks[i] = rs[i] /\ Behind(rs, i)
    BY <1>1, <1>2, <1>6, <1>9
  <2>2. ASSUME NEW k \in DOMAIN rs, rs[k].start < rs[i].start,
               \A l \in DOMAIN rs : rs[l].start < rs[i].start => rs[l].start <= rs[k].start
        PROVE  k \in S
    <3>1. CASE rs[i].start >= to
      <4>1. x # NoEntry /\ x \in DOMAIN rs /\ rs[x].start <= rs[i].start /\ rs[x].start >= to
        BY <1>3, <1>5, <2>1, <3>1
      <4>2. rs[x].start # rs[i].start
        BY <1>1, <1>9, <2>1, <4>1, DistinctStarts
      <4>3. rs[x].start <= rs[k].start
        BY <1>3, <2>1, <2>2, <4>1, <4>2
      <4> QED BY <1>3, <1>4, <4>1, <4>3
    <3>2. CASE End(rs[i]) <= from
      <4>1. End(rs[k]) <= rs[i].start
        BY <1>1, <2>1, <2>2, EndsBefore
      <4> QED BY <1>3, <1>4, <2>1, <3>2, <4>1
    <3> QED BY <1>4, <2>1, <3>1, <3>2
  <2>3. CASE rs[i].anchor = NoEntry /\ \A k \in DOMAIN rs : rs[k].start >= rs[i].start
    BY <1>2, <1>6, <2>1, <2>3 DEF Behind
  <2>4. CASE /\ rs[i].anchor \in DOMAIN rs /\ rs[rs[i].anchor].start < rs[i].start
             /\ \A k \in DOMAIN rs : rs[k].start < rs[i].start => rs[k].start <= rs[rs[i].anchor].start
    <3>1. rs[i].anchor \in S
      BY <2>2, <2>4
    <3> QED BY <1>2, <1>6, <2>1, <2>4, <3>1 DEF Behind
  <2> QED BY <2>1, <2>3, <2>4 DEF Behind
<1>10. Sound(ks, x)
  BY <1>2, <1>9, LinkedIs DEF Sound
<1> QED BY <1>2, <1>7, <1>8, <1>10 DEF ks, S, x

\* ts holds the rows of rs, perhaps behind others.
Grows(ts, rs) ==
    /\ DOMAIN rs \subseteq DOMAIN ts
    /\ \A i \in DOMAIN rs : /\ ts[i].start = rs[i].start /\ ts[i].dur = rs[i].dur
                            /\ ts[i].offset = rs[i].offset /\ ts[i].media = rs[i].media
                            /\ ts[i].kind = rs[i].kind

\* DeleteScheduleEntryByID
LEMMA DeletedGood ==
    ASSUME NEW rs, Good(rs), NEW i \in DOMAIN rs
    PROVE  Good(Deleted(rs, i)) /\ DOMAIN Deleted(rs, i) = DOMAIN rs \ {i}
<1> DEFINE ts == Deleted(rs, i)
           R == [start : Nat, media : Schedulable, offset : Nat, dur : Nat \ {0},
                 kind : {"primary", "filler"}, anchor : Ids \cup {NoEntry}]
<1>1. Rows(rs) /\ Apart(rs) /\ Within(rs) /\ \A j \in DOMAIN rs : Behind(rs, j)
  BY GoodIs
<1>2. rs \in [DOMAIN rs -> R] /\ DOMAIN rs \subseteq Ids /\ IsFiniteSet(DOMAIN rs)
  BY <1>1 DEF Rows
<1>3. /\ DOMAIN ts = DOMAIN rs \ {i}
      /\ ts = [j \in DOMAIN rs \ {i} |-> ts[j]]
      /\ \A j \in DOMAIN ts : ts[j] = IF rs[j].anchor = i THEN [rs[j] EXCEPT !.anchor = rs[i].anchor]
                                      ELSE rs[j]
  BY DEF Deleted
<1> HIDE DEF ts
<1>4. \A j \in DOMAIN ts : /\ ts[j] \in R
                           /\ ts[j].start = rs[j].start /\ ts[j].dur = rs[j].dur
                           /\ ts[j].offset = rs[j].offset /\ ts[j].media = rs[j].media
                           /\ ts[j].kind = rs[j].kind
                           /\ ts[j].anchor = IF rs[j].anchor = i THEN rs[i].anchor ELSE rs[j].anchor
  <2> TAKE j \in DOMAIN ts
  <2>1. j \in DOMAIN rs /\ rs[j] \in R /\ rs[i] \in R
    BY <1>2, <1>3
  <2> QED BY <1>3, <2>1
<1>5. Rows(ts)
  <2>1. IsFiniteSet(DOMAIN ts) /\ DOMAIN ts \subseteq Ids
    <3>1. DOMAIN ts \subseteq DOMAIN rs
      BY <1>3
    <3> QED BY <1>2, <3>1, FS_Subset
  <2>2. [j \in DOMAIN rs \ {i} |-> ts[j]] \in [DOMAIN rs \ {i} -> R]
    <3> HIDE DEF R
    <3> QED BY <1>3, <1>4
  <2>3. ts \in [DOMAIN ts -> R]
    BY <1>3, <2>2
  <2> QED BY <2>1, <2>3 DEF Rows
<1>6. Apart(ts) /\ Within(ts)
  BY <1>1, <1>3, <1>4 DEF Apart, Within, End
<1>7. \A j \in DOMAIN rs : rs[j].start \in Nat /\ j # NoEntry
  BY <1>1, RowFields
<1>8. ASSUME NEW j \in DOMAIN ts PROVE Behind(ts, j)
  <2>1. j \in DOMAIN rs /\ j # i /\ Behind(rs, j) /\ Behind(rs, i)
    BY <1>1, <1>3
  <2>2. CASE rs[j].anchor # i
    BY <1>3, <1>4, <2>1, <2>2 DEF Behind
  <2>3. CASE rs[j].anchor = i
    <3>1. /\ rs[i].start < rs[j].start
          /\ \A k \in DOMAIN rs : rs[k].start < rs[j].start => rs[k].start <= rs[i].start
          /\ ts[j].anchor = rs[i].anchor /\ ts[j].start = rs[j].start
      BY <1>4, <1>7, <2>1, <2>3 DEF Behind
    <3>2. \A k \in DOMAIN ts : ts[k].start < ts[j].start => ts[k].start < rs[i].start
      <4> TAKE k \in DOMAIN ts
      <4> HAVE ts[k].start < ts[j].start
      <4>1. k \in DOMAIN rs /\ k # i /\ ts[k].start = rs[k].start
        BY <1>3, <1>4
      <4>2. rs[k].start <= rs[i].start /\ rs[k].start # rs[i].start
        BY <1>1, <3>1, <4>1, DistinctStarts
      <4> QED BY <1>7, <4>1, <4>2
    <3>3. CASE rs[i].anchor = NoEntry /\ \A k \in DOMAIN rs : rs[k].start >= rs[i].start
      <4>1. \A k \in DOMAIN ts : ts[k].start >= ts[j].start
        <5> TAKE k \in DOMAIN ts
        <5>1. k \in DOMAIN rs /\ ts[k].start = rs[k].start /\ rs[k].start \in Nat /\ ts[j].start \in Nat
              /\ rs[i].start \in Nat
          BY <1>3, <1>4, <1>7, <2>1
        <5> QED BY <3>2, <3>3, <5>1
      <4> QED BY <3>1, <3>3, <4>1 DEF Behind
    <3>4. CASE /\ rs[i].anchor \in DOMAIN rs /\ rs[rs[i].anchor].start < rs[i].start
               /\ \A k \in DOMAIN rs : rs[k].start < rs[i].start => rs[k].start <= rs[rs[i].anchor].start
      <4> DEFINE a == rs[i].anchor
      <4>1. a \in DOMAIN ts /\ ts[a].start = rs[a].start /\ rs[a].start < rs[j].start
        <5>1. a # i
          BY <1>7, <3>4
        <5>2. a \in DOMAIN ts
          BY <1>3, <3>4, <5>1
        <5> QED BY <1>4, <1>7, <2>1, <3>1, <3>4, <5>2
      <4>2. \A k \in DOMAIN ts : ts[k].start < ts[j].start => ts[k].start <= ts[a].start
        <5> TAKE k \in DOMAIN ts
        <5>1. k \in DOMAIN rs /\ ts[k].start = rs[k].start
          BY <1>3, <1>4
        <5> QED BY <3>2, <3>4, <4>1, <5>1
      <4> QED BY <3>1, <4>1, <4>2 DEF Behind
    <3> QED BY <2>1, <3>3, <3>4 DEF Behind
  <2> QED BY <2>2, <2>3
<1> QED BY <1>3, <1>5, <1>6, <1>8, GoodIs DEF ts

\* DeleteScheduleRangeIntersect
LEMMA RangeDeletedGood ==
    ASSUME NEW rs, Good(rs), NEW from \in Nat, NEW to \in Nat, from < to
    PROVE  Good(RangeDeleted(rs, from, to))
<1> DEFINE S == DOMAIN rs \ Intersecting(rs, from, to)
           ks == Keep(rs, S)
           x == FirstFrom(rs, to)
           v == Latest(rs, {i \in DOMAIN rs : End(rs[i]) <= from})
<1>0. Rows(rs) /\ Apart(rs)
  BY GoodIs
<1>1. /\ Sound(ks, x) /\ DOMAIN ks = S
      /\ \A i \in DOMAIN ks : ks[i] = rs[i]
      /\ \A i \in DOMAIN ks : rs[i].start < from => End(rs[i]) <= from
      /\ \A i \in DOMAIN ks : rs[i].start >= from => rs[i].start >= to
      /\ x # NoEntry => x \in DOMAIN ks /\ rs[x].start >= to
  BY WindowKept
<1>2. RangeDeleted(rs, from, to) = IF x = NoEntry THEN ks ELSE [ks EXCEPT ![x].anchor = v]
  BY DEF RangeDeleted
<1>3. CASE x = NoEntry
  BY <1>1, <1>2, <1>3 DEF Good
<1>4. CASE x # NoEntry
  <2>1. \A i \in DOMAIN rs : /\ rs[i].start \in Nat /\ End(rs[i]) \in Nat /\ rs[i].start < End(rs[i])
    BY <1>0, RowFields
  <2>2. \A i \in DOMAIN rs : i \in S <=> rs[i].start >= to \/ End(rs[i]) <= from
    BY <2>1 DEF Intersecting
  <2>3. \A i \in DOMAIN rs : rs[i].start >= to => rs[x].start <= rs[i].start
    BY <1>0, <1>4, FirstFromIs
  <2> DEFINE L == {i \in DOMAIN rs : End(rs[i]) <= from}
  <2>4. L = {i \in DOMAIN ks : ks[i].start < ks[x].start}
    <3>0. x \in DOMAIN ks /\ x \in DOMAIN rs /\ ks[x] = rs[x] /\ rs[x].start >= to
      BY <1>1, <1>4
    <3>1. ASSUME NEW i \in L PROVE i \in DOMAIN ks /\ ks[i].start < ks[x].start
      <4>1. i \in DOMAIN ks
        BY <1>1, <2>2
      <4>2. ks[i] = rs[i] /\ rs[i].start < from
        BY <1>1, <2>1, <4>1
      <4> QED BY <2>1, <3>0, <4>1, <4>2
    <3>2. ASSUME NEW i \in DOMAIN ks, ks[i].start < ks[x].start PROVE i \in L
      <4>1. i \in DOMAIN rs /\ ks[i] = rs[i] /\ rs[i].start < rs[x].start
        BY <1>1, <3>0, <3>2
      <4>2. ~(rs[i].start >= to)
        BY <2>1, <2>3, <3>0, <4>1
      <4> QED BY <1>1, <2>2, <4>1, <4>2
    <3> QED BY <3>1, <3>2
  <2>5. v = LastBefore(ks, ks[x].start)
    <3>1. L \subseteq DOMAIN rs /\ L \subseteq DOMAIN ks /\ \A i \in L : rs[i].start = ks[i].start
      BY <1>1, <2>4
    <3>2. Rows(ks) /\ Apart(ks)
      BY <1>1 DEF Sound
    <3>3. v = Latest(rs, L) /\ LastBefore(ks, ks[x].start) = Latest(ks, L)
      BY <2>4 DEF LastBefore
    <3> HIDE DEF L, ks
    <3> QED BY <1>0, <3>1, <3>2, <3>3, LatestSame
  <2>6. Good([ks EXCEPT ![x].anchor = v])
    <3> HIDE DEF ks, x, v
    <3> QED BY <1>1, <1>4, <2>5, Relinked
  <2> QED BY <1>2, <1>4, <2>6
<1> QED BY <1>3, <1>4

LEMMA InsertsGrows ==
    ASSUME NEW rs, NEW ts, NEW B, NEW first, Inserts(ts, rs, B, first)
    PROVE  Grows(ts, rs)
BY DEF Inserts, Grows

LEMMA GrowsAlike ==
    ASSUME NEW us, NEW ts, NEW rs, Alike(us, ts), Grows(ts, rs)
    PROVE  Grows(us, rs)
BY DEF Grows, Alike

LEMMA GrowsOn ==
    ASSUME NEW us, NEW ts, NEW rs, Grows(us, ts), Grows(ts, rs)
    PROVE  Grows(us, rs)
BY DEF Grows

LEMMA GrowsSelf == ASSUME NEW rs PROVE Grows(rs, rs)
BY DEF Grows

\* A batch laid ahead of x, which is linked to its last entry.
LEMMA SpliceGood ==
    ASSUME NEW rs, NEW x \in DOMAIN rs, Sound(rs, x), NEW B, Batched(B), B # {}, NEW first, NEW ts,
           Inserts(ts, rs, B, first), NEW p \in Nat,
           first = LastBefore(rs, p), x = FirstFrom(rs, p),
           \A e \in B : e.start >= p,
           \A i \in DOMAIN rs : rs[i].start < p => End(rs[i]) <= p,
           \A e \in B : End(e) <= rs[x].start,
           NEW last, last = Latest(ts, DOMAIN ts \ DOMAIN rs)
    PROVE  /\ Good([ts EXCEPT ![x].anchor = last])
           /\ Grows([ts EXCEPT ![x].anchor = last], rs)
           /\ DOMAIN [ts EXCEPT ![x].anchor = last] = DOMAIN ts
<1>0. Rows(rs) /\ Apart(rs)
  BY DEF Sound
<1>1. \A i \in DOMAIN rs, e \in B : rs[i].start >= p => End(e) <= rs[i].start
  <2>1. \A i \in DOMAIN rs : rs[i].start \in Nat /\ i # NoEntry
    BY <1>0, RowFields
  <2>2. \A i \in DOMAIN rs : rs[i].start >= p => rs[x].start <= rs[i].start
    BY <1>0, <2>1, FirstFromIs
  <2>3. \A e \in B : End(e) \in Nat
    BY EntryFields DEF Batched
  <2> QED BY <2>1, <2>2, <2>3
<1>2. x # NoEntry
  BY <1>0, RowFields
<1>3. Sound(ts, x) /\ LastBefore(ts, ts[x].start) = Latest(ts, DOMAIN ts \ DOMAIN rs)
  BY <1>1, <1>2, InsertSound
<1>4. x \in DOMAIN ts /\ Grows(ts, rs)
  <2>1. DOMAIN rs \subseteq DOMAIN ts
    BY DEF Inserts
  <2>2. Grows(ts, rs)
    BY InsertsGrows
  <2> QED BY <2>1, <2>2
<1>5. last = LastBefore(ts, ts[x].start)
  BY <1>3
<1>6. Good([ts EXCEPT ![x].anchor = last]) /\ Alike([ts EXCEPT ![x].anchor = last], ts)
  BY <1>3, <1>4, <1>5, Relinked
<1> QED BY <1>4, <1>6, GrowsAlike DEF Alike

\* A batch leaves a new row for each entry; a batch of one leaves one.
LEMMA InsertsSome ==
    ASSUME NEW rs, NEW ts, NEW B, NEW e \in B, NEW first, Inserts(ts, rs, B, first)
    PROVE  \E n \in DOMAIN ts : n \notin DOMAIN rs
<1>1. \A d \in B : \E i \in DOMAIN ts \ DOMAIN rs : ts[i] = Row(d, ts[i].anchor)
  BY DEF Inserts
<1> QED BY <1>1

OneNew(ts, rs, n, first) ==
    /\ DOMAIN ts \ DOMAIN rs = {n}
    /\ Latest(ts, DOMAIN ts \ DOMAIN rs) = n
    /\ ts[n].anchor = first

LEMMA InsertsOne ==
    ASSUME NEW rs, NEW ts, NEW B, NEW e \in B, NEW first, Inserts(ts, rs, B, first),
           \A d \in B : d = e, NEW n \in DOMAIN ts \ DOMAIN rs
    PROVE  OneNew(ts, rs, n, first)
<1> DEFINE N == DOMAIN ts \ DOMAIN rs
<1>1. /\ Rows(ts)
      /\ \A i \in N : \E d \in B : ts[i] = Row(d, ts[i].anchor)
      /\ \A i, j \in N : i # j => End(ts[i]) <= ts[j].start \/ End(ts[j]) <= ts[i].start
      /\ \A i \in N :
              \/ ts[i].anchor = first
              \/ /\ ts[i].anchor \in N
                 /\ ts[ts[i].anchor].start < ts[i].start
  BY DEF Inserts
<1>3. \A i \in N : /\ ts[i].start = e.start /\ End(ts[i]) = End(e)
                   /\ ts[i].start \in Nat /\ End(ts[i]) \in Nat /\ ts[i].start < End(ts[i])
  <2> TAKE i \in N
  <2>1. ts[i] = Row(e, ts[i].anchor)
    BY <1>1
  <2>2. ts[i].start = e.start /\ End(ts[i]) = End(e)
    BY <2>1, RowOfEntry
  <2> QED BY <1>1, <2>2, RowFields
<1>4. \A i \in N : i = n
  BY <1>1, <1>3
<1>5. N = {n}
  BY <1>4
<1>6. Latest(ts, {n}) = n
  <2>1. {n} \in SUBSET DOMAIN ts /\ {n} # {}
    OBVIOUS
  <2> QED BY <1>1, <2>1, LatestIs
<1>7. ts[n].anchor = first
  BY <1>1, <1>3, <1>5
<1> QED BY <1>5, <1>6, <1>7 DEF OneNew

\* What starts at `at' or later makes room.
Shifted(rs, at, d) ==
    [j \in DOMAIN rs |-> IF rs[j].start >= at THEN [rs[j] EXCEPT !.start = @ + d] ELSE rs[j]]

LEMMA ShiftedGood ==
    ASSUME NEW rs, Good(rs), NEW at \in Nat, NEW d \in Nat,
           \A i \in DOMAIN rs : rs[i].start < at => End(rs[i]) <= at
    PROVE  LET ts == Shifted(rs, at, d)
           IN  /\ Good(ts) /\ DOMAIN ts = DOMAIN rs
               /\ \A j \in DOMAIN rs : /\ ts[j].start = IF rs[j].start >= at THEN rs[j].start + d ELSE rs[j].start
                                       /\ ts[j].dur = rs[j].dur /\ ts[j].anchor = rs[j].anchor
<1> DEFINE ts == Shifted(rs, at, d)
           R == [start : Nat, media : Schedulable, offset : Nat, dur : Nat \ {0},
                 kind : {"primary", "filler"}, anchor : Ids \cup {NoEntry}]
<1>1. Rows(rs) /\ Apart(rs) /\ Within(rs) /\ \A j \in DOMAIN rs : Behind(rs, j)
  BY GoodIs
<1>2. rs \in [DOMAIN rs -> R] /\ DOMAIN rs \subseteq Ids /\ IsFiniteSet(DOMAIN rs)
  BY <1>1 DEF Rows
<1>3. /\ DOMAIN ts = DOMAIN rs
      /\ ts = [j \in DOMAIN rs |-> ts[j]]
      /\ \A j \in DOMAIN rs : ts[j] = IF rs[j].start >= at THEN [rs[j] EXCEPT !.start = @ + d] ELSE rs[j]
  BY DEF Shifted
<1> HIDE DEF ts
<1>4. \A j \in DOMAIN rs : /\ ts[j] \in R
                           /\ ts[j].start = IF rs[j].start >= at THEN rs[j].start + d ELSE rs[j].start
                           /\ ts[j].dur = rs[j].dur
                           /\ ts[j].offset = rs[j].offset /\ ts[j].media = rs[j].media
                           /\ ts[j].kind = rs[j].kind /\ ts[j].anchor = rs[j].anchor
                           /\ rs[j].start \in Nat /\ rs[j].dur \in Nat
  <2> TAKE j \in DOMAIN rs
  <2>1. rs[j] \in R
    BY <1>2
  <2> QED BY <1>3, <2>1
<1>5. Rows(ts)
  <2>1. [j \in DOMAIN rs |-> ts[j]] \in [DOMAIN rs -> R]
    <3> HIDE DEF R
    <3> QED BY <1>4
  <2>2. ts \in [DOMAIN ts -> R]
    BY <1>3, <2>1
  <2> QED BY <1>2, <1>3, <2>2 DEF Rows
<1>6. Apart(ts)
  <2> SUFFICES ASSUME NEW i \in DOMAIN rs, NEW j \in DOMAIN rs, i # j
               PROVE  End(ts[i]) <= ts[j].start \/ End(ts[j]) <= ts[i].start
    BY <1>3 DEF Apart
  <2>1. /\ rs[i].start + rs[i].dur <= rs[j].start \/ rs[j].start + rs[j].dur <= rs[i].start
        /\ rs[i].start < at => rs[i].start + rs[i].dur <= at
        /\ rs[j].start < at => rs[j].start + rs[j].dur <= at
    BY <1>1 DEF Apart, End
  <2>2. /\ ts[i].start = IF rs[i].start >= at THEN rs[i].start + d ELSE rs[i].start
        /\ ts[j].start = IF rs[j].start >= at THEN rs[j].start + d ELSE rs[j].start
        /\ ts[i].dur = rs[i].dur /\ ts[j].dur = rs[j].dur
        /\ rs[i].start \in Nat /\ rs[j].start \in Nat /\ rs[i].dur \in Nat \ {0} /\ rs[j].dur \in Nat \ {0}
    BY <1>1, <1>4, RowFields
  <2> QED BY <2>1, <2>2 DEF End
<1>7. Within(ts)
  BY <1>1, <1>3, <1>4 DEF Within
<1>8. \A i, j \in DOMAIN rs : (ts[i].start < ts[j].start <=> rs[i].start < rs[j].start)
                              /\ (ts[i].start <= ts[j].start <=> rs[i].start <= rs[j].start)
  BY <1>4
<1>9. \A j \in DOMAIN ts : Behind(ts, j)
  <2> TAKE j \in DOMAIN ts
  <2>1. j \in DOMAIN rs /\ Behind(rs, j) /\ ts[j].anchor = rs[j].anchor
    BY <1>1, <1>3, <1>4
  <2>2. \A k \in DOMAIN rs : rs[k].start >= rs[j].start => ts[k].start >= ts[j].start
    BY <1>4, <2>1
  <2> QED BY <1>3, <1>8, <2>1, <2>2 DEF Behind
<1> QED BY <1>3, <1>4, <1>5, <1>6, <1>7, <1>9, GoodIs DEF ts

\* insertEntryRelative
Relative(ch, rs, i, m, after) ==
    LET at == IF after THEN End(rs[i]) ELSE rs[i].start
        shifted == Shifted(rs, at, Duration[m])
        inserted == Insert(ch, shifted, {Entry(at, m, 0, Duration[m], "primary")},
                           IF after THEN i ELSE rs[i].anchor)
        new == CHOOSE j \in DOMAIN inserted : j \notin DOMAIN rs
    IN  [j \in DOMAIN inserted |->
           IF j # new /\ (IF after THEN inserted[j].anchor = i ELSE j = i)
           THEN [inserted[j] EXCEPT !.anchor = new] ELSE inserted[j]]

LEMMA RelativeGood ==
    ASSUME NEW rs, Good(rs), NEW i \in DOMAIN rs, NEW m \in Schedulable, NEW after \in BOOLEAN,
           NEW ch, IsFiniteSet(ch.held)
    PROVE  Good(Relative(ch, rs, i, m, after))
<1> DEFINE at == IF after THEN End(rs[i]) ELSE rs[i].start
           ss == Shifted(rs, at, Duration[m])
           first == IF after THEN i ELSE rs[i].anchor
           e == Entry(at, m, 0, Duration[m], "primary")
           ts == Insert(ch, ss, {e}, first)
           new == CHOOSE j \in DOMAIN ts : j \notin DOMAIN rs
           us == [j \in DOMAIN ts |->
                      IF j # new /\ (IF after THEN ts[j].anchor = i ELSE j = i)
                      THEN [ts[j] EXCEPT !.anchor = new] ELSE ts[j]]
<1>0. Relative(ch, rs, i, m, after) = us
  BY DEF Relative
<1>1. Rows(rs) /\ Apart(rs) /\ Within(rs) /\ \A j \in DOMAIN rs : Behind(rs, j)
  BY GoodIs
<1>2. \A j \in DOMAIN rs : /\ rs[j].start \in Nat /\ End(rs[j]) \in Nat /\ rs[j].start < End(rs[j])
                           /\ j # NoEntry /\ j \in Ids /\ rs[j].anchor \in Ids \cup {NoEntry}
  BY <1>1, RowFields
<1>3. at \in Nat /\ Duration[m] \in Nat \ {0}
  BY <1>2, BuilderAssumption
<1>4. \A j \in DOMAIN rs : rs[j].start < at => End(rs[j]) <= at
  <2> TAKE j \in DOMAIN rs
  <2> HAVE rs[j].start < at
  <2>1. CASE j = i
    BY <1>2, <2>1
  <2>2. CASE j # i
    BY <1>1, <1>2, <2>2 DEF Apart
  <2> QED BY <2>1, <2>2
<1>5. /\ Good(ss) /\ DOMAIN ss = DOMAIN rs
      /\ \A j \in DOMAIN rs : /\ ss[j].start = IF rs[j].start >= at THEN rs[j].start + Duration[m] ELSE rs[j].start
                              /\ ss[j].dur = rs[j].dur /\ ss[j].anchor = rs[j].anchor
  <2> HIDE DEF at
  <2> QED BY <1>3, <1>4, ShiftedGood
<1>6. Rows(ss) /\ Apart(ss) /\ \A j \in DOMAIN ss : Behind(ss, j)
  BY <1>5, GoodIs
<1>7. first \in Ids \cup {NoEntry}
  BY <1>2
<1>8. Batched({e})
  <2>1. e = [start |-> at, media |-> m, offset |-> 0, dur |-> Duration[m], kind |-> "primary"]
    BY DEF Entry
  <2> HIDE DEF e
  <2>2. e \in EntryType
    BY <1>3, <2>1 DEF EntryType
  <2>3. IsFiniteSet({e})
    BY FS_Singleton
  <2>4. e.offset + e.dur <= Duration[e.media]
    BY <1>3, <2>1
  <2> QED BY <2>2, <2>3, <2>4 DEF Batched
<1>9. e.start = at /\ End(e) = at + Duration[m]
  BY DEF Entry, End
<1> HIDE DEF ss, first, e
<1>10. Inserts(ts, ss, {e}, first)
  BY <1>6, <1>7, <1>8, Inserted
<1>11. new = CHOOSE j \in DOMAIN ts : j \notin DOMAIN ss
  BY <1>5
<1> HIDE DEF ts, new
<1>12. /\ DOMAIN ts \ DOMAIN ss = {new} /\ Latest(ts, DOMAIN ts \ DOMAIN ss) = new
       /\ ts[new].anchor = first
  <2> DEFINE b == {e}
  <2>1. e \in b /\ (\A d \in b : d = e) /\ Inserts(ts, ss, b, first)
    BY <1>10
  <2> HIDE DEF b
  <2>2. \E n \in DOMAIN ts : n \notin DOMAIN ss
    BY <2>1, InsertsSome
  <2>3. new \in DOMAIN ts \ DOMAIN ss
    BY <1>11, <2>2
  <2>4. OneNew(ts, ss, new, first)
    BY <2>1, <2>3, InsertsOne
  <2> QED BY <2>4 DEF OneNew
<1>13. /\ DOMAIN ss \subseteq DOMAIN ts /\ \A j \in DOMAIN ss : ts[j] = ss[j]
       /\ Rows(ts)
  BY <1>10 DEF Inserts
<1>14. \A j \in DOMAIN rs : /\ ss[j].start < at <=> rs[j].start < at
                            /\ ss[j].start < at => End(ss[j]) <= at
                            /\ ss[j].start >= at => ss[j].start >= at + Duration[m]
  BY <1>2, <1>3, <1>4, <1>5 DEF End
<1>15. first = LastBefore(ss, at)
  <2>1. CASE after
    <3>1. first = i /\ at = End(rs[i])
      BY <2>1 DEF first
    <3>2. i \in DOMAIN ss /\ ss[i].start < at
      BY <1>2, <1>5, <1>14, <3>1
    <3>3. ASSUME NEW j \in DOMAIN ss, ss[j].start < at PROVE ss[j].start <= ss[i].start
      <4>1. rs[j].start < at /\ rs[i].start < at /\ ss[j].start = rs[j].start /\ ss[i].start = rs[i].start
        BY <1>2, <1>3, <1>5, <1>14, <3>2, <3>3
      <4>2. j # i => End(rs[j]) <= rs[i].start
        BY <1>1, <1>2, <1>5, <3>1, <3>3, <4>1 DEF Apart
      <4> QED BY <1>2, <1>5, <3>3, <4>1, <4>2
    <3> HIDE DEF at
    <3> QED BY <1>3, <1>6, <3>1, <3>2, <3>3, LastBeforeIs
  <2>2. CASE ~after
    <3>1. first = rs[i].anchor /\ at = rs[i].start
      BY <2>2 DEF first
    <3>2. Behind(rs, i)
      BY <1>1
    <3>3. CASE first = NoEntry /\ \A k \in DOMAIN rs : rs[k].start >= at
      <4>1. \A k \in DOMAIN ss : ss[k].start >= at
        BY <1>2, <1>3, <1>5, <3>3
      <4> HIDE DEF at
      <4> QED BY <1>3, <1>6, <3>3, <4>1, LastBeforeIs
    <3>4. CASE /\ first \in DOMAIN rs /\ rs[first].start < at
               /\ \A k \in DOMAIN rs : rs[k].start < at => rs[k].start <= rs[first].start
      <4>1. first \in DOMAIN ss /\ ss[first].start < at
            /\ \A k \in DOMAIN ss : ss[k].start < at => ss[k].start <= ss[first].start
        BY <1>2, <1>3, <1>5, <1>14, <3>4
      <4> HIDE DEF at
      <4> QED BY <1>3, <1>6, <4>1, LastBeforeIs
    <3> QED BY <3>1, <3>2, <3>3, <3>4 DEF Behind
  <2> QED BY <2>1, <2>2
<1> DEFINE x == FirstFrom(ss, at)
<1> HIDE DEF at
<1>16. /\ x = NoEntry <=> \A j \in DOMAIN ss : ss[j].start < at
       /\ x # NoEntry => /\ x \in DOMAIN ss /\ ss[x].start >= at
                         /\ \A j \in DOMAIN ss : ss[j].start >= at => ss[x].start <= ss[j].start
  BY <1>3, <1>6, FirstFromIs
<1>17. \A j \in DOMAIN rs : ss[j].anchor = i /\ after => j = x
  <2> SUFFICES ASSUME NEW j \in DOMAIN rs, ss[j].anchor = i, after PROVE j = x
    OBVIOUS
  <2>1. first = i
    BY DEF first
  <2>2. /\ ss[i].start < ss[j].start
        /\ \A k \in DOMAIN ss : ss[k].start < ss[j].start => ss[k].start <= ss[i].start
    BY <1>2, <1>5, <1>6 DEF Behind
  <2>3. ss[i].start < at /\ \A k \in DOMAIN ss : ss[k].start < at => ss[k].start <= ss[i].start
    <3>1. LastBefore(ss, at) = i /\ i # NoEntry
      BY <1>2, <1>15, <2>1
    <3> QED BY <1>3, <1>6, <3>1, LastBeforeIs
  <2>4. \A k \in DOMAIN ss : ss[k].start \in Nat
    BY <1>6, RowFields
  <2>5. ss[j].start >= at
    BY <1>3, <1>5, <2>2, <2>3, <2>4
  <2>6. \A k \in DOMAIN ss : ss[k].start >= at => ss[j].start <= ss[k].start
    BY <1>3, <1>5, <2>2, <2>3, <2>4
  <2> QED BY <1>3, <1>5, <1>6, <2>5, <2>6, FirstFromIs
<1>18. ~after => i = x
  <2> SUFFICES ASSUME ~after PROVE i = x
    OBVIOUS
  <2>1. at = rs[i].start
    BY DEF at
  <2>2. ss[i].start >= at /\ \A k \in DOMAIN ss : ss[k].start >= at => ss[i].start <= ss[k].start
    BY <1>2, <1>3, <1>5, <1>14, <2>1
  <2> QED BY <1>3, <1>5, <1>6, <2>2, FirstFromIs
<1>19. after /\ x # NoEntry => ss[x].anchor = i
  <2> SUFFICES ASSUME after, x # NoEntry PROVE ss[x].anchor = i
    OBVIOUS
  <2>1. first = i
    BY DEF first
  <2>2. x \in DOMAIN ss /\ Behind(ss, x)
    BY <1>6, <1>16
  <2>3. \A k \in DOMAIN ss : ss[k].start \in Nat /\ k # NoEntry
    BY <1>6, RowFields
  <2>4. i \in DOMAIN ss /\ ss[i].start < at /\ \A k \in DOMAIN ss : ss[k].start < at => ss[k].start <= ss[i].start
    <3>1. LastBefore(ss, at) = i /\ i # NoEntry
      BY <1>2, <1>15, <2>1
    <3> QED BY <1>3, <1>6, <3>1, LastBeforeIs
  <2>5. ss[i].start < ss[x].start /\ \A k \in DOMAIN ss : ss[k].start < ss[x].start => ss[k].start <= ss[i].start
    <3>1. \A k \in DOMAIN ss : ss[k].start < ss[x].start => ss[k].start < at
      BY <1>3, <1>16, <2>2, <2>3
    <3> QED BY <1>3, <1>16, <2>2, <2>3, <2>4, <3>1
  <2>6. LastBefore(ss, ss[x].start) = i
    BY <1>6, <2>2, <2>3, <2>4, <2>5, LastBeforeIs
  <2> QED BY <1>6, <2>2, <2>6, BehindIs
<1> HIDE DEF x
<1>20. CASE x = NoEntry
  <2>1. us = ts
    <3>1. \A j \in DOMAIN ts : ~(j # new /\ (IF after THEN ts[j].anchor = i ELSE j = i))
      <4> TAKE j \in DOMAIN ts
      <4>1. CASE j = new
        BY <4>1
      <4>2. CASE j # new
        <5>1. j \in DOMAIN rs /\ ts[j] = ss[j] /\ j # NoEntry
          BY <1>2, <1>5, <1>12, <1>13, <4>2
        <5> QED BY <1>2, <1>17, <1>18, <1>20, <5>1
      <4> QED BY <4>1, <4>2
    <3>2. us = [j \in DOMAIN ts |-> ts[j]]
      BY <3>1
    <3>3. ts = [j \in DOMAIN ts |-> ts[j]]
      BY <1>13 DEF Rows
    <3> QED BY <3>2, <3>3
  <2>2. Sound(ss, x)
    BY <1>5, <1>20 DEF Good
  <2>3. Sound(ts, x)
    <3>1. \A d \in {e} : d.start >= at
      BY <1>3, <1>9
    <3>2. \A j \in DOMAIN ss : ss[j].start < at => End(ss[j]) <= at
      BY <1>5, <1>14
    <3>3. \A j \in DOMAIN ss, d \in {e} : ss[j].start >= at => End(d) <= ss[j].start
      BY <1>5, <1>9, <1>14
    <3>4. x = FirstFrom(ss, at)
      BY DEF x
    <3> DEFINE b == {e}
    <3>5. Batched(b) /\ Inserts(ts, ss, b, first) /\ (\A d \in b : d.start >= at)
          /\ \A j \in DOMAIN ss, d \in b : ss[j].start >= at => End(d) <= ss[j].start
      BY <1>8, <1>10, <3>1, <3>3
    <3> HIDE DEF b
    <3> QED BY <1>3, <1>15, <2>2, <3>2, <3>4, <3>5, InsertSound
  <2>4. Good(ts)
    BY <1>20, <2>3 DEF Good
  <2> QED BY <1>0, <2>1, <2>4
<1>21. CASE x # NoEntry
  <2>1. x \in DOMAIN ss /\ x \in DOMAIN ts /\ x # new
    BY <1>12, <1>13, <1>16, <1>21
  <2>2. us = [ts EXCEPT ![x].anchor = new]
    <3>1. \A j \in DOMAIN ts : (j # new /\ (IF after THEN ts[j].anchor = i ELSE j = i)) <=> j = x
      <4> TAKE j \in DOMAIN ts
      <4>1. CASE j = new
        BY <2>1, <4>1
      <4>2. CASE j # new
        <5>1. j \in DOMAIN rs /\ ts[j] = ss[j]
          BY <1>5, <1>12, <1>13, <4>2
        <5> QED BY <1>17, <1>18, <1>19, <1>21, <4>2, <5>1
      <4> QED BY <4>1, <4>2
    <3>2. us = [j \in DOMAIN ts |-> IF j = x THEN [ts[j] EXCEPT !.anchor = new] ELSE ts[j]]
      BY <3>1
    <3>3. ts = [j \in DOMAIN ts |-> ts[j]]
      BY <1>13 DEF Rows
    <3> QED BY <2>1, <3>2, <3>3
  <2>3. Sound(ss, x)
    BY <1>5, <1>6, LinkedIs DEF Good, Sound
  <2>4. Good([ts EXCEPT ![x].anchor = new])
    <3>1. \A d \in {e} : d.start >= at
      BY <1>3, <1>9
    <3>2. \A j \in DOMAIN ss : ss[j].start < at => End(ss[j]) <= at
      BY <1>5, <1>14
    <3>3. \A d \in {e} : End(d) <= ss[x].start
      BY <1>5, <1>9, <1>14, <1>16, <1>21
    <3>4. x = FirstFrom(ss, at)
      BY DEF x
    <3>5. {e} # {} /\ new = Latest(ts, DOMAIN ts \ DOMAIN ss)
      BY <1>12
    <3> QED BY <1>3, <1>8, <1>10, <1>15, <2>1, <2>3, <3>1, <3>2, <3>3, <3>4, <3>5, SpliceGood
  <2> QED BY <1>0, <2>2, <2>4
<1> QED BY <1>20, <1>21

-----------------------------------------------------------------------------
(* The entries that an extension lays.                                     *)

\* Entries that follow one another are apart.
LEMMA EndsIs ==
    ASSUME NEW start \in Nat, NEW ds \in Seq(Nat \ {0})
    PROVE  LET at == Ends(start, ds)
           IN  /\ at \in [0..Len(ds) -> Nat] /\ at[0] = start
               /\ \A k \in 1..Len(ds) : at[k] = at[k - 1] + ds[k]
<1> DEFINE n == Len(ds)
           at == CHOOSE at : at = [k \in 0..n |-> IF k = 0 THEN start ELSE at[k - 1] + ds[k]]
           step == [k \in 1..n |-> [x \in Nat |-> x + ds[k]]]
<1>1. n \in Nat /\ \A k \in 1..n : ds[k] \in Nat \ {0}
  OBVIOUS
<1>2. Ends(start, ds) = at
  BY DEF Ends
<1>3. step \in [1..n -> [Nat -> Nat]]
  <2> HIDE DEF n
  <2> QED BY <1>1
<1>4. PICK f : Runs(f, n, Nat, start, step)
  <2> HIDE DEF n, step
  <2> QED BY <1>1, <1>3, Recursion
<1> HIDE DEF n
<1>5. f \in [0..n -> Nat] /\ f = [k \in 0..n |-> IF k = 0 THEN start ELSE step[k][f[k - 1]]]
  BY <1>4 DEF Runs
<1>6. \A k \in 1..n : f[k - 1] \in Nat /\ step[k][f[k - 1]] = f[k - 1] + ds[k]
  <2> TAKE k \in 1..n
  <2>1. k - 1 \in 0..n
    BY <1>1
  <2>2. f[k - 1] \in Nat
    BY <1>5, <2>1
  <2> QED BY <2>2
<1> HIDE DEF step
<1>7. f = [k \in 0..n |-> IF k = 0 THEN start ELSE f[k - 1] + ds[k]]
  <2>1. ASSUME NEW k \in 0..n
        PROVE  f[k] = IF k = 0 THEN start ELSE f[k - 1] + ds[k]
    <3>1. f[k] = IF k = 0 THEN start ELSE step[k][f[k - 1]]
      BY <1>5
    <3>2. CASE k = 0
      BY <3>1, <3>2
    <3>3. CASE k # 0
      <4>1. k \in 1..n
        BY <3>3, <1>1
      <4> QED BY <3>1, <3>3, <4>1, <1>6
    <3> QED BY <3>2, <3>3
  <2>2. f = [k \in 0..n |-> f[k]]
    BY <1>5
  <2> QED BY <2>1, <2>2, Zenon
<1>8. at = [k \in 0..n |-> IF k = 0 THEN start ELSE at[k - 1] + ds[k]]
  BY <1>7
<1> HIDE DEF at
<1> DEFINE T == {k \in Nat : k \in 0..n => at[k] \in Nat}
<1>9. \A k \in 0..n : k \in T
  <2>1. 0 \in T
    BY <1>1, <1>8
  <2>2. \A k \in 1..n : k - 1 \in T => k \in T
    <3> TAKE k \in 1..n
    <3> HAVE k - 1 \in T
    <3>1. k \in Nat /\ k - 1 \in 0..n /\ k \in 0..n /\ k # 0
      BY <1>1
    <3>2. at[k] = at[k - 1] + ds[k]
      BY <1>8, <3>1
    <3> QED BY <1>1, <3>1, <3>2
  <2> HIDE DEF T
  <2> QED BY <1>1, <2>1, <2>2, Climb
<1>10. at \in [0..n -> Nat] /\ at[0] = start /\ \A k \in 1..n : at[k] = at[k - 1] + ds[k]
  <2>1. \A k \in 0..n : at[k] \in Nat
    BY <1>9
  <2>2. at \in [0..n -> Nat]
    BY <1>8, <2>1
  <2>3. \A k \in 1..n : k \in 0..n /\ k # 0
    BY <1>1
  <2> QED BY <1>1, <1>8, <2>2, <2>3
<1> QED BY <1>2, <1>10 DEF n

\* A function that never falls from one number to the next.
LEMMA Rises ==
    ASSUME NEW n \in Nat, NEW at \in [0..n -> Nat], \A k \in 1..n : at[k - 1] <= at[k]
    PROVE  \A j, k \in 0..n : j <= k => at[j] <= at[k]
<1> SUFFICES ASSUME NEW j \in 0..n PROVE \A k \in 0..n : j <= k => at[j] <= at[k]
  OBVIOUS
<1> DEFINE T == {k \in 0..n : j <= k => at[j] <= at[k]}
<1>1. 0 \in T
  OBVIOUS
<1>2. \A k \in 1..n : k - 1 \in T => k \in T
  <2> TAKE k \in 1..n
  <2> HAVE k - 1 \in T
  <2>1. k \in 0..n /\ k - 1 \in 0..n /\ at[k] \in Nat /\ at[k - 1] \in Nat /\ at[j] \in Nat
    OBVIOUS
  <2>2. CASE j = k
    BY <2>1, <2>2
  <2>3. CASE j # k
    BY <2>1, <2>3
  <2> QED BY <2>2, <2>3
<1> HIDE DEF T
<1>3. \A k \in 0..n : k \in T
  BY <1>1, <1>2, Climb
<1> QED BY <1>3 DEF T

LEMMA FamilyBatched ==
    ASSUME NEW K, K \subseteq Nat, IsFiniteSet(K), NEW e \in [K -> EntryType],
           \A j, k \in K : j < k => End(e[j]) <= e[k].start,
           \A k \in K : e[k].offset + e[k].dur <= Duration[e[k].media]
    PROVE  Batched({e[k] : k \in K})
<1>1. IsFiniteSet({e[k] : k \in K})
  BY ImageFinite
<1>2. \A j, k \in K : e[j] # e[k] => End(e[j]) <= e[k].start \/ End(e[k]) <= e[j].start
  <2> TAKE j, k \in K
  <2> HAVE e[j] # e[k]
  <2>1. j < k \/ k < j
    OBVIOUS
  <2> QED BY <2>1
<1> QED BY <1>1, <1>2 DEF Batched

LEMMA AmongIs ==
    ASSUME NEW U, NEW s \in Seq(U), NEW S
    PROVE  Among(s, S) \in Seq(U \cap S) /\ \A i \in DOMAIN s : s[i] \in S => s[i] \in Range(Among(s, S))
<1> DEFINE n == Len(s)
           kept == CHOOSE kept : kept = [k \in 0..n |->
              IF k = 0 THEN <<>> ELSE IF s[k] \in S THEN Append(kept[k - 1], s[k]) ELSE kept[k - 1]]
           Q == Seq(U \cap S)
           step == [k \in 1..n |-> [q \in Q |-> IF s[k] \in S THEN Append(q, s[k]) ELSE q]]
<1>1. n \in Nat /\ DOMAIN s = 1..n /\ \A k \in 1..n : s[k] \in U
  OBVIOUS
<1>2. Among(s, S) = kept[n]
  BY DEF Among
<1>3. step \in [1..n -> [Q -> Q]]
  <2>1. \A k \in 1..n, q \in Q : (IF s[k] \in S THEN Append(q, s[k]) ELSE q) \in Q
    BY <1>1
  <2> HIDE DEF n, Q
  <2> QED BY <1>1, <2>1
<1>4. PICK f : Runs(f, n, Q, <<>>, step)
  <2>1. <<>> \in Q
    OBVIOUS
  <2> HIDE DEF n, step, Q
  <2> QED BY <1>1, <1>3, <2>1, Recursion
<1> HIDE DEF n
<1>5. f \in [0..n -> Q] /\ f = [k \in 0..n |-> IF k = 0 THEN <<>> ELSE step[k][f[k - 1]]]
  BY <1>4 DEF Runs
<1>6. \A k \in 1..n : f[k - 1] \in Q /\ step[k][f[k - 1]] = IF s[k] \in S THEN Append(f[k - 1], s[k]) ELSE f[k - 1]
  <2> TAKE k \in 1..n
  <2>1. k - 1 \in 0..n
    BY <1>1
  <2>2. f[k - 1] \in Q
    BY <1>5, <2>1
  <2> HIDE DEF Q
  <2> QED BY <2>2
<1> HIDE DEF step
<1>7. f = [k \in 0..n |-> IF k = 0 THEN <<>> ELSE IF s[k] \in S THEN Append(f[k - 1], s[k]) ELSE f[k - 1]]
  <2>1. \A k \in 0..n : k # 0 =>
          step[k][f[k - 1]] = IF s[k] \in S THEN Append(f[k - 1], s[k]) ELSE f[k - 1]
    <3> TAKE k \in 0..n
    <3> HAVE k # 0
    <3>1. k \in 1..n
      BY <1>1
    <3> QED BY ONLY <3>1, <1>6
  <2>2. \A k \in 0..n : (IF k = 0 THEN <<>> ELSE step[k][f[k - 1]])
                         = IF k = 0 THEN <<>> ELSE IF s[k] \in S THEN Append(f[k - 1], s[k]) ELSE f[k - 1]
    BY ONLY <2>1
  <2> QED BY ONLY <1>5, <2>2
<1>8. kept = [k \in 0..n |->
              IF k = 0 THEN <<>> ELSE IF s[k] \in S THEN Append(kept[k - 1], s[k]) ELSE kept[k - 1]]
  BY <1>7
<1> HIDE DEF kept
<1> DEFINE T == {k \in 0..n : kept[k] \in Q /\ \A i \in 1..k : s[i] \in S => \E j \in 1..Len(kept[k]) : kept[k][j] = s[i]}
<1>9. \A k \in 0..n : k \in T
  <2>1. 0 \in T
    <3>1. kept[0] = <<>>
      BY <1>1, <1>8
    <3>2. 0 \in 0..n /\ <<>> \in Q /\ 1..0 = {}
      BY <1>1
    <3>3. kept[0] \in Q /\ \A i \in 1..0 : s[i] \in S => \E j \in 1..Len(kept[0]) : kept[0][j] = s[i]
      BY <3>1, <3>2
    <3> HIDE DEF Q
    <3> QED BY <3>2, <3>3
  <2>2. \A k \in 1..n : k - 1 \in T => k \in T
    <3> TAKE k \in 1..n
    <3> HAVE k - 1 \in T
    <3>1. k \in Nat /\ k - 1 \in 0..n /\ k \in 0..n /\ k # 0 /\ s[k] \in U
      BY <1>1
    <3> DEFINE q == kept[k - 1]
    <3>2. q \in Q /\ kept[k] = IF s[k] \in S THEN Append(q, s[k]) ELSE q
      BY <1>8, <3>1
    <3>3. \A i \in 1..k - 1 : s[i] \in S => \E j \in 1..Len(q) : q[j] = s[i]
      OBVIOUS
    <3> HIDE DEF q
    <3>4. CASE s[k] \in S
      <4>1. kept[k] = Append(q, s[k])
        BY <3>2, <3>4
      <4>2. kept[k] \in Q /\ Len(kept[k]) = Len(q) + 1 /\ kept[k][Len(q) + 1] = s[k]
            /\ \A j \in 1..Len(q) : kept[k][j] = q[j]
        BY <3>1, <3>2, <3>4, <4>1
      <4>3. \A i \in 1..k : s[i] \in S => \E j \in 1..Len(kept[k]) : kept[k][j] = s[i]
        <5> TAKE i \in 1..k
        <5> HAVE s[i] \in S
        <5>0. Len(q) \in Nat
          BY <3>2
        <5>1. CASE i = k
          BY <4>2, <5>0, <5>1
        <5>2. CASE i # k
          <6>1. i \in 1..k - 1
            BY <3>1, <5>2
          <6> QED BY <3>3, <4>2, <5>0, <6>1
        <5> QED BY <5>1, <5>2
      <4> QED BY <3>1, <4>2, <4>3
    <3>5. CASE s[k] \notin S
      <4>1. kept[k] = q
        BY <3>2, <3>5
      <4>2. \A i \in 1..k : s[i] \in S => i \in 1..k - 1
        BY <3>1, <3>5
      <4> QED BY <3>1, <3>2, <3>3, <4>1, <4>2
    <3> QED BY <3>4, <3>5
  <2> HIDE DEF T
  <2> QED BY <1>1, <2>1, <2>2, Climb
<1>10. n \in T
  <2>1. n \in 0..n
    BY <1>1
  <2> HIDE DEF T
  <2> QED BY <1>9, <2>1
<1>11. \A i \in DOMAIN s : s[i] \in S => s[i] \in Range(kept[n])
  <2>1. DOMAIN kept[n] = 1..Len(kept[n])
    BY <1>10
  <2> QED BY <1>1, <1>10, <2>1 DEF Range
<1> QED BY <1>2, <1>10, <1>11

LEMMA RotationIs ==
    ASSUME NEW U, NEW s \in Seq(U), NEW last
    PROVE  Rotation(s, last) \in Seq(U) /\ Len(Rotation(s, last)) = Len(s)
<1> DEFINE after == IF last \in Range(s) THEN CHOOSE i \in DOMAIN s : s[i] = last ELSE 0
           n == Len(s)
<1>1. n \in Nat /\ DOMAIN s = 1..n /\ \A i \in 1..n : s[i] \in U
  OBVIOUS
<1>2. after \in Nat
  <2>1. CASE last \in Range(s)
    <3>1. \E i \in DOMAIN s : s[i] = last
      BY <2>1 DEF Range
    <3>2. after \in DOMAIN s
      BY <2>1, <3>1
    <3> QED BY <1>1, <3>2
  <2>2. CASE last \notin Range(s)
    BY <2>2
  <2> QED BY <2>1, <2>2
<1>3. Rotation(s, last) = [i \in 1..n |-> s[((after + i - 1) % n) + 1]]
  BY <1>1 DEF Rotation
<1> HIDE DEF after, n
<1>4. \A i \in 1..n : ((after + i - 1) % n) + 1 \in 1..n
  BY <1>1, <1>2
<1>5. \A i \in 1..n : s[((after + i - 1) % n) + 1] \in U
  BY <1>1, <1>4
<1>6. [i \in 1..n |-> s[((after + i - 1) % n) + 1]] \in [1..n -> U]
  BY <1>5
<1>7. Len([i \in 1..n |-> s[((after + i - 1) % n) + 1]]) = n
  BY <1>1
<1>8. [i \in 1..n |-> s[((after + i - 1) % n) + 1]] \in Seq(U)
  BY <1>1, <1>6
<1> QED BY <1>3, <1>7, <1>8 DEF n

LEMMA ReadyRunIs ==
    ASSUME NEW U, NEW s \in Seq(U), NEW R
    PROVE  ReadyRun(s, R) \in Seq(U)
<1> DEFINE M == {n \in 0..Len(s) : \A i \in 1..n : s[i] \in R}
<1>1. M \subseteq Nat /\ IsFiniteSet(M) /\ M # {}
  <2>1. IsFiniteSet(0..Len(s))
    BY FS_Interval
  <2>2. 0 \in M
    OBVIOUS
  <2>3. M \subseteq 0..Len(s)
    OBVIOUS
  <2>4. IsFiniteSet(M)
    <3> HIDE DEF M
    <3> QED BY <2>1, <2>3, FS_Subset
  <2> QED BY <2>2, <2>4
<1>2. Max(M) \in M
  <2> HIDE DEF M
  <2> QED BY <1>1, MaxIs
<1>3. Max(M) \in 0..Len(s)
  BY <1>2
<1> HIDE DEF M
<1>4. SubSeq(s, 1, Max(M)) \in Seq(U)
  BY <1>3
<1> QED BY <1>4 DEF ReadyRun, M

\* Primary entries one after the other, of the items of s in turn and at most n of them.
InTurn(E, s, n) ==
    \E K \in SUBSET (1..n) : \E e \in [K -> EntryType] :
      /\ E = {e[k] : k \in K}
      /\ \A k \in K : /\ \A j \in 1..k : j \in K
                      /\ e[k].media = s[((k - 1) % Len(s)) + 1] /\ e[k].kind = "primary"
      /\ \A j, k \in K : j < k => End(e[j]) <= e[k].start

LEMMA BackToBackBatched ==
    ASSUME NEW s \in Seq(Schedulable), NEW start \in Nat, NEW limit \in Nat, NEW rounds \in Nat
    PROVE  /\ Batched(BackToBack(s, start, limit, rounds))
           /\ \A e \in BackToBack(s, start, limit, rounds) : e.start >= start
           /\ s # <<>> /\ rounds # 0 /\ start + Duration[s[1]] <= limit => BackToBack(s, start, limit, rounds) # {}
           /\ InTurn(BackToBack(s, start, limit, rounds), s, rounds * Len(s))
<1> DEFINE item(k) == s[((k - 1) % Len(s)) + 1]
           most == IF s = <<>> THEN 0 ELSE rounds * Len(s)
           ds == [k \in 1..most |-> Duration[item(k)]]
           at == Ends(start, ds)
           K == {k \in 1..most : at[k] <= limit}
           e == [k \in K |-> Entry(at[k - 1], item(k), 0, Duration[item(k)], "primary")]
<1>1. BackToBack(s, start, limit, rounds) = {e[k] : k \in K}
  BY DEF BackToBack
<1>2. most \in Nat
  <2>1. Len(s) \in Nat
    OBVIOUS
  <2> QED BY <2>1
<1>3. \A k \in 1..most : item(k) \in Schedulable /\ Duration[item(k)] \in Nat \ {0}
  <2> TAKE k \in 1..most
  <2>1. s # <<>> /\ k \in Nat /\ k >= 1
    BY <1>2
  <2>2. Len(s) \in Nat /\ Len(s) > 0
    BY <2>1
  <2>3. ((k - 1) % Len(s)) + 1 \in 1..Len(s)
    BY <2>1, <2>2
  <2>4. item(k) \in Schedulable
    BY <2>3
  <2> QED BY <2>4, BuilderAssumption
<1>3b. most = rounds * Len(s)
  BY DEF most
<1>3a. s # <<>> /\ rounds # 0 => 1 \in 1..most /\ item(1) = s[1]
  <2>1. s # <<>> => Len(s) \in Nat \ {0} /\ 0 % Len(s) = 0
    OBVIOUS
  <2> DEFINE n == Len(s)
  <2> HIDE DEF n
  <2>2. n \in Nat \ {0} /\ rounds # 0 => rounds * n >= 1
    OBVIOUS
  <2>3. s # <<>> /\ rounds # 0 => most >= 1
    BY <2>1, <2>2 DEF n
  <2> QED BY <1>2, <2>1, <2>3
<1> HIDE DEF most, item
<1>4. ds \in Seq(Nat \ {0}) /\ Len(ds) = most /\ \A k \in 1..most : ds[k] = Duration[item(k)]
  <2>1. ds \in [1..most -> Nat \ {0}]
    BY <1>3
  <2> QED BY <1>2, <2>1
<1> HIDE DEF ds
<1>5. at \in [0..most -> Nat] /\ at[0] = start /\ \A k \in 1..most : at[k] = at[k - 1] + ds[k]
  BY <1>4, EndsIs
<1> HIDE DEF at
<1>6. \A j, k \in 0..most : j <= k => at[j] <= at[k]
  <2>1. \A k \in 1..most : at[k - 1] <= at[k]
    BY <1>2, <1>3, <1>4, <1>5
  <2> QED BY <1>2, <1>5, <2>1, Rises
<1>7. K \subseteq 1..most /\ K \subseteq Nat /\ IsFiniteSet(K)
  <2>1. IsFiniteSet(1..most)
    BY <1>2, FS_Interval
  <2>2. K \subseteq 1..most
    OBVIOUS
  <2> HIDE DEF K
  <2>3. IsFiniteSet(K)
    BY <2>1, <2>2, FS_Subset
  <2> QED BY <1>2, <2>2, <2>3
<1>7a. s # <<>> /\ rounds # 0 /\ start + Duration[s[1]] <= limit => 1 \in K
  <2>1. 1 \in 1..most => at[1] = start + Duration[item(1)]
    BY <1>4, <1>5
  <2> QED BY <1>3a, <2>1
<1>7b. \A k \in K : \A j \in 1..k : j \in K
  <2> TAKE k \in K
  <2> TAKE j \in 1..k
  <2>1. j \in 1..most /\ j \in 0..most /\ k \in 0..most /\ j <= k
    BY <1>2
  <2>2. at[j] <= at[k] /\ at[j] \in Nat /\ at[k] \in Nat /\ at[k] <= limit
    BY <1>5, <1>6, <2>1
  <2> QED BY <2>1, <2>2
<1> HIDE DEF K
<1>8. ASSUME NEW k \in K
      PROVE  /\ e[k] \in EntryType /\ e[k].start = at[k - 1] /\ End(e[k]) = at[k]
             /\ e[k].start >= start /\ e[k].offset + e[k].dur <= Duration[e[k].media]
             /\ e[k].media = item(k) /\ e[k].kind = "primary"
  <2>1. k \in 1..most /\ k - 1 \in 0..most
    BY <1>2, <1>7
  <2>2. at[k - 1] \in Nat /\ item(k) \in Schedulable /\ Duration[item(k)] \in Nat \ {0}
    BY <1>3, <1>5, <2>1
  <2>3. e[k] = [start |-> at[k - 1], media |-> item(k), offset |-> 0, dur |-> Duration[item(k)], kind |-> "primary"]
    BY DEF Entry
  <2>4. at[0] <= at[k - 1]
    BY <1>2, <1>6, <2>1
  <2>5. at[k] = at[k - 1] + Duration[item(k)] /\ 0 + Duration[item(k)] <= Duration[item(k)]
    BY <1>4, <1>5, <2>1, <2>2
  <2>6. e[k].start >= start
    BY <1>5, <2>2, <2>3, <2>4
  <2> HIDE DEF e
  <2>7. e[k] \in EntryType
    BY <2>2, <2>3 DEF EntryType
  <2>8. End(e[k]) = at[k]
    BY <2>3, <2>5 DEF End
  <2> QED BY <2>3, <2>5, <2>6, <2>7, <2>8
<1>9. e \in [K -> EntryType]
  <2>1. e = [k \in K |-> e[k]]
    OBVIOUS
  <2> HIDE DEF e
  <2> QED BY <1>8, <2>1
<1> HIDE DEF e
<1>10. \A j, k \in K : j < k => End(e[j]) <= e[k].start
  <2> TAKE j, k \in K
  <2> HAVE j < k
  <2>1. j \in 0..most /\ k - 1 \in 0..most /\ j <= k - 1
    BY <1>2, <1>7
  <2> QED BY <1>6, <1>8, <2>1
<1>11. Batched({e[k] : k \in K})
  <2>1. \A k \in K : e[k].offset + e[k].dur <= Duration[e[k].media]
    BY <1>8
  <2> QED BY ONLY <1>7, <1>9, <1>10, <2>1, FamilyBatched
<1>12. InTurn({e[k] : k \in K}, s, most)
  <2>1. \A k \in K : e[k].media = s[((k - 1) % Len(s)) + 1] /\ e[k].kind = "primary"
    BY <1>8 DEF item
  <2>2. K \in SUBSET (1..most)
    BY <1>7
  <2> QED BY ONLY <1>7b, <1>9, <1>10, <2>1, <2>2 DEF InTurn
<1> QED BY <1>1, <1>3b, <1>7a, <1>8, <1>11, <1>12

-----------------------------------------------------------------------------
(* The slot grid.                                                          *)

LEMMA ModOf ==
    ASSUME NEW n \in Nat \ {0}, NEW q \in Nat, NEW r \in 0..n - 1, NEW x \in Nat, x = n * q + r
    PROVE  x % n = r
OBVIOUS

LEMMA ModBelow == ASSUME NEW n \in Nat \ {0}, NEW x \in Nat, x < n PROVE x % n = x
OBVIOUS

LEMMA ModIn == ASSUME NEW n \in Nat \ {0}, NEW x \in Nat PROVE x % n \in 0..n - 1
OBVIOUS

LEMMA Quotient ==
    ASSUME NEW n \in Nat \ {0}, NEW x \in Nat
    PROVE  \E q \in Nat : x = n * q + (x % n)
<1> DEFINE T == {k \in 0..x : \E q \in Nat, r \in 0..n - 1 : k = n * q + r}
<1>1. 0 \in T
  <2>1. 0 = n * 0 + 0 /\ 0 \in 0..n - 1
    OBVIOUS
  <2> QED BY <2>1
<1>2. \A k \in 1..x : k - 1 \in T => k \in T
  <2> TAKE k \in 1..x
  <2> HAVE k - 1 \in T
  <2>1. PICK q \in Nat, r \in 0..n - 1 : k - 1 = n * q + r
    OBVIOUS
  <2>2. CASE r < n - 1
    <3>1. k = n * q + (r + 1) /\ r + 1 \in 0..n - 1
      BY <2>1, <2>2
    <3> QED BY <3>1
  <2>3. CASE r = n - 1
    <3>1. k = n * q + n
      BY <2>1, <2>3
    <3>2. n * q + n = n * (q + 1) + 0 /\ 0 \in 0..n - 1 /\ q + 1 \in Nat
      OBVIOUS
    <3> QED BY <3>1, <3>2
  <2> QED BY <2>2, <2>3
<1>3. x \in T
  <2> HIDE DEF T
  <2>1. \A k \in 0..x : k \in T
    BY <1>1, <1>2, Climb
  <2> QED BY <2>1
<1>4. PICK q \in Nat, r \in 0..n - 1 : x = n * q + r
  BY <1>3
<1>5. x % n = r
  BY <1>4, ModOf
<1> QED BY <1>4, <1>5

LEMMA AlignIs ==
    ASSUME NEW t \in Nat
    PROVE  /\ AlignToSlot(t) \in Nat /\ AlignToSlot(t) >= t /\ AlignToSlot(t) <= t + (SlotLength - 1)
           /\ AlignToSlot(t) % SlotLength = 0
           /\ t % SlotLength = 0 => AlignToSlot(t) = t
<1>1. SlotLength \in Nat \ {0}
  BY BuilderAssumption
<1>2. t % SlotLength \in 0..SlotLength - 1
  BY <1>1, ModIn
<1>3. CASE t % SlotLength = 0
  BY <1>1, <1>3 DEF AlignToSlot
<1>4. CASE t % SlotLength # 0
  <2>1. PICK q \in Nat : t = SlotLength * q + (t % SlotLength)
    BY <1>1, Quotient
  <2>2. AlignToSlot(t) = t + (SlotLength - (t % SlotLength))
    BY <1>4 DEF AlignToSlot
  <2> DEFINE r == t % SlotLength
  <2>3. t = SlotLength * q + r /\ r \in 1..SlotLength - 1 /\ AlignToSlot(t) = t + (SlotLength - r)
    BY <1>1, <1>2, <1>4, <2>1, <2>2
  <2> HIDE DEF r
  <2>4. AlignToSlot(t) = SlotLength * q + SlotLength
    BY <1>1, <2>3
  <2>5. SlotLength * q + SlotLength = SlotLength * (q + 1) + 0 /\ q + 1 \in Nat
    BY <1>1
  <2>6. AlignToSlot(t) \in Nat
    BY <1>1, <2>3
  <2>7. AlignToSlot(t) % SlotLength = 0
    <3> DEFINE a == AlignToSlot(t)
               p == q + 1
    <3>1. a \in Nat /\ p \in Nat /\ a = SlotLength * p + 0
      BY <2>4, <2>5, <2>6
    <3> HIDE DEF a, p
    <3>2. 0 \in 0..SlotLength - 1
      BY <1>1
    <3>3. a % SlotLength = 0
      BY <1>1, <3>1, <3>2, ModOf
    <3> QED BY <3>3 DEF a
  <2> QED BY <1>1, <1>4, <2>3, <2>6, <2>7
<1> QED BY <1>3, <1>4

LEMMA BestFitIs ==
    ASSUME NEW s \in Seq(Media), NEW gap \in Nat
    PROVE  \/ BestFit(s, gap) = NoMedia
           \/ BestFit(s, gap) \in Media /\ Duration[BestFit(s, gap)] <= gap
<1> DEFINE fits == {i \in DOMAIN s : Duration[s[i]] <= gap}
           Best(i) == \A j \in fits : LET di == Duration[s[i]] dj == Duration[s[j]]
                                      IN  di > dj \/ (di = dj /\ i <= j)
<1>1. BestFit(s, gap) = IF fits = {} THEN NoMedia ELSE s[CHOOSE i \in fits : Best(i)]
  BY DEF BestFit
<1>2. \A i \in DOMAIN s : s[i] \in Media /\ Duration[s[i]] \in Nat /\ i \in Nat
  BY BuilderAssumption DEF Schedulable
<1>3. CASE fits # {}
  <2> DEFINE ds == {Duration[s[i]] : i \in fits}
  <2>1. ds \subseteq 0..gap /\ ds # {}
    BY <1>2, <1>3
  <2>2. ds \subseteq Nat /\ IsFiniteSet(ds)
    <3>1. IsFiniteSet(0..gap)
      BY FS_Interval
    <3> HIDE DEF ds
    <3>2. IsFiniteSet(ds)
      BY <2>1, <3>1, FS_Subset
    <3> QED BY <2>1, <3>2
  <2>3. PICK d \in ds : \A y \in ds : y <= d
    <3> HIDE DEF ds
    <3> QED BY <2>1, <2>2, GreatestNat
  <2> DEFINE is == {i \in fits : Duration[s[i]] = d}
  <2>4. is \subseteq Nat /\ is # {}
    BY <1>2, <2>3
  <2>5. PICK i \in is : \A j \in is : i <= j
    <3> HIDE DEF is
    <3> QED BY <2>4, LeastNat
  <2>6. i \in fits /\ Best(i)
    <3>1. i \in fits /\ Duration[s[i]] = d /\ i \in Nat /\ d \in Nat
      BY <1>2, <2>5
    <3>2. \A j \in fits : Duration[s[j]] <= d /\ Duration[s[j]] \in Nat /\ j \in Nat
      BY <1>2, <2>3
    <3>3. \A j \in fits : Duration[s[j]] = d => i <= j
      BY <2>5
    <3> HIDE DEF fits
    <3> QED BY <3>1, <3>2, <3>3
  <2> DEFINE c == CHOOSE x \in fits : Best(x)
  <2>7. c \in fits
    <3> HIDE DEF fits, Best
    <3> QED BY <2>6
  <2>8. BestFit(s, gap) = s[c]
    BY <1>1, <1>3
  <2> HIDE DEF c
  <2> QED BY <1>2, <2>7, <2>8
<1> QED BY <1>1, <1>3

\* The cursor of each filler asset is inside it.
Placed(cursor) ==
    cursor \in [Range(Filler) -> Nat] /\ \A f \in Range(Filler) : cursor[f] < Duration[f]

LEMMA FillerIs == Range(Filler) \subseteq Schedulable /\ \A f \in Range(Filler) : Duration[f] \in Nat \ {0}
BY BuilderAssumption DEF Schedulable

LEMMA CursorsPlaced ==
    ASSUME NEW rs, Rows(rs), NEW t \in Nat
    PROVE  Placed(Cursors(rs, t))
<1> DEFINE c == Cursors(rs, t)
<1>1. ASSUME NEW f \in Range(Filler)
      PROVE  c[f] \in Nat /\ c[f] < Duration[f]
  <2> DEFINE S == {i \in DOMAIN rs : rs[i].media = f /\ rs[i].kind = "filler" /\ rs[i].start < t}
             prev == Latest(rs, S)
  <2>1. c[f] = IF prev = NoEntry THEN 0 ELSE (rs[prev].offset + rs[prev].dur) % Duration[f]
    BY DEF Cursors, LastPlacement
  <2>2. Duration[f] \in Nat \ {0}
    BY FillerIs
  <2>3. CASE prev = NoEntry
    <3> HIDE DEF prev, c
    <3> QED BY <2>1, <2>2, <2>3
  <2>4. CASE prev # NoEntry
    <3>1. S \in SUBSET DOMAIN rs
      OBVIOUS
    <3>2. prev \in S
      <4> HIDE DEF S
      <4> QED BY <2>4, <3>1, LatestCases
    <3>3. rs[prev].offset \in Nat /\ rs[prev].dur \in Nat
      <4>1. prev \in DOMAIN rs
        BY <3>2
      <4> HIDE DEF prev
      <4> QED BY <4>1, RowFields
    <3> DEFINE x == rs[prev].offset + rs[prev].dur
    <3>4. x \in Nat /\ c[f] = x % Duration[f]
      <4> HIDE DEF prev, c
      <4> QED BY <2>1, <2>4, <3>3
    <3> HIDE DEF x, c
    <3> QED BY <2>2, <3>4, ModIn
  <2> QED BY <2>3, <2>4
<1>2. c = [f \in Range(Filler) |-> c[f]]
  BY DEF Cursors
<1> HIDE DEF c
<1>3. c \in [Range(Filler) -> Nat]
  BY <1>1, <1>2
<1> QED BY <1>1, <1>3 DEF Placed, c

LEMMA UsableIs ==
    ASSUME NEW ch
    PROVE  /\ UsableFiller(ch) \in Seq(Range(Filler))
           /\ UsableFiller(ch) # <<>> => UsableFiller(ch) \in Seq(Range(Filler) \cap ch.ready)
<1>1. Filler \in Seq(Range(Filler))
  BY BuilderAssumption DEF Range
<1>2. UsableFiller(ch) \in Seq(Range(Filler) \cap ch.ready)
  BY <1>1, AmongIs DEF UsableFiller
<1> QED BY <1>2

\* A primary that leads, and the items of s in turn behind it.
LedInTurn(O, lead, s, n) ==
    \E E \in SUBSET EntryType : \E l \in EntryType :
      /\ O = E \cup {l} /\ InTurn(E, s, n)
      /\ l.media = lead /\ l.kind = "primary"
      /\ \A d \in E : End(l) <= d.start

\* Primaries on boundaries, behind the one that leads.
LEMMA OnBoundariesBatched ==
    ASSUME NEW ch, ch.lineup \in Seq(Media), ch.lineup # <<>>, NEW start \in Nat, NEW limit \in Nat,
           start < limit, NEW last, NEW lead,
           lead = NoMedia \/ (lead \in Media /\ Duration[lead] <= AlignToSlot(start) - start)
    PROVE  /\ Batched(OnBoundaries(ch, start, limit, last, lead))
           /\ \A e \in OnBoundaries(ch, start, limit, last, lead) : e.start >= start
           /\ lead = NoMedia /\ (\A m \in Media : AlignToSlot(start) + Duration[m] <= limit)
              => OnBoundaries(ch, start, limit, last, lead) # {}
           /\ lead = NoMedia =>
                InTurn(OnBoundaries(ch, start, limit, last, lead), Rotation(ch.lineup, last), limit - start)
           /\ lead # NoMedia =>
                LedInTurn(OnBoundaries(ch, start, limit, last, lead), lead, Rotation(ch.lineup, lead), limit - start)
<1> DEFINE list == Rotation(ch.lineup, IF lead = NoMedia THEN last ELSE lead)
           item(k) == list[((k - 1) % Len(list)) + 1]
           most == limit - start
           s0 == IF lead = NoMedia THEN start ELSE AlignToSlot(start)
           at == CHOOSE at : at = [k \in 0..most |->
                   IF k = 0 THEN s0 ELSE AlignToSlot(at[k - 1]) + Duration[item(k)]]
           step == [k \in 1..most |-> [x \in Nat |-> AlignToSlot(x) + Duration[item(k)]]]
           K == {k \in 1..most : at[k] <= limit}
           e == [k \in K |-> Entry(AlignToSlot(at[k - 1]), item(k), 0, Duration[item(k)], "primary")]
           L == IF lead = NoMedia THEN {} ELSE {Entry(start, lead, 0, Duration[lead], "primary")}
<1>0. OnBoundaries(ch, start, limit, last, lead) = {e[k] : k \in K} \cup L
  BY DEF OnBoundaries
<1>1. most \in Nat /\ s0 \in Nat /\ s0 >= start /\ AlignToSlot(start) \in Nat
  BY AlignIs
<1>2. list \in Seq(Media) /\ Len(list) \in Nat \ {0}
  <2>1. list \in Seq(Media) /\ Len(list) = Len(ch.lineup)
    BY RotationIs
  <2>2. Len(ch.lineup) \in Nat \ {0}
    <3> DEFINE s == ch.lineup
    <3>1. s \in Seq(Media) /\ s # <<>>
      OBVIOUS
    <3> HIDE DEF s
    <3>2. Len(s) \in Nat \ {0}
      BY <3>1
    <3> QED BY <3>2 DEF s
  <2> QED BY <2>1, <2>2
<1> HIDE DEF list
<1>3. \A k \in 1..most : item(k) \in Media /\ item(k) \in Schedulable /\ Duration[item(k)] \in Nat \ {0}
  <2> TAKE k \in 1..most
  <2>1. k - 1 \in Nat
    BY <1>1
  <2>2. (k - 1) % Len(list) \in 0..Len(list) - 1
    <3> HIDE DEF most
    <3> QED BY <1>2, <2>1, ModIn
  <2>3. item(k) \in Media
    BY <1>2, <2>2
  <2> QED BY <2>3, BuilderAssumption DEF Schedulable
<1>3a. 1 \in 1..most
  BY <1>1
<1> HIDE DEF item, most, s0
<1>4. step \in [1..most -> [Nat -> Nat]]
  <2>1. \A k \in 1..most, x \in Nat : AlignToSlot(x) + Duration[item(k)] \in Nat
    BY <1>3, AlignIs
  <2> QED BY <2>1
<1>5. PICK f : Runs(f, most, Nat, s0, step)
  <2> HIDE DEF step
  <2> QED BY <1>1, <1>4, Recursion
<1>6. f \in [0..most -> Nat] /\ f = [k \in 0..most |-> IF k = 0 THEN s0 ELSE step[k][f[k - 1]]]
  BY <1>5 DEF Runs
<1>7. \A k \in 1..most : f[k - 1] \in Nat /\ step[k][f[k - 1]] = AlignToSlot(f[k - 1]) + Duration[item(k)]
  <2> TAKE k \in 1..most
  <2>1. k - 1 \in 0..most
    BY <1>1
  <2>2. f[k - 1] \in Nat
    BY <1>6, <2>1
  <2> QED BY <2>2
<1> HIDE DEF step
<1>8. f = [k \in 0..most |-> IF k = 0 THEN s0 ELSE AlignToSlot(f[k - 1]) + Duration[item(k)]]
  <2>1. ASSUME NEW k \in 0..most
        PROVE  f[k] = IF k = 0 THEN s0 ELSE AlignToSlot(f[k - 1]) + Duration[item(k)]
    <3>1. f[k] = IF k = 0 THEN s0 ELSE step[k][f[k - 1]]
      BY <1>6
    <3>2. CASE k = 0
      BY <3>1, <3>2
    <3>3. CASE k # 0
      <4>1. k \in 1..most
        BY <1>1, <3>3
      <4> QED BY <1>7, <3>1, <3>3, <4>1
    <3> QED BY <3>2, <3>3
  <2>2. f = [k \in 0..most |-> f[k]]
    BY <1>6
  <2> QED BY <2>1, <2>2, Zenon
<1>9. at = [k \in 0..most |-> IF k = 0 THEN s0 ELSE AlignToSlot(at[k - 1]) + Duration[item(k)]]
  BY <1>8
<1> HIDE DEF at
<1> DEFINE T == {k \in 0..most : at[k] \in Nat}
<1>10. \A k \in 0..most : k \in T
  <2>1. 0 \in T
    BY <1>1, <1>9
  <2>2. \A k \in 1..most : k - 1 \in T => k \in T
    <3> TAKE k \in 1..most
    <3> HAVE k - 1 \in T
    <3>1. k \in Nat /\ k - 1 \in 0..most /\ k \in 0..most /\ k # 0
      BY <1>1
    <3>2. at[k] = AlignToSlot(at[k - 1]) + Duration[item(k)]
      BY <1>9, <3>1
    <3>3. AlignToSlot(at[k - 1]) \in Nat
      BY AlignIs
    <3> QED BY <1>3, <3>1, <3>2, <3>3
  <2> HIDE DEF T
  <2> QED BY <1>1, <2>1, <2>2, Climb
<1>11. at \in [0..most -> Nat] /\ at[0] = s0 /\ \A k \in 1..most : at[k] = AlignToSlot(at[k - 1]) + Duration[item(k)]
  <2>1. \A k \in 0..most : at[k] \in Nat
    BY <1>10
  <2>2. at \in [0..most -> Nat]
    BY <1>9, <2>1
  <2>3. \A k \in 1..most : k \in 0..most /\ k # 0
    BY <1>1
  <2> QED BY <1>1, <1>9, <2>2, <2>3
<1>12. \A k \in 1..most : k - 1 \in 0..most /\ at[k - 1] \in Nat /\ AlignToSlot(at[k - 1]) \in Nat
                          /\ AlignToSlot(at[k - 1]) >= at[k - 1] /\ at[k] \in Nat
  <2> TAKE k \in 1..most
  <2>1. k - 1 \in 0..most /\ k \in 0..most
    BY <1>1
  <2>2. at[k - 1] \in Nat /\ at[k] \in Nat
    BY <1>11, <2>1
  <2> QED BY <2>1, <2>2, AlignIs
<1>13. \A j, k \in 0..most : j <= k => at[j] <= at[k]
  <2>1. \A k \in 1..most : at[k - 1] <= at[k]
    BY <1>3, <1>11, <1>12
  <2> QED BY <1>1, <1>11, <2>1, Rises
<1>14. K \subseteq 1..most /\ K \subseteq Nat /\ IsFiniteSet(K)
  <2>1. IsFiniteSet(1..most)
    BY <1>1, FS_Interval
  <2>2. K \subseteq 1..most
    OBVIOUS
  <2> HIDE DEF K
  <2>3. IsFiniteSet(K)
    BY <2>1, <2>2, FS_Subset
  <2> QED BY <1>1, <2>2, <2>3
<1>14a. lead = NoMedia /\ (\A m \in Media : AlignToSlot(start) + Duration[m] <= limit) => 1 \in K
  <2> SUFFICES ASSUME lead = NoMedia, \A m \in Media : AlignToSlot(start) + Duration[m] <= limit
               PROVE  1 \in K
    OBVIOUS
  <2>1. at[0] = start
    BY <1>11 DEF s0
  <2>2. at[1] = AlignToSlot(start) + Duration[item(1)]
    BY <1>3a, <1>11, <2>1
  <2> QED BY <1>3, <1>3a, <2>2
<1>14b. K \in SUBSET (1..most) /\ \A k \in K : \A j \in 1..k : j \in K
  <2>1. K \in SUBSET (1..most)
    OBVIOUS
  <2>2. ASSUME NEW k \in K, NEW j \in 1..k PROVE j \in K
    <3>1. j \in 1..most /\ j \in 0..most /\ k \in 0..most /\ j <= k
      BY <1>1, <2>2
    <3>2. at[j] <= at[k] /\ at[j] \in Nat /\ at[k] \in Nat /\ at[k] <= limit
      BY <1>11, <1>13, <2>2, <3>1
    <3> QED BY <3>1, <3>2
  <2> QED BY <2>1, <2>2
<1> HIDE DEF K
<1>15. ASSUME NEW k \in K
      PROVE  /\ e[k] \in EntryType /\ e[k].start = AlignToSlot(at[k - 1]) /\ End(e[k]) = at[k]
             /\ e[k].start >= s0 /\ e[k].offset + e[k].dur <= Duration[e[k].media]
             /\ e[k].media = item(k) /\ e[k].kind = "primary"
  <2>1. k \in 1..most /\ k - 1 \in 0..most /\ 0 \in 0..most /\ 0 <= k - 1
    BY <1>1, <1>14
  <2>2. at[k - 1] \in Nat /\ AlignToSlot(at[k - 1]) \in Nat /\ AlignToSlot(at[k - 1]) >= at[k - 1]
        /\ item(k) \in Schedulable /\ Duration[item(k)] \in Nat \ {0}
    BY <1>3, <1>12, <2>1
  <2>3. e[k] = [start |-> AlignToSlot(at[k - 1]), media |-> item(k), offset |-> 0,
                dur |-> Duration[item(k)], kind |-> "primary"]
    BY DEF Entry
  <2>4. at[0] <= at[k - 1]
    BY <1>13, <2>1
  <2> HIDE DEF e
  <2>5. e[k].start >= s0
    BY <1>1, <1>11, <2>2, <2>3, <2>4
  <2> QED BY <1>11, <2>1, <2>2, <2>3, <2>5 DEF EntryType, End
<1>16. e \in [K -> EntryType]
  <2>1. e = [k \in K |-> e[k]]
    OBVIOUS
  <2> HIDE DEF e
  <2> QED BY <1>15, <2>1
<1> HIDE DEF e
<1>17. \A j, k \in K : j < k => End(e[j]) <= e[k].start
  <2> TAKE j, k \in K
  <2> HAVE j < k
  <2>1. j \in 0..most /\ k - 1 \in 0..most /\ j <= k - 1 /\ j \in 1..most /\ k \in 1..most
    BY <1>1, <1>14
  <2>2. at[j] <= at[k - 1] /\ at[k - 1] <= AlignToSlot(at[k - 1])
    BY <1>12, <1>13, <2>1
  <2>3. at[j] \in Nat /\ at[k - 1] \in Nat /\ AlignToSlot(at[k - 1]) \in Nat
    BY <1>12, <2>1
  <2> QED BY <1>15, <2>2, <2>3
<1>18. Batched({e[k] : k \in K})
  BY <1>14, <1>15, <1>16, <1>17, FamilyBatched
<1>18a. InTurn({e[k] : k \in K}, list, most)
  <2>1. \A k \in K : e[k].media = list[((k - 1) % Len(list)) + 1] /\ e[k].kind = "primary"
    BY <1>15 DEF item
  <2> QED BY ONLY <1>14b, <1>16, <1>17, <2>1 DEF InTurn
<1>18b. most = limit - start
  BY DEF most
<1>19. CASE lead = NoMedia
  <2>1. L = {} /\ s0 = start
    BY <1>19 DEF s0
  <2>2. list = Rotation(ch.lineup, last)
    BY <1>19 DEF list
  <2>3. InTurn({e[k] : k \in K}, Rotation(ch.lineup, last), limit - start)
    BY <1>18a, <1>18b, <2>2
  <2> QED BY <1>0, <1>14a, <1>15, <1>18, <1>19, <2>1, <2>3
<1>20. CASE lead # NoMedia
  <2> DEFINE l == Entry(start, lead, 0, Duration[lead], "primary")
             E == {e[k] : k \in K}
  <2>1. L = {l} /\ s0 = AlignToSlot(start) /\ lead \in Media
    BY <1>20 DEF s0
  <2>2. Duration[lead] \in Nat \ {0} /\ lead \in Schedulable
    BY <2>1, BuilderAssumption DEF Schedulable
  <2>3. l = [start |-> start, media |-> lead, offset |-> 0, dur |-> Duration[lead], kind |-> "primary"]
    BY DEF Entry
  <2> HIDE DEF l, L
  <2>4. l \in EntryType /\ l.start = start /\ End(l) = start + Duration[lead] /\ End(l) <= s0
        /\ l.offset + l.dur <= Duration[l.media] /\ l.media = lead /\ l.kind = "primary"
    BY <1>1, <1>20, <2>1, <2>2, <2>3 DEF EntryType, End
  <2>5. \A d \in E : d.start >= s0 /\ d.start \in Nat
    BY <1>15, EntryFields
  <2>6. IsFiniteSet(E \cup {l})
    <3>1. IsFiniteSet(E)
      BY <1>18 DEF Batched
    <3> HIDE DEF E
    <3> QED BY <3>1, FS_AddElement
  <2>6a. InTurn(E, list, most)
    BY <1>18a
  <2> HIDE DEF E
  <2>7. Batched(E)
    BY <1>18 DEF E
  <2>8. \A d \in E : End(l) <= d.start
    BY <1>1, <2>2, <2>4, <2>5
  <2>9. Batched(E \cup {l})
    BY <2>4, <2>6, <2>7, <2>8 DEF Batched
  <2>10. \A d \in E \cup {l} : d.start >= start
    BY <1>1, <2>4, <2>5
  <2>11. OnBoundaries(ch, start, limit, last, lead) = E \cup {l}
    BY <1>0, <2>1 DEF E
  <2>12. list = Rotation(ch.lineup, lead)
    BY <1>20 DEF list
  <2>13. E \in SUBSET EntryType
    BY <2>7 DEF Batched
  <2>14. LedInTurn(E \cup {l}, lead, list, most)
    BY <2>4, <2>6a, <2>8, <2>13 DEF LedInTurn
  <2>15. LedInTurn(OnBoundaries(ch, start, limit, last, lead), lead, Rotation(ch.lineup, lead), limit - start)
    BY <1>18b, <2>11, <2>12, <2>14
  <2> QED BY <1>20, <2>9, <2>10, <2>11, <2>15
<1> QED BY <1>19, <1>20

-----------------------------------------------------------------------------
(* Filler.                                                                 *)

Tilings == [pieces : Seq(EntryType), cursor : [Range(Filler) -> Nat], turn : Nat]

\* What tileFillerGap has laid by t: filler that is usable, within its asset and the gaps, one
\* piece behind the other, up to t, the cursor of the last being where it ends.
Tiled(a, t, V, gaps) ==
    /\ a \in Tilings /\ Placed(a.cursor)
    /\ \A i \in 1..Len(a.pieces) :
          /\ a.pieces[i].kind = "filler" /\ a.pieces[i].media \in V
          /\ a.pieces[i].offset + a.pieces[i].dur <= Duration[a.pieces[i].media]
          /\ End(a.pieces[i]) <= t + 1
          /\ \A u \in Nat : a.pieces[i].start <= u /\ u < End(a.pieces[i]) => u \in gaps
    /\ \A i, j \in 1..Len(a.pieces) : i < j => End(a.pieces[i]) <= a.pieces[j].start
    /\ \A i \in 1..Len(a.pieces) : i = Len(a.pieces) =>
          a.cursor[a.pieces[i].media] =
            IF a.pieces[i].offset + a.pieces[i].dur = Duration[a.pieces[i].media] THEN 0
            ELSE a.pieces[i].offset + a.pieces[i].dur
    /\ \A u \in gaps : u <= t => \E i \in 1..Len(a.pieces) : a.pieces[i].start <= u /\ u < End(a.pieces[i])

LEMMA Advance ==
    ASSUME NEW d \in Nat \ {0}, NEW c \in Nat, c < d
    PROVE  (c + 1) % d = (IF c + 1 = d THEN 0 ELSE c + 1) /\ (c + 1) % d < d /\ (c + 1) % d \in Nat
<1>1. CASE c + 1 = d
  <2>1. c + 1 = d * 1 + 0 /\ 0 \in 0..d - 1 /\ c + 1 \in Nat
    BY <1>1
  <2>2. (c + 1) % d = 0
    <3> DEFINE x == c + 1
    <3>1. x \in Nat /\ x = d * 1 + 0 /\ 0 \in 0..d - 1
      BY <2>1
    <3> HIDE DEF x
    <3>2. x % d = 0
      BY <3>1, ModOf
    <3> QED BY <3>2 DEF x
  <2> QED BY <1>1, <2>2
<1>2. CASE c + 1 # d
  <2> DEFINE x == c + 1
  <2>1. x \in Nat /\ x = d * 0 + x /\ x \in 0..d - 1
    BY <1>2
  <2> HIDE DEF x
  <2>2. x % d = x
    BY <2>1, ModOf
  <2>3. x # d /\ x < d
    BY <2>1
  <2> QED BY <2>1, <2>2, <2>3 DEF x
<1> QED BY <1>1, <1>2

LEMMA Longer ==
    ASSUME NEW x \in EntryType
    PROVE  LET y == [x EXCEPT !.dur = @ + 1]
           IN  /\ y \in EntryType /\ y.dur = x.dur + 1 /\ y.start = x.start /\ y.offset = x.offset
               /\ y.media = x.media /\ y.kind = x.kind
<1>1. x.dur + 1 \in Nat \ {0}
  BY EntryFields
<1> DEFINE d == x.dur + 1
<1>2. [x EXCEPT !.dur = @ + 1] = [x EXCEPT !.dur = d]
  OBVIOUS
<1> HIDE DEF d
<1>3. d \in Nat \ {0}
  BY <1>1 DEF d
<1> DEFINE y == [x EXCEPT !.dur = d]
<1>4. y \in EntryType /\ y.dur = d /\ y.start = x.start /\ y.offset = x.offset
               /\ y.media = x.media /\ y.kind = x.kind
  BY <1>3 DEF EntryType
<1> QED BY <1>2, <1>4 DEF d

LEMMA AddFillerTyped ==
    ASSUME NEW V \in SUBSET Range(Filler), NEW usable \in Seq(V), usable # <<>>, NEW a \in Tilings,
           NEW t \in Nat
    PROVE  AddFiller(usable, a, t) \in Tilings
<1> DEFINE P == a.pieces
           n == Len(P)
           goesOn == P # <<>> /\ End(Last(P)) = t /\ a.cursor[Last(P).media] # 0
           f == IF goesOn THEN Last(P).media ELSE usable[(a.turn % Len(usable)) + 1]
           cursor == [a.cursor EXCEPT ![f] = (@ + 1) % Duration[f]]
<1>1. P \in Seq(EntryType) /\ a.cursor \in [Range(Filler) -> Nat] /\ a.turn \in Nat
      /\ a = [pieces |-> P, cursor |-> a.cursor, turn |-> a.turn]
  BY DEF Tilings
<1>2. Len(usable) \in Nat \ {0}
  OBVIOUS
<1>3. usable[(a.turn % Len(usable)) + 1] \in V
  <2>1. a.turn % Len(usable) \in 0..Len(usable) - 1
    BY <1>1, <1>2, ModIn
  <2> QED BY <1>2, <2>1
<1>4. cursor \in [Range(Filler) -> Nat]
  <2>1. \A g \in Range(Filler) : (a.cursor[g] + 1) % Duration[g] \in Nat
    <3> TAKE g \in Range(Filler)
    <3>1. Duration[g] \in Nat \ {0} /\ a.cursor[g] + 1 \in Nat
      BY <1>1, FillerIs
    <3> DEFINE x == a.cursor[g] + 1
               d == Duration[g]
    <3> HIDE DEF x, d
    <3>2. x \in Nat /\ d \in Nat \ {0}
      BY <3>1 DEF x, d
    <3>3. x % d \in Nat
      BY <3>2, ModIn
    <3> QED BY <3>3 DEF x, d
  <2> HIDE DEF f
  <2> QED BY <1>1, <2>1
<1>5. CASE goesOn
  <2>2. n \in 1..n
    BY <1>1, <1>5
  <2> DEFINE Q == [P EXCEPT ![n].dur = @ + 1]
  <2>3. AddFiller(usable, a, t) = [pieces |-> Q, cursor |-> cursor, turn |-> a.turn]
    BY <1>5 DEF AddFiller
  <2>4. Q \in Seq(EntryType)
    <3>1. P[n] \in EntryType
      BY <1>1, <2>2
    <3>2. [P[n] EXCEPT !.dur = @ + 1] \in EntryType
      <4> HIDE DEF P, n
      <4> QED BY <3>1, Longer
    <3> DEFINE r == [P[n] EXCEPT !.dur = @ + 1]
    <3>3. Q = [P EXCEPT ![n] = r]
      BY <2>2
    <3> HIDE DEF r, Q, P
    <3>4. [P EXCEPT ![n] = r] \in Seq(EntryType)
      BY <1>1, <2>2, <3>2 DEF r
    <3> QED BY <3>3, <3>4
  <2> HIDE DEF Q, cursor
  <2> QED BY <1>1, <1>4, <2>3, <2>4 DEF Tilings
<1>6. CASE ~goesOn
  <2>1. f = usable[(a.turn % Len(usable)) + 1]
    BY <1>6
  <2> DEFINE x == Entry(t, f, a.cursor[f], 1, "filler")
  <2>2. AddFiller(usable, a, t) = [pieces |-> Append(P, x), cursor |-> cursor, turn |-> a.turn + 1]
    BY <1>6 DEF AddFiller
  <2>3. f \in Range(Filler) /\ f \in Schedulable
    BY <1>3, <2>1, FillerIs
  <2> HIDE DEF f, cursor
  <2>4. x \in EntryType
    BY <1>1, <2>3 DEF Entry, EntryType
  <2> HIDE DEF x
  <2> QED BY <1>1, <1>4, <2>2, <2>4 DEF Tilings
<1> QED BY <1>5, <1>6

LEMMA TileStep ==
    ASSUME NEW V \in SUBSET Range(Filler), NEW usable \in Seq(V), usable # <<>>, NEW a,
           NEW gaps \in SUBSET Nat, NEW t \in gaps, Tiled(a, t - 1, V, gaps)
    PROVE  Tiled(AddFiller(usable, a, t), t, V, gaps)
<1> DEFINE P == a.pieces
           n == Len(P)
           goesOn == P # <<>> /\ End(Last(P)) = t /\ a.cursor[Last(P).media] # 0
           b == AddFiller(usable, a, t)
<1>0. a \in Tilings /\ Placed(a.cursor) /\ t \in Nat
  BY DEF Tiled
<1>1. P \in Seq(EntryType) /\ a.cursor \in [Range(Filler) -> Nat] /\ a.turn \in Nat
      /\ a = [pieces |-> P, cursor |-> a.cursor, turn |-> a.turn]
      /\ n \in Nat
  BY <1>0 DEF Tilings
<1>2. b \in Tilings
  BY <1>0, AddFillerTyped
<1>3. \A i \in 1..n : /\ P[i] \in EntryType /\ P[i].kind = "filler" /\ P[i].media \in V
                      /\ P[i].offset + P[i].dur <= Duration[P[i].media]
                      /\ End(P[i]) <= t
                      /\ \A u \in Nat : P[i].start <= u /\ u < End(P[i]) => u \in gaps
  <2>1. \A i \in 1..n : P[i] \in EntryType
    BY <1>1
  <2>2. \A x : x <= (t - 1) + 1 <=> x <= t
    BY <1>0
  <2> QED BY <1>0, <2>1, <2>2 DEF Tiled
<1>4. \A i, j \in 1..n : i < j => End(P[i]) <= P[j].start
  BY DEF Tiled
<1>5. \A i \in 1..n : i = n =>
          a.cursor[P[i].media] = IF P[i].offset + P[i].dur = Duration[P[i].media] THEN 0
                                 ELSE P[i].offset + P[i].dur
  BY DEF Tiled
<1>6. \A u \in gaps : u <= t - 1 => \E i \in 1..n : P[i].start <= u /\ u < End(P[i])
  BY DEF Tiled
<1>7. \A f \in Range(Filler) : a.cursor[f] \in Nat /\ a.cursor[f] < Duration[f] /\ Duration[f] \in Nat \ {0}
  BY <1>0, FillerIs DEF Placed
<1>8. CASE goesOn
  <2>1. n \in 1..n /\ Last(P) = P[n]
    BY <1>1, <1>8 DEF Last
  <2> DEFINE f == P[n].media
             c == P[n].offset + P[n].dur
             cursor == [a.cursor EXCEPT ![f] = (@ + 1) % Duration[f]]
             r == [P[n] EXCEPT !.dur = @ + 1]
             Q == [P EXCEPT ![n] = r]
  <2>2. P[n] \in EntryType /\ f \in V /\ f \in Range(Filler) /\ End(P[n]) = t /\ a.cursor[f] # 0
    BY <1>3, <1>8, <2>1
  <2>3. b = [pieces |-> [P EXCEPT ![n].dur = @ + 1], cursor |-> cursor, turn |-> a.turn]
    BY <1>8, <2>1 DEF AddFiller
  <2>4. b.pieces = Q /\ b.cursor = cursor
    <3> HIDE DEF cursor
    <3>2. [P EXCEPT ![n].dur = @ + 1] = Q
      BY <2>1
    <3> QED BY <2>3, <3>2
  <2>5. c \in Nat /\ a.cursor[f] = c /\ c < Duration[f] /\ Duration[f] \in Nat \ {0}
    <3>1. c \in Nat /\ c <= Duration[f]
      <4>1. P[n].offset \in Nat /\ P[n].dur \in Nat /\ P[n].offset + P[n].dur <= Duration[P[n].media]
        BY <1>3, <2>1, <2>2, EntryFields
      <4> QED BY <4>1
    <3>2. a.cursor[f] = IF c = Duration[f] THEN 0 ELSE c
      BY <1>5, <2>1
    <3> HIDE DEF c, f
    <3> QED BY <1>7, <2>2, <3>1, <3>2
  <2>6. (c + 1) % Duration[f] = (IF c + 1 = Duration[f] THEN 0 ELSE c + 1) /\ (c + 1) % Duration[f] < Duration[f]
        /\ (c + 1) % Duration[f] \in Nat
    <3> HIDE DEF c, f
    <3> QED BY <2>5, Advance
  <2>7. cursor[f] = (c + 1) % Duration[f] /\ \A g \in Range(Filler) : g # f => cursor[g] = a.cursor[g]
        /\ cursor \in [Range(Filler) -> Nat]
    <3>1. cursor[f] = (c + 1) % Duration[f] /\ \A g \in Range(Filler) : g # f => cursor[g] = a.cursor[g]
      <4> HIDE DEF c, f
      <4> QED BY <1>1, <2>2, <2>5
    <3>2. cursor \in [Range(Filler) -> Nat]
      <4> HIDE DEF cursor
      <4> QED BY <1>2, <2>4 DEF Tilings
    <3> QED BY <3>1, <3>2
  <2>8. Placed(cursor)
    <3>1. \A g \in Range(Filler) : cursor[g] < Duration[g]
      <4> TAKE g \in Range(Filler)
      <4>1. CASE g = f
        <5> HIDE DEF cursor, c, f
        <5> QED BY <2>6, <2>7, <4>1
      <4>2. CASE g # f
        <5> HIDE DEF cursor, c, f
        <5> QED BY <1>7, <2>7, <4>2
      <4> QED BY <4>1, <4>2
    <3>2. cursor \in [Range(Filler) -> Nat]
      <4> HIDE DEF cursor
      <4> QED BY <1>2, <2>4 DEF Tilings
    <3> HIDE DEF cursor
    <3> QED BY <3>1, <3>2 DEF Placed
  <2>9. /\ r.start = P[n].start /\ r.dur = P[n].dur + 1 /\ r.offset = P[n].offset /\ r.media = f
        /\ r.kind = P[n].kind /\ End(r) = t + 1
    <3>1. /\ r.start = P[n].start /\ r.dur = P[n].dur + 1 /\ r.offset = P[n].offset /\ r.media = f
          /\ r.kind = P[n].kind
      <4> HIDE DEF P, n
      <4> QED BY <2>2, Longer
    <3>2. End(r) = P[n].start + (P[n].dur + 1) /\ End(P[n]) = P[n].start + P[n].dur
      BY <3>1 DEF End
    <3>3. P[n].start \in Nat /\ P[n].dur \in Nat
      BY <2>2, EntryFields
    <3> HIDE DEF r
    <3> QED BY <2>2, <3>1, <3>2, <3>3
  <2>9a. r.offset + r.dur = c + 1 /\ r.media = f
    <3>1. P[n].offset \in Nat /\ P[n].dur \in Nat
      BY <2>2, EntryFields
    <3>2. \A x, y \in Nat : x + (y + 1) = (x + y) + 1
      OBVIOUS
    <3>3. c = P[n].offset + P[n].dur
      OBVIOUS
    <3>4. r.offset = P[n].offset /\ r.dur = P[n].dur + 1 /\ r.media = f
      BY <2>9
    <3> HIDE DEF r, c, f
    <3> QED BY ONLY <3>1, <3>2, <3>3, <3>4
  <2>10. Len(Q) = n /\ Q[n] = r /\ \A i \in 1..n : i # n => Q[i] = P[i]
    <3> HIDE DEF r
    <3> QED BY <1>1, <2>1
  <2> HIDE DEF Q, r, cursor, b
  <2>11. \A i \in 1..n :
          /\ Q[i].kind = "filler" /\ Q[i].media \in V
          /\ Q[i].offset + Q[i].dur <= Duration[Q[i].media]
          /\ End(Q[i]) <= t + 1
          /\ \A u \in Nat : Q[i].start <= u /\ u < End(Q[i]) => u \in gaps
    <3> TAKE i \in 1..n
    <3>1. CASE i = n
      <4>1. P[n].kind = "filler" /\ (\A u \in Nat : P[n].start <= u /\ u < t => u \in gaps)
        BY <1>3, <2>1, <2>2
      <4>2. r.offset + r.dur <= Duration[r.media]
        <5>1. P[n].offset \in Nat /\ P[n].dur \in Nat
          BY <2>2, EntryFields
        <5>2. c + 1 <= Duration[f]
          <6> HIDE DEF c, f
          <6> QED BY <2>5
        <5>3. r.offset + r.dur = c + 1 /\ r.media = f
          BY <2>9a
        <5> QED BY <5>2, <5>3
      <4>3. \A u \in Nat : r.start <= u /\ u < t + 1 => u \in gaps
        BY <1>0, <2>9, <4>1
      <4> QED BY <1>0, <2>2, <2>9, <2>10, <3>1, <4>1, <4>2, <4>3
    <3>2. CASE i # n
      <4>1. Q[i] = P[i] /\ End(P[i]) \in Nat
        BY <1>3, <2>10, <3>2, EntryFields
      <4> QED BY <1>0, <1>3, <4>1
    <3> QED BY <3>1, <3>2
  <2>12. \A i, j \in 1..n : i < j => End(Q[i]) <= Q[j].start
    <3> TAKE i, j \in 1..n
    <3> HAVE i < j
    <3>1. i # n /\ Q[i] = P[i] /\ End(P[i]) <= P[j].start
      BY <1>1, <1>4, <2>10
    <3>2. Q[j].start = P[j].start
      BY <2>9, <2>10
    <3> QED BY <3>1, <3>2
  <2>13. cursor[Q[n].media] = IF Q[n].offset + Q[n].dur = Duration[Q[n].media] THEN 0
                              ELSE Q[n].offset + Q[n].dur
    <3>1. Q[n].offset + Q[n].dur = c + 1 /\ Q[n].media = f
      <4>1. Q[n] = r
        BY <2>10
      <4> HIDE DEF c, f
      <4> QED BY ONLY <2>9a, <4>1
    <3> HIDE DEF c, f
    <3> QED BY <2>6, <2>7, <3>1
  <2>14. ASSUME NEW u \in gaps, u <= t
         PROVE  \E i \in 1..n : Q[i].start <= u /\ u < End(Q[i])
    <3>1. CASE u = t
      <4>1. Q[n].start <= u /\ u < End(Q[n])
        <5>1. P[n].start < End(P[n]) /\ P[n].start \in Nat
          BY <2>2, EntryFields
        <5> QED BY <1>0, <2>2, <2>9, <2>10, <3>1, <5>1
      <4> QED BY <2>1, <4>1
    <3>2. CASE u # t
      <4>1. u \in Nat /\ u <= t - 1
        BY <1>0, <2>14, <3>2
      <4>2. PICK i \in 1..n : P[i].start <= u /\ u < End(P[i])
        BY <1>6, <4>1
      <4>3. Q[i].start = P[i].start /\ (i # n => Q[i] = P[i]) /\ (i = n => End(Q[i]) = t + 1)
        BY <2>9, <2>10
      <4> QED BY <1>0, <2>2, <4>1, <4>2, <4>3
    <3> QED BY <3>1, <3>2
  <2>15. b.pieces = Q /\ b.cursor = cursor /\ Len(b.pieces) = n
    BY <2>4, <2>10
  <2>16. \A i \in 1..n : i = n => cursor[Q[i].media] =
            IF Q[i].offset + Q[i].dur = Duration[Q[i].media] THEN 0 ELSE Q[i].offset + Q[i].dur
    BY <2>13
  <2>17. \A u \in gaps : u <= t => \E i \in 1..n : Q[i].start <= u /\ u < End(Q[i])
    BY <2>14
  <2> HIDE DEF n, f, c, P, goesOn
  <2>18. b \in Tilings
    BY <1>2 DEF b
  <2>19. Tiled(b, t, V, gaps)
    BY <2>8, <2>11, <2>12, <2>15, <2>16, <2>17, <2>18 DEF Tiled
  <2> QED BY <2>19 DEF b
<1>9. CASE ~goesOn
  <2> DEFINE f == usable[(a.turn % Len(usable)) + 1]
             cursor == [a.cursor EXCEPT ![f] = (@ + 1) % Duration[f]]
             r == Entry(t, f, a.cursor[f], 1, "filler")
             Q == Append(P, r)
  <2>1. f \in V /\ f \in Range(Filler) /\ f \in Schedulable
    <3>1. Len(usable) \in Nat \ {0}
      OBVIOUS
    <3>2. a.turn % Len(usable) \in 0..Len(usable) - 1
      BY <1>1, <3>1, ModIn
    <3>3. f \in V
      BY <3>1, <3>2
    <3> HIDE DEF f
    <3> QED BY <3>3, FillerIs
  <2>2. b = [pieces |-> Q, cursor |-> cursor, turn |-> a.turn + 1]
    BY <1>9 DEF AddFiller
  <2> HIDE DEF f
  <2> DEFINE c == a.cursor[f]
  <2>3. c \in Nat /\ c < Duration[f] /\ Duration[f] \in Nat \ {0}
    BY <1>7, <2>1
  <2>4. /\ r.start = t /\ r.dur = 1 /\ r.offset = c /\ r.media = f /\ r.kind = "filler" /\ End(r) = t + 1
    BY DEF Entry, End
  <2>5. (c + 1) % Duration[f] = (IF c + 1 = Duration[f] THEN 0 ELSE c + 1) /\ (c + 1) % Duration[f] < Duration[f]
        /\ (c + 1) % Duration[f] \in Nat
    <3> HIDE DEF c
    <3> QED BY <2>3, Advance
  <2>6. cursor[f] = (c + 1) % Duration[f] /\ \A g \in Range(Filler) : g # f => cursor[g] = a.cursor[g]
    BY <1>1, <2>1
  <2>7. cursor \in [Range(Filler) -> Nat]
    <3> HIDE DEF cursor
    <3> QED BY <1>2, <2>2 DEF Tilings
  <2>8. Placed(cursor)
    <3> HIDE DEF cursor, c, f
    <3> QED BY <1>7, <2>5, <2>6, <2>7 DEF Placed
  <2>9. Len(Q) = n + 1 /\ Q[n + 1] = r /\ \A i \in 1..n : Q[i] = P[i]
    <3> HIDE DEF r
    <3> QED BY <1>1
  <2>10. b.pieces = Q /\ b.cursor = cursor
    <3> HIDE DEF Q, cursor
    <3> QED BY <2>2
  <2> HIDE DEF r, Q, cursor, b
  <2>11. \A i \in 1..n + 1 : i \in 1..n \/ i = n + 1
    BY <1>1
  <2>12. \A i \in 1..n + 1 :
          /\ Q[i].kind = "filler" /\ Q[i].media \in V
          /\ Q[i].offset + Q[i].dur <= Duration[Q[i].media]
          /\ End(Q[i]) <= t + 1
          /\ \A u \in Nat : Q[i].start <= u /\ u < End(Q[i]) => u \in gaps
    <3> TAKE i \in 1..n + 1
    <3>1. CASE i = n + 1
      <4>1. c + 1 <= Duration[f]
        <5> HIDE DEF c
        <5> QED BY <2>3
      <4>2. \A u \in Nat : t <= u /\ u < t + 1 => u \in gaps
        BY <1>0
      <4> QED BY <1>0, <2>1, <2>4, <2>9, <3>1, <4>1, <4>2
    <3>2. CASE i \in 1..n
      <4>1. Q[i] = P[i] /\ End(P[i]) \in Nat
        BY <1>3, <2>9, <3>2, EntryFields
      <4> QED BY <1>0, <1>3, <3>2, <4>1
    <3> QED BY <2>11, <3>1, <3>2
  <2>13. \A i, j \in 1..n + 1 : i < j => End(Q[i]) <= Q[j].start
    <3> TAKE i, j \in 1..n + 1
    <3> HAVE i < j
    <3>1. i \in 1..n
      BY <1>1, <2>11
    <3>2. Q[i] = P[i] /\ End(P[i]) <= t
      BY <1>3, <2>9, <3>1
    <3>3. CASE j = n + 1
      BY <2>4, <2>9, <3>2, <3>3
    <3>4. CASE j \in 1..n
      BY <1>4, <2>9, <3>1, <3>4
    <3> QED BY <2>11, <3>3, <3>4
  <2>14. \A i \in 1..n + 1 : i = n + 1 => cursor[Q[i].media] =
            IF Q[i].offset + Q[i].dur = Duration[Q[i].media] THEN 0 ELSE Q[i].offset + Q[i].dur
    <3> HIDE DEF c
    <3> QED BY <2>4, <2>5, <2>6, <2>9
  <2>15. ASSUME NEW u \in gaps, u <= t
         PROVE  \E i \in 1..n + 1 : Q[i].start <= u /\ u < End(Q[i])
    <3>1. CASE u = t
      <4>1. n + 1 \in 1..n + 1 /\ Q[n + 1].start <= u /\ u < End(Q[n + 1])
        BY <1>0, <1>1, <2>4, <2>9, <3>1
      <4> QED BY <4>1
    <3>2. CASE u # t
      <4>1. u \in Nat /\ u <= t - 1
        BY <1>0, <2>15, <3>2
      <4>2. PICK i \in 1..n : P[i].start <= u /\ u < End(P[i])
        BY <1>6, <4>1
      <4>3. Q[i] = P[i] /\ i \in 1..n + 1
        BY <1>1, <2>9
      <4> QED BY <4>2, <4>3
    <3> QED BY <3>1, <3>2
  <2>16. \A u \in gaps : u <= t => \E i \in 1..n + 1 : Q[i].start <= u /\ u < End(Q[i])
    BY <2>15
  <2>17. b \in Tilings /\ Len(b.pieces) = n + 1
    BY <1>2, <2>9, <2>10 DEF b
  <2> HIDE DEF n, P, goesOn, c
  <2>18. Tiled(b, t, V, gaps)
    BY <2>8, <2>10, <2>12, <2>13, <2>14, <2>16, <2>17 DEF Tiled
  <2> QED BY <2>18 DEF b
<1> QED BY <1>8, <1>9

LEMMA TileIs ==
    ASSUME NEW V \in SUBSET Range(Filler), NEW usable \in Seq(V), NEW cursor, Placed(cursor),
           NEW gaps \in SUBSET Nat, IsFiniteSet(gaps)
    PROVE  LET P == Tile(usable, cursor, gaps)
           IN  /\ Batched(P)
               /\ \A e \in P : /\ e.kind = "filler" /\ e.media \in V
                               /\ \A u \in Nat : e.start <= u /\ u < End(e) => u \in gaps
               /\ usable # <<>> => \A u \in gaps : \E e \in P : e.start <= u /\ u < End(e)
<1> DEFINE first == Min(gaps)
           top == Max(gaps)
           init == [pieces |-> <<>>, cursor |-> cursor, turn |-> 0]
           acc == CHOOSE acc : acc = [t \in (first - 1)..top |->
                    IF t < first THEN init
                    ELSE IF t \in gaps THEN AddFiller(usable, acc[t - 1], t) ELSE acc[t - 1]]
           n == top - first + 1
           step == [k \in 1..n |-> [a \in Tilings |->
                      IF first - 1 + k \in gaps THEN AddFiller(usable, a, first - 1 + k) ELSE a]]
           P == Tile(usable, cursor, gaps)
<1>1. P = IF usable = <<>> \/ gaps = {} THEN {} ELSE Range(acc[top].pieces)
  BY DEF Tile
<1>2. CASE usable = <<>> \/ gaps = {}
  <2>1. P = {}
    BY <1>1, <1>2
  <2>2. Batched({})
    <3>1. IsFiniteSet({})
      BY FS_EmptySet
    <3> QED BY <3>1 DEF Batched
  <2> HIDE DEF P
  <2> QED BY <1>2, <2>1, <2>2 DEF P
<1>3. CASE usable # <<>> /\ gaps # {}
  <2>1. first \in gaps /\ top \in gaps /\ \A u \in gaps : first <= u /\ u <= top
    BY <1>3, MinIs, MaxIs
  <2> HIDE DEF first, top
  <2>2. first \in Nat /\ top \in Nat /\ first <= top /\ n \in Nat
    BY <2>1
  <2>3. \A k \in 1..n : first - 1 + k \in Nat
    BY <2>2
  <2>4. init \in Tilings
    BY DEF Tilings, Placed
  <2> HIDE DEF init
  <2>5. step \in [1..n -> [Tilings -> Tilings]]
    <3>1. \A k \in 1..n, a \in Tilings :
            (IF first - 1 + k \in gaps THEN AddFiller(usable, a, first - 1 + k) ELSE a) \in Tilings
      BY <1>3, <2>3, AddFillerTyped
    <3> HIDE DEF n
    <3> QED BY <3>1
  <2>6. PICK f : Runs(f, n, Tilings, init, step)
    <3> HIDE DEF step, n
    <3> QED BY <2>2, <2>4, <2>5, Recursion
  <2>7. f \in [0..n -> Tilings] /\ f = [k \in 0..n |-> IF k = 0 THEN init ELSE step[k][f[k - 1]]]
    BY <2>6 DEF Runs
  <2>8. \A k \in 1..n : f[k - 1] \in Tilings /\ step[k][f[k - 1]] =
            IF first - 1 + k \in gaps THEN AddFiller(usable, f[k - 1], first - 1 + k) ELSE f[k - 1]
    <3> TAKE k \in 1..n
    <3>1. k - 1 \in 0..n
      BY <2>2
    <3>2. f[k - 1] \in Tilings
      BY <2>7, <3>1
    <3> QED BY <3>2
  <2> HIDE DEF step
  <2>9. /\ f[0] = init
        /\ \A k \in 1..n : f[k] = IF first - 1 + k \in gaps THEN AddFiller(usable, f[k - 1], first - 1 + k)
                                  ELSE f[k - 1]
    <3>1. 0 \in 0..n
      BY <2>2
    <3>2. f[0] = init
      <4> HIDE DEF n
      <4> QED BY <2>7, <3>1
    <3>3. ASSUME NEW k \in 1..n
          PROVE  f[k] = IF first - 1 + k \in gaps THEN AddFiller(usable, f[k - 1], first - 1 + k) ELSE f[k - 1]
      <4>1. k \in 0..n /\ k # 0
        BY <2>2
      <4>2. f[k] = step[k][f[k - 1]]
        <5> HIDE DEF n
        <5> QED BY <2>7, <4>1
      <4> QED BY <2>8, <4>2
    <3> QED BY <3>2, <3>3
  <2> DEFINE g == [t \in (first - 1)..top |-> f[t - first + 1]]
  <2>10. \A t \in (first - 1)..top :
           g[t] = IF t < first THEN init
                  ELSE IF t \in gaps THEN AddFiller(usable, g[t - 1], t) ELSE g[t - 1]
    <3> TAKE t \in (first - 1)..top
    <3>1. CASE t < first
      <4>1. t - first + 1 = 0
        BY <2>2, <3>1
      <4> QED BY <2>9, <3>1, <4>1
    <3>2. CASE ~(t < first)
      <4> DEFINE k == t - first + 1
      <4>1. k \in 1..n /\ first - 1 + k = t /\ t - 1 \in (first - 1)..top /\ k - 1 = (t - 1) - first + 1
        BY <2>2, <3>2
      <4>2. g[t] = f[k]
        OBVIOUS
      <4>3. g[t - 1] = f[k - 1]
        BY <4>1
      <4>4. f[k] = IF first - 1 + k \in gaps THEN AddFiller(usable, f[k - 1], first - 1 + k) ELSE f[k - 1]
        <5> HIDE DEF n, k
        <5> QED BY <2>9, <4>1
      <4> HIDE DEF k, g, n
      <4> QED BY <3>2, <4>1, <4>2, <4>3, <4>4
    <3> QED BY <3>1, <3>2
  <2>11. g = [t \in (first - 1)..top |-> IF t < first THEN init
                  ELSE IF t \in gaps THEN AddFiller(usable, g[t - 1], t) ELSE g[t - 1]]
    <3>1. g = [t \in (first - 1)..top |-> g[t]]
      OBVIOUS
    <3> HIDE DEF g
    <3> QED BY <2>10, <3>1
  <2> HIDE DEF g
  <2>12. acc = [t \in (first - 1)..top |-> IF t < first THEN init
                  ELSE IF t \in gaps THEN AddFiller(usable, acc[t - 1], t) ELSE acc[t - 1]]
    BY <2>11
  <2> HIDE DEF acc
  <2> DEFINE T == {k \in 0..n : Tiled(acc[first - 1 + k], first - 1 + k, V, gaps)}
  <2>13. 0 \in T
    <3>1. first - 1 + 0 = first - 1 /\ first - 1 \in (first - 1)..top /\ first - 1 < first
      BY <2>2
    <3>2. acc[first - 1] = init
      BY <2>12, <3>1
    <3>3. Tiled(init, first - 1, V, gaps)
      <4>1. init.pieces = <<>> /\ init.cursor = cursor
        BY DEF init
      <4>2. \A u \in gaps : ~(u <= first - 1)
        BY <2>1, <2>2
      <4>3. Len(init.pieces) = 0 /\ 1..0 = {}
        BY <4>1
      <4> QED BY <2>4, <4>1, <4>2, <4>3 DEF Tiled
    <3>4. 0 \in 0..n
      BY <2>2
    <3> QED BY <3>1, <3>2, <3>3, <3>4
  <2>14. \A k \in 1..n : k - 1 \in T => k \in T
    <3> TAKE k \in 1..n
    <3> HAVE k - 1 \in T
    <3> DEFINE t == first - 1 + k
    <3>1. t \in Nat /\ t \in (first - 1)..top /\ ~(t < first) /\ first - 1 + (k - 1) = t - 1 /\ k \in 0..n
      BY <2>2
    <3>2. Tiled(acc[t - 1], t - 1, V, gaps)
      BY <3>1
    <3> HIDE DEF t
    <3>3. acc[t] = IF t \in gaps THEN AddFiller(usable, acc[t - 1], t) ELSE acc[t - 1]
      BY <2>12, <3>1
    <3>4. Tiled(acc[t], t, V, gaps)
      <4>1. CASE t \in gaps
        BY <1>3, <3>2, <3>3, <4>1, TileStep
      <4>2. CASE t \notin gaps
        <5> DEFINE a == acc[t - 1]
        <5>0. acc[t] = a /\ Tiled(a, t - 1, V, gaps)
          BY <3>2, <3>3, <4>2
        <5> HIDE DEF a
        <5>1. \A i \in 1..Len(a.pieces) : End(a.pieces[i]) \in Nat
          <6>1. a.pieces \in Seq(EntryType)
            BY <5>0 DEF Tiled, Tilings
          <6> QED BY <6>1, EntryFields
        <5>2. \A i \in 1..Len(a.pieces) : End(a.pieces[i]) <= (t - 1) + 1 => End(a.pieces[i]) <= t + 1
          BY <3>1, <5>1
        <5>3. \A u \in gaps : u <= t => u <= t - 1
          BY <3>1, <4>2
        <5>4. Tiled(a, t, V, gaps)
          BY <5>0, <5>2, <5>3 DEF Tiled
        <5> QED BY <5>0, <5>4
      <4> QED BY <4>1, <4>2
    <3> QED BY <3>1, <3>4 DEF t
  <2>15. n \in T
    <3> HIDE DEF T
    <3>1. \A k \in 0..n : k \in T
      <4> HIDE DEF n
      <4> QED BY <2>2, <2>13, <2>14, Climb
    <3> QED BY <2>2, <3>1
  <2> DEFINE a == acc[top]
             Q == a.pieces
  <2>16. Tiled(a, top, V, gaps)
    <3>1. first - 1 + n = top
      BY <2>2
    <3> QED BY <2>15, <3>1
  <2>17. P = Range(Q)
    BY <1>1, <1>3
  <2> HIDE DEF a, P, n, T
  <2>18. Q \in Seq(EntryType)
    BY <2>16 DEF Tiled, Tilings
  <2>19. /\ \A i \in 1..Len(Q) :
              /\ Q[i].kind = "filler" /\ Q[i].media \in V
              /\ Q[i].offset + Q[i].dur <= Duration[Q[i].media]
              /\ \A u \in Nat : Q[i].start <= u /\ u < End(Q[i]) => u \in gaps
         /\ \A i, j \in 1..Len(Q) : i < j => End(Q[i]) <= Q[j].start
         /\ \A u \in gaps : u <= top => \E i \in 1..Len(Q) : Q[i].start <= u /\ u < End(Q[i])
    BY <2>16 DEF Tiled
  <2> HIDE DEF Q
  <2>20. DOMAIN Q = 1..Len(Q) /\ Len(Q) \in Nat /\ Q \in [1..Len(Q) -> EntryType]
    BY <2>18
  <2>21. Range(Q) = {Q[i] : i \in 1..Len(Q)}
    BY <2>20 DEF Range
  <2>22. Batched({Q[i] : i \in 1..Len(Q)})
    <3> DEFINE K == 1..Len(Q)
    <3>1. IsFiniteSet(K) /\ K \subseteq Nat
      BY <2>20, FS_Interval
    <3>2. Q \in [K -> EntryType] /\ (\A j, k \in K : j < k => End(Q[j]) <= Q[k].start)
          /\ \A k \in K : Q[k].offset + Q[k].dur <= Duration[Q[k].media]
      BY <2>19, <2>20
    <3> HIDE DEF K
    <3>3. Batched({Q[i] : i \in K})
      BY <3>1, <3>2, FamilyBatched
    <3> QED BY <3>3 DEF K
  <2>23. P = {Q[i] : i \in 1..Len(Q)}
    BY <2>17, <2>21
  <2>24. \A e \in P : /\ e.kind = "filler" /\ e.media \in V
                      /\ \A u \in Nat : e.start <= u /\ u < End(e) => u \in gaps
    BY <2>19, <2>23
  <2>25. \A u \in gaps : \E e \in P : e.start <= u /\ u < End(e)
    BY <2>1, <2>19, <2>23
  <2>26. Batched(P)
    BY <2>22, <2>23
  <2> QED BY <2>24, <2>25, <2>26 DEF P
<1> QED BY <1>2, <1>3

LEMMA BatchEnds ==
    ASSUME NEW B, Batched(B), B # {}
    PROVE  LET m == Max({End(e) : e \in B})
           IN  /\ m \in Nat /\ TailEnd(B) = AlignToSlot(m)
               /\ \E e \in B : End(e) = m
               /\ \A e \in B : End(e) <= m /\ End(e) <= TailEnd(B)
               /\ TailEnd(B) \in Nat /\ TailEnd(B) >= m
<1> DEFINE f == [e \in B |-> End(e)]
           S == {f[e] : e \in B}
           m == Max({End(e) : e \in B})
<1>1. S = {End(e) : e \in B}
  OBVIOUS
<1>2. IsFiniteSet(S)
  <2>1. IsFiniteSet(B)
    BY DEF Batched
  <2> HIDE DEF f
  <2> QED BY <2>1, ImageFinite
<1>3. S \subseteq Nat /\ S # {}
  BY <1>1, EntryFields DEF Batched
<1> HIDE DEF S
<1>4. Max(S) \in S /\ \A y \in S : y <= Max(S)
  BY <1>2, <1>3, MaxIs
<1>5. m = Max(S)
  BY <1>1
<1> HIDE DEF m
<1>6. m \in Nat /\ (\E e \in B : End(e) = m) /\ \A e \in B : End(e) <= m /\ End(e) \in Nat
  BY <1>1, <1>3, <1>4, <1>5
<1>7. AlignToSlot(m) \in Nat /\ AlignToSlot(m) >= m
  BY <1>6, AlignIs
<1>8. TailEnd(B) = AlignToSlot(m)
  BY DEF TailEnd, m
<1>9. \A e \in B : End(e) <= TailEnd(B)
  BY <1>6, <1>7, <1>8
<1> QED BY <1>6, <1>7, <1>8, <1>9 DEF m

LEMMA WithFillerBatched ==
    ASSUME NEW ch, NEW cursor, Placed(cursor), NEW start \in Nat, NEW B, Batched(B),
           \A e \in B : e.start >= start
    PROVE  LET W == WithFiller(ch, cursor, start, B)
           IN  /\ Batched(W) /\ B \subseteq W
               /\ \A e \in W : e.start >= start /\ End(e) <= TailEnd(B)
               /\ \A e \in W : e \in B \/ e.kind = "filler"
               /\ B # {} /\ UsableFiller(ch) # <<>> =>
                    \A u \in start..(TailEnd(B) - 1) : \E e \in W : e.start <= u /\ u < End(e)
<1> DEFINE W == WithFiller(ch, cursor, start, B)
           gaps == {t \in start..(TailEnd(B) - 1) : \A e \in B : t < e.start \/ t >= End(e)}
           F == Tile(UsableFiller(ch), cursor, gaps)
<1>1. W = IF B = {} THEN {} ELSE B \cup F
  BY DEF WithFiller
<1>2. CASE B = {}
  BY <1>1, <1>2
<1>3. CASE B # {}
  <2>1. TailEnd(B) \in Nat /\ \A e \in B : End(e) <= TailEnd(B)
    BY <1>3, BatchEnds
  <2>2. gaps \in SUBSET Nat /\ IsFiniteSet(gaps)
    <3>1. IsFiniteSet(start..(TailEnd(B) - 1))
      BY <2>1, FS_Interval
    <3>2. gaps \subseteq start..(TailEnd(B) - 1) /\ gaps \in SUBSET Nat
      BY <2>1
    <3> HIDE DEF gaps
    <3> QED BY <3>1, <3>2, FS_Subset
  <2>3. UsableFiller(ch) \in Seq(Range(Filler))
    BY UsableIs
  <2>4. /\ Batched(F)
        /\ \A e \in F : /\ e.kind = "filler"
                        /\ \A u \in Nat : e.start <= u /\ u < End(e) => u \in gaps
        /\ UsableFiller(ch) # <<>> => \A u \in gaps : \E e \in F : e.start <= u /\ u < End(e)
    <3> HIDE DEF gaps
    <3> QED BY <2>2, <2>3, TileIs
  <2> HIDE DEF F
  <2>5. \A e \in F : e.start >= start /\ End(e) <= TailEnd(B)
    <3> TAKE e \in F
    <3>1. e.start \in Nat /\ End(e) \in Nat /\ e.start < End(e)
      BY <2>4, EntryFields DEF Batched
    <3>2. e.start \in gaps
      BY <2>4, <3>1
    <3>3. End(e) - 1 \in gaps
      BY <2>4, <3>1
    <3>4. End(e) - 1 <= TailEnd(B) - 1
      BY <2>1, <3>1, <3>3
    <3> QED BY <2>1, <3>1, <3>2, <3>4
  <2>6. \A d \in B, e \in F : End(d) <= e.start \/ End(e) <= d.start
    <3> SUFFICES ASSUME NEW d \in B, NEW e \in F, ~(End(d) <= e.start), ~(End(e) <= d.start) PROVE FALSE
      OBVIOUS
    <3>1. /\ e.start \in Nat /\ End(e) \in Nat /\ e.start < End(e)
          /\ d.start \in Nat /\ End(d) \in Nat /\ d.start < End(d)
      BY <2>4, EntryFields DEF Batched
    <3>2. CASE e.start >= d.start
      <4>1. e.start \in gaps
        BY <2>4, <3>1
      <4> QED BY <3>1, <3>2, <4>1
    <3>3. CASE e.start < d.start
      <4>1. d.start \in gaps
        BY <2>4, <3>1, <3>3
      <4> QED BY <3>1, <4>1
    <3> QED BY <3>1, <3>2, <3>3
  <2>7. Batched(B \cup F)
    <3>1. IsFiniteSet(B \cup F)
      BY <2>4, FS_Union DEF Batched
    <3> QED BY <2>4, <2>6, <3>1 DEF Batched
  <2>8. ASSUME UsableFiller(ch) # <<>>, NEW u \in start..(TailEnd(B) - 1)
        PROVE  \E e \in B \cup F : e.start <= u /\ u < End(e)
    <3>1. CASE u \in gaps
      <4> HIDE DEF gaps
      <4> QED BY <2>4, <2>8, <3>1
    <3>2. CASE u \notin gaps
      <4>1. PICK e \in B : ~(u < e.start \/ u >= End(e))
        BY <2>8, <3>2
      <4>2. e.start \in Nat /\ End(e) \in Nat /\ u \in Nat
        BY <2>1, <2>8, EntryFields DEF Batched
      <4> QED BY <4>1, <4>2
    <3> QED BY <3>1, <3>2
  <2>9. W = B \cup F
    BY <1>1, <1>3
  <2> HIDE DEF W, gaps
  <2>10. \A e \in W : e \in B \/ e.kind = "filler"
    BY <2>4, <2>9
  <2>11. \A e \in W : e.start >= start /\ End(e) <= TailEnd(B)
    BY <2>1, <2>5, <2>9
  <2>12. Batched(W) /\ B \subseteq W
    BY <2>7, <2>9
  <2> QED BY <2>8, <2>9, <2>10, <2>11, <2>12 DEF W
<1> QED BY <1>2, <1>3

-----------------------------------------------------------------------------
(* An extension.                                                           *)

Channels(ch) == ch.lineup \in Seq(Media) /\ IsFiniteSet(ch.held)

LEMMA BatchIs ==
    ASSUME NEW ch, Channels(ch), ch.lineup # <<>>, NEW rs, Rows(rs), NEW start \in Nat, NEW limit \in Nat,
           start < limit, NEW last, NEW leading
    PROVE  /\ Batched(Batch(ch, rs, start, limit, last, leading))
           /\ \A e \in Batch(ch, rs, start, limit, last, leading) : e.start >= start
<1> DEFINE B == Batch(ch, rs, start, limit, last, leading)
           lead == IF leading /\ rs = <<>> THEN BestFit(ch.lineup, AlignToSlot(start) - start) ELSE NoMedia
           O == OnBoundaries(ch, start, limit, last, lead)
<1>0. ch.lineup \in Seq(Media)
  BY DEF Channels
<1>1. CASE ch.slotGrid
  <2>1. B = WithFiller(ch, Cursors(rs, start), start, O)
    BY <1>1 DEF Batch, SlotGrid
  <2>2. lead = NoMedia \/ (lead \in Media /\ Duration[lead] <= AlignToSlot(start) - start)
    <3>1. AlignToSlot(start) - start \in Nat
      BY AlignIs
    <3> DEFINE gap == AlignToSlot(start) - start
    <3>2. gap \in Nat
      BY <3>1
    <3> HIDE DEF gap
    <3>3. BestFit(ch.lineup, gap) = NoMedia
          \/ (BestFit(ch.lineup, gap) \in Media /\ Duration[BestFit(ch.lineup, gap)] <= gap)
      BY <1>0, <3>2, BestFitIs
    <3> QED BY <3>3 DEF gap
  <2> HIDE DEF lead
  <2>3. Batched(O) /\ \A e \in O : e.start >= start
    BY <1>0, <2>2, OnBoundariesBatched
  <2> HIDE DEF O
  <2>4. Placed(Cursors(rs, start))
    BY CursorsPlaced
  <2>5. Batched(WithFiller(ch, Cursors(rs, start), start, O))
        /\ \A e \in WithFiller(ch, Cursors(rs, start), start, O) : e.start >= start
    BY <2>3, <2>4, WithFillerBatched
  <2> QED BY <2>1, <2>5
<1>2. CASE ~ch.slotGrid
  <2> DEFINE s == Rotation(ch.lineup, last)
             r == ReadyRun(s, ch.ready)
  <2>1. s \in Seq(Media)
    BY <1>0, RotationIs
  <2>2. r \in Seq(Media)
    <3> HIDE DEF s
    <3> QED BY <2>1, ReadyRunIs
  <2>3. B = IF ch.eager /\ ~(Range(ch.lineup) \subseteq ch.ready) THEN BackToBack(r, start, limit, 1)
            ELSE BackToBack(s, start, limit, Horizon)
    BY <1>2 DEF Batch
  <2> HIDE DEF s, r
  <2>4. s \in Seq(Schedulable) /\ r \in Seq(Schedulable) /\ Horizon \in Nat /\ 1 \in Nat
    BY <2>1, <2>2, BuilderAssumption DEF Schedulable
  <2>5. /\ Batched(BackToBack(r, start, limit, 1)) /\ \A e \in BackToBack(r, start, limit, 1) : e.start >= start
        /\ Batched(BackToBack(s, start, limit, Horizon))
        /\ \A e \in BackToBack(s, start, limit, Horizon) : e.start >= start
    BY <2>4, BackToBackBatched
  <2> QED BY <2>3, <2>5
<1> QED BY <1>1, <1>2

LEMMA EmptyIs ==
    ASSUME NEW rs, Rows(rs)
    PROVE  rs = <<>> <=> DOMAIN rs = {}
<1>1. rs = <<>> => DOMAIN rs = {}
  OBVIOUS
<1>2. ASSUME DOMAIN rs = {} PROVE rs = <<>>
  <2>1. rs = [i \in DOMAIN rs |-> rs[i]]
    BY DEF Rows
  <2>2. <<>> = [i \in {} |-> rs[i]]
    OBVIOUS
  <2> QED BY <1>2, <2>1, <2>2
<1> QED BY <1>1, <1>2

LEMMA LastEnds ==
    ASSUME NEW rs, Good(rs), DOMAIN rs # {}
    PROVE  /\ LastEntry(rs) \in DOMAIN rs
           /\ \A i \in DOMAIN rs : End(rs[i]) <= End(rs[LastEntry(rs)])
<1> DEFINE l == LastEntry(rs)
<1>1. Rows(rs) /\ Apart(rs)
  BY GoodIs
<1>2. l \in DOMAIN rs /\ l = Latest(rs, DOMAIN rs)
  BY WalkMeetsAll
<1>3. \A i \in DOMAIN rs : rs[i].start <= rs[l].start
  BY <1>1, <1>2, LatestIs
<1> HIDE DEF l
<1>4. ASSUME NEW i \in DOMAIN rs PROVE End(rs[i]) <= End(rs[l])
  <2>1. /\ rs[i].start \in Nat /\ rs[l].start \in Nat /\ End(rs[i]) \in Nat /\ End(rs[l]) \in Nat
        /\ rs[l].start < End(rs[l])
    BY <1>1, <1>2, RowFields
  <2>2. CASE i = l
    BY <2>1, <2>2
  <2>3. CASE i # l
    <3>1. rs[i].start # rs[l].start
      BY <1>1, <1>2, <2>3, DistinctStarts
    <3>2. End(rs[i]) <= rs[l].start
      BY <1>1, <1>2, <1>3, <2>1, <3>1, EndsBefore
    <3> QED BY <2>1, <3>2
  <2> QED BY <2>2, <2>3
<1> QED BY <1>2, <1>4 DEF l

LEMMA NextStartIs ==
    ASSUME NEW rs, Good(rs), NEW clock \in Nat
    PROVE  /\ NextStart(rs, clock) \in Nat /\ NextStart(rs, clock) >= clock
           /\ \A i \in DOMAIN rs : End(rs[i]) <= NextStart(rs, clock)
<1>1. Rows(rs)
  BY GoodIs
<1>2. CASE rs = <<>>
  BY <1>2 DEF NextStart
<1>3. CASE rs # <<>>
  <2> DEFINE l == LastEntry(rs)
  <2>1. l \in DOMAIN rs /\ \A i \in DOMAIN rs : End(rs[i]) <= End(rs[l])
    BY <1>1, <1>3, EmptyIs, LastEnds
  <2>2. NextStart(rs, clock) = IF End(rs[l]) < clock THEN clock ELSE End(rs[l])
    BY <1>3 DEF NextStart
  <2> HIDE DEF l
  <2>3. \A i \in DOMAIN rs : End(rs[i]) \in Nat
    BY <1>1, RowFields
  <2> QED BY <2>1, <2>2, <2>3
<1> QED BY <1>2, <1>3

\* A batch behind the tail.
LEMMA Appended ==
    ASSUME NEW ch, Channels(ch), NEW rs, Good(rs), NEW p \in Nat, \A i \in DOMAIN rs : End(rs[i]) <= p,
           NEW B, Batched(B), \A e \in B : e.start >= p, NEW last, last = LastBefore(rs, p)
    PROVE  LET ts == Insert(ch, rs, B, last)
           IN  Good(ts) /\ Grows(ts, rs) /\ Inserts(ts, rs, B, last)
<1> DEFINE ts == Insert(ch, rs, B, last)
<1>1. Rows(rs) /\ Apart(rs) /\ Within(rs) /\ Sound(rs, NoEntry)
  BY GoodIs DEF Good
<1>2. \A i \in DOMAIN rs : rs[i].start < p
  <2> TAKE i \in DOMAIN rs
  <2>1. rs[i].start \in Nat /\ End(rs[i]) \in Nat /\ rs[i].start < End(rs[i])
    BY <1>1, RowFields
  <2> QED BY <2>1
<1>3. last \in Ids \cup {NoEntry}
  <2>1. last # NoEntry => last \in DOMAIN rs
    BY <1>1, LastBeforeIs
  <2> QED BY <1>1, <2>1 DEF Rows
<1>4. Inserts(ts, rs, B, last)
  BY <1>1, <1>3, Inserted DEF Channels
<1>5. FirstFrom(rs, p) = NoEntry
  BY <1>1, <1>2, FirstFromIs
<1> HIDE DEF ts
<1>6. \A i \in DOMAIN rs, e \in B : rs[i].start >= p => End(e) <= rs[i].start
  <2>1. \A i \in DOMAIN rs : rs[i].start \in Nat
    BY <1>1, RowFields
  <2> QED BY <1>2, <2>1
<1>7. Sound(ts, NoEntry)
  BY <1>1, <1>4, <1>5, <1>6, InsertSound
<1>8. Grows(ts, rs)
  BY <1>4, InsertsGrows
<1> QED BY <1>4, <1>7, <1>8 DEF Good, ts

LEMMA LastIsBefore ==
    ASSUME NEW rs, Good(rs), NEW p \in Nat, \A i \in DOMAIN rs : End(rs[i]) <= p
    PROVE  LastEntry(rs) = LastBefore(rs, p)
<1>1. Rows(rs)
  BY GoodIs
<1>2. \A i \in DOMAIN rs : rs[i].start < p
  <2> TAKE i \in DOMAIN rs
  <2>1. rs[i].start \in Nat /\ End(rs[i]) \in Nat /\ rs[i].start < End(rs[i])
    BY <1>1, RowFields
  <2> QED BY <2>1
<1>3. {i \in DOMAIN rs : rs[i].start < p} = DOMAIN rs
  BY <1>2
<1>4. LastBefore(rs, p) = Latest(rs, DOMAIN rs)
  BY <1>3 DEF LastBefore
<1> QED BY <1>4, WalkMeetsAll, NoLatest

LEMMA OutcomeIs ==
    ASSUME NEW o, NEW rs PROVE Outcome(o, rs).rows = rs /\ Outcome(o, rs).outcome = o
BY DEF Outcome

\* Good rows that hold those of rs.
Onward(ts, rs) == Good(ts) /\ Grows(ts, rs)

LEMMA ExtendFromGood ==
    ASSUME NEW ch, Channels(ch), NEW rs, Good(rs), NEW start \in Nat, NEW limit \in Nat,
           \A i \in DOMAIN rs : End(rs[i]) <= start, NEW last, NEW leading
    PROVE  Onward(ExtendFrom(ch, rs, start, limit, last, leading).rows, rs)
<1>1. Onward(rs, rs)
  BY GrowsSelf DEF Onward
<1> DEFINE B == Batch(ch, rs, start, limit, last, leading)
           ts == Insert(ch, rs, B, LastEntry(rs))
           X == ExtendFrom(ch, rs, start, limit, last, leading)
<1>2. \/ X.rows = rs
      \/ start < limit /\ ch.lineup # <<>> /\ X.rows = ts
  BY OutcomeIs DEF ExtendFrom
<1>3. ASSUME start < limit, ch.lineup # <<>> PROVE Onward(ts, rs)
  <2>1. Rows(rs)
    BY GoodIs
  <2>2. Batched(B) /\ \A e \in B : e.start >= start
    BY <1>3, <2>1, BatchIs
  <2> HIDE DEF B
  <2> DEFINE l == LastEntry(rs)
  <2>3. l = LastBefore(rs, start)
    BY LastIsBefore
  <2> HIDE DEF l
  <2>4. Onward(Insert(ch, rs, B, l), rs)
    BY <2>2, <2>3, Appended DEF Onward
  <2> QED BY <2>4 DEF l
<1> HIDE DEF X, ts
<1>4. Onward(X.rows, rs)
  BY <1>1, <1>2, <1>3
<1> QED BY <1>4 DEF X

\* Good rows that hold those of rs, and filler ahead of them where nothing was on.
Heals(ch, ts, rs, clock) ==
    /\ Onward(ts, rs)
    /\ \A i \in DOMAIN ts : \E j \in DOMAIN rs : End(ts[i]) <= End(rs[j])
    /\ \A i \in DOMAIN ts \ DOMAIN rs : ts[i].kind = "filler"
    /\ UsableFiller(ch) # <<>> /\ (\E i \in DOMAIN rs : End(rs[i]) > clock) => Covered(ts, clock)

LEMMA BackfilledHeals ==
    ASSUME NEW ch, Channels(ch), NEW rs, Good(rs), NEW clock \in Nat
    PROVE  Heals(ch, Backfilled(ch, rs, clock), rs, clock)
<1> DEFINE S == {i \in DOMAIN rs : End(rs[i]) > clock}
           head == Earliest(rs, S)
           usable == UsableFiller(ch)
<1>0. Onward(rs, rs)
  BY GrowsSelf DEF Onward
<1>1. CASE head = NoEntry \/ usable = <<>> \/ rs[head].start <= clock
  <2>1. Backfilled(ch, rs, clock) = rs
    BY <1>1 DEF Backfilled, BackfilledTo
  <2>2. Rows(rs) /\ S \in SUBSET DOMAIN rs
    BY GoodIs
  <2>3. \A i \in DOMAIN rs : /\ i # NoEntry /\ End(rs[i]) \in Nat /\ End(rs[i]) <= End(rs[i])
    BY <2>2, RowFields
  <2>4. S # {} => head \in S
    <3> HIDE DEF S
    <3> QED BY <2>2, EarliestIs
  <2> HIDE DEF head
  <2>5. usable # <<>> /\ (\E i \in DOMAIN rs : End(rs[i]) > clock) => Covered(rs, clock)
    BY <1>1, <2>3, <2>4 DEF Covered
  <2>6. \A i \in DOMAIN rs : \E j \in DOMAIN rs : End(rs[i]) <= End(rs[j])
    BY <2>3
  <2>7. DOMAIN rs \ DOMAIN rs = {}
    OBVIOUS
  <2>8. Heals(ch, rs, rs, clock)
    BY <1>0, <2>5, <2>6, <2>7 DEF Heals
  <2> QED BY <2>1, <2>8
<1>2. CASE ~(head = NoEntry \/ usable = <<>> \/ rs[head].start <= clock)
  <2> DEFINE gaps == clock..(rs[head].start - 1)
             B == Tile(usable, Cursors(rs, clock), gaps)
             first == rs[head].anchor
             ts == Insert(ch, rs, B, first)
             last == Latest(ts, DOMAIN ts \ DOMAIN rs)
  <2>1. Backfilled(ch, rs, clock) = [ts EXCEPT ![head].anchor = last]
    BY <1>2 DEF Backfilled, BackfilledTo, SplicedAhead
  <2>2. Rows(rs) /\ Apart(rs) /\ Within(rs) /\ \A i \in DOMAIN rs : Behind(rs, i)
    BY GoodIs
  <2>3. head \in S /\ \A j \in S : rs[head].start <= rs[j].start
    <3>1. S # {}
      BY <1>2, NoLatest
    <3>2. S \in SUBSET DOMAIN rs
      OBVIOUS
    <3> HIDE DEF S
    <3> QED BY <2>2, <3>1, <3>2, EarliestIs
  <2> HIDE DEF head
  <2>4. \A i \in DOMAIN rs : /\ rs[i].start \in Nat /\ End(rs[i]) \in Nat /\ rs[i].start < End(rs[i])
                             /\ rs[i].anchor \in Ids \cup {NoEntry} /\ i # NoEntry
    BY <2>2, RowFields
  <2>5. head \in DOMAIN rs /\ rs[head].start \in Nat /\ rs[head].start > clock
    BY <1>2, <2>3, <2>4
  <2>6. \A i \in DOMAIN rs : /\ rs[i].start < clock => End(rs[i]) <= clock
                             /\ rs[i].start >= clock => rs[head].start <= rs[i].start
                             /\ rs[i].start < rs[head].start <=> rs[i].start < clock
    <3> TAKE i \in DOMAIN rs
    <3>1. rs[i].start < rs[head].start => End(rs[i]) <= clock
      BY <2>3, <2>4, <2>5
    <3> QED BY <2>4, <2>5, <3>1
  <2>7. head = FirstFrom(rs, clock)
    BY <2>2, <2>4, <2>5, <2>6, FirstFromIs
  <2>8. first = LastBefore(rs, clock)
    <3>1. first = LastBefore(rs, rs[head].start)
      BY <2>2, <2>5, BehindIs
    <3>2. {i \in DOMAIN rs : rs[i].start < rs[head].start} = {i \in DOMAIN rs : rs[i].start < clock}
      BY <2>6
    <3> QED BY <3>1, <3>2 DEF LastBefore
  <2>9. gaps \in SUBSET Nat /\ IsFiniteSet(gaps) /\ clock \in gaps
    <3>1. IsFiniteSet(gaps)
      <4> DEFINE top == rs[head].start - 1
      <4>1. top \in Int /\ clock \in Int
        BY <2>5
      <4>2. gaps = clock..top
        OBVIOUS
      <4> HIDE DEF top, gaps
      <4> QED BY ONLY <4>1, <4>2, FS_Interval
    <3> QED BY <2>5, <3>1
  <2>10. \A u \in gaps : clock <= u /\ u <= rs[head].start - 1
    OBVIOUS
  <2> HIDE DEF gaps
  <2>11. usable \in Seq(Range(Filler)) /\ usable # <<>> /\ Placed(Cursors(rs, clock))
    BY <1>2, <2>2, UsableIs, CursorsPlaced
  <2> HIDE DEF usable
  <2>12. /\ Batched(B)
         /\ \A e \in B : e.kind = "filler" /\ \A u \in Nat : e.start <= u /\ u < End(e) => u \in gaps
         /\ \A u \in gaps : \E e \in B : e.start <= u /\ u < End(e)
    BY <2>9, <2>11, TileIs
  <2> HIDE DEF B
  <2>13. B # {}
    BY <2>9, <2>12
  <2>14. \A e \in B : e.start >= clock /\ End(e) <= rs[head].start
    <3> TAKE e \in B
    <3>1. e.start \in Nat /\ End(e) \in Nat /\ e.start < End(e)
      BY <2>12, EntryFields DEF Batched
    <3>2. e.start \in gaps /\ End(e) - 1 \in gaps
      BY <2>12, <3>1
    <3>3. End(e) - 1 <= rs[head].start - 1
      BY <2>10, <3>2
    <3> QED BY <2>5, <2>10, <3>1, <3>2, <3>3
  <2>15. first \in Ids \cup {NoEntry}
    BY <2>4, <2>5
  <2> HIDE DEF first
  <2>16. Inserts(ts, rs, B, first)
    BY <2>2, <2>12, <2>15, Inserted DEF Channels
  <2>17. Sound(rs, head)
    BY <2>2, LinkedIs DEF Sound
  <2> HIDE DEF ts
  <2>18. last = Latest(ts, DOMAIN ts \ DOMAIN rs)
    OBVIOUS
  <2> HIDE DEF last
  <2> DEFINE us == [ts EXCEPT ![head].anchor = last]
  <2>19. Good(us) /\ Grows(us, rs) /\ DOMAIN us = DOMAIN ts
    BY <2>5, <2>6, <2>7, <2>8, <2>12, <2>13, <2>14, <2>16, <2>17, <2>18, SpliceGood
  <2>20. \A i \in DOMAIN ts \ DOMAIN rs : us[i] = ts[i]
    BY <2>5
  <2> HIDE DEF us
  <2>21. ASSUME NEW i \in DOMAIN us \ DOMAIN rs
         PROVE  us[i].kind = "filler" /\ End(us[i]) <= End(rs[head])
    <3>1. i \in DOMAIN ts \ DOMAIN rs /\ us[i] = ts[i]
      BY <2>19, <2>20
    <3>2. PICK e \in B : ts[i] = Row(e, ts[i].anchor)
      BY <2>16, <3>1 DEF Inserts
    <3>3. us[i].kind = e.kind /\ End(us[i]) = End(e)
      BY <3>1, <3>2, RowOfEntry
    <3>4. End(e) \in Nat /\ End(e) <= rs[head].start
      BY <2>12, <2>14, EntryFields DEF Batched
    <3> QED BY <2>4, <2>5, <2>12, <3>3, <3>4
  <2>22. \A i \in DOMAIN us : \E j \in DOMAIN rs : End(us[i]) <= End(rs[j])
    <3> TAKE i \in DOMAIN us
    <3>1. CASE i \in DOMAIN rs
      <4>1. End(us[i]) = End(rs[i])
        BY <2>19, <3>1 DEF Grows, End
      <4> QED BY <2>4, <3>1, <4>1
    <3>2. CASE i \notin DOMAIN rs
      BY <2>5, <2>21, <3>2
    <3> QED BY <3>1, <3>2
  <2>23. Covered(us, clock)
    <3>1. PICK e \in B : e.start <= clock /\ clock < End(e)
      BY <2>9, <2>12
    <3>2. PICK i \in DOMAIN ts \ DOMAIN rs : ts[i] = Row(e, ts[i].anchor)
      BY <2>16 DEF Inserts
    <3>3. i \in DOMAIN us /\ us[i].start = e.start /\ End(us[i]) = End(e)
      BY <2>19, <2>20, <3>2, RowOfEntry
    <3> QED BY <3>1, <3>3 DEF Covered
  <2>24. Heals(ch, us, rs, clock)
    BY <2>19, <2>21, <2>22, <2>23 DEF Heals, Onward
  <2> QED BY <2>1, <2>24 DEF us
<1> QED BY <1>1, <1>2

LEMMA BackfilledGood ==
    ASSUME NEW ch, Channels(ch), NEW rs, Good(rs), NEW clock \in Nat
    PROVE  Onward(Backfilled(ch, rs, clock), rs)
BY BackfilledHeals DEF Heals

LEMMA OnwardOn ==
    ASSUME NEW us, NEW ts, NEW rs, Onward(us, ts), Onward(ts, rs)
    PROVE  Onward(us, rs)
BY GrowsOn DEF Onward

LEMMA ExtendTailGood ==
    ASSUME NEW ch, Channels(ch), NEW rs, Good(rs), NEW clock \in Nat, NEW resume, NEW leading
    PROVE  Onward(ExtendTail(ch, rs, clock, resume, leading).rows, rs)
<1> DEFINE last == IF resume = NoMedia THEN LastScheduled(ch, rs) ELSE resume
           start == NextStart(rs, clock)
           limit == clock + Horizon
<1>1. start \in Nat /\ \A i \in DOMAIN rs : End(rs[i]) <= start
  BY NextStartIs
<1>2. limit \in Nat
  BY BuilderAssumption
<1> HIDE DEF last, start, limit
<1>3. Onward(ExtendFrom(ch, rs, start, limit, last, leading).rows, rs)
  BY <1>1, <1>2, ExtendFromGood
<1> QED BY <1>3 DEF ExtendTail, last, start, limit

\* ExtendChannel leaves a schedule in order, and every row that was in it.
LEMMA ExtendChannelGood ==
    ASSUME NEW ch, Channels(ch), NEW rs, Good(rs), NEW clock \in Nat, NEW resume, NEW leading, NEW low
    PROVE  Onward(ExtendChannel(ch, rs, clock, resume, leading, low).rows, rs)
<1> DEFINE T == ExtendTail(ch, rs, clock, resume, leading)
           H == Healed(ch, T, clock)
           X == ExtendChannel(ch, rs, clock, resume, leading, low)
<1>1. Onward(rs, rs)
  BY GrowsSelf DEF Onward
<1>2. Onward(T.rows, rs)
  BY ExtendTailGood
<1>2a. T = [outcome |-> T.outcome, rows |-> T.rows]
  BY DEF ExtendTail, ExtendFrom, Outcome
<1>3. X.rows = rs \/ X.rows = H.rows
  BY OutcomeIs DEF ExtendChannel, Checked
<1> HIDE DEF T
<1>4. H.rows = T.rows \/ H.rows = Backfilled(ch, T.rows, clock)
  BY <1>2a DEF Healed
<1>5. Onward(Backfilled(ch, T.rows, clock), T.rows)
  BY <1>2, BackfilledGood DEF Onward
<1>6. Onward(Backfilled(ch, T.rows, clock), rs)
  BY <1>2, <1>5, OnwardOn
<1> HIDE DEF H, X
<1>7. Onward(X.rows, rs)
  BY <1>1, <1>2, <1>3, <1>4, <1>6
<1> QED BY <1>7 DEF X

-----------------------------------------------------------------------------
(* What an edit has read, when it writes.                                  *)

\* The entry prev that a batch for the time `from' is to be laid behind, read as the last
\* before t: still that, with nothing that reaches past `from', or already followed.
PrevHolds(rs, prev, t, from) ==
    \/ prev = LastBefore(rs, t) /\ \A i \in DOMAIN rs : rs[i].start < t => End(rs[i]) <= from
    \/ \E j \in DOMAIN rs : rs[j].start < t /\ rs[j].anchor = prev

LEMMA PrevStays ==
    ASSUME NEW rs, Good(rs), NEW ts, Onward(ts, rs), NEW t \in Nat, NEW from \in Nat, NEW prev,
           PrevHolds(rs, prev, t, from)
    PROVE  PrevHolds(ts, prev, t, from)
<1>1. Rows(rs) /\ Apart(rs) /\ \A i \in DOMAIN rs : Behind(rs, i)
  BY GoodIs
<1>2. Rows(ts) /\ Apart(ts) /\ \A i \in DOMAIN ts : Behind(ts, i)
  BY GoodIs DEF Onward
<1>3. DOMAIN rs \subseteq DOMAIN ts /\ \A i \in DOMAIN rs : ts[i].start = rs[i].start /\ End(ts[i]) = End(rs[i])
  BY DEF Onward, Grows, End
<1>4. \A i \in DOMAIN ts : ts[i].start \in Nat /\ End(ts[i]) \in Nat /\ ts[i].start < End(ts[i]) /\ i # NoEntry
  BY <1>2, RowFields
<1>5. PICK u \in Nat : /\ u <= t /\ prev = LastBefore(rs, u)
                       /\ \/ u = t /\ \A i \in DOMAIN rs : rs[i].start < t => End(rs[i]) <= from
                          \/ \E j \in DOMAIN rs : rs[j].start = u /\ u < t
  <2>1. CASE prev = LastBefore(rs, t) /\ \A i \in DOMAIN rs : rs[i].start < t => End(rs[i]) <= from
    BY <2>1
  <2>2. CASE \E j \in DOMAIN rs : rs[j].start < t /\ rs[j].anchor = prev
    <3>1. PICK j \in DOMAIN rs : rs[j].start < t /\ rs[j].anchor = prev
      BY <2>2
    <3>2. rs[j].start \in Nat /\ prev = LastBefore(rs, rs[j].start)
      BY <1>1, <3>1, BehindIs, RowFields
    <3> QED BY <3>1, <3>2
  <2> QED BY <2>1, <2>2 DEF PrevHolds
<1>6. /\ prev = NoEntry => \A i \in DOMAIN rs : rs[i].start >= u
      /\ prev # NoEntry => prev \in DOMAIN rs /\ rs[prev].start < u
  BY <1>1, <1>5, LastBeforeIs
<1> DEFINE q == LastBefore(ts, u)
<1>7. /\ q = NoEntry <=> \A i \in DOMAIN ts : ts[i].start >= u
      /\ q # NoEntry => /\ q \in DOMAIN ts /\ ts[q].start < u
                        /\ \A i \in DOMAIN ts : ts[i].start < u => ts[i].start <= ts[q].start
  BY <1>2, LastBeforeIs
<1> HIDE DEF q
<1>8. CASE q = prev
  <2>1. CASE \E j \in DOMAIN rs : rs[j].start = u /\ u < t
    <3>1. PICK j \in DOMAIN rs : rs[j].start = u /\ u < t
      BY <2>1
    <3>2. j \in DOMAIN ts /\ ts[j].start = u
      BY <1>3, <3>1
    <3>3. ts[j].anchor = LastBefore(ts, ts[j].start)
      BY <1>2, <3>2, BehindIs
    <3>4. ts[j].anchor = prev
      BY <1>8, <3>2, <3>3 DEF q
    <3> QED BY <3>1, <3>2, <3>4 DEF PrevHolds
  <2>2. CASE u = t /\ \A i \in DOMAIN rs : rs[i].start < t => End(rs[i]) <= from
    <3>1. \A i \in DOMAIN ts : ts[i].start < t => End(ts[i]) <= from
      <4> TAKE i \in DOMAIN ts
      <4> HAVE ts[i].start < t
      <4>1. q # NoEntry /\ q \in DOMAIN ts /\ ts[i].start <= ts[q].start
        BY <1>4, <1>7, <2>2
      <4>2. q \in DOMAIN rs /\ End(ts[q]) <= from
        BY <1>3, <1>6, <1>8, <2>2, <4>1
      <4>3. CASE i = q
        BY <4>2, <4>3
      <4>4. CASE i # q
        <5>1. ts[i].start # ts[q].start
          BY <1>2, <4>1, <4>4, DistinctStarts
        <5>2. ts[i].start < ts[q].start
          BY <1>4, <4>1, <5>1
        <5>3. End(ts[i]) <= ts[q].start
          BY <1>2, <4>1, <5>2, EndsBefore
        <5> QED BY <1>4, <4>1, <4>2, <5>3
      <4> QED BY <4>3, <4>4
    <3> QED BY <1>8, <2>2, <3>1 DEF PrevHolds, q
  <2> QED BY <1>5, <2>1, <2>2
<1>9. CASE q # prev
  <2> DEFINE W == {i \in DOMAIN ts : ts[i].start < u /\ (prev # NoEntry => ts[i].start > ts[prev].start)}
             w == Earliest(ts, W)
  <2>1. q \in W
    <3>1. CASE prev = NoEntry
      BY <1>7, <1>9, <3>1
    <3>2. CASE prev # NoEntry
      <4>1. prev \in DOMAIN ts /\ ts[prev].start < u
        BY <1>3, <1>6, <3>2
      <4>2. q # NoEntry /\ q \in DOMAIN ts /\ ts[q].start < u /\ ts[prev].start <= ts[q].start
        BY <1>4, <1>7, <4>1
      <4>3. ts[prev].start # ts[q].start
        BY <1>2, <1>9, <4>1, <4>2, DistinctStarts
      <4> QED BY <1>4, <4>1, <4>2, <4>3
    <3> QED BY <3>1, <3>2
  <2>2. w \in W /\ \A j \in W : ts[w].start <= ts[j].start
    <3>1. W \in SUBSET DOMAIN ts /\ W # {}
      BY <2>1
    <3> HIDE DEF W
    <3> QED BY <1>2, <3>1, EarliestIs
  <2> HIDE DEF w
  <2>3. w \in DOMAIN ts /\ ts[w].start < u /\ ts[w].start \in Nat
    BY <1>4, <2>2
  <2>4. LastBefore(ts, ts[w].start) = prev
    <3>1. CASE prev = NoEntry
      <4>1. \A k \in DOMAIN ts : ts[k].start >= ts[w].start
        BY <1>4, <2>2, <2>3, <3>1
      <4> QED BY <1>2, <2>3, <3>1, <4>1, LastBeforeIs
    <3>2. CASE prev # NoEntry
      <4>1. prev \in DOMAIN ts /\ ts[prev].start < ts[w].start
        BY <1>3, <1>6, <2>2, <3>2
      <4>2. \A k \in DOMAIN ts : ts[k].start < ts[w].start => ts[k].start <= ts[prev].start
        BY <1>4, <2>2, <2>3, <3>2, <4>1
      <4> QED BY <1>2, <2>3, <4>1, <4>2, LastBeforeIs
    <3> QED BY <3>1, <3>2
  <2>5. ts[w].anchor = prev
    BY <1>2, <2>3, <2>4, BehindIs
  <2>6. ts[w].start < t
    BY <1>5, <2>3
  <2> QED BY <2>3, <2>5, <2>6 DEF PrevHolds
<1> QED BY <1>8, <1>9

\* Two rows cannot name the same predecessor.
LEMMA Clash ==
    ASSUME NEW ks, NEW B, B # {}, NEW first, NEW ts, Inserts(ts, ks, B, first),
           NEW j \in DOMAIN ks, ks[j].anchor = first
    PROVE  \E i \in DOMAIN ts \ DOMAIN ks : ts[i].anchor = first /\ ts[j].anchor = first /\ i # j
           /\ j \in DOMAIN ts
<1> DEFINE N == DOMAIN ts \ DOMAIN ks
<1>1. /\ DOMAIN ks \subseteq DOMAIN ts /\ \A i \in DOMAIN ks : ts[i] = ks[i]
      /\ Rows(ts)
      /\ \A e \in B : \E i \in N : ts[i] = Row(e, ts[i].anchor)
      /\ \A i \in N :
              \/ ts[i].anchor = first
              \/ /\ ts[i].anchor \in N
                 /\ ts[ts[i].anchor].start < ts[i].start
  BY DEF Inserts
<1>2. N # {} /\ N \in SUBSET DOMAIN ts
  BY <1>1
<1> HIDE DEF N
<1> DEFINE i == Earliest(ts, N)
<1>3. i \in N /\ \A k \in N : ts[i].start <= ts[k].start
  BY <1>1, <1>2, EarliestIs
<1> HIDE DEF i
<1>4. \A k \in N : ts[k].start \in Nat
  BY <1>1, <1>2, RowFields
<1>5. ts[i].anchor = first
  BY <1>1, <1>3, <1>4
<1> QED BY <1>1, <1>3, <1>5 DEF N

LEMMA NotIndexed ==
    ASSUME NEW ks, NEW B, B # {}, NEW first, NEW ts, Inserts(ts, ks, B, first),
           NEW j \in DOMAIN ks, ks[j].anchor = first
    PROVE  ~Indexed(ts)
<1>1. PICK i \in DOMAIN ts \ DOMAIN ks : ts[i].anchor = first /\ ts[j].anchor = first /\ i # j
           /\ j \in DOMAIN ts
  BY Clash
<1> QED BY <1>1 DEF Indexed

\* The schedule is rebuilt from a batch on that is laid behind the last entry before it.
LEMMA RebuiltFrom ==
    ASSUME NEW ch, Channels(ch), NEW rs, Good(rs), NEW from \in Nat, NEW prev \in Ids \cup {NoEntry},
           PrevHolds(rs, prev, from, from), NEW B, Batched(B), B # {}, \A e \in B : e.start >= from,
           Indexed(Insert(ch, ClearAfter(rs, from), B, prev))
    PROVE  Good(Insert(ch, ClearAfter(rs, from), B, prev))
<1> DEFINE ks == ClearAfter(rs, from)
           ts == Insert(ch, ks, B, prev)
<1>1. Rows(rs)
  BY GoodIs
<1>2. /\ Good(ks) /\ DOMAIN ks = {i \in DOMAIN rs : rs[i].start < from}
      /\ \A i \in DOMAIN ks : ks[i] = rs[i]
  BY ClearAfterGood
<1> HIDE DEF ks
<1>3. Rows(ks) /\ Apart(ks)
  BY <1>2, GoodIs
<1>4. CASE prev = LastBefore(rs, from) /\ \A i \in DOMAIN rs : rs[i].start < from => End(rs[i]) <= from
  <2>1. \A i \in DOMAIN ks : End(ks[i]) <= from
    BY <1>2, <1>4
  <2>2. prev = LastBefore(ks, from)
    <3> DEFINE S == {i \in DOMAIN rs : rs[i].start < from}
    <3>1. {i \in DOMAIN ks : ks[i].start < from} = S
      BY <1>2
    <3>2. LastBefore(ks, from) = Latest(ks, S) /\ prev = Latest(rs, S)
      BY <1>4, <3>1 DEF LastBefore
    <3>3. S \subseteq DOMAIN rs /\ S \subseteq DOMAIN ks /\ \A i \in S : rs[i].start = ks[i].start
      BY <1>2
    <3> HIDE DEF S
    <3> QED BY <1>1, <1>3, <3>2, <3>3, LatestSame
  <2> QED BY <1>2, <2>1, <2>2, Appended DEF ks
<1>5. CASE \E j \in DOMAIN rs : rs[j].start < from /\ rs[j].anchor = prev
  <2>1. PICK j \in DOMAIN ks : ks[j].anchor = prev
    BY <1>2, <1>5
  <2>2. Inserts(ts, ks, B, prev)
    BY <1>3, Inserted DEF Channels
  <2>3. ~Indexed(ts)
    BY <2>1, <2>2, NotIndexed
  <2> QED BY <2>3 DEF ks
<1> QED BY <1>4, <1>5 DEF PrevHolds

\* The window's entries are replaced.
LEMMA ReplacedIn ==
    ASSUME NEW ch, Channels(ch), NEW rs, Good(rs), NEW from \in Nat, NEW to \in Nat, from < to,
           NEW prev \in Ids \cup {NoEntry}, PrevHolds(rs, prev, from, from),
           NEW B, Batched(B), \A e \in B : e.start >= from /\ End(e) <= to
    PROVE  LET kept == Keep(rs, DOMAIN rs \ Intersecting(rs, from, to))
               inserted == Insert(ch, kept, B, prev)
               new == DOMAIN inserted \ DOMAIN kept
               next == FirstFrom(rs, to)
               saved == IF next = NoEntry THEN inserted
                        ELSE [inserted EXCEPT ![next].anchor =
                                IF new = {} THEN prev ELSE Latest(inserted, new)]
           IN  Indexed(inserted) /\ Indexed(saved) => Good(saved)
<1> DEFINE ks == Keep(rs, DOMAIN rs \ Intersecting(rs, from, to))
           ts == Insert(ch, ks, B, prev)
           N == DOMAIN ts \ DOMAIN ks
           x == FirstFrom(rs, to)
           v == IF N = {} THEN prev ELSE Latest(ts, N)
           us == IF x = NoEntry THEN ts ELSE [ts EXCEPT ![x].anchor = v]
<1> SUFFICES ASSUME Indexed(ts), Indexed(us) PROVE Good(us)
  OBVIOUS
<1>1. Rows(rs) /\ Apart(rs) /\ \A i \in DOMAIN rs : Behind(rs, i)
  BY GoodIs
<1>2. /\ Sound(ks, x) /\ FirstFrom(ks, from) = x
      /\ DOMAIN ks = DOMAIN rs \ Intersecting(rs, from, to)
      /\ \A i \in DOMAIN ks : ks[i] = rs[i]
      /\ \A i \in DOMAIN ks : rs[i].start < from => End(rs[i]) <= from
      /\ \A i \in DOMAIN ks : rs[i].start >= from => rs[i].start >= to
      /\ x # NoEntry => x \in DOMAIN ks /\ rs[x].start >= to
  BY WindowKept
<1> HIDE DEF ks, x
<1>3. Rows(ks) /\ Apart(ks) /\ Within(ks)
  BY <1>2 DEF Sound
<1>4. Inserts(ts, ks, B, prev)
  BY <1>3, Inserted DEF Channels
<1> HIDE DEF ts
<1>5. /\ DOMAIN ks \subseteq DOMAIN ts /\ \A i \in DOMAIN ks : ts[i] = ks[i]
      /\ \A e \in B : \E i \in N : ts[i] = Row(e, ts[i].anchor)
      /\ \A i \in N : \E e \in B : ts[i] = Row(e, ts[i].anchor)
      /\ Rows(ts)
  BY <1>4 DEF Inserts
<1>6. B = {} <=> N = {}
  BY <1>5
<1>7. \A i \in DOMAIN rs : /\ rs[i].start \in Nat /\ End(rs[i]) \in Nat /\ rs[i].start < End(rs[i])
                           /\ i # NoEntry
  BY <1>1, RowFields
<1>8. prev = LastBefore(ks, from) \/ \E j \in DOMAIN ks : ks[j].anchor = prev /\ rs[j].start < from
  <2>1. CASE prev = LastBefore(rs, from) /\ \A i \in DOMAIN rs : rs[i].start < from => End(rs[i]) <= from
    <3> DEFINE S == {i \in DOMAIN rs : rs[i].start < from}
    <3>1. {i \in DOMAIN ks : ks[i].start < from} = S
      <4>1. \A i \in S : i \in DOMAIN ks
        BY <1>2, <1>7, <2>1 DEF Intersecting
      <4> QED BY <1>2, <4>1
    <3>2. LastBefore(ks, from) = Latest(ks, S) /\ prev = Latest(rs, S)
      BY <2>1, <3>1 DEF LastBefore
    <3>3. S \subseteq DOMAIN rs /\ S \subseteq DOMAIN ks /\ \A i \in S : rs[i].start = ks[i].start
      BY <1>2, <3>1
    <3> HIDE DEF S
    <3> QED BY <1>1, <1>3, <3>2, <3>3, LatestSame
  <2>2. CASE \E j \in DOMAIN rs : rs[j].start < from /\ rs[j].anchor = prev
    <3>1. PICK j \in DOMAIN rs : rs[j].start < from /\ rs[j].anchor = prev
      BY <2>2
    <3>2. CASE j \in DOMAIN ks
      BY <1>2, <3>1, <3>2
    <3>3. CASE j \notin DOMAIN ks
      <4>1. End(rs[j]) > from
        BY <1>2, <1>7, <3>1, <3>3 DEF Intersecting
      <4>2. \A k \in DOMAIN ks : rs[k].start < from => rs[k].start < rs[j].start
        <5> TAKE k \in DOMAIN ks
        <5> HAVE rs[k].start < from
        <5>1. k \in DOMAIN rs /\ k # j
          BY <1>2, <3>3
        <5>2. End(rs[k]) <= rs[j].start \/ End(rs[j]) <= rs[k].start
          BY <1>1, <5>1 DEF Apart
        <5> QED BY <1>7, <4>1, <5>1, <5>2
      <4>3. Behind(rs, j)
        BY <1>1
      <4>4. CASE prev = NoEntry
        <5>1. \A k \in DOMAIN rs : rs[k].start >= rs[j].start
          BY <1>7, <3>1, <4>3, <4>4 DEF Behind
        <5>2. \A k \in DOMAIN ks : ks[k].start >= from
          BY <1>2, <1>7, <4>2, <5>1
        <5> QED BY <1>3, <4>4, <5>2, LastBeforeIs
      <4>5. CASE prev # NoEntry
        <5>1. /\ prev \in DOMAIN rs /\ rs[prev].start < rs[j].start
              /\ \A k \in DOMAIN rs : rs[k].start < rs[j].start => rs[k].start <= rs[prev].start
          BY <3>1, <4>3, <4>5 DEF Behind
        <5>2. End(rs[prev]) <= rs[j].start
          BY <1>1, <5>1, EndsBefore
        <5>3. prev \in DOMAIN ks
          BY <1>2, <1>7, <3>1, <5>1, <5>2 DEF Intersecting
        <5>4. ks[prev].start < from /\ \A k \in DOMAIN ks : ks[k].start < from => ks[k].start <= ks[prev].start
          BY <1>2, <1>7, <3>1, <4>2, <5>1, <5>3
        <5> QED BY <1>3, <5>3, <5>4, LastBeforeIs
      <4> QED BY <4>4, <4>5
    <3> QED BY <3>2, <3>3
  <2> QED BY <2>1, <2>2 DEF PrevHolds
<1>9. CASE prev = LastBefore(ks, from)
  <2>0. \A i \in DOMAIN ks : ks[i].start < from => End(ks[i]) <= from
    BY <1>2
  <2>1. \A i \in DOMAIN ks, e \in B : ks[i].start >= from => End(e) <= ks[i].start
    <3> TAKE i \in DOMAIN ks, e \in B
    <3> HAVE ks[i].start >= from
    <3>1. ks[i].start >= to /\ ks[i].start \in Nat
      BY <1>2, <1>7
    <3>2. End(e) <= to /\ End(e) \in Nat
      BY EntryFields DEF Batched
    <3> QED BY <3>1, <3>2
  <2>2. CASE x = NoEntry
    <3>1. Sound(ts, x)
      BY <1>2, <1>4, <1>9, <2>0, <2>1, InsertSound
    <3> QED BY <2>2, <3>1 DEF Good
  <2>3. CASE x # NoEntry /\ B # {}
    <3>1. v = Latest(ts, N) /\ us = [ts EXCEPT ![x].anchor = v] /\ x \in DOMAIN ks
      BY <1>2, <1>6, <2>3
    <3>2. \A e \in B : End(e) <= ks[x].start
      <4>1. x \in DOMAIN rs /\ ks[x] = rs[x] /\ rs[x].start >= to
        BY <1>2, <2>3, <3>1
      <4>2. rs[x].start \in Nat
        BY <1>7, <4>1
      <4>3. ks[x].start >= from
        BY <4>1, <4>2
      <4> QED BY <2>1, <3>1, <4>3
    <3> HIDE DEF us, v
    <3>3. Good([ts EXCEPT ![x].anchor = v])
      BY <1>2, <1>4, <1>9, <2>0, <2>3, <3>1, <3>2, SpliceGood
    <3> QED BY <3>1, <3>3
  <2>4. CASE x # NoEntry /\ B = {}
    <3>1. N = {} /\ v = prev
      BY <1>6, <2>4
    <3>2. ts = ks
      <4>1. DOMAIN ts = DOMAIN ks
        BY <1>5, <3>1
      <4>2. ts = [i \in DOMAIN ts |-> ts[i]] /\ ks = [i \in DOMAIN ks |-> ks[i]]
        BY <1>3, <1>5 DEF Rows
      <4> QED BY <1>5, <4>1, <4>2
    <3>3. x \in DOMAIN ks /\ us = [ks EXCEPT ![x].anchor = prev]
      BY <1>2, <2>4, <3>1, <3>2
    <3>4. prev = LastBefore(ks, ks[x].start)
      <4>1. \A i \in DOMAIN ks : ks[i].start < ks[x].start <=> ks[i].start < from
        <5> TAKE i \in DOMAIN ks
        <5>1. ks[i].start >= from => ks[x].start <= ks[i].start
          BY <1>2, <1>3, <2>4, FirstFromIs
        <5>2. ks[x].start >= to /\ ks[x].start \in Nat /\ ks[i].start \in Nat
          BY <1>2, <1>7, <2>4, <3>3
        <5> QED BY <5>1, <5>2
      <4>2. {i \in DOMAIN ks : ks[i].start < ks[x].start} = {i \in DOMAIN ks : ks[i].start < from}
        BY <4>1
      <4> QED BY <1>9, <4>2 DEF LastBefore
    <3>5. Good([ks EXCEPT ![x].anchor = prev])
      BY <1>2, <3>3, <3>4, Relinked
    <3> QED BY <3>3, <3>5
  <2> QED BY <2>2, <2>3, <2>4
<1>10. ASSUME NEW j \in DOMAIN ks, ks[j].anchor = prev, rs[j].start < from
       PROVE  Good(us)
  <2>1. CASE B # {}
    <3>1. ~Indexed(ts)
      BY <1>4, <1>10, <2>1, NotIndexed
    <3> QED BY <3>1
  <2>2. CASE B = {}
    <3>1. N = {} /\ v = prev
      BY <1>6, <2>2
    <3>2. ts = ks
      <4>1. DOMAIN ts = DOMAIN ks
        BY <1>5, <3>1
      <4>2. ts = [i \in DOMAIN ts |-> ts[i]] /\ ks = [i \in DOMAIN ks |-> ks[i]]
        BY <1>3, <1>5 DEF Rows
      <4> QED BY <1>5, <4>1, <4>2
    <3>3. CASE x = NoEntry
      BY <1>2, <3>2, <3>3 DEF Good
    <3>4. CASE x # NoEntry
      <4>1. x \in DOMAIN ks /\ us = [ks EXCEPT ![x].anchor = prev] /\ x # j
        BY <1>2, <1>7, <1>10, <3>1, <3>2, <3>4
      <4>2. us[x].anchor = prev /\ us[j].anchor = prev /\ x \in DOMAIN us /\ j \in DOMAIN us
        <5>1. ks[x].start \in Nat /\ ks[x] \in [start : Nat, media : Schedulable, offset : Nat, dur : Nat \ {0},
                             kind : {"primary", "filler"}, anchor : Ids \cup {NoEntry}]
          BY <1>3, <4>1 DEF Rows
        <5>2. DOMAIN us = DOMAIN ks /\ us[j] = ks[j] /\ us[x] = [ks[x] EXCEPT !.anchor = prev]
          BY <1>10, <4>1
        <5> QED BY <1>10, <4>1, <5>1, <5>2
      <4> HIDE DEF us
      <4> QED BY <4>1, <4>2 DEF Indexed
    <3> QED BY <3>3, <3>4
  <2> QED BY <2>1, <2>2
<1> QED BY <1>8, <1>9, <1>10

-----------------------------------------------------------------------------
(* What an edit writes.                                                    *)

LEMMA OneBatched ==
    ASSUME NEW e \in EntryType, e.offset + e.dur <= Duration[e.media]
    PROVE  Batched({e})
<1>1. IsFiniteSet({e})
  BY FS_Singleton
<1> QED BY <1>1 DEF Batched

\* handleChannelFillScheduleGap: the row after the gap is repointed to the entry that fills it.
Fills(ch, rs, e, x, prev) ==
    LET inserted == Insert(ch, rs, {e}, prev)
        new == CHOOSE j \in DOMAIN inserted : j \notin DOMAIN rs
    IN  [inserted EXCEPT ![x].anchor = new]

LEMMA FillGood ==
    ASSUME NEW ch, Channels(ch), NEW rs, Good(rs), NEW e \in EntryType,
           e.offset + e.dur <= Duration[e.media], NEW x \in DOMAIN rs, End(e) = rs[x].start,
           NEW prev \in Ids \cup {NoEntry}, PrevHolds(rs, prev, rs[x].start, e.start),
           Indexed(Fills(ch, rs, e, x, prev))
    PROVE  Good(Fills(ch, rs, e, x, prev))
<1> DEFINE b == {e}
           ts == Insert(ch, rs, b, prev)
           new == CHOOSE j \in DOMAIN ts : j \notin DOMAIN rs
           us == [ts EXCEPT ![x].anchor = new]
           t == rs[x].start
<1>0. Fills(ch, rs, e, x, prev) = us
  BY DEF Fills
<1>0a. Indexed(us)
  BY <1>0
<1>1. Rows(rs) /\ Apart(rs) /\ Within(rs) /\ \A i \in DOMAIN rs : Behind(rs, i)
  BY GoodIs
<1>2. \A i \in DOMAIN rs : /\ rs[i].start \in Nat /\ End(rs[i]) \in Nat /\ rs[i].start < End(rs[i])
                           /\ i # NoEntry
  BY <1>1, RowFields
<1>3. e \in b /\ b # {} /\ (\A d \in b : d = e) /\ Batched(b)
  BY OneBatched
<1>4. Inserts(ts, rs, b, prev)
  <2> HIDE DEF b
  <2> QED BY <1>1, <1>3, Inserted DEF Channels
<1> HIDE DEF b, ts
<1>5. new \in DOMAIN ts \ DOMAIN rs
  <2>1. \E n \in DOMAIN ts : n \notin DOMAIN rs
    BY <1>3, <1>4, InsertsSome
  <2> QED BY <2>1
<1> HIDE DEF new
<1>6. OneNew(ts, rs, new, prev)
  BY <1>3, <1>4, <1>5, InsertsOne
<1>7. /\ DOMAIN rs \subseteq DOMAIN ts /\ \A i \in DOMAIN rs : ts[i] = rs[i]
      /\ Rows(ts) /\ x \in DOMAIN ts /\ x # new
  BY <1>4, <1>5 DEF Inserts
<1>8. e.start \in Nat /\ End(e) \in Nat /\ e.start < End(e) /\ t \in Nat /\ e.start < t
  BY <1>2, EntryFields
<1>9. CASE prev = LastBefore(rs, t) /\ \A i \in DOMAIN rs : rs[i].start < t => End(rs[i]) <= e.start
  <2>1. \A i \in DOMAIN rs : rs[i].start < t <=> rs[i].start < e.start
    BY <1>2, <1>8, <1>9
  <2>2. {i \in DOMAIN rs : rs[i].start < t} = {i \in DOMAIN rs : rs[i].start < e.start}
    BY <2>1
  <2>3. prev = LastBefore(rs, e.start)
    BY <1>9, <2>2 DEF LastBefore
  <2>4. x = FirstFrom(rs, e.start)
    <3>1. rs[x].start >= e.start /\ \A i \in DOMAIN rs : rs[i].start >= e.start => rs[x].start <= rs[i].start
      BY <1>2, <1>8, <2>1
    <3> QED BY <1>1, <1>8, <3>1, FirstFromIs
  <2>5. Sound(rs, x)
    BY <1>1, LinkedIs DEF Sound
  <2>6. \A i \in DOMAIN rs : rs[i].start < e.start => End(rs[i]) <= e.start
    BY <1>9, <2>1
  <2>7. (\A d \in b : d.start >= e.start) /\ \A d \in b : End(d) <= rs[x].start
    BY <1>3, <1>8
  <2>8. new = Latest(ts, DOMAIN ts \ DOMAIN rs)
    BY <1>6 DEF OneNew
  <2>9. Good(us)
    BY <1>3, <1>4, <1>8, <2>3, <2>4, <2>5, <2>6, <2>7, <2>8, SpliceGood
  <2> QED BY <1>0, <2>9
<1>10. CASE \E j \in DOMAIN rs : rs[j].start < t /\ rs[j].anchor = prev
  <2>1. PICK j \in DOMAIN rs : rs[j].start < t /\ rs[j].anchor = prev
    BY <1>10
  <2>2. j # x /\ j # new /\ j \in DOMAIN ts
    BY <1>2, <1>5, <1>7, <2>1
  <2>3. ts[new].anchor = prev /\ ts[j].anchor = prev
    BY <1>6, <1>7, <2>1 DEF OneNew
  <2>4. DOMAIN us = DOMAIN ts /\ us[j] = ts[j] /\ us[new] = ts[new]
    BY <1>5, <1>7, <2>2
  <2> HIDE DEF us
  <2>5. FALSE
    BY <1>0a, <1>5, <2>2, <2>3, <2>4 DEF Indexed
  <2> QED BY <2>5
<1> QED BY <1>9, <1>10 DEF PrevHolds

\* Entries one after the other.
LEMMA LaidBatched ==
    ASSUME NEW n \in Nat, NEW at \in [0..n -> Nat], NEW e \in [1..n -> EntryType],
           \A k \in 1..n : /\ e[k].start = at[k - 1] /\ End(e[k]) = at[k]
                           /\ e[k].offset + e[k].dur <= Duration[e[k].media]
    PROVE  /\ Batched({e[k] : k \in 1..n})
           /\ \A k \in 1..n : e[k].start >= at[0]
<1>1. \A k \in 1..n : at[k - 1] <= at[k]
  <2> TAKE k \in 1..n
  <2>1. e[k] \in EntryType /\ e[k].start = at[k - 1] /\ End(e[k]) = at[k]
    OBVIOUS
  <2>2. e[k].start \in Nat /\ End(e[k]) \in Nat /\ End(e[k]) > e[k].start
    BY <2>1, EntryFields
  <2> QED BY ONLY <2>1, <2>2
<1>2. \A j, k \in 0..n : j <= k => at[j] <= at[k]
  BY <1>1, Rises
<1>3. \A j, k \in 1..n : j < k => End(e[j]) <= e[k].start
  <2> TAKE j, k \in 1..n
  <2> HAVE j < k
  <2>1. j \in 0..n /\ k - 1 \in 0..n /\ j <= k - 1
    OBVIOUS
  <2> QED BY <1>2, <2>1
<1>4. \A k \in 1..n : e[k].start >= at[0]
  <2> TAKE k \in 1..n
  <2>1. 0 \in 0..n /\ k - 1 \in 0..n /\ 0 <= k - 1
    OBVIOUS
  <2> QED BY <1>2, <2>1
<1> DEFINE K == 1..n
<1>5. K \subseteq Nat /\ IsFiniteSet(K)
  BY FS_Interval
<1>6. e \in [K -> EntryType]
  OBVIOUS
<1>6a. \A j, k \in K : j < k => End(e[j]) <= e[k].start
  BY <1>3
<1>6b. \A k \in K : e[k].offset + e[k].dur <= Duration[e[k].media]
  OBVIOUS
<1> HIDE DEF K
<1>7. Batched({e[k] : k \in K})
  BY ONLY <1>5, <1>6, <1>6a, <1>6b, FamilyBatched
<1> QED BY <1>4, <1>7 DEF K

\* A saved window.
LEMMA LayoutBatched ==
    ASSUME NEW from \in Nat, NEW draft \in Drafts
    PROVE  /\ Batched(Layout(from, draft))
           /\ \A e \in Layout(from, draft) : e.start >= from /\ End(e) <= LayoutEnd(from, draft)
           /\ LayoutEnd(from, draft) \in Nat
           /\ draft # <<>> => Layout(from, draft) # {}
<1>1. PICK n \in Nat : draft \in [1..n -> Schedulable]
  BY DEF Drafts
<1>2. DOMAIN draft = 1..n
  BY <1>1
<1> DEFINE ds == [k \in 1..n |-> Duration[draft[k]]]
           at == Ends(from, ds)
           e == [k \in 1..n |-> Entry(at[k - 1], draft[k], 0, Duration[draft[k]], "primary")]
           L == Layout(from, draft)
<1>3. L = {e[k] : k \in 1..n}
  BY <1>2 DEF Layout
<1>4. \A k \in 1..n : draft[k] \in Schedulable /\ Duration[draft[k]] \in Nat \ {0}
  BY <1>1, BuilderAssumption
<1>5. ds \in Seq(Nat \ {0}) /\ Len(ds) = n /\ \A k \in 1..n : ds[k] = Duration[draft[k]]
  <2>1. ds \in [1..n -> Nat \ {0}]
    BY <1>4
  <2> QED BY <2>1
<1> HIDE DEF ds
<1>6. at \in [0..n -> Nat] /\ at[0] = from /\ \A k \in 1..n : at[k] = at[k - 1] + ds[k]
  BY <1>5, EndsIs
<1> HIDE DEF at
<1>7. ASSUME NEW k \in 1..n
      PROVE  /\ e[k] \in EntryType /\ e[k].start = at[k - 1] /\ End(e[k]) = at[k]
             /\ e[k].offset + e[k].dur <= Duration[e[k].media]
  <2>1. at[k - 1] \in Nat
    BY <1>6
  <2>2. e[k] = [start |-> at[k - 1], media |-> draft[k], offset |-> 0, dur |-> Duration[draft[k]], kind |-> "primary"]
    BY DEF Entry
  <2> HIDE DEF e
  <2>3. at[k] = at[k - 1] + Duration[draft[k]] /\ Duration[draft[k]] \in Nat \ {0}
        /\ draft[k] \in Schedulable /\ 0 + Duration[draft[k]] <= Duration[draft[k]]
    <3>1. at[k] = at[k - 1] + ds[k]
      BY <1>6
    <3>2. ds[k] = Duration[draft[k]]
      BY <1>5
    <3>3. Duration[draft[k]] \in Nat \ {0} /\ draft[k] \in Schedulable
      BY <1>4
    <3>4. \A x \in Nat : 0 + x <= x
      OBVIOUS
    <3> QED BY ONLY <3>1, <3>2, <3>3, <3>4
  <2>4. e[k] \in EntryType
    BY ONLY <2>1, <2>2, <2>3 DEF EntryType
  <2> QED BY ONLY <2>2, <2>3, <2>4 DEF End
<1>8. e \in [1..n -> EntryType]
  <2>1. e = [k \in 1..n |-> e[k]]
    OBVIOUS
  <2> HIDE DEF e
  <2> QED BY <1>7, <2>1
<1> HIDE DEF e
<1>9. Batched(L) /\ \A k \in 1..n : e[k].start >= at[0]
  BY <1>3, <1>6, <1>7, <1>8, LaidBatched
<1>10. \A x \in L : x.start >= from
  BY <1>3, <1>6, <1>9
<1>11. draft # <<>> => L # {}
  <2>1. ASSUME n = 0 PROVE draft = <<>>
    BY <1>1, <2>1
  <2>2. n # 0 => 1 \in 1..n
    OBVIOUS
  <2> QED BY <1>3, <2>1, <2>2
<1> DEFINE f == [x \in L |-> End(x)]
           M == {from} \cup {End(x) : x \in L}
<1>12. {End(x) : x \in L} = {f[x] : x \in L}
  OBVIOUS
<1>13. IsFiniteSet(M)
  <2>1. IsFiniteSet({f[x] : x \in L})
    <3> HIDE DEF f, L
    <3> QED BY <1>9, ImageFinite DEF Batched
  <2>2. IsFiniteSet({from})
    BY FS_Singleton
  <2> QED BY <1>12, <2>1, <2>2, FS_Union
<1>14. M \subseteq Nat /\ M # {}
  BY <1>9, EntryFields DEF Batched
<1>15. LayoutEnd(from, draft) = Max(M)
  BY DEF LayoutEnd
<1> HIDE DEF f, L
<1>16. \A x \in L : End(x) \in M
  OBVIOUS
<1> HIDE DEF M
<1>17. Max(M) \in M /\ \A y \in M : y <= Max(M)
  BY <1>13, <1>14, MaxIs
<1>18. Max(M) \in Nat /\ \A x \in L : End(x) <= Max(M)
  BY <1>14, <1>16, <1>17
<1> QED BY <1>9, <1>10, <1>11, <1>15, <1>18 DEF L

Pieces == [media : Schedulable, offset : Nat, dur : Nat \ {0}]

\* A schedule that a client composes, each piece within its media.
LEMMA ComposedBatched ==
    ASSUME NEW base \in Nat, NEW pieces \in Seq(Pieces), pieces # <<>>, NEW filler,
           \A k \in DOMAIN pieces : pieces[k].offset + pieces[k].dur <= Duration[pieces[k].media]
    PROVE  /\ Batched(Composed(base, pieces, filler)) /\ Composed(base, pieces, filler) # {}
<1> DEFINE n == Len(pieces)
           ds == [k \in 1..n |-> pieces[k].dur]
           at == Ends(base, ds)
           kind(k) == IF pieces[k].media \in filler THEN "filler" ELSE "primary"
           e == [k \in 1..n |-> Entry(at[k - 1], pieces[k].media, pieces[k].offset, pieces[k].dur, kind(k))]
<1>1. n \in Nat /\ n # 0 /\ DOMAIN pieces = 1..n
  OBVIOUS
<1>2. Composed(base, pieces, filler) = {e[k] : k \in 1..n}
  BY <1>1 DEF Composed
<1>3. \A k \in 1..n : /\ pieces[k].media \in Schedulable /\ pieces[k].offset \in Nat
                      /\ pieces[k].dur \in Nat \ {0}
  <2> TAKE k \in 1..n
  <2>1. pieces[k] \in Pieces
    OBVIOUS
  <2> QED BY <2>1 DEF Pieces
<1> HIDE DEF n
<1>5. ds \in Seq(Nat \ {0}) /\ Len(ds) = n /\ \A k \in 1..n : ds[k] = pieces[k].dur
  <2>1. ds \in [1..n -> Nat \ {0}]
    BY <1>3
  <2> QED BY <1>1, <2>1
<1> HIDE DEF ds
<1>6. at \in [0..n -> Nat] /\ at[0] = base /\ \A k \in 1..n : at[k] = at[k - 1] + ds[k]
  BY <1>5, EndsIs
<1> HIDE DEF at
<1>7. ASSUME NEW k \in 1..n
      PROVE  /\ e[k] \in EntryType /\ e[k].start = at[k - 1] /\ End(e[k]) = at[k]
             /\ e[k].offset + e[k].dur <= Duration[e[k].media]
  <2>1. at[k - 1] \in Nat
    BY <1>1, <1>6
  <2>2. e[k] = [start |-> at[k - 1], media |-> pieces[k].media, offset |-> pieces[k].offset,
                dur |-> pieces[k].dur, kind |-> kind(k)]
    BY DEF Entry
  <2>3. kind(k) \in {"primary", "filler"}
    OBVIOUS
  <2>4. ds[k] = pieces[k].dur /\ at[k] = at[k - 1] + ds[k]
    BY <1>5, <1>6
  <2> HIDE DEF e, kind
  <2>5. e[k] \in EntryType
    BY <1>3, <2>1, <2>2, <2>3 DEF EntryType
  <2>6. e[k].start = at[k - 1] /\ e[k].dur = pieces[k].dur /\ e[k].offset = pieces[k].offset
        /\ e[k].media = pieces[k].media
    BY <2>2
  <2>7. k \in DOMAIN pieces
    BY <1>1
  <2> QED BY <2>4, <2>5, <2>6, <2>7 DEF End
<1>8. e \in [1..n -> EntryType]
  <2>1. e = [k \in 1..n |-> e[k]]
    OBVIOUS
  <2> HIDE DEF e
  <2> QED BY <1>7, <2>1
<1> HIDE DEF e
<1>9. Batched({e[k] : k \in 1..n})
  BY <1>1, <1>6, <1>7, <1>8, LaidBatched
<1>10. 1 \in 1..n
  BY <1>1
<1> QED BY <1>2, <1>9, <1>10

-----------------------------------------------------------------------------
(* The inductive invariant.                                                *)

\* Every piece of a schedule that a client composes plays within its media.
ComposedFit ==
    \A p \in Layouts : \A k \in DOMAIN p : p[k].offset + p[k].dur <= Duration[p[k].media]

Typed ==
    /\ mode \in [slotGrid : BOOLEAN, eager : BOOLEAN]
    /\ lineup \in Seq(Media) /\ ready \subseteq Schedulable
    /\ created \in BOOLEAN /\ now \in Nat /\ edits \in Nat
    /\ request \in [Editors -> Requests \cup {NoRequest}]

\* What a request has read still holds, as far as its write relies on it.
ReadHolds(rs, r) ==
    /\ r.kind \in {"upsert", "save"} => PrevHolds(rs, r.prev, r.from, r.from)
    /\ r.kind = "save" => /\ r.from < r.to
                          /\ ~r.extend => LayoutEnd(r.from, r.draft) <= r.to
                          /\ r.extend => r.draft # <<>>
    /\ r.kind = "delete_range" => r.from < r.to
    /\ r.kind = "fill" => /\ r.next \in DOMAIN rs /\ End(r.entry) = rs[r.next].start
                          /\ r.entry.offset + r.entry.dur <= Duration[r.entry.media]
                          /\ PrevHolds(rs, r.prev, rs[r.next].start, r.entry.start)

Idle == \A e \in Editors : request[e] = NoRequest

SchInv ==
    /\ Typed /\ Good(rows)
    /\ \A e, f \in Editors : request[e] # NoRequest /\ request[f] # NoRequest => e = f
    /\ ~created => Idle
    /\ \A e \in Editors : request[e] # NoRequest => ReadHolds(rows, request[e])

\* The fields of a request.
LEMMA RequestFields ==
    ASSUME NEW r \in Requests
    PROVE  /\ r.kind = "delete" => /\ r = [kind |-> "delete", entry |-> r.entry, from |-> r.from, media |-> r.media]
                                   /\ r.entry \in Ids /\ r.from \in Nat /\ r.media \in Schedulable
           /\ r.kind = "delete_range" => /\ r.from \in Nat /\ r.to \in Nat /\ r.start \in Nat
                                         /\ r.media \in Schedulable
           /\ r.kind = "upsert" => r.from \in Nat /\ r.media \in Schedulable /\ r.prev \in Ids \cup {NoEntry}
           /\ r.kind = "fill" => r.entry \in EntryType /\ r.prev \in Ids \cup {NoEntry} /\ r.next \in Ids
           /\ r.kind = "save" => /\ r.from \in Nat /\ r.to \in Nat /\ r.extend \in BOOLEAN
                                 /\ r.draft \in Drafts /\ r.prev \in Ids \cup {NoEntry}
           /\ r.kind = "recompose" => r.from \in Nat /\ r.at \in Nat
           /\ r.kind = "remove" => r.from \in Nat /\ r.media \in Media
<1>1. CASE r \in [kind : {"delete"}, entry : Ids, from : Nat, media : Schedulable]
  BY <1>1
<1>2. CASE r \in [kind : {"delete_range"}, from : Nat, to : Nat, start : Nat, media : Schedulable]
  BY <1>2
<1>3. CASE r \in [kind : {"upsert"}, from : Nat, media : Schedulable, prev : Ids \cup {NoEntry}]
  BY <1>3
<1>4. CASE r \in [kind : {"fill"}, entry : [start : Nat, media : Schedulable, offset : Nat, dur : Nat \ {0},
                                    kind : {"filler"}], prev : Ids \cup {NoEntry}, next : Ids]
  <2>1. r.kind = "fill" /\ r.prev \in Ids \cup {NoEntry} /\ r.next \in Ids
        /\ r.entry \in [start : Nat, media : Schedulable, offset : Nat, dur : Nat \ {0}, kind : {"filler"}]
    BY <1>4
  <2>2. r.entry \in EntryType
    BY <2>1 DEF EntryType
  <2> QED BY <2>1, <2>2
<1>5. CASE r \in [kind : {"save"}, from : Nat, to : Nat, extend : BOOLEAN, draft : Drafts,
          prev : Ids \cup {NoEntry}, media : Schedulable \cup {NoMedia}]
  BY <1>5
<1>6. CASE r \in [kind : {"recompose"}, from : Nat, at : Nat]
  BY <1>6
<1>7. CASE r \in [kind : {"remove"}, from : Nat, media : Media]
  BY <1>7
<1> QED BY <1>1, <1>2, <1>3, <1>4, <1>5, <1>6, <1>7 DEF Requests

\* The channel that the extender sees.
LEMMA ChannelIs ==
    ASSUME Typed
    PROVE  /\ Channels(Channel)
           /\ \A s \in Seq(Media) : Channels([Channel EXCEPT !.lineup = s])
<1>1. ASSUME NEW r PROVE IsFiniteSet(NamedBy(r))
  <2>1. IsFiniteSet({r["prev"]}) /\ IsFiniteSet({r["next"]}) /\ IsFiniteSet({r.entry})
    BY FS_Singleton
  <2>2. IsFiniteSet({r["prev"]} \cup {r["next"]})
    BY <2>1, FS_Union
  <2>3. IsFiniteSet(({r["prev"]} \cup {r["next"]}) \cup {r.entry})
    BY <2>1, <2>2, FS_Union
  <2>4. NamedBy(r) \subseteq ({r["prev"]} \cup {r["next"]}) \cup {r.entry}
    BY DEF NamedBy
  <2> QED BY <2>3, <2>4, FS_Subset
<1> DEFINE f == [e \in Editors |-> NamedBy(request[e])]
           H == {f[e] : e \in Editors}
<1>2. IsFiniteSet(H)
  <2> HIDE DEF f
  <2> QED BY ScheduleAssumption, ImageFinite
<1>3. \A T \in H : IsFiniteSet(T)
  BY <1>1
<1>4. IsFiniteSet(UNION H)
  <2> HIDE DEF H
  <2> QED BY <1>2, <1>3, FS_UNION
<1>5. UNION H = UNION {NamedBy(request[e]) : e \in Editors}
  OBVIOUS
<1>6. Channel.lineup = lineup /\ IsFiniteSet(Channel.held)
  BY <1>4, <1>5 DEF Channel
<1>7. Channels(Channel)
  BY <1>6 DEF Channels, Typed
<1>8. ASSUME NEW s \in Seq(Media) PROVE Channels([Channel EXCEPT !.lineup = s])
  <2>1. [Channel EXCEPT !.lineup = s].lineup = s /\ [Channel EXCEPT !.lineup = s].held = Channel.held
    BY DEF Channel
  <2> QED BY <1>6, <2>1 DEF Channels
<1> QED BY <1>7, <1>8

LEMMA Committed ==
    ASSUME Good(rows), NEW result, Commit(result), result.outcome # "failed" => Good(result.rows)
    PROVE  Good(rows')
BY DEF Commit

LEMMA RebuiltGood ==
    ASSUME Typed, NEW rs, Good(rs), NEW resume
    PROVE  Good(Rebuilt(rs, resume).rows)
<1>1. Channels(Channel) /\ now \in Nat
  BY ChannelIs DEF Typed
<1>2. Onward(ExtendChannel(Channel, rs, now, resume, FALSE, 0).rows, rs)
  BY <1>1, ExtendChannelGood
<1> QED BY <1>2 DEF Rebuilt, Onward

\* A pass of the extender leaves true what requests have read.
LEMMA HoldsOn ==
    ASSUME NEW rs, Good(rs), NEW ts, Onward(ts, rs), NEW r \in Requests, ReadHolds(rs, r)
    PROVE  ReadHolds(ts, r)
<1>1. CASE r.kind \in {"upsert", "save"}
  <2>1. r.from \in Nat /\ PrevHolds(rs, r.prev, r.from, r.from)
    BY <1>1, RequestFields DEF ReadHolds
  <2>2. PrevHolds(ts, r.prev, r.from, r.from)
    BY <2>1, PrevStays
  <2> QED BY <1>1, <2>2 DEF ReadHolds
<1>2. CASE r.kind = "fill"
  <2>1. /\ r.next \in DOMAIN rs /\ End(r.entry) = rs[r.next].start
        /\ r.entry.offset + r.entry.dur <= Duration[r.entry.media]
        /\ PrevHolds(rs, r.prev, rs[r.next].start, r.entry.start)
    BY <1>2 DEF ReadHolds
  <2>2. r.entry.start \in Nat
    BY <1>2, RequestFields, EntryFields
  <2>3. rs[r.next].start \in Nat
    BY <2>1, GoodIs, RowFields
  <2>4. PrevHolds(ts, r.prev, rs[r.next].start, r.entry.start)
    BY <2>1, <2>2, <2>3, PrevStays
  <2>5. r.next \in DOMAIN ts /\ ts[r.next].start = rs[r.next].start
    BY <2>1 DEF Onward, Grows
  <2> QED BY <1>2, <2>1, <2>4, <2>5 DEF ReadHolds
<1>3. CASE r.kind \notin {"upsert", "save", "fill"}
  BY <1>3 DEF ReadHolds
<1> QED BY <1>1, <1>2, <1>3

-----------------------------------------------------------------------------
(* Steps by their shape.                                                   *)

LEMMA GrowStep ==
    ASSUME SchInv, Onward(rows', rows), UNCHANGED <<mode, lineup, ready, now, request>>,
           created' \in BOOLEAN, created => created', edits' \in Nat
    PROVE  SchInv'
<1>1. Typed'
  BY DEF SchInv, Typed
<1>2. Good(rows')
  BY DEF Onward
<1>3. \A e, f \in Editors : request'[e] # NoRequest /\ request'[f] # NoRequest => e = f
  BY DEF SchInv
<1>4. ~created' => Idle'
  BY DEF SchInv, Idle
<1>5. ASSUME NEW e \in Editors, request'[e] # NoRequest PROVE ReadHolds(rows', request'[e])
  <2>1. request[e] \in Requests /\ ReadHolds(rows, request[e]) /\ Good(rows)
    BY <1>5 DEF SchInv, Typed
  <2> QED BY <2>1, HoldsOn
<1> QED BY <1>1, <1>2, <1>3, <1>4, <1>5 DEF SchInv

\* Rows change while nothing is in flight.
LEMMA IdleStep ==
    ASSUME SchInv, Idle', Good(rows'), Typed'
    PROVE  SchInv'
BY DEF SchInv, Idle

LEMMA BeginStep ==
    ASSUME SchInv, ~Overlapping, MayEdit, NEW e \in Editors, NEW r \in Requests, Begin(e, r),
           ReadHolds(rows, r)
    PROVE  SchInv'
<1>1. Idle
  BY DEF MayEdit, Idle
<1>2. /\ request \in [Editors -> Requests \cup {NoRequest}] /\ request' = [request EXCEPT ![e] = r]
      /\ edits' = edits + 1 /\ rows' = rows /\ UNCHANGED others
  BY DEF Begin, SchInv, Typed, Edit
<1>3. request' \in [Editors -> Requests \cup {NoRequest}]
      /\ \A f \in Editors : request'[f] = IF f = e THEN r ELSE NoRequest
  BY <1>1, <1>2 DEF Idle
<1>4. Typed'
  BY <1>2, <1>3 DEF SchInv, Typed, others
<1>5. created'
  BY <1>2 DEF others, MayEdit
<1>6. \A f \in Editors : request'[f] # NoRequest => f = e /\ ReadHolds(rows', request'[f])
  BY <1>2, <1>3
<1> QED BY <1>2, <1>4, <1>5, <1>6 DEF SchInv

LEMMA FinishStep ==
    ASSUME SchInv, NEW e \in Editors, request[e] # NoRequest, NEW result, Finish(e, result),
           result.outcome # "failed" => Good(result.rows), lineup' \in Seq(Media)
    PROVE  SchInv'
<1>1. /\ request \in [Editors -> Requests \cup {NoRequest}] /\ request' = [request EXCEPT ![e] = NoRequest]
      /\ Commit(result) /\ UNCHANGED <<mode, ready, created, now, edits>>
  BY DEF Finish, SchInv, Typed
<1>2. \A f \in Editors : request[f] # NoRequest => f = e
  BY DEF SchInv
<1>3. Idle' /\ request' \in [Editors -> Requests \cup {NoRequest}]
  BY <1>1, <1>2 DEF Idle
<1>4. Typed'
  BY <1>1, <1>3 DEF SchInv, Typed
<1>5. Good(rows')
  BY <1>1, Committed DEF SchInv
<1> QED BY <1>3, <1>4, <1>5, IdleStep

\* An edit in one transaction.
LEMMA ApplyStep ==
    ASSUME SchInv, ~Overlapping, MayEdit, NEW result, Apply(result),
           result.outcome # "failed" => Good(result.rows)
    PROVE  SchInv'
<1>1. Commit(result) /\ edits' = edits + 1 /\ UNCHANGED <<mode, lineup, ready, created, now, request>>
  BY DEF Apply, Edit, others
<1>2. Idle'
  BY <1>1 DEF MayEdit, Idle
<1>3. Typed'
  BY <1>1 DEF SchInv, Typed
<1>4. Good(rows')
  BY <1>1, Committed DEF SchInv
<1> QED BY <1>2, <1>3, <1>4, IdleStep

-----------------------------------------------------------------------------
(* The extender and the creation.                                          *)

LEMMA ExtendSteps ==
    ASSUME SchInv, Tick \/ Extend \/ Create
    PROVE  SchInv'
<1>1. Good(rows) /\ Typed /\ Channels(Channel) /\ now \in Nat
  BY ChannelIs DEF SchInv, Typed
<1>2. Onward(rows, rows)
  BY <1>1, GrowsSelf DEF Onward
<1>3. CASE Tick
  <2> DEFINE X == ExtendChannel(Channel, rows, now, NoMedia, FALSE, LowWater)
  <2>1. Onward(X.rows, rows)
    BY <1>1, ExtendChannelGood
  <2>2. Onward(rows', rows)
    BY <1>2, <1>3, <2>1 DEF Tick, Commit
  <2>3. UNCHANGED <<mode, lineup, ready, created, now, edits, request>>
    BY <1>3 DEF Tick, others
  <2> QED BY <2>2, <2>3, GrowStep DEF SchInv, Typed
<1>4. CASE Extend
  <2> DEFINE X == ExtendChannel(Channel, rows, now, NoMedia, FALSE, 0)
  <2>1. Onward(X.rows, rows)
    BY <1>1, ExtendChannelGood
  <2>2. Onward(rows', rows)
    BY <1>2, <1>4, <2>1 DEF Extend, Commit, Rebuilt
  <2>3. UNCHANGED <<mode, lineup, ready, created, now, edits, request>>
    BY <1>4 DEF Extend, others
  <2> QED BY <2>2, <2>3, GrowStep DEF SchInv, Typed
<1>5. CASE Create
  <2> DEFINE X == ExtendChannel(Channel, rows, now, NoMedia, mode.slotGrid, 0)
  <2>1. Onward(X.rows, rows)
    BY <1>1, ExtendChannelGood
  <2>2. Onward(rows', rows)
    BY <1>2, <1>5, <2>1 DEF Create, Commit
  <2>3. created' = TRUE /\ UNCHANGED <<mode, lineup, ready, now, edits, request>>
    BY <1>5 DEF Create
  <2> QED BY <2>2, <2>3, GrowStep DEF SchInv, Typed
<1> QED BY <1>3, <1>4, <1>5

\* A composed schedule is the first, or the index refuses it.
LEMMA CreateExplicitStep ==
    ASSUME SchInv, ComposedFit, NEW pieces \in Layouts, NEW filler, CreateExplicit(pieces, filler)
    PROVE  SchInv'
<1> DEFINE base == IF mode.slotGrid THEN AlignToSlot(StartTime) ELSE StartTime
           C == Composed(base, pieces, filler)
           ts == Insert(Channel, rows, C, NoEntry)
<1>1. Good(rows) /\ Typed /\ Channels(Channel) /\ ~created /\ Rows(rows)
  BY ChannelIs, GoodIs DEF SchInv, CreateExplicit
<1>2. Batched(C) /\ C # {}
  <2>1. base \in Nat
    BY ScheduleAssumption, AlignIs
  <2>2. pieces \in Seq(Pieces) /\ pieces # <<>>
    BY ScheduleAssumption DEF Pieces
  <2>3. \A k \in DOMAIN pieces : pieces[k].offset + pieces[k].dur <= Duration[pieces[k].media]
    BY DEF ComposedFit
  <2> HIDE DEF base
  <2> QED BY <2>1, <2>2, <2>3, ComposedBatched
<1> HIDE DEF C
<1>3. Commit(Outcome(IF Indexed(ts) THEN "ok" ELSE "failed", ts))
      /\ created' = TRUE /\ edits' = edits + 1 /\ UNCHANGED <<mode, lineup, ready, now, request>>
  BY DEF CreateExplicit, C
<1>4. Indexed(ts) => Good(ts)
  <2>1. CASE DOMAIN rows = {}
    <3>1. \A e \in C : e.start >= 0
      BY <1>2, EntryFields DEF Batched
    <3>2. NoEntry = LastBefore(rows, 0)
      BY <2>1, NoLatest DEF LastBefore
    <3>3. Good(ts)
      BY <1>1, <1>2, <2>1, <3>1, <3>2, Appended
    <3> QED BY <3>3
  <2>2. CASE DOMAIN rows # {}
    <3>1. PICK j \in DOMAIN rows : rows[j].anchor = NoEntry
      BY <1>1, <2>2, Leader
    <3>2. Inserts(ts, rows, C, NoEntry)
      BY <1>1, <1>2, Inserted DEF Channels
    <3> HIDE DEF ts
    <3>3. ~Indexed(ts)
      BY <1>2, <3>1, <3>2, NotIndexed
    <3> QED BY <3>3
  <2> QED BY <2>1, <2>2
<1>5. Good(rows')
  <2> HIDE DEF ts
  <2> QED BY <1>1, <1>3, <1>4 DEF Commit, Outcome
<1>6. Typed'
  BY <1>1, <1>3 DEF Typed
<1>7. Idle'
  BY <1>1, <1>3 DEF SchInv, Idle
<1> QED BY <1>5, <1>6, <1>7, IdleStep

-----------------------------------------------------------------------------
(* Edits in one transaction.                                               *)

LEMMA AmongTyped ==
    ASSUME NEW s \in Seq(Media), NEW S
    PROVE  Among(s, S) \in Seq(Media)
<1>1. Among(s, S) \in Seq(Media \cap S)
  BY AmongIs
<1> DEFINE x == Among(s, S)
<1>2. x \in Seq(Media \cap S)
  BY <1>1
<1> HIDE DEF x
<1>3. x \in Seq(Media)
  BY <1>2
<1> QED BY <1>3 DEF x

LEMMA AtOnceStep ==
    ASSUME SchInv, ~Overlapping, MayEdit, EditAtOnce
    PROVE  SchInv'
<1>1. Good(rows) /\ Typed /\ Channels(Channel) /\ Rows(rows)
  BY ChannelIs, GoodIs DEF SchInv
<1>2. CASE Restart
  <2> DEFINE X == Rebuilt(<<>>, NoMedia)
  <2>1. Good(X.rows)
    BY <1>1, EmptyGood, RebuiltGood
  <2>2. Apply(X)
    BY <1>2 DEF Restart
  <2> HIDE DEF X
  <2> QED BY <2>1, <2>2, ApplyStep
<1>3. CASE \E t \in Starts : Clear(t)
  <2>1. PICK i \in DOMAIN rows : Clear(rows[i].start)
    BY <1>3 DEF Starts
  <2> DEFINE X == Outcome("ok", ClearAfter(rows, rows[i].start))
  <2>2. rows[i].start \in Nat
    BY <1>1, RowFields
  <2>3. Good(X.rows)
    BY <1>1, <2>2, ClearAfterGood DEF Outcome
  <2>4. Apply(X)
    BY <2>1 DEF Clear
  <2> HIDE DEF X
  <2> QED BY <2>3, <2>4, ApplyStep
<1>4. CASE \E i \in DOMAIN rows : DeleteEntry(i)
  <2>1. PICK i \in DOMAIN rows : DeleteEntry(i)
    BY <1>4
  <2> DEFINE X == Outcome("ok", Deleted(rows, i))
  <2>2. Good(X.rows)
    BY <1>1, DeletedGood DEF Outcome
  <2>3. Apply(X)
    BY <2>1 DEF DeleteEntry
  <2> HIDE DEF X
  <2> QED BY <2>2, <2>3, ApplyStep
<1>5. CASE \E i \in DOMAIN rows, m \in Schedulable, after \in BOOLEAN : InsertRelative(i, m, after)
  <2>1. PICK i \in DOMAIN rows, m \in Schedulable, after \in BOOLEAN : InsertRelative(i, m, after)
    BY <1>5
  <2> DEFINE spliced == Relative(Channel, rows, i, m, after)
             X == Outcome(IF Indexed(spliced) THEN "ok" ELSE "failed", spliced)
  <2>2. Good(spliced)
    BY <1>1, RelativeGood DEF Channels
  <2>3. Apply(X)
    BY <2>1 DEF InsertRelative, Relative, Shifted
  <2>4. X.rows = spliced
    BY OutcomeIs
  <2> HIDE DEF X, spliced
  <2> QED BY <2>2, <2>3, <2>4, ApplyStep
<1>6. CASE \E from \in Times, to \in WindowEnds : DeleteRange(from, to)
  <2>1. PICK from \in Times, to \in WindowEnds : DeleteRange(from, to)
    BY <1>6
  <2> DEFINE left == RangeDeleted(rows, from, to)
             X == Outcome(IF Indexed(left) THEN "ok" ELSE "failed", left)
  <2>2. from \in Nat /\ to \in Nat /\ from < to
    <3>1. \A i \in DOMAIN rows : rows[i].start \in Nat
      BY <1>1, RowFields
    <3> QED BY <2>1, <3>1, ScheduleAssumption DEF Times, WindowEnds, Starts, DeleteRange, RangeAsked
  <2>3. Good(left)
    BY <1>1, <2>2, RangeDeletedGood
  <2>4. Apply(X)
    BY <2>1 DEF DeleteRange
  <2>5. X.rows = left
    BY OutcomeIs
  <2> HIDE DEF X, left
  <2> QED BY <2>3, <2>4, <2>5, ApplyStep
<1>7. CASE \E m \in Media : RemoveMember(m)
  <2>1. PICK m \in Media : RemoveMember(m)
    BY <1>7
  <2>2. lineup' = Among(lineup, Media \ {m}) /\ edits' = edits + 1
        /\ UNCHANGED <<rows, mode, ready, created, now, request>>
    BY <2>1 DEF RemoveMember, Edit
  <2>3. lineup' \in Seq(Media)
    BY <1>1, <2>2, AmongTyped DEF Typed
  <2>4. Typed'
    BY <1>1, <2>2, <2>3 DEF Typed
  <2>5. Idle'
    BY <2>2 DEF MayEdit, Idle
  <2>6. Good(rows')
    BY <1>1, <2>2
  <2> QED BY <2>4, <2>5, <2>6, IdleStep
<1> QED BY <1>2, <1>3, <1>4, <1>5, <1>6, <1>7 DEF EditAtOnce

-----------------------------------------------------------------------------
(* What an edit reads.                                                     *)

\* Nothing that starts before t reaches past it.
LEMMA NothingInside ==
    ASSUME Good(rows), NEW t \in Nat, ~Inside(t)
    PROVE  PrevHolds(rows, LastBefore(rows, t), t, t)
<1>1. \A i \in DOMAIN rows : rows[i].start \in Nat /\ End(rows[i]) \in Nat
  BY GoodIs, RowFields
<1>2. \A i \in DOMAIN rows : rows[i].start < t => End(rows[i]) <= t
  BY <1>1 DEF Inside
<1> QED BY <1>2 DEF PrevHolds

LEMMA BeforeTyped ==
    ASSUME Good(rows), NEW t \in Nat
    PROVE  LastBefore(rows, t) \in Ids \cup {NoEntry}
<1>1. Rows(rows) /\ Apart(rows)
  BY GoodIs
<1>2. LastBefore(rows, t) # NoEntry => LastBefore(rows, t) \in DOMAIN rows
  BY <1>1, LastBeforeIs
<1> QED BY <1>1, <1>2 DEF Rows

\* A gap, and the entry that fills it.
LEMMA GapHolds ==
    ASSUME Good(rows), NEW t \in Nat, Gap(t)
    PROVE  LET x == FirstFrom(rows, t)
           IN  /\ x \in DOMAIN rows /\ rows[x].start \in Nat /\ t < rows[x].start
               /\ PrevHolds(rows, LastBefore(rows, t), rows[x].start, t)
<1> DEFINE x == FirstFrom(rows, t)
           p == LastBefore(rows, t)
<1>1. Rows(rows) /\ Apart(rows)
  BY GoodIs
<1>2. \A i \in DOMAIN rows : /\ rows[i].start \in Nat /\ End(rows[i]) \in Nat
                             /\ rows[i].start < End(rows[i]) /\ i # NoEntry
  BY <1>1, RowFields
<1>3. /\ x \in DOMAIN rows /\ rows[x].start >= t
      /\ \A i \in DOMAIN rows : rows[i].start >= t => rows[x].start <= rows[i].start
  BY <1>1, FirstFromIs DEF Gap
<1>4. /\ p = NoEntry <=> \A i \in DOMAIN rows : rows[i].start >= t
      /\ p # NoEntry => /\ p \in DOMAIN rows /\ rows[p].start < t
                        /\ \A i \in DOMAIN rows : rows[i].start < t => rows[i].start <= rows[p].start
  BY <1>1, LastBeforeIs
<1>5. (\A i \in DOMAIN rows : rows[i].start # t) /\ (p # NoEntry => End(rows[p]) <= t)
  BY DEF Gap
<1> HIDE DEF x
<1>6. rows[x].start \in Nat /\ t < rows[x].start
  BY <1>2, <1>3, <1>5
<1>7. \A i \in DOMAIN rows : rows[i].start < rows[x].start <=> rows[i].start < t
  BY <1>2, <1>3, <1>6
<1>8. {i \in DOMAIN rows : rows[i].start < rows[x].start} = {i \in DOMAIN rows : rows[i].start < t}
  BY <1>7
<1>9. p = LastBefore(rows, rows[x].start)
  BY <1>8 DEF LastBefore
<1> HIDE DEF p
<1>10. ASSUME NEW i \in DOMAIN rows, rows[i].start < rows[x].start PROVE End(rows[i]) <= t
  <2>1. rows[i].start < t /\ p # NoEntry /\ p \in DOMAIN rows /\ rows[i].start <= rows[p].start
    BY <1>2, <1>4, <1>7, <1>10
  <2>2. End(rows[p]) <= t
    BY <1>5, <2>1
  <2>3. CASE i = p
    BY <2>2, <2>3
  <2>4. CASE i # p
    <3>1. End(rows[i]) <= rows[p].start
      BY <1>1, <1>2, <2>1, <2>4 DEF Apart
    <3> QED BY <1>2, <2>1, <2>2, <3>1
  <2> QED BY <2>3, <2>4
<1>11. PrevHolds(rows, p, rows[x].start, t)
  BY <1>9, <1>10 DEF PrevHolds
<1> QED BY <1>3, <1>6, <1>11 DEF p, x

\* What the window of an edit selects from.
LEMMA WindowTyped ==
    ASSUME Good(rows), NEW from \in Times, NEW to \in WindowEnds
    PROVE  from \in Nat /\ to \in Nat
<1>1. \A i \in DOMAIN rows : rows[i].start \in Nat
  BY GoodIs, RowFields
<1> QED BY <1>1, ScheduleAssumption DEF Times, WindowEnds, Starts

LEMMA IntersectingRows ==
    ASSUME Good(rows), NEW from, NEW to, NEW S, S = Intersecting(rows, from, to), S # {}
    PROVE  /\ Earliest(rows, S) \in DOMAIN rows /\ Latest(rows, S) \in DOMAIN rows
           /\ rows[Earliest(rows, S)].start \in Nat /\ rows[Latest(rows, S)].media \in Schedulable
<1>1. Rows(rows) /\ S \in SUBSET DOMAIN rows
  BY GoodIs DEF Intersecting
<1>2. Earliest(rows, S) \in S /\ Latest(rows, S) \in S
  BY <1>1, EarliestIs, LatestIs
<1> QED BY <1>1, <1>2, RowFields

LEMMA ReadStep ==
    ASSUME SchInv, ~Overlapping, ~Overlong, MayEdit, NEW e \in Editors, Read(e)
    PROVE  SchInv'
<1>1. Good(rows) /\ Typed /\ Rows(rows) /\ Apart(rows) /\ now \in Nat
  BY GoodIs DEF SchInv, Typed
<1>2. CASE ReadRecompose(e)
  <2> DEFINE p == LastBefore(rows, now + 1)
             r == [kind |-> "recompose", at |-> now, from |-> IF p = NoEntry THEN now ELSE End(rows[p])]
  <2>1. p # NoEntry => p \in DOMAIN rows
    <3>1. now + 1 \in Nat
      BY <1>1
    <3> QED BY <1>1, <3>1, LastBeforeIs
  <2>2. p # NoEntry => End(rows[p]) \in Nat
    BY <1>1, <2>1, RowFields
  <2> HIDE DEF p
  <2>3. r \in Requests
    BY <1>1, <2>2 DEF Requests
  <2>4. ReadHolds(rows, r)
    BY DEF ReadHolds
  <2>5. Begin(e, r)
    BY <1>2 DEF ReadRecompose, p
  <2> HIDE DEF r
  <2> QED BY <2>3, <2>4, <2>5, BeginStep
<1>3. CASE \E m \in Media : ReadRemoveMedia(e, m)
  <2>1. PICK m \in Media : ReadRemoveMedia(e, m)
    BY <1>3
  <2> DEFINE S == {i \in DOMAIN rows : rows[i].media = m /\ rows[i].start >= now}
             first == Earliest(rows, S)
             r == [kind |-> "remove", from |-> rows[first].start, media |-> m]
  <2>2. Begin(e, r) /\ S # {}
    BY <2>1 DEF ReadRemoveMedia
  <2>3. S \in SUBSET DOMAIN rows
    OBVIOUS
  <2>4. first \in DOMAIN rows
    <3> HIDE DEF S
    <3> QED BY <1>1, <2>2, <2>3, EarliestIs
  <2>5. rows[first].start \in Nat
    BY <1>1, <2>4, RowFields
  <2> HIDE DEF first
  <2>6. r \in Requests /\ ReadHolds(rows, r)
    BY <2>5 DEF Requests, ReadHolds
  <2> HIDE DEF r
  <2> QED BY <2>2, <2>6, BeginStep
<1>4. CASE \E i \in DOMAIN rows : ReadDelete(e, i)
  <2>1. PICK i \in DOMAIN rows : ReadDelete(e, i)
    BY <1>4
  <2> DEFINE r == [kind |-> "delete", entry |-> i, from |-> rows[i].start, media |-> rows[i].media]
  <2>2. Begin(e, r)
    BY <2>1 DEF ReadDelete
  <2>3. i \in Ids /\ rows[i].start \in Nat /\ rows[i].media \in Schedulable
    BY <1>1, RowFields
  <2>4. r \in Requests /\ ReadHolds(rows, r)
    BY <2>3 DEF Requests, ReadHolds
  <2> HIDE DEF r
  <2> QED BY <2>2, <2>4, BeginStep
<1>5. CASE \E from \in Times, m \in Schedulable : ReadUpsert(e, from, m)
  <2>1. PICK from \in Times, m \in Schedulable : ReadUpsert(e, from, m)
    BY <1>5
  <2> DEFINE p == LastBefore(rows, from)
             r == [kind |-> "upsert", from |-> from, media |-> m, prev |-> p]
  <2>2. Begin(e, r) /\ ~Inside(from)
    BY <2>1 DEF ReadUpsert
  <2>3. from \in Nat
    BY ScheduleAssumption DEF Times
  <2>4. p \in Ids \cup {NoEntry} /\ PrevHolds(rows, p, from, from)
    BY <1>1, <2>2, <2>3, BeforeTyped, NothingInside
  <2> HIDE DEF p
  <2>5. r \in Requests
    BY <2>3, <2>4 DEF Requests
  <2>6. ReadHolds(rows, r)
    BY <2>4 DEF ReadHolds
  <2> HIDE DEF r
  <2> QED BY <2>2, <2>5, <2>6, BeginStep
<1>6. CASE \E from \in Times, m \in Schedulable :
             \E sequential \in BOOLEAN, offset \in 0..(Duration[m] - 1) :
                ReadFillGap(e, from, m, sequential, offset)
  <2>0. PICK from \in Times, m \in Schedulable :
          \E sequential \in BOOLEAN, offset \in 0..(Duration[m] - 1) :
             ReadFillGap(e, from, m, sequential, offset)
    BY <1>6
  <2>1. PICK sequential \in BOOLEAN, asked \in 0..(Duration[m] - 1) :
          ReadFillGap(e, from, m, sequential, asked)
    BY <2>0
  <2> DEFINE x == FirstFrom(rows, from)
             p == LastBefore(rows, from)
             d == rows[x].start - from
             offset == OffsetAsked(m, from, d, sequential, asked)
             y == Entry(from, m, offset, d, "filler")
             r == [kind |-> "fill", entry |-> y, prev |-> p, next |-> x]
  <2>2. Begin(e, r) /\ Gap(from) /\ offset + d <= Duration[m] /\ m \in Range(Filler)
    BY <2>1 DEF ReadFillGap
  <2>3. from \in Nat
    BY ScheduleAssumption DEF Times
  <2>4. /\ x \in DOMAIN rows /\ rows[x].start \in Nat /\ from < rows[x].start
        /\ PrevHolds(rows, p, rows[x].start, from)
    BY <1>1, <2>2, <2>3, GapHolds
  <2>5. p \in Ids \cup {NoEntry} /\ x \in Ids
    BY <1>1, <2>3, <2>4, BeforeTyped DEF Rows
  <2>6. d \in Nat \ {0} /\ from + d = rows[x].start
    BY <2>3, <2>4
  <2>7. offset \in Nat
    <3>1. Duration[m] \in Nat \ {0}
      BY BuilderAssumption
    <3>2. asked \in Nat
      BY <3>1
    <3>3. Cursors(rows, from)[m] \in Nat
      BY <1>1, <2>2, <2>3, CursorsPlaced DEF Placed
    <3> QED BY <3>2, <3>3 DEF OffsetAsked, FillerOffset
  <2> HIDE DEF x, p, d, offset
  <2>8. y = [start |-> from, media |-> m, offset |-> offset, dur |-> d, kind |-> "filler"]
    BY DEF Entry
  <2> HIDE DEF y
  <2>9. /\ y \in [start : Nat, media : Schedulable, offset : Nat, dur : Nat \ {0}, kind : {"filler"}]
        /\ y.start = from /\ y.offset + y.dur <= Duration[y.media] /\ End(y) = rows[x].start
    BY <2>2, <2>3, <2>6, <2>7, <2>8 DEF End
  <2>10. r \in Requests
    BY <2>5, <2>9 DEF Requests
  <2>11. ReadHolds(rows, r)
    BY <2>4, <2>9 DEF ReadHolds
  <2> HIDE DEF r
  <2> QED BY <2>2, <2>10, <2>11, BeginStep
<1>7. CASE \E from \in Times, to \in WindowEnds : ReadDeleteRange(e, from, to)
  <2>1. PICK from \in Times, to \in WindowEnds : ReadDeleteRange(e, from, to)
    BY <1>7
  <2> DEFINE S == Intersecting(rows, from, to)
             r == [kind |-> "delete_range", from |-> from, to |-> to,
                   start |-> rows[Earliest(rows, S)].start, media |-> rows[Latest(rows, S)].media]
  <2>2. Begin(e, r) /\ from < to /\ S # {}
    BY <2>1 DEF ReadDeleteRange, RangeAsked
  <2>3. from \in Nat /\ to \in Nat
    BY <1>1, WindowTyped
  <2>4. rows[Earliest(rows, S)].start \in Nat /\ rows[Latest(rows, S)].media \in Schedulable
    BY <1>1, <2>2, IntersectingRows
  <2> HIDE DEF S
  <2>5. r \in Requests /\ ReadHolds(rows, r)
    BY <2>2, <2>3, <2>4 DEF Requests, ReadHolds
  <2> HIDE DEF r
  <2> QED BY <2>2, <2>5, BeginStep
<1>8. CASE \E from \in Times, to \in WindowEnds :
             \E draft \in Drafts, extend, preserve \in BOOLEAN :
                ReadSaveWindow(e, from, to, draft, extend, preserve)
  <2>1. PICK from \in Times, to \in WindowEnds, draft \in Drafts, extend \in BOOLEAN, preserve \in BOOLEAN :
          ReadSaveWindow(e, from, to, draft, extend, preserve)
    BY <1>8
  <2> DEFINE S == Intersecting(rows, from, to)
             p == LastBefore(rows, from)
             m == IF preserve /\ S # {} THEN rows[Latest(rows, S)].media
                  ELSE IF draft = <<>> THEN NoMedia ELSE draft[Len(draft)]
             r == [kind |-> "save", from |-> from, to |-> to, extend |-> extend, draft |-> draft,
                   prev |-> p, media |-> m]
  <2>2. /\ Begin(e, r) /\ from < to /\ ~Inside(from)
        /\ (draft = <<>> => ~extend)
        /\ (~extend => LayoutEnd(from, draft) <= to)
    BY <2>1 DEF ReadSaveWindow, WindowAsked
  <2>3. from \in Nat /\ to \in Nat
    BY <1>1, WindowTyped
  <2>4. p \in Ids \cup {NoEntry} /\ PrevHolds(rows, p, from, from)
    BY <1>1, <2>2, <2>3, BeforeTyped, NothingInside
  <2>5. m \in Schedulable \cup {NoMedia}
    <3>1. S # {} => rows[Latest(rows, S)].media \in Schedulable
      BY <1>1, IntersectingRows
    <3>2. draft # <<>> => draft[Len(draft)] \in Schedulable
      <4>1. PICK n \in Nat : draft \in [1..n -> Schedulable]
        BY DEF Drafts
      <4>2. draft \in Seq(Schedulable)
        BY <4>1
      <4> QED BY <4>2
    <3> QED BY <3>1, <3>2
  <2> HIDE DEF S, p, m
  <2>6. r \in Requests
    BY <2>3, <2>4, <2>5 DEF Requests
  <2>7. ReadHolds(rows, r)
    BY <2>2, <2>4 DEF ReadHolds
  <2> HIDE DEF r
  <2> QED BY <2>2, <2>6, <2>7, BeginStep
<1> QED BY <1>2, <1>3, <1>4, <1>5, <1>6, <1>7, <1>8 DEF Read

-----------------------------------------------------------------------------
(* What an edit leaves.                                                    *)

LEMMA PendingIs ==
    ASSUME SchInv, NEW e \in Editors, NEW kind, Pending(e, kind)
    PROVE  /\ request[e] \in Requests /\ request[e] # NoRequest /\ request[e].kind = kind
           /\ ReadHolds(rows, request[e])
           /\ Good(rows) /\ Typed /\ Channels(Channel) /\ now \in Nat /\ lineup \in Seq(Media)
<1>1. request[e] # NoRequest /\ request[e].kind = kind
  BY DEF Pending
<1> QED BY <1>1, ChannelIs DEF SchInv, Typed

LEMMA WriteSteps ==
    ASSUME SchInv, NEW e \in Editors, Write(e)
    PROVE  SchInv'
<1> DEFINE r == request[e]
<1>1. CASE WriteDelete(e)
  <2> DEFINE left == ClearAfter(Deleted(rows, r.entry), r.from)
             X == IF r.entry \notin DOMAIN rows THEN Outcome("failed", rows) ELSE Rebuilt(left, r.media)
  <2>1. Pending(e, "delete") /\ Finish(e, X) /\ lineup' = lineup
    BY <1>1 DEF WriteDelete
  <2>2. r \in Requests /\ r # NoRequest /\ r.kind = "delete" /\ Good(rows) /\ Typed /\ lineup \in Seq(Media)
    BY <2>1, PendingIs
  <2>3. r.from \in Nat
    BY <2>2, RequestFields
  <2>4. r.entry \in DOMAIN rows => Good(X.rows)
    <3>1. ASSUME r.entry \in DOMAIN rows PROVE Good(Deleted(rows, r.entry))
      BY <2>2, <3>1, DeletedGood
    <3>2. ASSUME r.entry \in DOMAIN rows PROVE Good(left)
      BY <2>3, <3>1, <3>2, ClearAfterGood
    <3> HIDE DEF left
    <3> QED BY <2>2, <3>2, RebuiltGood
  <2>5. r.entry \notin DOMAIN rows => X.outcome = "failed"
    BY DEF Outcome
  <2> HIDE DEF X
  <2> QED BY <2>1, <2>2, <2>4, <2>5, FinishStep
<1>2. CASE WriteDeleteRange(e)
  <2> DEFINE left == RangeDeleted(rows, r.from, r.to)
             kept == ClearAfter(left, r.start)
             X == IF Indexed(left) THEN Rebuilt(kept, r.media) ELSE Outcome("failed", rows)
  <2>1. Pending(e, "delete_range") /\ Finish(e, X) /\ lineup' = lineup
    BY <1>2 DEF WriteDeleteRange
  <2>2. /\ r \in Requests /\ r # NoRequest /\ r.kind = "delete_range" /\ Good(rows) /\ Typed
        /\ lineup \in Seq(Media) /\ ReadHolds(rows, r)
    BY <2>1, PendingIs
  <2>3. r.from \in Nat /\ r.to \in Nat /\ r.start \in Nat /\ r.from < r.to
    BY <2>2, RequestFields DEF ReadHolds
  <2>4. Good(left)
    BY <2>2, <2>3, RangeDeletedGood
  <2> HIDE DEF left
  <2>5. Good(kept)
    BY <2>3, <2>4, ClearAfterGood
  <2> HIDE DEF kept
  <2>6. X.outcome = "failed" \/ Good(X.rows)
    BY <2>2, <2>5, RebuiltGood DEF Outcome
  <2> HIDE DEF X
  <2> QED BY <2>1, <2>2, <2>6, FinishStep
<1>3. CASE WriteUpsert(e)
  <2> DEFINE y == Entry(r.from, r.media, 0, Duration[r.media], "primary")
             b == {y}
             ts == Insert(Channel, ClearAfter(rows, r.from), b, r.prev)
             X == IF Indexed(ts) THEN Rebuilt(ts, r.media) ELSE Outcome("failed", rows)
  <2>1. Pending(e, "upsert") /\ Finish(e, X) /\ lineup' = lineup
    BY <1>3 DEF WriteUpsert
  <2>2. /\ r \in Requests /\ r # NoRequest /\ r.kind = "upsert" /\ Good(rows) /\ Typed
        /\ lineup \in Seq(Media) /\ ReadHolds(rows, r) /\ Channels(Channel)
    BY <2>1, PendingIs
  <2>3. r.from \in Nat /\ r.media \in Schedulable /\ r.prev \in Ids \cup {NoEntry}
    BY <2>2, RequestFields
  <2>4. PrevHolds(rows, r.prev, r.from, r.from)
    BY <2>2 DEF ReadHolds
  <2>5. Batched(b) /\ b # {} /\ \A d \in b : d.start >= r.from
    <3>1. Duration[r.media] \in Nat \ {0}
      BY <2>3, BuilderAssumption
    <3>2. y = [start |-> r.from, media |-> r.media, offset |-> 0, dur |-> Duration[r.media], kind |-> "primary"]
      BY DEF Entry
    <3> HIDE DEF y
    <3>3. y \in EntryType /\ y.offset + y.dur <= Duration[y.media] /\ y.start = r.from
      BY <2>3, <3>1, <3>2 DEF EntryType
    <3> QED BY <2>3, <3>3, OneBatched
  <2> HIDE DEF b, r
  <2>6. Indexed(ts) => Good(ts)
    BY <2>2, <2>3, <2>4, <2>5, RebuiltFrom
  <2> HIDE DEF ts
  <2>7. X.outcome = "failed" \/ Good(X.rows)
    BY <2>2, <2>6, RebuiltGood DEF Outcome
  <2> HIDE DEF X
  <2> QED BY <2>1, <2>2, <2>7, FinishStep DEF r
<1>4. CASE WriteFillGap(e)
  <2> DEFINE us == Fills(Channel, rows, r.entry, r.next, r.prev)
             X == Outcome(IF Indexed(us) THEN "ok" ELSE "failed", us)
  <2>1. Pending(e, "fill")
    BY <1>4 DEF WriteFillGap
  <2>2. /\ r \in Requests /\ r # NoRequest /\ r.kind = "fill" /\ Good(rows) /\ Typed
        /\ lineup \in Seq(Media) /\ ReadHolds(rows, r) /\ Channels(Channel)
    BY <2>1, PendingIs
  <2>3. r.entry \in EntryType /\ r.prev \in Ids \cup {NoEntry}
    BY <2>2, RequestFields
  <2>4. /\ r.next \in DOMAIN rows /\ End(r.entry) = rows[r.next].start
        /\ r.entry.offset + r.entry.dur <= Duration[r.entry.media]
        /\ PrevHolds(rows, r.prev, rows[r.next].start, r.entry.start)
    BY <2>2 DEF ReadHolds
  <2>5. Finish(e, X) /\ lineup' = lineup
    BY <1>4, <2>4 DEF WriteFillGap, Fills
  <2>6. Indexed(us) => Good(us)
    BY <2>2, <2>3, <2>4, FillGood
  <2> HIDE DEF us
  <2>7. X.outcome = "failed" \/ Good(X.rows)
    BY <2>6 DEF Outcome
  <2> HIDE DEF X
  <2> QED BY <2>2, <2>5, <2>7, FinishStep
<1>5. CASE WriteSaveWindow(e)
  <2> DEFINE B == Layout(r.from, r.draft)
             ts == Insert(Channel, ClearAfter(rows, r.from), B, r.prev)
             Y == IF Indexed(ts) THEN Rebuilt(ts, r.media) ELSE Outcome("failed", rows)
             X == IF ~r.extend THEN SavedInPlace(r) ELSE Y
  <2>1. Pending(e, "save") /\ Finish(e, X) /\ lineup' = lineup
    BY <1>5 DEF WriteSaveWindow
  <2>2. /\ r \in Requests /\ r # NoRequest /\ r.kind = "save" /\ Good(rows) /\ Typed
        /\ lineup \in Seq(Media) /\ ReadHolds(rows, r) /\ Channels(Channel)
    BY <2>1, PendingIs
  <2>3. r.from \in Nat /\ r.to \in Nat /\ r.draft \in Drafts /\ r.prev \in Ids \cup {NoEntry}
    BY <2>2, RequestFields
  <2>4. /\ PrevHolds(rows, r.prev, r.from, r.from) /\ r.from < r.to
        /\ ~r.extend => LayoutEnd(r.from, r.draft) <= r.to
        /\ r.extend => r.draft # <<>>
    BY <2>2 DEF ReadHolds
  <2>5. /\ Batched(B) /\ (\A d \in B : d.start >= r.from /\ End(d) <= LayoutEnd(r.from, r.draft))
        /\ LayoutEnd(r.from, r.draft) \in Nat
        /\ r.draft # <<>> => B # {}
    BY <2>3, LayoutBatched
  <2> HIDE DEF B
  <2>6. CASE r.extend
    <3>1. B # {} /\ \A d \in B : d.start >= r.from
      BY <2>4, <2>5, <2>6
    <3> HIDE DEF r
    <3>2. Indexed(ts) => Good(ts)
      BY <2>2, <2>3, <2>4, <2>5, <3>1, RebuiltFrom
    <3> HIDE DEF ts
    <3>3. Y.outcome = "failed" \/ Good(Y.rows)
      BY <2>2, <3>2, RebuiltGood DEF Outcome
    <3>4. Finish(e, Y)
      BY <2>1, <2>6
    <3> HIDE DEF Y
    <3> QED BY <2>1, <2>2, <3>3, <3>4, FinishStep DEF r
  <2>7. CASE ~r.extend
    <3>1. \A d \in B : d.start >= r.from /\ End(d) <= r.to
      <4> TAKE d \in B
      <4>1. End(d) \in Nat
        BY <2>5, EntryFields DEF Batched
      <4> QED BY <2>3, <2>4, <2>5, <2>7, <4>1
    <3> DEFINE kept == Keep(rows, DOMAIN rows \ Intersecting(rows, r.from, r.to))
               inserted == Insert(Channel, kept, B, r.prev)
               new == DOMAIN inserted \ DOMAIN kept
               next == FirstFrom(rows, r.to)
               saved == IF next = NoEntry THEN inserted
                        ELSE [inserted EXCEPT ![next].anchor =
                                IF new = {} THEN r.prev ELSE Latest(inserted, new)]
               Z == Outcome(IF Indexed(inserted) /\ Indexed(saved) THEN "ok" ELSE "failed", saved)
    <3>2. Finish(e, Z)
      BY <2>1, <2>7 DEF SavedInPlace, B
    <3> HIDE DEF r
    <3>3. Indexed(inserted) /\ Indexed(saved) => Good(saved)
      BY <2>2, <2>3, <2>4, <2>5, <3>1, ReplacedIn
    <3> HIDE DEF saved, inserted
    <3>4. Z.outcome = "failed" \/ Good(Z.rows)
      BY <3>3 DEF Outcome
    <3> HIDE DEF Z
    <3> QED BY <2>1, <2>2, <3>2, <3>4, FinishStep DEF r
  <2> QED BY <2>6, <2>7
<1>6. CASE WriteRecompose(e)
  <2> DEFINE kept == ClearAfter(rows, r.from)
             R == ExtendChannel(Channel, kept, r.at, NoMedia, FALSE, 0)
             X == IF R.outcome = "ok" THEN R ELSE Outcome("failed", rows)
  <2>1. Pending(e, "recompose") /\ Finish(e, X) /\ lineup' = lineup
    BY <1>6 DEF WriteRecompose
  <2>2. /\ r \in Requests /\ r # NoRequest /\ r.kind = "recompose" /\ Good(rows)
        /\ lineup \in Seq(Media) /\ Channels(Channel)
    BY <2>1, PendingIs
  <2>3. r.from \in Nat /\ r.at \in Nat
    BY <2>2, RequestFields
  <2>4. Good(kept)
    BY <2>2, <2>3, ClearAfterGood
  <2> HIDE DEF kept
  <2>5. Onward(R.rows, kept)
    BY <2>2, <2>3, <2>4, ExtendChannelGood
  <2> HIDE DEF R
  <2>6. X.outcome = "failed" \/ Good(X.rows)
    BY <2>5 DEF Outcome, Onward
  <2> HIDE DEF X
  <2> QED BY <2>1, <2>2, <2>6, FinishStep
<1>7. CASE WriteRemoveMedia(e)
  <2> DEFINE left == Among(lineup, Media \ {r.media})
             kept == ClearAfter(rows, r.from)
             ch == [Channel EXCEPT !.lineup = left]
             X == ExtendChannel(ch, kept, now, r.media, FALSE, 0)
  <2>1. /\ Pending(e, "remove") /\ Finish(e, X)
        /\ lineup' = IF X.outcome = "failed" THEN lineup ELSE left
    BY <1>7 DEF WriteRemoveMedia
  <2>2. /\ r \in Requests /\ r # NoRequest /\ r.kind = "remove" /\ Good(rows) /\ Typed /\ now \in Nat
        /\ lineup \in Seq(Media)
    BY <2>1, PendingIs
  <2>3. r.from \in Nat
    BY <2>2, RequestFields
  <2>4. left \in Seq(Media)
    BY <2>2, AmongTyped
  <2> HIDE DEF left
  <2>5. Channels(ch)
    BY <2>2, <2>4, ChannelIs
  <2>6. Good(kept)
    BY <2>2, <2>3, ClearAfterGood
  <2> HIDE DEF kept, ch
  <2>7. Onward(X.rows, kept)
    BY <2>2, <2>5, <2>6, ExtendChannelGood
  <2> HIDE DEF X
  <2>8. Good(X.rows)
    BY <2>7 DEF Onward
  <2>9. lineup' \in Seq(Media)
    BY <2>1, <2>2, <2>4
  <2> QED BY <2>1, <2>2, <2>8, <2>9, FinishStep
<1> QED BY <1>1, <1>2, <1>3, <1>4, <1>5, <1>6, <1>7 DEF Write

-----------------------------------------------------------------------------
(* The theorems.                                                           *)

LEMMA InitInv == Init => SchInv
<1> SUFFICES ASSUME Init PROVE SchInv
  OBVIOUS
<1>1. Good(rows)
  BY EmptyGood DEF Init
<1>2. request \in [Editors -> Requests \cup {NoRequest}]
  BY DEF Init
<1>3. ready \subseteq Schedulable
  BY ScheduleAssumption DEF Init
<1>4. Typed
  BY <1>2, <1>3, ScheduleAssumption DEF Init, Typed
<1>5. Idle
  BY DEF Init, Idle
<1> QED BY <1>1, <1>4, <1>5 DEF SchInv, Idle

LEMMA NextInv ==
    ASSUME ~Overlapping, ~Overlong, ComposedFit
    PROVE  SchInv /\ [Next]_vars => SchInv'
<1> SUFFICES ASSUME SchInv, [Next]_vars PROVE SchInv'
  OBVIOUS
<1>1. CASE Create \/ Tick \/ Extend
  BY <1>1, ExtendSteps
<1>2. CASE AdvanceTime
  <2>1. rows' = rows /\ now' \in Nat /\ UNCHANGED <<mode, lineup, ready, created, edits, request>>
    BY <1>2 DEF AdvanceTime, SchInv, Typed
  <2> QED BY <2>1 DEF SchInv, Typed, Idle
<1>3. CASE \E pieces \in Layouts, filler \in SUBSET Range(Filler) : CreateExplicit(pieces, filler)
  BY <1>3, CreateExplicitStep
<1>4. CASE \E m \in Unsteady : PackageChanges(m)
  <2>1. ready' \subseteq Schedulable /\ UNCHANGED <<rows, mode, lineup, created, now, edits, request>>
    BY <1>4, ScheduleAssumption DEF PackageChanges, SchInv, Typed
  <2> QED BY <2>1 DEF SchInv, Typed, Idle
<1>5. CASE MayEdit /\ (EditAtOnce \/ \E e \in Editors : request[e] = NoRequest /\ Read(e))
  BY <1>5, AtOnceStep, ReadStep
<1>6. CASE \E e \in Editors : Write(e)
  BY <1>6, WriteSteps
<1>7. CASE UNCHANGED vars
  <2>1. UNCHANGED <<rows, mode, lineup, ready, created, now, edits, request>>
    BY <1>7 DEF vars
  <2> QED BY <2>1 DEF SchInv, Typed, Idle
<1> QED BY <1>1, <1>2, <1>3, <1>4, <1>5, <1>6, <1>7 DEF Next

\* Whoever extends, composes, edits or repairs it, and however an edit's read and its write are
\* apart: the rows are in order, and what a handler has read of them still holds.
THEOREM Invariant ==
    ASSUME ~Overlapping, ~Overlong, ComposedFit
    PROVE  Spec => []SchInv
<1>1. SchInv /\ [Next]_vars => SchInv'
  BY NextInv
<1> QED BY <1>1, InitInv, PTL DEF Spec

\* Every row sits on the grid and plays what may be scheduled, and a request in flight holds
\* what its handler reads.
THEOREM ScheduleTyped ==
    ASSUME ~Overlapping, ~Overlong, ComposedFit
    PROVE  Spec => []ScheduleTypeOK
<1>1. SchInv => ScheduleTypeOK
  BY GoodIs DEF SchInv, Typed, Rows, ScheduleTypeOK
<1> QED BY <1>1, Invariant, PTL

\* ScheduleEntriesOrdered never refuses the schedule, and the chain it follows is in time order.
THEOREM ChainInOrder ==
    ASSUME ~Overlapping, ~Overlong, ComposedFit
    PROVE  Spec => []ChainFollowsTime
<1>1. SchInv => ChainFollowsTime
  <2> SUFFICES ASSUME Good(rows) PROVE ChainFollowsTime
    BY DEF SchInv
  <2>1. Rows(rows) /\ Linked(rows, NoEntry) /\ Intact(rows)
    BY WalkMeetsAll DEF Good, Sound
  <2>2. \A i \in DOMAIN rows : i # NoEntry
    BY <2>1, RowFields
  <2> QED BY <2>1, <2>2 DEF ChainFollowsTime, Linked
<1> QED BY <1>1, Invariant, PTL

-----------------------------------------------------------------------------
(* The audit.                                                              *)

LEMMA PreviousIs ==
    ASSUME Good(rows), NEW listed \in SUBSET DOMAIN rows, NEW i \in listed
    PROVE  \/ /\ Previous(listed, i) = NoEntry
              /\ \A j \in listed : rows[j].start >= rows[i].start
           \/ /\ Previous(listed, i) \in listed
              /\ rows[Previous(listed, i)].start < rows[i].start
              /\ \A j \in listed : rows[j].start < rows[i].start => rows[j].start <= rows[Previous(listed, i)].start
<1> DEFINE S == {j \in listed : rows[j].start < rows[i].start}
<1>1. Rows(rows) /\ S \in SUBSET DOMAIN rows
  BY GoodIs
<1>2. \A j \in listed : rows[j].start \in Nat
  BY <1>1, RowFields
<1>3. Previous(listed, i) = Latest(rows, S)
  BY DEF Previous
<1>4. CASE S = {}
  <2>1. Previous(listed, i) = NoEntry
    <3> HIDE DEF S
    <3> QED BY <1>3, <1>4, NoLatest
  <2>2. \A j \in listed : rows[j].start >= rows[i].start
    BY <1>2, <1>4
  <2> QED BY <2>1, <2>2
<1>5. CASE S # {}
  <2> DEFINE p == Latest(rows, S)
  <2> HIDE DEF S
  <2>1. p \in S /\ \A j \in S : rows[j].start <= rows[p].start
    BY <1>1, <1>5, LatestIs
  <2> QED BY <1>3, <2>1 DEF S
<1> QED BY <1>4, <1>5

LEMMA AuditIs ==
    ASSUME Good(rows), NEW from \in Nat
    PROVE  AuditRight(from)
<1> DEFINE to == MaxEnd + Horizon
           listed == Intersecting(rows, from, to)
           found == Audit(from, to, 0)
           last == IF listed = {} THEN from - 1 ELSE End(rows[Latest(rows, listed)]) - 1
           P(i) == Previous(listed, i)
           begin(i) == IF P(i) = NoEntry THEN from ELSE End(rows[P(i)])
<1>1. Rows(rows) /\ Apart(rows) /\ Within(rows)
  BY GoodIs
<1>2. \A i \in DOMAIN rows : /\ rows[i].start \in Nat /\ End(rows[i]) \in Nat
                             /\ rows[i].start < End(rows[i]) /\ i # NoEntry
                             /\ rows[i].dur > 0 /\ rows[i].offset >= 0
                             /\ rows[i].offset + rows[i].dur <= Duration[rows[i].media]
  <2> TAKE i \in DOMAIN rows
  <2>1. rows[i].offset + rows[i].dur <= Duration[rows[i].media]
    BY <1>1 DEF Within
  <2>2. /\ rows[i].start \in Nat /\ rows[i].dur \in Nat \ {0} /\ rows[i].offset \in Nat
        /\ End(rows[i]) \in Nat /\ End(rows[i]) > rows[i].start /\ i # NoEntry
    BY <1>1, RowFields
  <2> QED BY <2>1, <2>2
<1>3. to \in Nat
  BY ScheduleAssumption, BuilderAssumption
<1> HIDE DEF to
<1>4. listed \in SUBSET DOMAIN rows
      /\ \A i \in DOMAIN rows : i \in listed <=> rows[i].start < to /\ End(rows[i]) > from
  BY DEF Intersecting
<1>5. /\ found.overlap = Overlapped(listed) /\ found.bounds = OutOfBounds(listed)
      /\ found.gaps = {g \in Gaps(listed, from) : g[2] - g[1] > 0}
  BY DEF Audit
<1> HIDE DEF listed, found
<1>6. ASSUME NEW i \in listed
      PROVE  \/ P(i) = NoEntry /\ \A j \in listed : rows[j].start >= rows[i].start
             \/ /\ P(i) \in listed /\ rows[P(i)].start < rows[i].start
                /\ \A j \in listed : rows[j].start < rows[i].start => rows[j].start <= rows[P(i)].start
  BY <1>4, PreviousIs
<1>7. found.overlap = {}
  <2>1. \A i \in listed : P(i) # NoEntry => End(rows[P(i)]) <= rows[i].start
    <3> TAKE i \in listed
    <3> HAVE P(i) # NoEntry
    <3>1. P(i) \in DOMAIN rows /\ i \in DOMAIN rows /\ rows[P(i)].start < rows[i].start
      BY <1>4, <1>6
    <3> QED BY <1>1, <3>1, EndsBefore
  <2>2. \A i \in listed : P(i) # NoEntry => ~(rows[i].start < End(rows[P(i)]))
    <3> TAKE i \in listed
    <3> HAVE P(i) # NoEntry
    <3>1. P(i) \in DOMAIN rows /\ i \in DOMAIN rows
      BY <1>4, <1>6
    <3> QED BY <1>2, <2>1, <3>1
  <2> QED BY <1>5, <2>2 DEF Overlapped
<1>8. found.bounds = {}
  <2>1. \A i \in listed : ~(rows[i].dur <= 0 \/ rows[i].offset < 0
                             \/ rows[i].offset + rows[i].dur > Duration[rows[i].media])
    <3> TAKE i \in listed
    <3>1. i \in DOMAIN rows
      BY <1>4
    <3>2. /\ rows[i].dur \in Nat \ {0} /\ rows[i].offset \in Nat /\ rows[i].media \in Schedulable
          /\ rows[i].offset + rows[i].dur <= Duration[rows[i].media]
      BY <1>1, <1>2, <3>1, RowFields
    <3>3. Duration[rows[i].media] \in Nat
      BY <3>2, BuilderAssumption
    <3> QED BY <3>2, <3>3
  <2> QED BY <1>5, <2>1 DEF OutOfBounds
<1>9. found.gaps = {g \in {<<begin(i), rows[i].start>> : i \in listed} : g[2] - g[1] > 0}
  BY <1>5 DEF Gaps
<1>10. ASSUME NEW i \in listed, NEW t \in Nat, begin(i) <= t, t < rows[i].start
       PROVE  from <= t /\ t <= last /\ ~Covered(rows, t)
  <2>1. i \in DOMAIN rows /\ rows[i].start < to
    BY <1>4
  <2>2. from <= t
    <3>1. CASE P(i) = NoEntry
      BY <1>10, <3>1
    <3>2. CASE P(i) # NoEntry
      <4>1. P(i) \in DOMAIN rows /\ End(rows[P(i)]) > from /\ End(rows[P(i)]) <= t
        BY <1>4, <1>6, <1>10, <3>2
      <4> QED BY <1>2, <4>1
    <3> QED BY <3>1, <3>2
  <2>3. t <= last
    <3> DEFINE l == Latest(rows, listed)
    <3>1. l \in listed /\ rows[i].start <= rows[l].start
      BY <1>1, <1>4, LatestIs
    <3>2. l \in DOMAIN rows /\ last = End(rows[l]) - 1
      BY <1>4, <3>1
    <3> HIDE DEF l, last
    <3> QED BY <1>2, <1>10, <2>1, <3>1, <3>2
  <2>4. ASSUME NEW k \in DOMAIN rows, rows[k].start <= t, t < End(rows[k]) PROVE FALSE
    <3>1. k \in listed /\ rows[k].start < rows[i].start
      BY <1>2, <1>3, <1>4, <1>10, <2>1, <2>2, <2>4
    <3> DEFINE p == P(i)
    <3>2. p \in listed /\ rows[k].start <= rows[p].start /\ End(rows[p]) <= t /\ p \in DOMAIN rows
      <4>1. p # NoEntry
        BY <1>2, <1>4, <1>6, <2>1, <3>1
      <4> QED BY <1>4, <1>6, <1>10, <3>1, <4>1
    <3> HIDE DEF p
    <3>3. CASE k = p
      BY <1>2, <2>4, <3>2, <3>3
    <3>4. CASE k # p
      <4>1. End(rows[k]) <= rows[p].start
        BY <1>1, <1>2, <3>2, <3>4 DEF Apart
      <4> QED BY <1>2, <2>4, <3>2, <4>1
    <3> QED BY <3>3, <3>4
  <2> QED BY <2>2, <2>3, <2>4 DEF Covered
<1>11. ASSUME NEW t \in from..last, ~Covered(rows, t)
       PROVE  \E i \in listed : begin(i) <= t /\ t < rows[i].start
  <2>1. listed # {} /\ t \in Nat /\ from <= t
    <3>1. listed = {} => last = from - 1
      OBVIOUS
    <3>2. listed # {} => last \in Int
      <4> DEFINE l == Latest(rows, listed)
      <4>1. listed # {} => l \in DOMAIN rows
        BY <1>1, <1>4, LatestIs
      <4> HIDE DEF l
      <4>2. listed # {} => End(rows[l]) \in Nat
        BY <1>2, <4>1
      <4> QED BY <4>2 DEF l
    <3> HIDE DEF last
    <3> QED BY <3>1, <3>2
  <2> DEFINE l == Latest(rows, listed)
             S == {j \in listed : rows[j].start > t}
             i == Earliest(rows, S)
  <2>2. l \in listed /\ t <= End(rows[l]) - 1 /\ l \in DOMAIN rows
    <3>1. l \in listed
      BY <1>1, <1>4, <2>1, LatestIs
    <3>2. End(rows[l]) \in Nat
      BY <1>2, <1>4, <3>1
    <3>3. last = End(rows[l]) - 1
      BY <2>1
    <3> HIDE DEF last, l
    <3> QED BY <1>4, <2>1, <3>1, <3>2, <3>3
  <2> HIDE DEF l
  <2>3. l \in S
    BY <1>2, <1>11, <2>1, <2>2 DEF Covered
  <2>4. i \in S /\ \A j \in S : rows[i].start <= rows[j].start
    <3>1. S \in SUBSET DOMAIN rows /\ S # {}
      BY <1>4, <2>3
    <3> HIDE DEF S
    <3> QED BY <1>1, <3>1, EarliestIs
  <2> HIDE DEF i
  <2>5. i \in listed /\ i \in DOMAIN rows /\ t < rows[i].start
    BY <1>2, <1>4, <2>1, <2>4
  <2>6. begin(i) <= t
    <3> DEFINE p == P(i)
    <3>1. CASE p = NoEntry
      BY <2>1, <3>1
    <3>2. CASE p # NoEntry
      <4>1. p \in listed /\ rows[p].start < rows[i].start /\ p \in DOMAIN rows
        BY <1>4, <1>6, <2>5, <3>2
      <4>2. begin(i) = End(rows[p])
        BY <3>2
      <4> HIDE DEF p
      <4>3. ~(rows[p].start > t)
        BY <1>2, <2>4, <2>5, <4>1
      <4>4. End(rows[p]) <= t
        BY <1>2, <1>11, <2>1, <4>1, <4>3 DEF Covered
      <4> QED BY <4>2, <4>4
    <3> QED BY <3>1, <3>2
  <2> QED BY <2>5, <2>6
<1>12. \A i \in listed : begin(i) \in Nat /\ rows[i].start \in Nat
  <2> TAKE i \in listed
  <2>1. P(i) # NoEntry => End(rows[P(i)]) \in Nat
    BY <1>2, <1>4, <1>6
  <2> QED BY <1>2, <1>4, <2>1
<1>13. \A i \in listed : \A t : t \in begin(i)..(rows[i].start - 1) <=>
                             t \in Nat /\ begin(i) <= t /\ t < rows[i].start
  <2> TAKE i \in listed
  <2> TAKE t
  <2> DEFINE x == begin(i)
             y == rows[i].start
  <2>1. x \in Nat /\ y \in Nat
    BY <1>12
  <2> HIDE DEF x, y
  <2>2. t \in x..(y - 1) <=> t \in Nat /\ x <= t /\ t < y
    BY <2>1
  <2> QED BY <2>2 DEF x, y
<1>14. last \in Int
  <2>1. CASE listed = {}
    BY <2>1
  <2>2. CASE listed # {}
    <3> DEFINE l == Latest(rows, listed)
    <3>1. l \in DOMAIN rows
      BY <1>1, <1>4, <2>2, LatestIs
    <3> HIDE DEF l
    <3>2. End(rows[l]) \in Nat
      BY <1>2, <3>1
    <3> QED BY <2>2, <3>2 DEF l
  <2> QED BY <2>1, <2>2
<1> HIDE DEF begin, last
<1>15. UNION {g[1]..(g[2] - 1) : g \in found.gaps} = {t \in from..last : ~Covered(rows, t)}
  <2> DEFINE U == UNION {g[1]..(g[2] - 1) : g \in found.gaps}
             V == {t \in from..last : ~Covered(rows, t)}
  <2>1. ASSUME NEW t \in U PROVE t \in V
    <3>1. PICK g \in found.gaps : t \in g[1]..(g[2] - 1)
      BY <2>1
    <3>2. PICK i \in listed : g = <<begin(i), rows[i].start>>
      BY <1>9, <3>1
    <3>3. t \in begin(i)..(rows[i].start - 1)
      BY <3>1, <3>2
    <3>4. t \in Nat /\ begin(i) <= t /\ t < rows[i].start
      BY <1>13, <3>3
    <3>5. from <= t /\ t <= last /\ ~Covered(rows, t)
      BY <1>10, <3>4
    <3> QED BY <1>14, <3>4, <3>5
  <2>2. ASSUME NEW t \in V PROVE t \in U
    <3>1. t \in from..last /\ ~Covered(rows, t)
      OBVIOUS
    <3>2. PICK i \in listed : begin(i) <= t /\ t < rows[i].start
      BY <1>11, <3>1
    <3>3. t \in Nat
      BY <1>14, <3>1
    <3> DEFINE g == <<begin(i), rows[i].start>>
    <3>4. g[1] = begin(i) /\ g[2] = rows[i].start
      OBVIOUS
    <3>5. begin(i) \in Nat /\ rows[i].start \in Nat
      BY <1>12
    <3>6. g[2] - g[1] > 0
      BY <3>2, <3>3, <3>4, <3>5
    <3>7. g \in found.gaps
      BY <1>9, <3>6
    <3>8. t \in g[1]..(g[2] - 1)
      BY <1>13, <3>2, <3>3, <3>4
    <3> QED BY <3>7, <3>8
  <2> QED BY <2>1, <2>2
<1> QED BY <1>7, <1>8, <1>15 DEF AuditRight, found, listed, last, to

\* schedcheck finds no overlap and nothing that plays past its media, and what it calls a gap
\* is where nothing is on.
THEOREM AuditFindsNothing ==
    ASSUME ~Overlapping, ~Overlong, ComposedFit
    PROVE  Spec => []NoScheduleIssue
<1>1. SchInv => NoScheduleIssue
  <2> SUFFICES ASSUME SchInv PROVE NoScheduleIssue
    OBVIOUS
  <2>1. Good(rows) /\ now \in Nat /\ 0 \in Nat
    BY DEF SchInv, Typed
  <2> QED BY <2>1, AuditIs DEF NoScheduleIssue
<1> QED BY <1>1, Invariant, PTL

-----------------------------------------------------------------------------
(* What a pass of the extender appends.                                    *)

\* The last of a schedule is where nothing ends later.
LEMMA LastIs ==
    ASSUME NEW rs, Good(rs), NEW l \in DOMAIN rs, \A i \in DOMAIN rs : End(rs[i]) <= End(rs[l])
    PROVE  LastEntry(rs) = l
<1> DEFINE k == LastEntry(rs)
<1>1. k \in DOMAIN rs /\ \A i \in DOMAIN rs : End(rs[i]) <= End(rs[k])
  BY LastEnds
<1> HIDE DEF k
<1>2. /\ rs[k].start \in Nat /\ rs[l].start \in Nat /\ End(rs[k]) \in Nat /\ End(rs[l]) \in Nat
      /\ rs[k].start < End(rs[k]) /\ rs[l].start < End(rs[l])
  BY <1>1, GoodIs, RowFields
<1>3. End(rs[k]) = End(rs[l])
  BY <1>1, <1>2
<1>4. k # l => End(rs[k]) <= rs[l].start \/ End(rs[l]) <= rs[k].start
  BY <1>1, GoodIs DEF Apart
<1>5. k = l
  BY <1>2, <1>3, <1>4
<1> QED BY <1>5 DEF k

LEMMA LastStays ==
    ASSUME NEW rs, Good(rs), NEW ts, Onward(ts, rs),
           \A i \in DOMAIN ts : \E j \in DOMAIN rs : End(ts[i]) <= End(rs[j])
    PROVE  LastEntry(ts) = LastEntry(rs)
<1>1. Good(ts) /\ DOMAIN rs \subseteq DOMAIN ts /\ \A i \in DOMAIN rs : End(ts[i]) = End(rs[i])
  BY DEF Onward, Grows, End
<1>2. CASE DOMAIN rs = {}
  <2>1. DOMAIN ts = {}
    BY <1>2
  <2> QED BY <1>1, <1>2, <2>1, WalkMeetsAll
<1>3. CASE DOMAIN rs # {}
  <2> DEFINE l == LastEntry(rs)
  <2>1. l \in DOMAIN rs /\ \A i \in DOMAIN rs : End(rs[i]) <= End(rs[l])
    BY <1>3, LastEnds
  <2> HIDE DEF l
  <2>2. \A i \in DOMAIN rs : End(rs[i]) \in Nat
    BY GoodIs, RowFields
  <2>3. \A i \in DOMAIN ts : End(ts[i]) \in Nat
    BY <1>1, GoodIs, RowFields
  <2>4. \A i \in DOMAIN ts : End(ts[i]) <= End(ts[l])
    <3> TAKE i \in DOMAIN ts
    <3>1. PICK j \in DOMAIN rs : End(ts[i]) <= End(rs[j])
      OBVIOUS
    <3> QED BY <1>1, <2>1, <2>2, <2>3, <3>1
  <2>5. l \in DOMAIN ts
    BY <1>1, <2>1
  <2>6. LastEntry(ts) = l
    BY <1>1, <2>4, <2>5, LastIs
  <2> QED BY <2>6 DEF l
<1> QED BY <1>2, <1>3

\* What a slot-grid channel with filler is given, from start to a boundary without a hole.
Solid(B, start) ==
    \E end \in Nat :
      /\ end % SlotLength = 0
      /\ \A e \in B : End(e) <= end
      /\ \E e \in B : End(e) = end
      /\ \A u \in Nat : start <= u /\ u < end => \E e \in B : e.start <= u /\ u < End(e)

LEMMA BatchSolid ==
    ASSUME NEW ch, Channels(ch), ch.lineup # <<>>, ch.slotGrid, UsableFiller(ch) # <<>>,
           NEW rs, Rows(rs), NEW start \in Nat, NEW limit \in Nat, start < limit, NEW last, NEW leading, ~leading,
           Batch(ch, rs, start, limit, last, leading) # {}
    PROVE  Solid(Batch(ch, rs, start, limit, last, leading), start)
<1> DEFINE B == Batch(ch, rs, start, limit, last, leading)
           O == OnBoundaries(ch, start, limit, last, NoMedia)
           C == Cursors(rs, start)
           end == TailEnd(O)
<1>1. B = WithFiller(ch, C, start, O)
  BY DEF Batch, SlotGrid
<1>2. Batched(O) /\ \A e \in O : e.start >= start
  <2>1. ch.lineup \in Seq(Media)
    BY DEF Channels
  <2> DEFINE lead == NoMedia
  <2>2. lead = NoMedia \/ (lead \in Media /\ Duration[lead] <= AlignToSlot(start) - start)
    OBVIOUS
  <2> HIDE DEF lead
  <2>3. Batched(OnBoundaries(ch, start, limit, last, lead))
        /\ \A e \in OnBoundaries(ch, start, limit, last, lead) : e.start >= start
    BY <2>1, <2>2, OnBoundariesBatched
  <2> QED BY <2>3 DEF lead
<1>3. Placed(C)
  BY CursorsPlaced
<1> HIDE DEF O, C
<1>4. O # {}
  BY <1>1 DEF WithFiller
<1>5. /\ \A e \in WithFiller(ch, C, start, O) : e.start >= start /\ End(e) <= end
      /\ Batched(WithFiller(ch, C, start, O))
      /\ \A u \in start..(end - 1) : \E e \in WithFiller(ch, C, start, O) : e.start <= u /\ u < End(e)
  BY <1>2, <1>3, <1>4, WithFillerBatched
<1>6. /\ (\A e \in B : e.start >= start /\ End(e) <= end) /\ Batched(B)
      /\ \A u \in start..(end - 1) : \E e \in B : e.start <= u /\ u < End(e)
  BY <1>1, <1>5
<1> HIDE DEF B
<1>7. end \in Nat /\ end % SlotLength = 0 /\ \E e \in O : End(e) <= end
  <2> DEFINE m == Max({End(e) : e \in O})
  <2>1. m \in Nat /\ end = AlignToSlot(m) /\ end \in Nat /\ \A e \in O : End(e) <= end
    BY <1>2, <1>4, BatchEnds
  <2> HIDE DEF m, end
  <2> QED BY <1>4, <2>1, AlignIs
<1> HIDE DEF end
<1>8. start < end
  <2>1. PICK e \in O : End(e) <= end
    BY <1>7
  <2>2. e.start \in Nat /\ End(e) \in Nat /\ e.start < End(e)
    BY <1>2, EntryFields DEF Batched
  <2> QED BY <1>2, <1>7, <2>1, <2>2
<1>9. \E e \in B : End(e) = end
  <2>1. end - 1 \in start..(end - 1)
    BY <1>7, <1>8
  <2>2. PICK e \in B : e.start <= end - 1 /\ end - 1 < End(e)
    BY <1>6, <2>1
  <2>3. End(e) \in Nat
    BY <1>6, EntryFields DEF Batched
  <2> QED BY <1>6, <1>7, <2>2, <2>3
<1>10. \A u \in Nat : start <= u /\ u < end => u \in start..(end - 1)
  BY <1>7
<1>11. Solid(B, start)
  BY <1>6, <1>7, <1>9, <1>10 DEF Solid
<1> QED BY <1>11 DEF B

\* What a pass does to a channel: nothing, or what the tail is extended by, healed where
\* the channel is on the slot grid.
Passed(ch, rs, clock, resume, leading, low) ==
    LET X == ExtendChannel(ch, rs, clock, resume, leading, low)
        start == NextStart(rs, clock)
        last == IF resume = NoMedia THEN LastScheduled(ch, rs) ELSE resume
        B == Batch(ch, rs, start, clock + Horizon, last, leading)
        ts == Insert(ch, rs, B, LastEntry(rs))
    IN  \/ X.rows = rs
        \/ ch.slotGrid /\ X.rows = Backfilled(ch, rs, clock)
        \/ /\ X.rows = IF ch.slotGrid THEN Backfilled(ch, ts, clock) ELSE ts
           /\ start < clock + Horizon /\ ch.lineup # <<>>

LEMMA PassIs ==
    ASSUME NEW ch, NEW rs, Good(rs), NEW clock \in Nat, NEW resume, NEW leading, NEW low
    PROVE  Passed(ch, rs, clock, resume, leading, low)
<1> DEFINE X == ExtendChannel(ch, rs, clock, resume, leading, low)
           start == NextStart(rs, clock)
           last == IF resume = NoMedia THEN LastScheduled(ch, rs) ELSE resume
           limit == clock + Horizon
           ts == Insert(ch, rs, Batch(ch, rs, start, limit, last, leading), LastEntry(rs))
           T == ExtendTail(ch, rs, clock, resume, leading)
           H == Healed(ch, T, clock)
<1>1. T = ExtendFrom(ch, rs, start, limit, last, leading)
  BY DEF ExtendTail
<1>2. start \in Nat /\ limit \in Nat
  BY NextStartIs, BuilderAssumption
<1>3. X.rows = rs \/ X.rows = H.rows
  BY OutcomeIs DEF ExtendChannel, Checked
<1> HIDE DEF T, X, start, limit, last
<1>4. \/ T.rows = rs
      \/ T.rows = ts /\ ~(start >= limit) /\ ch.lineup # <<>> /\ T.outcome = "ok"
  BY <1>1 DEF ExtendFrom, Outcome
<1>5. T = [outcome |-> T.outcome, rows |-> T.rows]
  BY <1>1 DEF ExtendFrom, Outcome
<1> HIDE DEF ts
<1>6. H.rows = IF ch.slotGrid /\ T.outcome = "ok" THEN Backfilled(ch, T.rows, clock) ELSE T.rows
  BY <1>5 DEF Healed
<1> HIDE DEF H
<1>7. \/ X.rows = rs
      \/ ch.slotGrid /\ X.rows = Backfilled(ch, rs, clock)
      \/ /\ X.rows = IF ch.slotGrid THEN Backfilled(ch, ts, clock) ELSE ts
         /\ start < limit /\ ch.lineup # <<>>
  BY <1>2, <1>3, <1>4, <1>6
<1> QED BY <1>7 DEF Passed, X, ts, start, limit, last

LEMMA GapFreeStep ==
    ASSUME SchInv, mode.slotGrid, UsableFiller(Channel) # <<>>, LastEntry(rows') # LastEntry(rows), Tick
    PROVE  LET end == End(rows'[LastEntry(rows')])
           IN  /\ end % SlotLength = 0
               /\ \A t \in NextStart(rows, now)..(end - 1) : Covered(rows', t)
<1> DEFINE ch == Channel
           leading == FALSE
           resume == NoMedia
           X == ExtendChannel(ch, rows, now, resume, leading, LowWater)
           start == NextStart(rows, now)
           last == IF resume = NoMedia THEN LastScheduled(ch, rows) ELSE resume
           limit == now + Horizon
           B == Batch(ch, rows, start, limit, last, leading)
           l == LastEntry(rows)
           ts == Insert(ch, rows, B, l)
<1>1. Good(rows) /\ Typed /\ Channels(ch) /\ now \in Nat /\ Rows(rows)
  BY ChannelIs, GoodIs DEF SchInv, Typed
<1>2. ch.slotGrid
  BY DEF Channel
<1>3. rows' = X.rows
  BY DEF Tick, Commit
<1>3a. ~leading
  OBVIOUS
<1> HIDE DEF leading, resume
<1>4. /\ start \in Nat /\ limit \in Nat
      /\ \A i \in DOMAIN rows : End(rows[i]) <= start
  BY <1>1, NextStartIs, BuilderAssumption
<1> HIDE DEF ch
<1>5. \/ X.rows = rows
      \/ X.rows = Backfilled(ch, rows, now)
      \/ X.rows = Backfilled(ch, ts, now) /\ start < limit /\ ch.lineup # <<>>
  <2>0. Passed(ch, rows, now, resume, leading, LowWater)
    BY <1>1, PassIs
  <2>1. \/ X.rows = rows
        \/ X.rows = Backfilled(ch, rows, now)
        \/ /\ X.rows = IF ch.slotGrid THEN Backfilled(ch, ts, now) ELSE ts
           /\ start < limit /\ ch.lineup # <<>>
    BY <2>0 DEF Passed
  <2> QED BY <1>2, <2>1
<1>6. l = LastBefore(rows, start)
  BY <1>1, <1>4, LastIsBefore
<1> HIDE DEF ch, X, start, limit, last, l
<1>7. X.rows # rows
  BY <1>3
<1>8. X.rows # Backfilled(ch, rows, now)
  <2>1. Heals(ch, Backfilled(ch, rows, now), rows, now)
    BY <1>1, BackfilledHeals
  <2> DEFINE us == Backfilled(ch, rows, now)
  <2>2. Onward(us, rows) /\ \A i \in DOMAIN us : \E j \in DOMAIN rows : End(us[i]) <= End(rows[j])
    BY <2>1 DEF Heals
  <2> HIDE DEF us
  <2>3. LastEntry(us) = LastEntry(rows)
    BY <1>1, <2>2, LastStays
  <2> QED BY <1>3, <2>3 DEF us
<1>9. rows' = Backfilled(ch, ts, now) /\ start < limit /\ ch.lineup # <<>>
  BY <1>3, <1>5, <1>7, <1>8
<1>10. Batched(B) /\ \A e \in B : e.start >= start
  BY <1>1, <1>4, <1>9, BatchIs
<1>11. B # {} => Solid(B, start)
  BY <1>1, <1>3a, <1>2, <1>4, <1>9, BatchSolid DEF ch
<1> HIDE DEF B
<1>12. Good(ts) /\ Grows(ts, rows) /\ Inserts(ts, rows, B, l)
  BY <1>1, <1>4, <1>6, <1>10, Appended
<1> HIDE DEF ts
<1> DEFINE us == Backfilled(ch, ts, now)
<1>13. Onward(us, ts) /\ \A i \in DOMAIN us : \E j \in DOMAIN ts : End(us[i]) <= End(ts[j])
  BY <1>1, <1>12, BackfilledHeals DEF Heals
<1> HIDE DEF us
<1>14. LastEntry(us) = LastEntry(ts)
  BY <1>12, <1>13, LastStays
<1>15. /\ \A e \in B : \E i \in DOMAIN ts \ DOMAIN rows : ts[i] = Row(e, ts[i].anchor)
       /\ \A i \in DOMAIN ts \ DOMAIN rows : \E e \in B : ts[i] = Row(e, ts[i].anchor)
       /\ DOMAIN rows \subseteq DOMAIN ts /\ \A i \in DOMAIN rows : ts[i] = rows[i]
  BY <1>12 DEF Inserts
<1>16. B # {}
  <2> SUFFICES ASSUME B = {} PROVE FALSE
    OBVIOUS
  <2>1. DOMAIN ts = DOMAIN rows
    BY <1>15
  <2>2. \A i \in DOMAIN rows : End(rows[i]) \in Nat
    BY <1>1, RowFields
  <2>3. \A i \in DOMAIN ts : \E j \in DOMAIN rows : End(ts[i]) <= End(rows[j])
    BY <1>15, <2>1, <2>2
  <2>4. LastEntry(ts) = LastEntry(rows)
    BY <1>1, <1>12, <2>3, LastStays DEF Onward
  <2> QED BY <1>9, <1>14, <2>4 DEF us
<1>17. PICK end \in Nat : /\ end % SlotLength = 0
                          /\ \A e \in B : End(e) <= end
                          /\ \E e \in B : End(e) = end
                          /\ \A u \in Nat : start <= u /\ u < end => \E e \in B : e.start <= u /\ u < End(e)
  BY <1>11, <1>16 DEF Solid
<1>18. PICK k \in DOMAIN ts : End(ts[k]) = end
  <2>1. PICK e \in B : End(e) = end
    BY <1>17
  <2>2. PICK i \in DOMAIN ts \ DOMAIN rows : ts[i] = Row(e, ts[i].anchor)
    BY <1>15
  <2> QED BY <2>1, <2>2, RowOfEntry
<1>19. ASSUME NEW i \in DOMAIN ts PROVE End(ts[i]) <= end
  <2>1. CASE i \in DOMAIN rows
    <3>1. End(ts[i]) <= start /\ End(ts[i]) \in Nat
      BY <1>1, <1>4, <1>15, <2>1, RowFields
    <3>2. PICK e \in B : TRUE
      BY <1>16
    <3>3. e.start >= start /\ e.start \in Nat /\ End(e) \in Nat /\ e.start < End(e) /\ End(e) <= end
      BY <1>10, <1>17, EntryFields DEF Batched
    <3> QED BY <1>4, <3>1, <3>3
  <2>2. CASE i \notin DOMAIN rows
    <3>1. PICK e \in B : ts[i] = Row(e, ts[i].anchor)
      BY <1>15, <2>2
    <3> QED BY <1>17, <3>1, RowOfEntry
  <2> QED BY <2>1, <2>2
<1>20. LastEntry(ts) = k
  BY <1>12, <1>18, <1>19, LastIs
<1>21. End(us[LastEntry(us)]) = end
  BY <1>13, <1>14, <1>18, <1>20 DEF Onward, Grows, End
<1>22. ASSUME NEW t \in start..(end - 1) PROVE Covered(us, t)
  <2>1. t \in Nat /\ start <= t /\ t < end
    BY <1>4, <1>17, <1>22
  <2>2. PICK e \in B : e.start <= t /\ t < End(e)
    BY <1>17, <2>1
  <2>3. PICK i \in DOMAIN ts \ DOMAIN rows : ts[i] = Row(e, ts[i].anchor)
    BY <1>15
  <2>4. ts[i].start = e.start /\ End(ts[i]) = End(e)
    BY <2>3, RowOfEntry
  <2>5. i \in DOMAIN us /\ us[i].start = e.start /\ End(us[i]) = End(e)
    BY <1>13, <2>3, <2>4 DEF Onward, Grows, End
  <2> QED BY <2>2, <2>5 DEF Covered
<1>23. rows' = us
  BY <1>9 DEF us
<1> QED BY <1>17, <1>21, <1>22, <1>23 DEF start

\* What the extender appends to a slot-grid channel that has filler leaves no hole behind the
\* tail or from now, and ends on a slot boundary.
THEOREM GapFree ==
    ASSUME ~Overlapping, ~Overlong, ComposedFit
    PROVE  Spec => ExtensionGapFree
<1>1. ASSUME SchInv, [Next]_vars
      PROVE  [ /\ mode.slotGrid /\ UsableFiller(Channel) # <<>>
               /\ LastEntry(rows') # LastEntry(rows)
               /\ UNCHANGED <<edits, request>> /\ Tick
               => LET end == End(rows'[LastEntry(rows')])
                  IN  /\ end % SlotLength = 0
                      /\ \A t \in NextStart(rows, now)..(end - 1) : Covered(rows', t) ]_vars
  BY <1>1, GapFreeStep
<1> QED BY <1>1, Invariant, PTL DEF Spec, ExtensionGapFree

-----------------------------------------------------------------------------
(* A pass puts a channel back on the air.                                  *)

\* An extension reaches far enough for any one media behind the next slot boundary.
Reaches == \A m \in Media : Duration[m] + SlotLength <= Horizon + 1

LEMMA BatchFilled ==
    ASSUME NEW ch, Channels(ch), ch.lineup # <<>>, Range(ch.lineup) \subseteq ch.ready,
           NEW rs, Rows(rs), NEW start \in Nat, NEW limit \in Nat, start < limit, NEW last,
           NEW leading, ~leading, \A m \in Media : AlignToSlot(start) + Duration[m] <= limit
    PROVE  Batch(ch, rs, start, limit, last, leading) # {}
<1>0. ch.lineup \in Seq(Media)
  BY DEF Channels
<1>1. CASE ch.slotGrid
  <2> DEFINE lead == NoMedia
             C == Cursors(rs, start)
             O == OnBoundaries(ch, start, limit, last, lead)
  <2>1. Batch(ch, rs, start, limit, last, leading) = WithFiller(ch, C, start, O)
    BY <1>1 DEF Batch, SlotGrid
  <2>2. lead = NoMedia \/ (lead \in Media /\ Duration[lead] <= AlignToSlot(start) - start)
    OBVIOUS
  <2>3. Placed(C) /\ lead = NoMedia
    BY CursorsPlaced
  <2> HIDE DEF lead, C
  <2>4. Batched(O) /\ (\A e \in O : e.start >= start) /\ O # {}
    BY <1>0, <2>2, <2>3, OnBoundariesBatched
  <2> HIDE DEF O
  <2>5. O \subseteq WithFiller(ch, C, start, O)
    BY <2>3, <2>4, WithFillerBatched
  <2> QED BY <2>1, <2>4, <2>5
<1>2. CASE ~ch.slotGrid
  <2> DEFINE s == Rotation(ch.lineup, last)
  <2>1. s \in Seq(Media) /\ Len(s) = Len(ch.lineup)
    BY <1>0, RotationIs
  <2>2. Batch(ch, rs, start, limit, last, leading) = BackToBack(s, start, limit, Horizon)
    BY <1>2 DEF Batch
  <2> DEFINE l == ch.lineup
  <2>3. l \in Seq(Media) /\ l # <<>> /\ Len(s) = Len(l)
    BY <1>0, <2>1
  <2> HIDE DEF s, l
  <2>4. s # <<>> /\ s[1] \in Media /\ s \in Seq(Schedulable)
    <3>1. Len(l) \in Nat \ {0}
      BY <2>3
    <3>2. Len(s) \in Nat \ {0}
      BY <2>3, <3>1
    <3> QED BY <2>1, <3>2 DEF Schedulable
  <2>5. start + Duration[s[1]] <= limit
    <3>1. AlignToSlot(start) \in Nat /\ AlignToSlot(start) >= start
      BY AlignIs
    <3>2. Duration[s[1]] \in Nat /\ AlignToSlot(start) + Duration[s[1]] <= limit
      BY <2>4, BuilderAssumption DEF Schedulable
    <3> QED BY <3>1, <3>2
  <2>6. Horizon \in Nat \ {0}
    BY BuilderAssumption
  <2>7. BackToBack(s, start, limit, Horizon) # {}
    BY <2>4, <2>5, <2>6, BackToBackBatched
  <2> QED BY <2>2, <2>7
<1> QED BY <1>1, <1>2

\* What a pass leaves of a channel whose lineup is packaged.
BackOnAir(ch, rs, clock, resume, leading) ==
    LET pass == ExtendChannel(ch, rs, clock, resume, leading, LowWater)
    IN  /\ pass.outcome = "ok"
        /\ \E i \in DOMAIN pass.rows : End(pass.rows[i]) > clock
        /\ ch.slotGrid /\ UsableFiller(ch) # <<>> /\ ~AboveLowWater(rs, clock, LowWater)
           => Covered(pass.rows, clock)

\* What the extender appends ends after now.
LEMMA TailAhead ==
    ASSUME Reaches, NEW ch, Channels(ch), ch.lineup # <<>>, Range(ch.lineup) \subseteq ch.ready,
           NEW rs, Good(rs), NEW clock \in Nat, NEW resume, NEW leading, ~leading,
           ~AboveLowWater(rs, clock, LowWater)
    PROVE  LET tail == ExtendTail(ch, rs, clock, resume, leading)
           IN  /\ tail = [outcome |-> "ok", rows |-> tail.rows]
               /\ Onward(tail.rows, rs)
               /\ \E i \in DOMAIN tail.rows : End(tail.rows[i]) > clock
<1> DEFINE start == NextStart(rs, clock)
           last == IF resume = NoMedia THEN LastScheduled(ch, rs) ELSE resume
           limit == clock + Horizon
           B == Batch(ch, rs, start, limit, last, leading)
           l == LastEntry(rs)
           ts == Insert(ch, rs, B, l)
           T == ExtendTail(ch, rs, clock, resume, leading)
<1>1. Rows(rs) /\ start \in Nat /\ start >= clock /\ \A i \in DOMAIN rs : End(rs[i]) <= start
  BY GoodIs, NextStartIs
<1>2. /\ LowWater \in Nat /\ LowWater > 0 /\ LowWater < Horizon /\ Horizon \in Nat \ {0}
      /\ SlotLength \in Nat \ {0} /\ limit \in Nat /\ limit = clock + Horizon
  BY BuilderAssumption, ScheduleAssumption
<1>3. start # clock => l \in DOMAIN rs /\ End(rs[l]) = start
  <2>1. start # clock => rs # <<>> /\ start = End(rs[l])
    BY DEF NextStart
  <2> QED BY <1>1, <2>1, EmptyIs, LastEnds
<1>4. Onward(T.rows, rs)
  BY ExtendTailGood
<1>5. start < limit
  <2> SUFFICES ASSUME ~(start < limit) PROVE FALSE
    OBVIOUS
  <2>1. start # clock
    BY <1>1, <1>2
  <2>2. End(rs[l]) >= clock + LowWater /\ rs # <<>>
    BY <1>1, <1>2, <1>3, <2>1, EmptyIs
  <2> QED BY <1>2, <2>2 DEF AboveLowWater
<1>6. T = [outcome |-> "ok", rows |-> IF ch.eager /\ ch.slotGrid /\ ~(Range(ch.lineup) \subseteq ch.ready)
                                      THEN rs ELSE ts]
  <2>1. Range(ch.lineup) \cap ch.ready # {}
    <3> DEFINE s == ch.lineup
    <3>1. s \in Seq(Media) /\ s # <<>>
      BY DEF Channels
    <3> HIDE DEF s
    <3>2. 1 \in DOMAIN s
      BY <3>1
    <3>3. s[1] \in Range(s)
      BY <3>2 DEF Range
    <3> QED BY <3>3 DEF s
  <2>2. ~(start >= limit)
    BY <1>1, <1>2, <1>5
  <2> HIDE DEF ts
  <2>3. T = ExtendFrom(ch, rs, start, limit, last, leading)
    BY DEF ExtendTail
  <2>4. ExtendFrom(ch, rs, start, limit, last, leading) = Outcome("ok", ts)
    BY <2>1, <2>2 DEF ExtendFrom, ts
  <2> QED BY <2>3, <2>4 DEF Outcome
<1>7. T = [outcome |-> "ok", rows |-> ts]
  BY <1>6
<1>8. l = LastBefore(rs, start)
  BY <1>1, LastIsBefore
<1> HIDE DEF start, last, limit, l, T
<1>9. Batched(B) /\ \A e \in B : e.start >= start
  BY <1>1, <1>2, <1>5, BatchIs
<1>10. start = clock => B # {}
  <2> SUFFICES ASSUME start = clock PROVE B # {}
    OBVIOUS
  <2>1. AlignToSlot(start) \in Nat /\ AlignToSlot(start) <= start + (SlotLength - 1)
    BY <1>1, AlignIs
  <2>2. \A m \in Media : AlignToSlot(start) + Duration[m] <= limit
    <3> TAKE m \in Media
    <3>1. Duration[m] \in Nat /\ Duration[m] + SlotLength <= Horizon + 1
      BY BuilderAssumption DEF Reaches, Schedulable
    <3> QED BY <1>1, <1>2, <2>1, <3>1
  <2> QED BY <1>1, <1>2, <1>5, <2>2, BatchFilled
<1> HIDE DEF B
<1>11. Good(ts) /\ Inserts(ts, rs, B, l)
  BY <1>1, <1>8, <1>9, Appended
<1> HIDE DEF ts
<1>12. /\ \A e \in B : \E i \in DOMAIN ts \ DOMAIN rs : ts[i] = Row(e, ts[i].anchor)
       /\ DOMAIN rs \subseteq DOMAIN ts /\ \A i \in DOMAIN rs : ts[i] = rs[i]
  BY <1>11 DEF Inserts
<1>13. \E i \in DOMAIN ts : End(ts[i]) > clock
  <2>1. CASE start = clock
    <3>1. PICK e \in B : TRUE
      BY <1>10, <2>1
    <3>2. e.start >= clock /\ e.start \in Nat /\ End(e) \in Nat /\ e.start < End(e)
      BY <1>9, <2>1, EntryFields DEF Batched
    <3>3. PICK i \in DOMAIN ts \ DOMAIN rs : ts[i] = Row(e, ts[i].anchor)
      BY <1>12
    <3>4. End(ts[i]) = End(e)
      BY <3>3, RowOfEntry
    <3> QED BY <3>2, <3>3, <3>4
  <2>2. CASE start # clock
    BY <1>1, <1>3, <1>12, <2>2
  <2> QED BY <2>1, <2>2
<1>14. T = [outcome |-> "ok", rows |-> T.rows] /\ T.rows = ts
  BY <1>7
<1>15. /\ T = [outcome |-> "ok", rows |-> T.rows]
       /\ Onward(T.rows, rs)
       /\ \E i \in DOMAIN T.rows : End(T.rows[i]) > clock
  BY <1>4, <1>13, <1>14
<1> QED BY <1>15 DEF T

LEMMA PassOnAir ==
    ASSUME Reaches, NEW ch, Channels(ch), ch.lineup # <<>>, Range(ch.lineup) \subseteq ch.ready,
           NEW rs, Good(rs), NEW clock \in Nat, NEW resume, NEW leading, ~leading
    PROVE  BackOnAir(ch, rs, clock, resume, leading)
<1> DEFINE X == ExtendChannel(ch, rs, clock, resume, leading, LowWater)
           T == ExtendTail(ch, rs, clock, resume, leading)
           H == Healed(ch, T, clock)
<1>1. Intact(rs) /\ Rows(rs)
  BY GoodIs, WalkMeetsAll
<1>2. CASE AboveLowWater(rs, clock, LowWater)
  <2> DEFINE l == LastEntry(rs)
  <2>1. X = [outcome |-> "ok", rows |-> rs]
    BY <1>1, <1>2 DEF ExtendChannel, Outcome
  <2>2. rs # <<>> /\ End(rs[l]) >= clock + LowWater /\ LowWater > 0 /\ LowWater \in Nat
    BY <1>2, ScheduleAssumption, BuilderAssumption DEF AboveLowWater
  <2>3. l \in DOMAIN rs
    BY <1>1, <2>2, EmptyIs, LastEnds
  <2> HIDE DEF l
  <2>4. End(rs[l]) > clock
    <3>1. End(rs[l]) \in Nat
      BY <1>1, <2>3, RowFields
    <3> QED BY <2>2, <3>1
  <2> HIDE DEF X
  <2>5. X.outcome = "ok" /\ X.rows = rs
    BY <2>1
  <2>6. \E i \in DOMAIN X.rows : End(X.rows[i]) > clock
    BY <2>3, <2>4, <2>5
  <2> QED BY <1>2, <2>5, <2>6 DEF BackOnAir, X
<1>3. CASE ~AboveLowWater(rs, clock, LowWater)
  <2>1. /\ T = [outcome |-> "ok", rows |-> T.rows]
        /\ Onward(T.rows, rs)
        /\ \E i \in DOMAIN T.rows : End(T.rows[i]) > clock
    BY <1>3, TailAhead
  <2>2. X = Checked(H, rs)
    BY <1>1, <1>3 DEF ExtendChannel
  <2> HIDE DEF T
  <2>3. H = [outcome |-> "ok", rows |-> IF ch.slotGrid THEN Backfilled(ch, T.rows, clock) ELSE T.rows]
    BY <2>1 DEF Healed
  <2> DEFINE ts == T.rows
             us == Backfilled(ch, ts, clock)
  <2>4. Good(ts) /\ \E i \in DOMAIN ts : End(ts[i]) > clock
    BY <2>1 DEF Onward
  <2> HIDE DEF ts
  <2>5. Heals(ch, us, ts, clock)
    BY <2>4, BackfilledHeals
  <2>6. /\ Good(us) /\ DOMAIN ts \subseteq DOMAIN us
        /\ \A i \in DOMAIN ts : End(us[i]) = End(ts[i])
        /\ UsableFiller(ch) # <<>> => Covered(us, clock)
    BY <2>4, <2>5 DEF Heals, Onward, Grows, End
  <2> HIDE DEF us
  <2> DEFINE os == IF ch.slotGrid THEN us ELSE ts
  <2>7. H = [outcome |-> "ok", rows |-> os]
    BY <2>3 DEF us, ts
  <2>8. /\ Good(os) /\ (\E i \in DOMAIN os : End(os[i]) > clock)
        /\ ch.slotGrid /\ UsableFiller(ch) # <<>> => Covered(os, clock)
    BY <2>4, <2>6
  <2> HIDE DEF os, H, X
  <2>9. X = [outcome |-> "ok", rows |-> os]
    <3>1. Indexed(os)
      BY <2>8, GoodIndexed
    <3> QED BY <2>2, <2>7, <3>1 DEF Checked
  <2>10. X.outcome = "ok" /\ X.rows = os
    BY <2>9
  <2> QED BY <2>8, <2>10 DEF BackOnAir, X
<1> QED BY <1>2, <1>3

\* One pass of the extender succeeds and puts a packaged channel back on the air, whatever was
\* edited and however long its schedule has been dry.
THEOREM OnePass ==
    ASSUME ~Overlapping, ~Overlong, ComposedFit, Reaches
    PROVE  Spec => []OnePassFromAir
<1>1. SchInv => OnePassFromAir
  <2> SUFFICES ASSUME SchInv, lineup # <<>>, Range(lineup) \subseteq ready
               PROVE  LET pass == ExtendChannel(Channel, rows, now, NoMedia, FALSE, LowWater)
                      IN  /\ pass.outcome = "ok"
                          /\ \E i \in DOMAIN pass.rows : End(pass.rows[i]) > now
                          /\ /\ mode.slotGrid /\ UsableFiller(Channel) # <<>>
                             /\ ~AboveLowWater(rows, now, LowWater)
                             => Covered(pass.rows, now)
    BY DEF OnePassFromAir
  <2> DEFINE ch == Channel
             leading == FALSE
             resume == NoMedia
  <2>1. Good(rows) /\ now \in Nat /\ Channels(ch)
    BY ChannelIs DEF SchInv, Typed
  <2>2. ch.lineup = lineup /\ ch.ready = ready /\ ch.slotGrid = mode.slotGrid /\ ~leading
    BY DEF Channel
  <2> HIDE DEF ch, leading, resume
  <2>3. BackOnAir(ch, rows, now, resume, leading)
    BY <2>1, <2>2, PassOnAir
  <2> QED BY <2>2, <2>3 DEF BackOnAir, ch, leading, resume
<1> QED BY <1>1, Invariant, PTL

-----------------------------------------------------------------------------
(* The rotation.                                                           *)

NoRepeats(s) == \A i, j \in DOMAIN s : i # j => s[i] # s[j]

\* A remainder may be taken before or after adding.
LEMMA ModLater ==
    ASSUME NEW n \in Nat \ {0}, NEW x \in Nat, NEW y \in Nat
    PROVE  ((x % n) + y) % n = (x + y) % n
<1> DEFINE r == x % n
           z == r + y
           w == z % n
<1>1. r \in 0..n - 1
  BY ModIn
<1>2. PICK q \in Nat : x = n * q + r
  BY Quotient
<1>3. z \in Nat
  BY <1>1
<1> HIDE DEF z
<1>4. w \in 0..n - 1
  BY <1>3, ModIn
<1>5. PICK p \in Nat : z = n * p + w
  BY <1>3, Quotient
<1> HIDE DEF r, w
<1>6. x + y = n * q + n * p + w
  <2>1. z = r + y
    BY DEF z
  <2> QED BY <1>1, <1>2, <1>4, <1>5, <2>1
<1>7. n * q + n * p = n * (q + p) /\ q + p \in Nat
  OBVIOUS
<1> DEFINE v == x + y
           k == q + p
<1>8. v \in Nat /\ k \in Nat /\ v = n * k + w
  BY <1>6, <1>7
<1> HIDE DEF v, k
<1>9. v % n = w
  BY <1>4, <1>8, ModOf
<1> QED BY <1>9 DEF v, w, z, r

\* The items of s from the one after place p on, which holds m if any does.
From(s, m, p) ==
    /\ Rotation(s, m) = [i \in 1..Len(s) |-> s[((p + i - 1) % Len(s)) + 1]]
    /\ m \in Range(s) => p \in 1..Len(s) /\ s[p] = m

LEMMA RotationAt ==
    ASSUME NEW s \in Seq(Media), s # <<>>, NEW last
    PROVE  \E after \in 0..Len(s) : From(s, last, after)
<1> DEFINE after == IF last \in Range(s) THEN CHOOSE i \in DOMAIN s : s[i] = last ELSE 0
<1>1. last \in Range(s) => after \in DOMAIN s /\ s[after] = last
  <2> SUFFICES ASSUME last \in Range(s) PROVE after \in DOMAIN s /\ s[after] = last
    OBVIOUS
  <2>1. \E i \in DOMAIN s : s[i] = last
    BY DEF Range
  <2> QED BY <2>1
<1>2. after \in 0..Len(s)
  BY <1>1
<1>3. Rotation(s, last) = [i \in DOMAIN s |-> s[((after + i - 1) % Len(s)) + 1]]
  BY DEF Rotation
<1> HIDE DEF after
<1>4. DOMAIN s = 1..Len(s)
  OBVIOUS
<1> QED BY <1>1, <1>2, <1>3, <1>4 DEF From

\* Each item of a rotation is followed by the next of the lineup.
LEMMA RotationOn ==
    ASSUME NEW s \in Seq(Media), s # <<>>, NoRepeats(s), NEW last, NEW k \in Nat \ {0}
    PROVE  LET list == Rotation(s, last)
           IN  list[(k % Len(list)) + 1] = Rotation(s, list[((k - 1) % Len(list)) + 1])[1]
<1> DEFINE list == Rotation(s, last)
           n == Len(s)
<1>1. n \in Nat \ {0} /\ DOMAIN s = 1..n
  OBVIOUS
<1>2. Len(list) = n
  BY RotationIs
<1>3a. PICK after \in 0..Len(s) : From(s, last, after)
  BY RotationAt
<1>3. after \in 0..n /\ list = [i \in 1..n |-> s[((after + i - 1) % n) + 1]]
  BY <1>3a DEF From
<1> HIDE DEF list, n
<1> DEFINE j == k - 1
           a == j % n
           b == k % n
           p == ((after + a) % n) + 1
           m == s[p]
<1>4. j \in Nat /\ k = j + 1 /\ after \in Nat
  BY <1>1
<1>5. a \in 0..n - 1 /\ b \in 0..n - 1
  <2> HIDE DEF j
  <2> QED BY <1>1, <1>4, ModIn
<1> HIDE DEF a, b, j
<1>6. p \in 1..n
  <2> DEFINE x == after + a
  <2>1. x \in Nat
    BY <1>1, <1>4, <1>5
  <2> HIDE DEF x
  <2>2. x % n \in 0..n - 1
    BY <1>1, <2>1, ModIn
  <2> QED BY <1>1, <2>2 DEF x
<1>7. list[a + 1] = m /\ list[b + 1] = s[((after + b) % n) + 1]
  <2>1. a + 1 \in 1..n /\ b + 1 \in 1..n /\ after + (a + 1) - 1 = after + a /\ after + (b + 1) - 1 = after + b
    BY <1>1, <1>4, <1>5
  <2> QED BY <1>3, <2>1
<1>8. Rotation(s, m)[1] = s[(p % n) + 1]
  <2>1. m \in Range(s)
    BY <1>1, <1>6 DEF Range
  <2> HIDE DEF m
  <2>2a. PICK q \in 0..Len(s) : From(s, m, q)
    BY RotationAt
  <2>2. /\ Rotation(s, m) = [i \in 1..n |-> s[((q + i - 1) % n) + 1]]
        /\ q \in 1..n /\ s[q] = m
    BY <2>1, <2>2a DEF From, n
  <2>3. q = p
    BY <1>1, <1>6, <2>2 DEF NoRepeats, m
  <2>4. 1 \in 1..n /\ p + 1 - 1 = p
    BY <1>1, <1>6
  <2> HIDE DEF p
  <2> QED BY <2>2, <2>3, <2>4
<1>9. p % n = (after + b) % n
  <2> DEFINE x == after + a
             y == after + j
  <2>1. x \in Nat /\ y \in Nat /\ p = (x % n) + 1
    BY <1>1, <1>4, <1>5
  <2> HIDE DEF x, p
  <2>2. p % n = (x + 1) % n
    BY <1>1, <2>1, ModLater
  <2>3. x + 1 = a + (after + 1)
    BY <1>4, <1>5 DEF x
  <2> DEFINE c == after + 1
  <2>4. c \in Nat
    BY <1>4
  <2> HIDE DEF c
  <2>5. (a + c) % n = (j + c) % n
    BY <1>1, <1>4, <2>4, ModLater DEF a
  <2>6. j + c = k + after
    BY <1>4 DEF c
  <2>7. (b + after) % n = (k + after) % n
    BY <1>1, <1>4, ModLater DEF b
  <2>8. b + after = after + b
    BY <1>4, <1>5
  <2> QED BY <2>2, <2>3, <2>5, <2>6, <2>7, <2>8 DEF c
<1>10. list[b + 1] = Rotation(s, list[a + 1])[1]
  BY <1>7, <1>8, <1>9
<1> QED BY <1>2, <1>10 DEF a, b, j, list

\* Each primary of a batch is followed by the next of the lineup; the first is m.
TakesTurns(B, s) ==
    \A d, e \in B :
      /\ d.kind = "primary" /\ e.kind = "primary" /\ d.start < e.start
      /\ ~\E x \in B : x.kind = "primary" /\ d.start < x.start /\ x.start < e.start
      => e.media = Rotation(s, d.media)[1]
StartsWith(B, m) ==
    \A e \in B : /\ e.kind = "primary" /\ ~\E x \in B : x.kind = "primary" /\ x.start < e.start
                 => e.media = m

\* The items of list in turn are m and what follows it in the lineup s.
Turning(list, s, n, m) ==
    /\ list[(0 % Len(list)) + 1] = m
    /\ \A k \in 1..(n - 1) : list[(k % Len(list)) + 1] = Rotation(s, list[((k - 1) % Len(list)) + 1])[1]

LEMMA TurnsOf ==
    ASSUME NEW E, NEW s, NEW list, NEW n \in Nat, NEW m, InTurn(E, list, n), Turning(list, s, n, m)
    PROVE  /\ TakesTurns(E, s) /\ StartsWith(E, m)
           /\ \A e \in E : e.kind = "primary" /\ e \in EntryType
<1> DEFINE Item(k) == list[((k - 1) % Len(list)) + 1]
<1>1. PICK K \in SUBSET (1..n) : \E e \in [K -> EntryType] :
        /\ E = {e[k] : k \in K}
        /\ \A k \in K : /\ \A j \in 1..k : j \in K
                        /\ e[k].media = Item(k) /\ e[k].kind = "primary"
        /\ \A j, k \in K : j < k => End(e[j]) <= e[k].start
  BY DEF InTurn
<1>2. PICK e \in [K -> EntryType] :
        /\ E = {e[k] : k \in K}
        /\ \A k \in K : /\ \A j \in 1..k : j \in K
                        /\ e[k].media = Item(k) /\ e[k].kind = "primary"
        /\ \A j, k \in K : j < k => End(e[j]) <= e[k].start
  BY <1>1
<1>3. \A k \in 1..(n - 1) : Item(k + 1) = Rotation(s, Item(k))[1]
  <2> TAKE k \in 1..(n - 1)
  <2> DEFINE L == Len(list)
             i == k + 1 - 1
  <2>1. i = k
    OBVIOUS
  <2> HIDE DEF L, i
  <2>1a. list[(i % L) + 1] = list[(k % L) + 1]
    BY ONLY <2>1
  <2>2. Item(k + 1) = list[(k % Len(list)) + 1]
    BY ONLY <2>1a DEF Item, i, L
  <2>3. list[(k % Len(list)) + 1] = Rotation(s, Item(k))[1]
    BY DEF Turning
  <2> QED BY <2>2, <2>3, Zenon
<1>4. Item(1) = m
  BY DEF Turning
<1> HIDE DEF Item
<1>5. \A k \in K : /\ k \in Nat /\ k >= 1 /\ k <= n /\ e[k] \in EntryType /\ e[k].start \in Nat /\ End(e[k]) \in Nat
                   /\ e[k].start < End(e[k])
  BY EntryFields
<1>6. \A j, k \in K : e[j].start < e[k].start => j < k
  <2> TAKE j, k \in K
  <2> HAVE e[j].start < e[k].start
  <2>1. k < j => End(e[k]) <= e[j].start
    BY <1>2
  <2> QED BY <1>5, <2>1
<1>7. \A j, k \in K : j < k => e[j].start < e[k].start
  BY <1>2, <1>5
<1>8. TakesTurns(E, s)
  <2> SUFFICES ASSUME NEW d \in E, NEW f \in E, d.start < f.start,
                      ~\E x \in E : x.kind = "primary" /\ d.start < x.start /\ x.start < f.start
               PROVE  f.media = Rotation(s, d.media)[1]
    BY DEF TakesTurns
  <2>1. PICK j \in K : d = e[j]
    BY <1>2
  <2>2. PICK k \in K : f = e[k]
    BY <1>2
  <2>3. j < k
    BY <1>6, <2>1, <2>2
  <2>4. j + 1 \in K
    <3>1. j + 1 \in 1..k
      BY <1>5, <2>3
    <3>2. \A i \in 1..k : i \in K
      BY <1>2
    <3> HIDE DEF Item
    <3> QED BY ONLY <3>1, <3>2
  <2>5. ~(j + 1 < k)
    BY <1>2, <1>5, <1>7, <2>1, <2>2, <2>4
  <2>6. k = j + 1 /\ j \in 1..(n - 1)
    BY <1>5, <2>3, <2>5
  <2> QED BY <1>2, <1>3, <2>1, <2>2, <2>6
<1>9. StartsWith(E, Item(1))
  <2> SUFFICES ASSUME NEW f \in E, ~\E x \in E : x.kind = "primary" /\ x.start < f.start
               PROVE  f.media = Item(1)
    BY DEF StartsWith
  <2>1. PICK k \in K : f = e[k]
    BY <1>2
  <2>2. 1 \in K
    BY <1>2, <1>5
  <2>3. k = 1
    <3> SUFFICES ASSUME k # 1 PROVE FALSE
      OBVIOUS
    <3>1. 1 < k
      BY <1>5
    <3>2. e[1].start < e[k].start /\ e[1] \in E /\ e[1].kind = "primary"
      BY <1>2, <1>7, <2>2, <3>1
    <3> QED BY <2>1, <3>2
  <2> QED BY <1>2, <2>1, <2>3
<1>10. \A f \in E : f.kind = "primary" /\ f \in EntryType
  BY <1>2
<1> QED BY <1>4, <1>8, <1>9, <1>10

\* Filler between them changes nothing.
LEMMA TurnsAmongFiller ==
    ASSUME NEW B, NEW W, B \subseteq W, \A e \in W : e \in B \/ e.kind = "filler", NEW s, TakesTurns(B, s)
    PROVE  /\ TakesTurns(W, s)
           /\ \A m : StartsWith(B, m) => StartsWith(W, m)
<1>1. \A e \in W : e.kind = "primary" => e \in B
  OBVIOUS
<1>2. TakesTurns(W, s)
  BY <1>1 DEF TakesTurns
<1>3. ASSUME NEW m, StartsWith(B, m) PROVE StartsWith(W, m)
  BY <1>1, <1>3 DEF StartsWith
<1> QED BY <1>2, <1>3

LEMMA LedTurns ==
    ASSUME NEW O, NEW lead, NEW s, NEW list, NEW n \in Nat, LedInTurn(O, lead, list, n),
           Turning(list, s, n, Rotation(s, lead)[1])
    PROVE  TakesTurns(O, s)
<1> DEFINE first == Rotation(s, lead)[1]
<1>1. PICK E \in SUBSET EntryType : \E l \in EntryType :
        /\ O = E \cup {l} /\ InTurn(E, list, n)
        /\ l.media = lead /\ l.kind = "primary"
        /\ \A d \in E : End(l) <= d.start
  BY DEF LedInTurn
<1>2. PICK l \in EntryType :
        /\ O = E \cup {l} /\ InTurn(E, list, n)
        /\ l.media = lead /\ l.kind = "primary"
        /\ \A d \in E : End(l) <= d.start
  BY <1>1
<1>3. TakesTurns(E, s) /\ StartsWith(E, first)
  BY <1>2, TurnsOf
<1>4. first = Rotation(s, lead)[1]
  OBVIOUS
<1> HIDE DEF first
<1>5. l.start \in Nat /\ End(l) \in Nat /\ l.start < End(l) /\ \A d \in E : d.start \in Nat /\ l.start < d.start
  BY <1>2, EntryFields
<1> SUFFICES ASSUME NEW d \in O, NEW e \in O, d.kind = "primary", e.kind = "primary", d.start < e.start,
                    ~\E x \in O : x.kind = "primary" /\ d.start < x.start /\ x.start < e.start
             PROVE  e.media = Rotation(s, d.media)[1]
  BY DEF TakesTurns
<1>6. e \in E
  BY <1>2, <1>5
<1>7. CASE d \in E
  BY <1>2, <1>3, <1>6, <1>7 DEF TakesTurns
<1>8. CASE d = l
  <2>1. ~\E x \in E : x.kind = "primary" /\ x.start < e.start
    BY <1>2, <1>5, <1>8
  <2>2. e.media = first
    BY <1>3, <1>6, <2>1 DEF StartsWith
  <2> QED BY <1>2, <1>4, <1>8, <2>2
<1> QED BY <1>2, <1>7, <1>8

\* A run of ready items is where the list starts.
LEMMA ReadyRunOf ==
    ASSUME NEW U, NEW s \in Seq(U), NEW R
    PROVE  /\ Len(ReadyRun(s, R)) \in 0..Len(s)
           /\ \A i \in 1..Len(ReadyRun(s, R)) : ReadyRun(s, R)[i] = s[i]
<1> DEFINE M == {n \in 0..Len(s) : \A i \in 1..n : s[i] \in R}
<1>1. M \subseteq Nat /\ IsFiniteSet(M) /\ M # {}
  <2>1. IsFiniteSet(0..Len(s))
    BY FS_Interval
  <2>2. 0 \in M
    OBVIOUS
  <2>3. M \subseteq 0..Len(s)
    OBVIOUS
  <2>4. IsFiniteSet(M)
    <3> HIDE DEF M
    <3> QED BY <2>1, <2>3, FS_Subset
  <2> QED BY <2>2, <2>4
<1>2. Max(M) \in M
  <2> HIDE DEF M
  <2> QED BY <1>1, MaxIs
<1>3. Max(M) \in 0..Len(s)
  BY <1>2
<1>4. ReadyRun(s, R) = SubSeq(s, 1, Max(M))
  BY DEF ReadyRun
<1> HIDE DEF M
<1> QED BY <1>3, <1>4

\* The items of a rotation, or of the ready run at its start, follow one another in the lineup.
LEMMA ListTurns ==
    ASSUME NEW s \in Seq(Media), s # <<>>, NoRepeats(s), NEW last, NEW R, NEW n \in Nat
    PROVE  LET t == Rotation(s, last)
               r == ReadyRun(t, R)
           IN  Turning(t, s, n, t[1]) /\ (r # <<>> => Turning(r, s, Len(r), t[1]))
<1> DEFINE t == Rotation(s, last)
           r == ReadyRun(t, R)
           N == Len(t)
           L == Len(r)
<1>1. t \in Seq(Media) /\ N = Len(s) /\ N \in Nat \ {0}
  <2>1. Len(s) \in Nat \ {0}
    OBVIOUS
  <2> QED BY <2>1, RotationIs
<1>2. \A k \in Nat \ {0} : t[(k % N) + 1] = Rotation(s, t[((k - 1) % N) + 1])[1]
  BY RotationOn
<1> HIDE DEF t
<1>3. L \in 0..N /\ \A i \in 1..L : r[i] = t[i]
  BY <1>1, ReadyRunOf
<1>3a. r # <<>> => L # 0
  BY <1>1, ReadyRunIs
<1> HIDE DEF r, N, L
<1>4. 0 % N = 0 /\ (L # 0 => 0 % L = 0)
  BY <1>1, <1>3
<1>5. \A k \in 1..(n - 1) : t[(k % N) + 1] = Rotation(s, t[((k - 1) % N) + 1])[1]
  BY <1>2
<1>6. ASSUME NEW k \in 1..(L - 1)
      PROVE  r[(k % L) + 1] = Rotation(s, r[((k - 1) % L) + 1])[1]
  <2> DEFINE j == k - 1
  <2>1. k \in Nat \ {0} /\ L \in Nat \ {0} /\ j \in Nat /\ k < L /\ j < L /\ L <= N /\ j < k
    BY <1>1, <1>3
  <2> HIDE DEF j
  <2>2. k % L = k /\ j % L = j /\ k % N = k /\ j % N = j
    <3>2. N \in Nat \ {0} /\ k \in Nat /\ k < N /\ j < N
      BY <1>1, <2>1
    <3>3. k % L = k
      BY <2>1, ModBelow
    <3>4. j % L = j
      BY <2>1, ModBelow
    <3>5. k % N = k
      BY ModBelow, <3>2
    <3>6. j % N = j
      BY <2>1, ModBelow, <3>2
    <3> QED BY <3>3, <3>4, <3>5, <3>6
  <2>3. k + 1 \in 1..L /\ j + 1 \in 1..L
    BY <2>1
  <2>4. r[k + 1] = t[k + 1] /\ r[j + 1] = t[j + 1]
    BY <1>3, <2>3
  <2>5. t[(k % N) + 1] = Rotation(s, t[(j % N) + 1])[1]
    BY <1>2, <2>1 DEF j
  <2>6. t[k + 1] = Rotation(s, t[j + 1])[1]
    BY <2>2, <2>5, Zenon
  <2>7. r[(k % L) + 1] = Rotation(s, r[(j % L) + 1])[1]
    BY <2>2, <2>4, <2>6, Zenon
  <2> QED BY <2>7 DEF j
<1>7. t[(0 % N) + 1] = t[1] /\ (r # <<>> => r[(0 % L) + 1] = t[1])
  <2>1. t[(0 % N) + 1] = t[1]
    BY <1>4
  <2>2. r # <<>> => r[(0 % L) + 1] = r[1] /\ 1 \in 1..L
    BY <1>3, <1>3a, <1>4
  <2> QED BY <1>3, <2>1, <2>2
<1>8. Turning(t, s, n, t[1])
  BY <1>5, <1>7 DEF Turning, N
<1>9. r # <<>> => Turning(r, s, Len(r), t[1])
  BY <1>6, <1>7 DEF Turning, L
<1> QED BY <1>8, <1>9 DEF r, t

\* What the primaries of an extension are: the lineup in turn, from where the rotation was.
Continues(ch, rs, B, last) ==
    /\ TakesTurns(B, ch.lineup)
    /\ rs # <<>> => StartsWith(B, Rotation(ch.lineup, last)[1])
    /\ ~ch.slotGrid => \A e \in B : e.kind = "primary"

LEMMA BatchContinues ==
    ASSUME NEW ch, Channels(ch), ch.lineup # <<>>, NoRepeats(ch.lineup), NEW rs, Rows(rs),
           NEW start \in Nat, NEW limit \in Nat, start < limit, NEW last, NEW leading
    PROVE  Continues(ch, rs, Batch(ch, rs, start, limit, last, leading), last)
<1> DEFINE s == ch.lineup
           B == Batch(ch, rs, start, limit, last, leading)
<1>0. s \in Seq(Media) /\ s # <<>> /\ NoRepeats(s)
  BY DEF Channels
<1> HIDE DEF s
<1>1. CASE ch.slotGrid
  <2> DEFINE lead == IF leading /\ rs = <<>> THEN BestFit(s, AlignToSlot(start) - start) ELSE NoMedia
             O == OnBoundaries(ch, start, limit, last, lead)
             C == Cursors(rs, start)
             n == limit - start
  <2>1. B = WithFiller(ch, C, start, O)
    BY <1>1 DEF Batch, SlotGrid, s
  <2>2. (lead = NoMedia \/ (lead \in Media /\ Duration[lead] <= AlignToSlot(start) - start))
        /\ (rs # <<>> => lead = NoMedia)
    <3> DEFINE gap == AlignToSlot(start) - start
    <3>1. gap \in Nat
      BY AlignIs
    <3> HIDE DEF gap
    <3>2. BestFit(s, gap) = NoMedia \/ (BestFit(s, gap) \in Media /\ Duration[BestFit(s, gap)] <= gap)
      BY <1>0, <3>1, BestFitIs
    <3> QED BY <3>2 DEF gap
  <2>3. n \in Nat /\ Placed(C)
    BY CursorsPlaced
  <2> HIDE DEF lead, C
  <2>4. /\ Batched(O) /\ \A e \in O : e.start >= start
        /\ lead = NoMedia => InTurn(O, Rotation(s, last), n)
        /\ lead # NoMedia => LedInTurn(O, lead, Rotation(s, lead), n)
    BY <1>0, <2>2, OnBoundariesBatched DEF s
  <2> HIDE DEF O, n
  <2>5. O \subseteq B /\ \A e \in B : e \in O \/ e.kind = "filler"
    <3> DEFINE W == WithFiller(ch, C, start, O)
    <3>1. O \subseteq W /\ \A e \in W : e \in O \/ e.kind = "filler"
      BY <2>3, <2>4, WithFillerBatched
    <3> HIDE DEF W, B
    <3>2. B = W
      BY <2>1 DEF W
    <3> QED BY <3>1, <3>2
  <2> HIDE DEF B
  <2>6. CASE lead = NoMedia
    <3> DEFINE t == Rotation(s, last)
    <3>1. Turning(t, s, n, t[1])
      BY <1>0, <2>3, ListTurns
    <3>2. InTurn(O, t, n)
      BY <2>4, <2>6
    <3> HIDE DEF t
    <3>4. TakesTurns(O, s) /\ StartsWith(O, t[1])
      BY <2>3, <3>1, <3>2, TurnsOf
    <3>5. TakesTurns(B, s) /\ StartsWith(B, t[1])
      BY <2>5, <3>4, TurnsAmongFiller
    <3> QED BY <1>1, <3>5 DEF Continues, B, t, s
  <2>7. CASE lead # NoMedia
    <3> DEFINE t == Rotation(s, lead)
    <3>1. Turning(t, s, n, t[1])
      BY <1>0, <2>3, ListTurns
    <3>2. LedInTurn(O, lead, t, n) /\ Turning(t, s, n, Rotation(s, lead)[1])
      BY <2>4, <2>7, <3>1
    <3> HIDE DEF t
    <3>3. TakesTurns(O, s)
      BY <2>3, <3>1, <3>2, LedTurns
    <3>4. TakesTurns(B, s)
      BY <2>5, <3>3, TurnsAmongFiller
    <3> QED BY <1>1, <2>2, <2>7, <3>4 DEF Continues, B, s
  <2> QED BY <2>6, <2>7
<1>2. CASE ~ch.slotGrid
  <2> DEFINE t == Rotation(s, last)
             r == ReadyRun(t, ch.ready)
             n == Horizon * Len(t)
             L == Len(r)
  <2>1. t \in Seq(Media)
    BY <1>0, RotationIs
  <2>2. B = IF ch.eager /\ ~(Range(s) \subseteq ch.ready) THEN BackToBack(r, start, limit, 1)
            ELSE BackToBack(t, start, limit, Horizon)
    BY <1>2 DEF Batch, s
  <2>3. n \in Nat
    <3>1. Len(t) \in Nat /\ Horizon \in Nat
      BY <2>1, BuilderAssumption
    <3> HIDE DEF t
    <3> QED BY <3>1
  <2> HIDE DEF n
  <2>4. Turning(t, s, n, t[1]) /\ (r # <<>> => Turning(r, s, Len(r), t[1]))
    BY <1>0, <2>3, ListTurns
  <2> HIDE DEF t
  <2>5. r \in Seq(Media)
    BY <2>1, ReadyRunIs
  <2> HIDE DEF r
  <2>6. t \in Seq(Schedulable) /\ r \in Seq(Schedulable) /\ Horizon \in Nat /\ L \in Nat
    BY <2>1, <2>5, BuilderAssumption DEF Schedulable
  <2>7. InTurn(BackToBack(t, start, limit, Horizon), t, n)
    BY <2>6, BackToBackBatched DEF n
  <2>8. InTurn(BackToBack(r, start, limit, 1), r, L)
    <3>1. InTurn(BackToBack(r, start, limit, 1), r, 1 * Len(r))
      BY <2>6, BackToBackBatched
    <3>2. 1 * Len(r) = L
      BY <2>6
    <3> QED BY <3>1, <3>2
  <2> HIDE DEF B, L
  <2>9. CASE ch.eager /\ ~(Range(s) \subseteq ch.ready)
    <3>1. B = BackToBack(r, start, limit, 1)
      BY <2>2, <2>9
    <3>2. CASE r = <<>>
      <4>1. B = {}
        BY <3>1, <3>2 DEF BackToBack
      <4>2. TakesTurns(B, s) /\ StartsWith(B, t[1]) /\ \A e \in B : e.kind = "primary"
        BY <4>1 DEF StartsWith, TakesTurns
      <4> QED BY <1>2, <4>2 DEF Continues, B, t, s
    <3>3. CASE r # <<>>
      <4>1. InTurn(B, r, L) /\ Turning(r, s, L, t[1])
        BY <2>4, <2>8, <3>1, <3>3 DEF L
      <4>2. TakesTurns(B, s) /\ StartsWith(B, t[1]) /\ \A e \in B : e.kind = "primary"
        BY <2>6, <4>1, TurnsOf
      <4> QED BY <1>2, <4>2 DEF Continues, B, t, s
    <3> QED BY <3>2, <3>3
  <2>10. CASE ~(ch.eager /\ ~(Range(s) \subseteq ch.ready))
    <3>1. B = BackToBack(t, start, limit, Horizon)
      BY <2>2, <2>10
    <3>1a. InTurn(B, t, n) /\ Turning(t, s, n, t[1])
      BY <2>4, <2>7, <3>1
    <3>2. TakesTurns(B, s) /\ StartsWith(B, t[1]) /\ \A e \in B : e.kind = "primary"
      BY <2>3, <3>1a, TurnsOf
    <3> QED BY <1>2, <2>4, <3>2 DEF Continues, B, t, s
  <2> QED BY <2>9, <2>10
<1> QED BY <1>1, <1>2

\* Each primary row is followed by the next of the lineup.
RowsInTurn(rs, s) ==
    \A i, j \in DOMAIN rs :
      /\ rs[i].kind = "primary" /\ rs[j].kind = "primary" /\ rs[i].start < rs[j].start
      /\ ~\E k \in DOMAIN rs : rs[k].kind = "primary" /\ rs[i].start < rs[k].start /\ rs[k].start < rs[j].start
      => rs[j].media = Rotation(s, rs[i].media)[1]

\* A schedule in turn, without filler where the channel is back to back.
Turned(ch, rs) ==
    /\ RowsInTurn(rs, ch.lineup)
    /\ ~ch.slotGrid => \A i \in DOMAIN rs : rs[i].kind = "primary"

\* The rotation continues from the latest primary.
LEMMA LastPrimary ==
    ASSUME NEW ch, NEW rs, Good(rs), ~ch.slotGrid => \A i \in DOMAIN rs : rs[i].kind = "primary",
           NEW i \in DOMAIN rs, rs[i].kind = "primary"
    PROVE  \E p \in DOMAIN rs : /\ rs[p].kind = "primary" /\ LastScheduled(ch, rs) = rs[p].media
                                /\ rs[i].start <= rs[p].start
<1> DEFINE S == {j \in DOMAIN rs : rs[j].kind = "primary"}
           p == Latest(rs, S)
           q == IF ch.slotGrid THEN Latest(rs, S) ELSE LastEntry(rs)
<1>1. Rows(rs) /\ i \in S /\ S \in SUBSET DOMAIN rs
  BY GoodIs
<1>2. q = p
  <2>1. CASE ch.slotGrid
    BY <2>1
  <2>2. CASE ~ch.slotGrid
    <3>1. S = DOMAIN rs
      BY <2>2
    <3>2. LastEntry(rs) = Latest(rs, DOMAIN rs)
      BY <1>1, WalkMeetsAll
    <3> QED BY <2>2, <3>1, <3>2
  <2> QED BY <2>1, <2>2
<1>3. LastScheduled(ch, rs) = IF q = NoEntry THEN NoMedia ELSE rs[q].media
  BY DEF LastScheduled
<1>4. p \in S /\ \A j \in S : rs[j].start <= rs[p].start
  <2> HIDE DEF S
  <2> QED BY <1>1, LatestIs
<1>5. p \in DOMAIN rs /\ rs[p].kind = "primary" /\ rs[i].start <= rs[p].start
  BY <1>1, <1>4
<1> HIDE DEF p, q
<1>6. p # NoEntry
  BY <1>1, <1>5, RowFields
<1>7. LastScheduled(ch, rs) = rs[p].media
  BY <1>2, <1>3, <1>6
<1> QED BY <1>5, <1>7

LEMMA AppendTurned ==
    ASSUME NEW ch, NEW rs, Good(rs), Turned(ch, rs), NEW p \in Nat, \A i \in DOMAIN rs : End(rs[i]) <= p,
           NEW B, Batched(B), \A e \in B : e.start >= p, NEW l, NEW ts, Inserts(ts, rs, B, l),
           Continues(ch, rs, B, LastScheduled(ch, rs))
    PROVE  Turned(ch, ts)
<1> DEFINE s == ch.lineup
           first == Rotation(s, LastScheduled(ch, rs))[1]
           N == DOMAIN ts \ DOMAIN rs
<1>1. /\ \A e \in B : \E i \in N : ts[i] = Row(e, ts[i].anchor)
      /\ \A i \in N : \E e \in B : ts[i] = Row(e, ts[i].anchor)
      /\ DOMAIN rs \subseteq DOMAIN ts /\ \A i \in DOMAIN rs : ts[i] = rs[i]
  BY DEF Inserts
<1>2. \A i \in DOMAIN rs : /\ rs[i].start \in Nat /\ End(rs[i]) \in Nat /\ rs[i].start < End(rs[i])
                           /\ rs[i].start < p
  BY GoodIs, RowFields
<1>3. \A e \in B : e.start \in Nat
  BY EntryFields DEF Batched
<1>4. \A i \in N : \E e \in B : ts[i].start = e.start /\ ts[i].media = e.media /\ ts[i].kind = e.kind
  <2> TAKE i \in N
  <2>1. PICK e \in B : ts[i] = Row(e, ts[i].anchor)
    BY <1>1
  <2> QED BY <2>1, RowOfEntry
<1>5. \A e \in B : \E i \in N : ts[i].start = e.start /\ ts[i].media = e.media /\ ts[i].kind = e.kind
  <2> TAKE e \in B
  <2>1. PICK i \in N : ts[i] = Row(e, ts[i].anchor)
    BY <1>1
  <2> QED BY <2>1, RowOfEntry
<1>6. TakesTurns(B, s) /\ RowsInTurn(rs, s)
  BY DEF Continues, Turned
<1>7. rs # <<>> => StartsWith(B, first)
  BY DEF Continues
<1>8. N \subseteq DOMAIN ts /\ \A i \in DOMAIN ts : i \in N \/ i \in DOMAIN rs
  BY <1>1
<1> HIDE DEF N, first, s
<1>9. ASSUME NEW i \in DOMAIN ts, NEW j \in DOMAIN ts,
             ts[i].kind = "primary", ts[j].kind = "primary", ts[i].start < ts[j].start,
             ~\E k \in DOMAIN ts : ts[k].kind = "primary" /\ ts[i].start < ts[k].start /\ ts[k].start < ts[j].start
      PROVE  ts[j].media = Rotation(s, ts[i].media)[1]
  <2>1. CASE i \in DOMAIN rs /\ j \in DOMAIN rs
    <3>1. ~\E k \in DOMAIN rs : rs[k].kind = "primary" /\ rs[i].start < rs[k].start /\ rs[k].start < rs[j].start
      BY <1>1, <1>9, <2>1
    <3> QED BY <1>1, <1>6, <1>9, <2>1, <3>1 DEF RowsInTurn
  <2>2. CASE i \in N /\ j \in N
    <3>1. PICK d \in B : ts[i].start = d.start /\ ts[i].media = d.media /\ ts[i].kind = d.kind
      BY <1>4, <2>2
    <3>2. PICK e \in B : ts[j].start = e.start /\ ts[j].media = e.media /\ ts[j].kind = e.kind
      BY <1>4, <2>2
    <3>3. ~\E x \in B : x.kind = "primary" /\ d.start < x.start /\ x.start < e.start
      BY <1>5, <1>8, <1>9, <3>1, <3>2
    <3> QED BY <1>6, <1>9, <3>1, <3>2, <3>3 DEF TakesTurns
  <2>3. CASE i \in DOMAIN rs /\ j \in N
    <3>1. PICK e \in B : ts[j].start = e.start /\ ts[j].media = e.media /\ ts[j].kind = e.kind
      BY <1>4, <2>3
    <3>2. ts[i] = rs[i] /\ rs[i].start < p
      BY <1>1, <1>2, <2>3
    <3>3. ~\E x \in B : x.kind = "primary" /\ x.start < e.start
      <4> SUFFICES ASSUME NEW x \in B, x.kind = "primary", x.start < e.start PROVE FALSE
        OBVIOUS
      <4>1. PICK k \in N : ts[k].start = x.start /\ ts[k].media = x.media /\ ts[k].kind = x.kind
        BY <1>5
      <4>2. rs[i].start < x.start
        BY <1>2, <1>3, <2>3, <3>2
      <4> QED BY <1>8, <1>9, <3>1, <3>2, <4>1, <4>2
    <3>4. rs # <<>>
      BY <2>3, GoodIs, EmptyIs
    <3>5. e.media = first
      BY <1>7, <1>9, <3>1, <3>3, <3>4 DEF StartsWith
    <3>6. PICK q \in DOMAIN rs : /\ rs[q].kind = "primary" /\ LastScheduled(ch, rs) = rs[q].media
                                 /\ rs[i].start <= rs[q].start
      BY <1>9, <2>3, <3>2, LastPrimary DEF Turned
    <3>7. q = i
      <4> SUFFICES ASSUME q # i PROVE FALSE
        OBVIOUS
      <4>1. rs[q].start # rs[i].start
        BY <2>3, GoodIs, DistinctStarts
      <4>2. rs[i].start < rs[q].start /\ rs[q].start < e.start
        BY <1>2, <1>3, <2>3, <3>6, <4>1
      <4>3. q \in DOMAIN ts /\ ts[q] = rs[q]
        BY <1>1
      <4> QED BY <1>9, <3>1, <3>2, <3>6, <4>2, <4>3
    <3> QED BY <3>1, <3>2, <3>5, <3>6, <3>7 DEF first
  <2>4. CASE i \in N /\ j \in DOMAIN rs
    <3>1. PICK d \in B : ts[i].start = d.start
      BY <1>4, <2>4
    <3>2. ts[j].start < p /\ d.start >= p /\ ts[j].start \in Nat
      BY <1>1, <1>2, <2>4
    <3> QED BY <1>3, <1>9, <3>1, <3>2
  <2> QED BY <1>8, <2>1, <2>2, <2>3, <2>4
<1>10. RowsInTurn(ts, s)
  BY <1>9 DEF RowsInTurn
<1>11. ~ch.slotGrid => \A i \in DOMAIN ts : ts[i].kind = "primary"
  <2> SUFFICES ASSUME ~ch.slotGrid, NEW i \in DOMAIN ts PROVE ts[i].kind = "primary"
    OBVIOUS
  <2>1. (\A e \in B : e.kind = "primary") /\ \A j \in DOMAIN rs : rs[j].kind = "primary"
    BY DEF Continues, Turned
  <2>2. CASE i \in N
    BY <1>4, <2>1, <2>2
  <2>3. CASE i \in DOMAIN rs
    BY <1>1, <2>1, <2>3
  <2> QED BY <1>8, <2>2, <2>3
<1> QED BY <1>10, <1>11 DEF Turned, s

\* Healing adds filler only.
LEMMA HealTurned ==
    ASSUME NEW ch, NEW us, NEW ts, NEW clock, Heals(ch, us, ts, clock), Turned(ch, ts), ch.slotGrid
    PROVE  Turned(ch, us)
<1>1. /\ DOMAIN ts \subseteq DOMAIN us
      /\ \A i \in DOMAIN ts : us[i].start = ts[i].start /\ us[i].media = ts[i].media /\ us[i].kind = ts[i].kind
      /\ \A i \in DOMAIN us : us[i].kind = "primary" => i \in DOMAIN ts
  BY DEF Heals, Onward, Grows
<1>2. RowsInTurn(ts, ch.lineup)
  BY DEF Turned
<1>3. RowsInTurn(us, ch.lineup)
  <2> SUFFICES ASSUME NEW i \in DOMAIN us, NEW j \in DOMAIN us,
                      us[i].kind = "primary", us[j].kind = "primary", us[i].start < us[j].start,
                      ~\E k \in DOMAIN us : us[k].kind = "primary" /\ us[i].start < us[k].start
                                            /\ us[k].start < us[j].start
               PROVE  us[j].media = Rotation(ch.lineup, us[i].media)[1]
    BY DEF RowsInTurn
  <2>1. i \in DOMAIN ts /\ j \in DOMAIN ts
    BY <1>1
  <2>2. ~\E k \in DOMAIN ts : ts[k].kind = "primary" /\ ts[i].start < ts[k].start /\ ts[k].start < ts[j].start
    BY <1>1, <2>1
  <2> QED BY <1>1, <1>2, <2>1, <2>2 DEF RowsInTurn
<1> QED BY <1>3 DEF Turned

LEMMA PassTurned ==
    ASSUME NEW ch, Channels(ch), NoRepeats(ch.lineup), NEW rs, Good(rs), Turned(ch, rs),
           NEW clock \in Nat, NEW resume, resume = NoMedia, NEW leading, NEW low
    PROVE  Turned(ch, ExtendChannel(ch, rs, clock, resume, leading, low).rows)
<1> DEFINE X == ExtendChannel(ch, rs, clock, resume, leading, low)
           start == NextStart(rs, clock)
           last == LastScheduled(ch, rs)
           limit == clock + Horizon
           B == Batch(ch, rs, start, limit, last, leading)
           l == LastEntry(rs)
           ts == Insert(ch, rs, B, l)
<1>1. Rows(rs) /\ start \in Nat /\ limit \in Nat /\ \A i \in DOMAIN rs : End(rs[i]) <= start
  BY GoodIs, NextStartIs, BuilderAssumption
<1>2. \/ X.rows = rs
      \/ ch.slotGrid /\ X.rows = Backfilled(ch, rs, clock)
      \/ /\ X.rows = IF ch.slotGrid THEN Backfilled(ch, ts, clock) ELSE ts
         /\ start < limit /\ ch.lineup # <<>>
  <2>1. Passed(ch, rs, clock, resume, leading, low)
    BY PassIs
  <2> QED BY <2>1 DEF Passed
<1>3. l = LastBefore(rs, start)
  BY <1>1, LastIsBefore
<1> HIDE DEF X, start, limit, l
<1>4. CASE ch.slotGrid /\ X.rows = Backfilled(ch, rs, clock)
  <2>1. Heals(ch, Backfilled(ch, rs, clock), rs, clock)
    BY BackfilledHeals
  <2>2. Turned(ch, Backfilled(ch, rs, clock))
    BY <1>4, <2>1, HealTurned
  <2> QED BY <1>4, <2>2 DEF X
<1>5. CASE /\ X.rows = IF ch.slotGrid THEN Backfilled(ch, ts, clock) ELSE ts
           /\ start < limit /\ ch.lineup # <<>>
  <2> HIDE DEF last
  <2>1. Batched(B) /\ (\A e \in B : e.start >= start) /\ Continues(ch, rs, B, last)
    BY <1>1, <1>5, BatchIs, BatchContinues
  <2> HIDE DEF B
  <2>2. Good(ts) /\ Inserts(ts, rs, B, l)
    BY <1>1, <1>3, <2>1, Appended
  <2> HIDE DEF ts
  <2>3. Continues(ch, rs, B, LastScheduled(ch, rs))
    BY <2>1 DEF last
  <2>4. Turned(ch, ts)
    BY <1>1, <2>1, <2>2, <2>3, AppendTurned
  <2>5. CASE ch.slotGrid
    <3> DEFINE us == Backfilled(ch, ts, clock)
    <3>1. Heals(ch, us, ts, clock)
      BY <2>2, BackfilledHeals
    <3> HIDE DEF us
    <3>2. Turned(ch, us)
      BY <2>4, <2>5, <3>1, HealTurned
    <3>3. X.rows = us
      BY <1>5, <2>5 DEF us
    <3> QED BY <3>2, <3>3 DEF X
  <2>6. CASE ~ch.slotGrid
    <3>1. X.rows = ts
      BY <1>5, <2>6
    <3> QED BY <2>4, <3>1 DEF X
  <2> QED BY <2>5, <2>6
<1>6. CASE X.rows = rs
  BY <1>6 DEF X
<1> QED BY <1>2, <1>4, <1>5, <1>6

\* What is true until the first edit, whatever is in flight at once later.
Unedited ==
    /\ edits \in Nat
    /\ edits = 0 => /\ Typed /\ Good(rows) /\ Idle
                    /\ NoRepeats(lineup) /\ Turned(Channel, rows)

\* A pass, of whoever builds, extends or heals the schedule.
LEMMA PassUnedited ==
    ASSUME Unedited, NEW leading, NEW low,
           Commit(ExtendChannel(Channel, rows, now, NoMedia, leading, low)),
           created' \in BOOLEAN, UNCHANGED <<mode, lineup, ready, now, edits, request>>
    PROVE  Unedited'
<1> SUFFICES ASSUME edits = 0
             PROVE  /\ Typed' /\ Good(rows)' /\ Idle'
                    /\ NoRepeats(lineup)' /\ Turned(Channel, rows)'
  BY DEF Unedited
<1>1. Typed /\ Good(rows) /\ Idle /\ NoRepeats(lineup) /\ Turned(Channel, rows)
  BY DEF Unedited
<1>2. Typed' /\ Idle' /\ NoRepeats(lineup)'
  BY <1>1 DEF Typed, Idle, NoRepeats
<1> DEFINE ch == Channel
           resume == NoMedia
           X == ExtendChannel(ch, rows, now, resume, leading, low)
<1>3. Channels(ch) /\ ch.lineup = lineup /\ ch.slotGrid = mode.slotGrid /\ now \in Nat
  BY <1>1, ChannelIs DEF Channel, Typed
<1>4. resume = NoMedia /\ NoRepeats(ch.lineup) /\ Turned(ch, rows)
  BY <1>1, <1>3
<1>5. rows' = IF X.outcome = "failed" THEN rows ELSE X.rows
  BY DEF Commit
<1> HIDE DEF ch, resume
<1>6. Good(X.rows) /\ Turned(ch, X.rows)
  BY <1>1, <1>3, <1>4, ExtendChannelGood, PassTurned DEF Onward
<1> HIDE DEF X
<1>7. Good(rows') /\ Turned(ch, rows')
  BY <1>1, <1>4, <1>5, <1>6
<1>8. Turned(Channel, rows)'
  <2>1. Channel.lineup' = lineup /\ Channel.slotGrid' = mode.slotGrid
    BY DEF Channel
  <2> QED BY <1>3, <1>7, <2>1 DEF Turned, RowsInTurn
<1> QED BY <1>2, <1>7, <1>8

LEMMA UneditedStep ==
    ASSUME Unedited, [Next]_vars
    PROVE  Unedited'
<1>1. edits \in Nat
  BY DEF Unedited
<1>2. ASSUME Edit PROVE Unedited'
  BY <1>1, <1>2 DEF Edit, Unedited
<1>3. ASSUME NEW e \in Editors, Write(e) PROVE Unedited'
  <2>1. request[e] # NoRequest
    BY <1>3 DEF Write, WriteDelete, WriteDeleteRange, WriteUpsert, WriteFillGap, WriteSaveWindow,
                WriteRecompose, WriteRemoveMedia, Pending
  <2>2. edits # 0
    BY <2>1 DEF Unedited, Idle
  <2>3. edits' = edits
    BY <1>3 DEF Write, WriteDelete, WriteDeleteRange, WriteUpsert, WriteFillGap, WriteSaveWindow,
                WriteRecompose, WriteRemoveMedia, Finish
  <2> QED BY <1>1, <2>2, <2>3 DEF Unedited
<1>4. ASSUME Create PROVE Unedited'
  <2>1. /\ Commit(ExtendChannel(Channel, rows, now, NoMedia, mode.slotGrid, 0))
        /\ created' \in BOOLEAN /\ UNCHANGED <<mode, lineup, ready, now, edits, request>>
    BY <1>4 DEF Create
  <2> DEFINE leading == mode.slotGrid
             low == 0
  <2> HIDE DEF leading, low
  <2>2. Commit(ExtendChannel(Channel, rows, now, NoMedia, leading, low))
    BY <2>1 DEF leading, low
  <2> QED BY <2>1, <2>2, PassUnedited
<1>5. ASSUME Tick PROVE Unedited'
  <2> DEFINE leading == FALSE
  <2>1. /\ Commit(ExtendChannel(Channel, rows, now, NoMedia, leading, LowWater))
        /\ UNCHANGED <<mode, lineup, ready, created, now, edits, request>>
    BY <1>5 DEF Tick, others
  <2> HIDE DEF leading
  <2>2. edits = 0 => created' \in BOOLEAN
    BY <2>1 DEF Unedited, Typed
  <2>3. CASE edits = 0
    BY <2>1, <2>2, <2>3, PassUnedited
  <2>4. CASE edits # 0
    BY <1>1, <2>1, <2>4 DEF Unedited
  <2> QED BY <2>3, <2>4
<1>6. ASSUME Extend PROVE Unedited'
  <2> DEFINE leading == FALSE
             low == 0
  <2>1. /\ Commit(ExtendChannel(Channel, rows, now, NoMedia, leading, low))
        /\ UNCHANGED <<mode, lineup, ready, created, now, edits, request>>
    BY <1>6 DEF Extend, Rebuilt, others
  <2> HIDE DEF leading, low
  <2>2. edits = 0 => created' \in BOOLEAN
    BY <2>1 DEF Unedited, Typed
  <2>3. CASE edits = 0
    BY <2>1, <2>2, <2>3, PassUnedited
  <2>4. CASE edits # 0
    BY <1>1, <2>1, <2>4 DEF Unedited
  <2> QED BY <2>3, <2>4
<1>7. ASSUME UNCHANGED <<rows, mode, lineup, edits, request>>, edits = 0 => ready' \subseteq Schedulable,
             edits = 0 => now' \in Nat, created' = created
      PROVE  Unedited'
  <2> SUFFICES ASSUME edits = 0
               PROVE  /\ Typed' /\ Good(rows)' /\ Idle'
                      /\ NoRepeats(lineup)' /\ Turned(Channel, rows)'
    BY <1>1, <1>7 DEF Unedited
  <2>1. Typed /\ Good(rows) /\ Idle /\ NoRepeats(lineup) /\ Turned(Channel, rows)
    BY DEF Unedited
  <2>2. Typed' /\ Idle' /\ NoRepeats(lineup)'
    BY <1>7, <2>1 DEF Typed, Idle, NoRepeats
  <2>3. Good(rows)'
    BY <1>7, <2>1
  <2>4. Turned(Channel, rows)'
    <3>1. Channel.lineup' = Channel.lineup /\ Channel.slotGrid' = Channel.slotGrid
      BY <1>7 DEF Channel
    <3> QED BY <1>7, <2>1, <3>1 DEF Turned, RowsInTurn
  <2> QED BY <2>2, <2>3, <2>4
<1>8. ASSUME AdvanceTime PROVE Unedited'
  BY <1>7, <1>8 DEF AdvanceTime, Unedited, Typed
<1>9. ASSUME NEW m \in Unsteady, PackageChanges(m) PROVE Unedited'
  BY <1>7, <1>9, ScheduleAssumption DEF PackageChanges, Unedited, Typed
<1>10. ASSUME UNCHANGED vars PROVE Unedited'
  BY <1>7, <1>10 DEF vars, Unedited, Typed
<1>11. ASSUME NEW pieces \in Layouts, NEW filler \in SUBSET Range(Filler), CreateExplicit(pieces, filler)
       PROVE  Unedited'
  BY <1>2, <1>11 DEF CreateExplicit, Edit
<1>12. ASSUME EditAtOnce PROVE Unedited'
  <2>1. Restart => Edit
    BY DEF Restart, Apply
  <2>2. ASSUME NEW t, Clear(t) PROVE Edit
    BY <2>2 DEF Clear, Apply
  <2>3. ASSUME NEW i, DeleteEntry(i) PROVE Edit
    BY <2>3 DEF DeleteEntry, Apply
  <2>4. ASSUME NEW i, NEW m, NEW after, InsertRelative(i, m, after) PROVE Edit
    BY <2>4 DEF InsertRelative, Apply
  <2>5. ASSUME NEW from, NEW to, DeleteRange(from, to) PROVE Edit
    BY <2>5 DEF DeleteRange, Apply
  <2>6. ASSUME NEW m, RemoveMember(m) PROVE Edit
    BY <2>6 DEF RemoveMember
  <2>7. Edit
    BY <1>12, <2>1, <2>2, <2>3, <2>4, <2>5, <2>6 DEF EditAtOnce
  <2> QED BY <1>2, <2>7
<1>13. ASSUME NEW e \in Editors, Read(e) PROVE Unedited'
  <2>1. ASSUME NEW r, Begin(e, r) PROVE Edit
    BY <2>1 DEF Begin
  <2>2. ReadRecompose(e) => Edit
    BY <2>1 DEF ReadRecompose
  <2>3. ASSUME NEW m, ReadRemoveMedia(e, m) PROVE Edit
    BY <2>1, <2>3 DEF ReadRemoveMedia
  <2>4. ASSUME NEW i, ReadDelete(e, i) PROVE Edit
    BY <2>1, <2>4 DEF ReadDelete
  <2>5. ASSUME NEW from, NEW m, ReadUpsert(e, from, m) PROVE Edit
    BY <2>1, <2>5 DEF ReadUpsert
  <2>6. ASSUME NEW from, NEW m, NEW sequential, NEW asked, ReadFillGap(e, from, m, sequential, asked)
        PROVE  Edit
    BY <2>1, <2>6 DEF ReadFillGap
  <2>7. ASSUME NEW from, NEW to, ReadDeleteRange(e, from, to) PROVE Edit
    BY <2>1, <2>7 DEF ReadDeleteRange
  <2>8. ASSUME NEW from, NEW to, NEW draft, NEW extend, NEW preserve,
               ReadSaveWindow(e, from, to, draft, extend, preserve)
        PROVE  Edit
    BY <2>1, <2>8 DEF ReadSaveWindow
  <2>9. Edit
    BY <1>13, <2>2, <2>3, <2>4, <2>5, <2>6, <2>7, <2>8 DEF Read
  <2> QED BY <1>2, <2>9
<1> QED BY <1>3, <1>4, <1>5, <1>6, <1>8, <1>9, <1>10, <1>11, <1>12, <1>13 DEF Next

\* Until somebody edits or composes the schedule, primary follows primary as the lineup has them,
\* whichever passes laid the two: channel_media holds a media once.
THEOREM RotationKept ==
    ASSUME NoRepeats(InitialLineup)
    PROVE  Spec => []InRotation
<1>1. Init => Unedited
  <2> SUFFICES ASSUME Init PROVE Unedited
    OBVIOUS
  <2>1. rows = <<>> /\ lineup = InitialLineup /\ Idle /\ edits = 0
    BY DEF Init, Idle
  <2>2. Typed
    <3>1. request \in [Editors -> Requests \cup {NoRequest}] /\ ready \subseteq Schedulable
      BY ScheduleAssumption DEF Init
    <3> QED BY <3>1, ScheduleAssumption DEF Init, Typed
  <2>3. Good(rows) /\ DOMAIN rows = {}
    BY <2>1, EmptyGood
  <2>4. Turned(Channel, rows)
    BY <2>3 DEF Turned, RowsInTurn
  <2> QED BY <2>1, <2>2, <2>3, <2>4 DEF Unedited
<1>2. Unedited /\ [Next]_vars => Unedited'
  BY UneditedStep
<1>3. Unedited => InRotation
  <2> SUFFICES ASSUME Unedited, edits = 0 PROVE InRotation
    BY DEF InRotation
  <2>1. RowsInTurn(rows, lineup)
    <3>1. Channel.lineup = lineup
      BY DEF Channel
    <3> QED BY <3>1 DEF Unedited, Turned
  <2> QED BY <2>1 DEF RowsInTurn, InRotation, Primaries
<1> QED BY <1>1, <1>2, <1>3, PTL DEF Spec

=============================================================================
