---------------------- MODULE OnDemandManager_proofs ----------------------
(***************************************************************************)
(* Theorems about OnDemandManager for any number of channels, entries and  *)
(* encodings, and any limits.                                              *)
(*                                                                         *)
(* Actions are of three kinds, and each kind has its lemma: a step of one  *)
(* encoding's goroutines (EncodingKeeps), the detachment of a set of       *)
(* encodings that somebody then stops (DetachKeeps), and the end of a      *)
(* stop (StoppedKeeps).                                                    *)
(***************************************************************************)
EXTENDS OnDemandManager, SequenceTheorems, FiniteSetTheorems, WellFoundedInduction, TLAPS

Encoding ==
    [entry : Entries, burn : BurnChoices,
     state : {"starting", "serving", "stopping", "ended", "failed"},
     proc : {"reserved", "running", "exited"},
     cancelled : BOOLEAN, stopped : BOOLEAN, done : BOOLEAN, tail : BOOLEAN,
     from : Int, base : Int, parsed : Nat, pruned : Nat, age : Nat]

ManagerTypeOK ==
    /\ seq \in 0..MaxStarts /\ now \in Nat
    /\ DOMAIN enc \subseteq 1..seq /\ enc \in [DOMAIN enc -> Encoding]
    /\ DOMAIN encodings \subseteq Channels
    /\ encodings \in [DOMAIN encodings -> SUBSET Ids]
    /\ DOMAIN retained \subseteq 1..seq
    /\ retained \in [DOMAIN retained -> [entry : Entries, list : SUBSET Int, left : Nat]]
    /\ highWater \in [Entries -> Int]
    /\ burn \in [Channels -> BurnChoices]
    /\ dirs \subseteq 1..seq /\ sweeper.dirs \subseteq 1..seq

\* The lists of what is being stopped name nothing twice, within a list or across.
StopLists ==
    /\ stops \subseteq Seq(Ids) \ {<<>>} /\ sweeper.list \in Seq(Ids)
    /\ \A s \in stops \cup {sweeper.list} : IsInjective(s)
    /\ \A s, t \in stops : s # t => Range(s) \cap Range(t) = {}
    /\ \A s \in stops : Range(s) \cap Range(sweeper.list) = {}

\* The channels' maps and the index by id, in terms of the index.
Indexed ==
    /\ byID = UNION {Tracked(c) : c \in Channels}
    /\ \A c \in Channels : \A i \in Tracked(c) : ChannelOf[enc[i].entry] = c
OnePerEntry == \A i, j \in byID : enc[i].entry = enc[j].entry => i = j
Apart == byID \cap DOMAIN retained = {} /\ byID \cap BeingStopped = {}

\* What a tracked encoding is, and one that is being stopped.
TrackedLive ==
    \A i \in byID :
        /\ i \in DOMAIN enc /\ ~enc[i].cancelled /\ ~enc[i].stopped
        /\ Working(i) <=> enc[i].proc # "exited"
StoppingLive == \A i \in BeingStopped : i \in DOMAIN enc /\ ~enc[i].stopped
RecordsAgree ==
    \A i \in DOMAIN enc :
        /\ enc[i].done <=> enc[i].proc = "exited"
        /\ enc[i].pruned <= enc[i].parsed

\* Directories are there as long as anybody may add to them or be sent from them.
OnDisk ==
    /\ \A i \in byID : enc[i].tail \/ enc[i].parsed > 0 => i \in dirs
    /\ \A i \in DOMAIN retained : retained[i].list # {} => i \in dirs
    /\ sweeper.dirs \cap (byID \cup DOMAIN retained) = {}
    /\ sweeper.list = <<>> => sweeper.dirs = {}
Capacity == Running(byID) <= MaxConcurrent

ManagerInv ==
    /\ ManagerTypeOK /\ StopLists /\ Indexed /\ OnePerEntry /\ Apart /\ TrackedLive
    /\ StoppingLive /\ RecordsAgree /\ NoOrphan /\ OnDisk /\ Capacity

-----------------------------------------------------------------------------
(* Helpers.                                                                *)

LEMMA LargestOfOne == \A x \in Int : Largest({x}) = x
BY DEF Largest

LEMMA LargestOfTwo ==
    ASSUME NEW x \in Int, NEW y \in Int
    PROVE  /\ Largest({x} \cup {y}) \in {x, y}
           /\ x <= Largest({x} \cup {y}) /\ y <= Largest({x} \cup {y})
<1>1. \E z \in {x} \cup {y} : \A w \in {x} \cup {y} : w <= z
  OBVIOUS
<1> QED
  BY <1>1 DEF Largest

LEMMA IdsFinite ==
    ASSUME NEW S \in SUBSET Ids
    PROVE  IsFiniteSet(S) /\ Cardinality(S) \in Nat
<1>1. MaxStarts \in Nat
  BY OnDemandAssumption
<1>2. IsFiniteSet(Ids)
  BY <1>1, FS_Interval DEF Ids
<1>3. IsFiniteSet(S)
  BY <1>2, FS_Subset
<1> QED BY <1>3, FS_CardinalityType

\* A loop over a finite map visits every key once.
LEMMA OrdersVisitAll ==
    ASSUME NEW S \in SUBSET Ids, NEW s \in Orders(S)
    PROVE  /\ s \in Seq(Ids) /\ IsInjective(s) /\ Range(s) = S
           /\ S = {} <=> s = <<>>
<1>1. IsFiniteSet(S) /\ Cardinality(S) \in Nat
  BY IdsFinite
<1> DEFINE n == Cardinality(S)
<1>2. s \in [1..n -> S] /\ IsInjective(s)
  BY DEF Orders
<1>3. s \in Injection(1..n, S)
  BY <1>2 DEF Injection
<1>4. Cardinality(1..n) = n /\ IsFiniteSet(1..n)
  BY <1>1, FS_Interval
<1>5. s \in Surjection(1..n, S)
  BY <1>1, <1>3, <1>4, FS_Injection
<1>6. Range(s) = S
  BY <1>2, <1>5 DEF Surjection, Range
<1>7. s \in Seq(Ids)
  BY <1>1, <1>2, SeqDef
<1>8. S = {} => s = <<>>
  <2>1. S = {} => n = 0
    BY FS_EmptySet
  <2> QED BY <1>2, <2>1
<1>9. s = <<>> => S = {}
  BY <1>6 DEF Range
<1> QED BY <1>2, <1>6, <1>7, <1>8, <1>9

\* What is left of a list when its head has been dealt with.
LEMMA TailOfList ==
    ASSUME NEW s \in Seq(Ids), s # <<>>, IsInjective(s)
    PROVE  /\ Tail(s) \in Seq(Ids) /\ IsInjective(Tail(s))
           /\ Head(s) \in Ids /\ Head(s) \in Range(s)
           /\ Range(Tail(s)) = Range(s) \ {Head(s)}
<1>1. /\ Len(s) \in Nat /\ Len(s) > 0 /\ DOMAIN s = 1..Len(s)
      /\ Head(s) = s[1] /\ Tail(s) \in Seq(Ids)
      /\ Len(Tail(s)) = Len(s) - 1
      /\ \A k \in 1..Len(Tail(s)) : Tail(s)[k] = s[k + 1]
      /\ DOMAIN Tail(s) = 1..(Len(s) - 1)
  OBVIOUS
<1>2. IsInjective(Tail(s))
  BY <1>1 DEF IsInjective
<1>3. Head(s) \in Ids /\ Head(s) \in Range(s)
  BY <1>1 DEF Range
<1>4. Range(Tail(s)) \subseteq Range(s) \ {Head(s)}
  BY <1>1 DEF Range, IsInjective
<1>5. ASSUME NEW i \in Range(s) \ {Head(s)} PROVE i \in Range(Tail(s))
  <2>1. PICK k \in 1..Len(s) : i = s[k]
    BY <1>1 DEF Range
  <2>2. k # 1 /\ k - 1 \in 1..Len(Tail(s)) /\ Tail(s)[k - 1] = i
    BY <1>1, <1>5, <2>1
  <2> QED BY <1>1, <2>2 DEF Range
<1> QED BY <1>1, <1>2, <1>3, <1>4, <1>5

\* A set of lists that are handed to goroutines at once.
LEMMA ListsAdded ==
    ASSUME StopLists, NEW s \in Seq(Ids), NEW t \in Seq(Ids),
           IsInjective(s), IsInjective(t), Range(s) \cap Range(t) = {},
           (Range(s) \cup Range(t)) \cap BeingStopped = {},
           stops' = stops \cup ({s, t} \ {<<>>}), UNCHANGED sweeper
    PROVE  StopLists' /\ BeingStopped' = BeingStopped \cup Range(s) \cup Range(t)
<1>1. \A r \in stops \cup {sweeper.list} : Range(r) \subseteq BeingStopped
  BY DEF BeingStopped
<1>2. Range(<<>>) = {}
  BY DEF Range
<1>3. StopLists'
  BY <1>1, <1>2 DEF StopLists
<1>4. BeingStopped' = BeingStopped \cup Range(s) \cup Range(t)
  BY <1>2 DEF BeingStopped
<1> QED BY <1>3, <1>4

LEMMA StopAllAdds ==
    ASSUME StopLists, NEW S \in SUBSET Ids, S \cap BeingStopped = {},
           StopAll(S), UNCHANGED sweeper
    PROVE  StopLists' /\ BeingStopped' = BeingStopped \cup S
<1>1. CASE S = {}
  BY <1>1 DEF StopAll, StopLists, BeingStopped
<1>2. CASE S # {}
  <2>1. PICK s \in Orders(S) : stops' = stops \cup {s}
    BY <1>2 DEF StopAll
  <2>2. s \in Seq(Ids) /\ IsInjective(s) /\ Range(s) = S /\ s # <<>>
    BY <1>2, OrdersVisitAll
  <2>3. <<>> \in Seq(Ids) /\ IsInjective(<<>>) /\ Range(<<>>) = {}
    BY DEF IsInjective, Range
  <2>4. stops' = stops \cup ({s, <<>>} \ {<<>>})
    BY <2>1, <2>2
  <2> QED BY <2>2, <2>3, <2>4, ListsAdded
<1> QED BY <1>1, <1>2

\* A goroutine, or the sweeper, is done with the head of its list.
LEMMA StopListShrinks ==
    ASSUME StopLists, NEW s \in stops,
           stops' = (stops \ {s}) \cup ({Tail(s)} \ {<<>>}), UNCHANGED sweeper
    PROVE  StopLists' /\ Head(s) \in BeingStopped /\ BeingStopped' = BeingStopped \ {Head(s)}
<1>1. s \in Seq(Ids) /\ s # <<>> /\ IsInjective(s)
  BY DEF StopLists
<1>2. /\ Tail(s) \in Seq(Ids) /\ IsInjective(Tail(s))
      /\ Head(s) \in Range(s) /\ Range(Tail(s)) = Range(s) \ {Head(s)}
  BY <1>1, TailOfList
<1>3. Range(<<>>) = {}
  BY DEF Range
<1>4. StopLists'
  BY <1>2 DEF StopLists
<1>5. \A r \in (stops \ {s}) \cup {sweeper.list} : Range(r) \cap Range(s) = {}
  BY DEF StopLists
<1> DEFINE others == UNION {Range(r) : r \in (stops \ {s}) \cup {sweeper.list}}
<1>6. BeingStopped = others \cup Range(s)
  BY DEF BeingStopped
<1>7. BeingStopped' = others \cup Range(Tail(s))
  BY <1>3 DEF BeingStopped
<1>8. others \cap Range(s) = {}
  BY <1>5
<1> HIDE DEF others
<1>9. BeingStopped' = BeingStopped \ {Head(s)}
  BY <1>2, <1>6, <1>7, <1>8
<1> QED BY <1>2, <1>4, <1>6, <1>9

LEMMA SweepListShrinks ==
    ASSUME StopLists, sweeper.list # <<>>,
           sweeper'.list = Tail(sweeper.list), UNCHANGED stops
    PROVE  /\ StopLists' /\ Head(sweeper.list) \in BeingStopped
           /\ BeingStopped' = BeingStopped \ {Head(sweeper.list)}
<1> DEFINE s == sweeper.list
<1>1. s \in Seq(Ids) /\ IsInjective(s)
  BY DEF StopLists
<1>2. /\ Tail(s) \in Seq(Ids) /\ IsInjective(Tail(s))
      /\ Head(s) \in Range(s) /\ Range(Tail(s)) = Range(s) \ {Head(s)}
  BY <1>1, TailOfList
<1>3. StopLists'
  BY <1>2 DEF StopLists
<1>4. \A r \in stops : Range(r) \cap Range(s) = {}
  BY DEF StopLists
<1>5. BeingStopped' = BeingStopped \ {Head(s)}
  BY <1>2, <1>4 DEF BeingStopped
<1> QED BY <1>2, <1>3, <1>5 DEF BeingStopped

\* The sweeper takes up the encodings it has torn down.
LEMMA SweepListTaken ==
    ASSUME StopLists, sweeper.list = <<>>, NEW S \in SUBSET Ids, S \cap BeingStopped = {},
           NEW s \in Orders(S), sweeper'.list = s, UNCHANGED stops
    PROVE  StopLists' /\ BeingStopped' = BeingStopped \cup S
<1>1. s \in Seq(Ids) /\ IsInjective(s) /\ Range(s) = S
  BY OrdersVisitAll
<1>2. \A r \in stops : Range(r) \subseteq BeingStopped
  BY DEF BeingStopped
<1>3. Range(<<>>) = {}
  BY DEF Range
<1>4. StopLists'
  BY <1>1, <1>2 DEF StopLists
<1>5. BeingStopped' = BeingStopped \cup S
  BY <1>1, <1>3 DEF BeingStopped
<1> QED BY <1>4, <1>5

LEMMA TrackedIn ==
    ASSUME Indexed, NEW e \in Entries, ChannelOf[e] \in Channels
    PROVE  /\ TrackedFor(e) = {i \in byID : enc[i].entry = e}
           /\ \A c \in Channels : Tracked(c) \subseteq byID
BY DEF Indexed, TrackedFor

LEMMA ChannelOfEntry == \A e \in Entries : ChannelOf[e] \in Channels
BY OnDemandAssumption

LEMMA FewerWorking ==
    ASSUME Capacity, byID \subseteq Ids, byID' \subseteq byID,
           \A i \in byID' : Working(i)' => Working(i)
    PROVE  Capacity'
<1> DEFINE now1 == {i \in byID : Working(i)}
           next == {i \in byID' : Working(i)'}
<1>1. IsFiniteSet(now1) /\ Cardinality(now1) \in Nat
  BY IdsFinite
<1>2. next \subseteq now1
  OBVIOUS
<1>3. Cardinality(next) <= Cardinality(now1) /\ Cardinality(next) \in Nat
  BY <1>1, <1>2, FS_Subset, FS_CardinalityType
<1>4. MaxConcurrent \in Nat
  BY OnDemandAssumption
<1>5. Running(byID)' = Cardinality(next) /\ Running(byID) = Cardinality(now1)
  BY DEF Running
<1> HIDE DEF now1, next
<1> QED BY <1>1, <1>3, <1>4, <1>5 DEF Capacity

\* A step of one encoding's goroutines, or of whoever stops it.
LEMMA EncodingKeeps ==
    ASSUME ManagerInv, NEW i \in DOMAIN enc,
           enc' \in [DOMAIN enc' -> Encoding],
           DOMAIN enc' \in {DOMAIN enc, DOMAIN enc \ {i}},
           \A j \in DOMAIN enc \ {i} : enc'[j] = enc[j],
           i \in DOMAIN enc' =>
               /\ enc'[i].entry = enc[i].entry
               /\ enc'[i].done <=> enc'[i].proc = "exited"
               /\ enc'[i].pruned <= enc'[i].parsed
               /\ enc'[i].proc # "exited" => enc[i].proc # "exited"
               /\ i \in byID => /\ ~enc'[i].cancelled /\ ~enc'[i].stopped
                                /\ Working(i)' <=> enc'[i].proc # "exited"
               /\ i \in BeingStopped' => ~enc'[i].stopped,
           i \notin DOMAIN enc' => i \notin byID /\ i \notin BeingStopped',
           StopLists', BeingStopped' \in {BeingStopped, BeingStopped \ {i}},
           BeingStopped' # BeingStopped => enc[i].proc = "exited",
           UNCHANGED <<encodings, byID, retained, burn, seq, now>>,
           highWater' \in [Entries -> Int],
           dirs' \subseteq 1..seq, sweeper'.dirs \subseteq 1..seq, OnDisk'
    PROVE  ManagerInv'
<1>1. ManagerTypeOK'
  BY DEF ManagerInv, ManagerTypeOK
<1>2. \A j \in byID : j \in DOMAIN enc /\ j \in DOMAIN enc' /\ enc'[j].entry = enc[j].entry
  BY DEF ManagerInv, TrackedLive
<1>3. \A c \in Channels : Tracked(c)' = Tracked(c)
  BY DEF Tracked
<1>4. Indexed'
  BY <1>2, <1>3 DEF ManagerInv, Indexed
<1>5. OnePerEntry'
  BY <1>2 DEF ManagerInv, OnePerEntry
<1>6. Apart'
  BY DEF ManagerInv, Apart
<1>7. TrackedLive'
  BY <1>2 DEF ManagerInv, TrackedLive, Working
<1>8. StoppingLive'
  BY DEF ManagerInv, StoppingLive
<1>9. RecordsAgree'
  BY DEF ManagerInv, RecordsAgree
<1>10. NoOrphan'
  BY DEF ManagerInv, NoOrphan
<1>11. \A j \in byID : Working(j)' => Working(j)
  BY <1>2, <1>7 DEF ManagerInv, TrackedLive, Working
<1>12. Capacity'
  <2>1. byID \subseteq Ids
    BY <1>2, OnDemandAssumption DEF ManagerInv, ManagerTypeOK, Ids
  <2> QED BY <1>11, <2>1, FewerWorking DEF ManagerInv
<1> QED
  BY <1>1, <1>4, <1>5, <1>6, <1>7, <1>8, <1>9, <1>10, <1>12 DEF ManagerInv

\* The fields of a record, for the prover.
LEMMA EncodingFields ==
    ASSUME ManagerTypeOK, NEW i \in DOMAIN enc
    PROVE  /\ i \in Ids /\ enc[i] \in Encoding
           /\ enc[i].entry \in Entries /\ enc[i].base \in Int
           /\ enc[i].parsed \in Nat /\ enc[i].pruned \in Nat
BY OnDemandAssumption DEF ManagerTypeOK, Encoding, Ids

LEMMA OlderNat == \A cap : \A n \in Nat : Older(n, cap) \in Nat /\ Sooner(n) \in Nat
BY DEF Older, Sooner

-----------------------------------------------------------------------------
(* The goroutines of one encoding.                                         *)

LEMMA StartKeeps ==
    ASSUME ManagerInv, NEW i \in Ids, StartReserved(i) \/ StartFails(i)
    PROVE  ManagerInv'
<1>1. i \in DOMAIN enc /\ enc[i] \in Encoding /\ enc[i].proc = "reserved"
  BY EncodingFields DEF StartReserved, StartFails, Live, ManagerInv
<1>2. PICK r \in Encoding : enc' = [enc EXCEPT ![i] = r]
        /\ r.entry = enc[i].entry /\ r.parsed = enc[i].parsed /\ r.pruned = enc[i].pruned
        /\ r.stopped = enc[i].stopped /\ r.cancelled = enc[i].cancelled
        /\ \/ /\ r.proc = "running" /\ r.done = enc[i].done /\ r.state = enc[i].state
              /\ i \in dirs'
           \/ /\ r.proc = "exited" /\ r.done /\ r.state = "failed" /\ r.tail = enc[i].tail
  <2>1. CASE StartReserved(i)
    <3> DEFINE r == [enc[i] EXCEPT !.proc = "running", !.tail = TRUE]
    <3>1. r \in Encoding /\ r.entry = enc[i].entry /\ r.parsed = enc[i].parsed
          /\ r.pruned = enc[i].pruned /\ r.stopped = enc[i].stopped
          /\ r.cancelled = enc[i].cancelled /\ r.proc = "running" /\ r.done = enc[i].done
          /\ r.state = enc[i].state
      BY <1>1 DEF Encoding
    <3>2. enc' = [enc EXCEPT ![i] = r]
      BY <1>1, <2>1 DEF StartReserved, ManagerInv, ManagerTypeOK
    <3> QED BY <2>1, <3>1, <3>2 DEF StartReserved
  <2>2. CASE StartFails(i)
    <3> DEFINE r == [Failed(enc[i]) EXCEPT !.proc = "exited", !.done = TRUE]
    <3>1. r \in Encoding /\ r.entry = enc[i].entry /\ r.parsed = enc[i].parsed
          /\ r.pruned = enc[i].pruned /\ r.stopped = enc[i].stopped
          /\ r.cancelled = enc[i].cancelled /\ r.proc = "exited" /\ r.done
          /\ r.state = "failed" /\ r.tail = enc[i].tail
      BY <1>1 DEF Encoding, Failed
    <3>2. enc' = [enc EXCEPT ![i] = r]
      BY <1>1, <2>2 DEF StartFails, Failed
    <3> QED BY <3>1, <3>2
  <2> QED BY <2>1, <2>2
<1>3. /\ UNCHANGED <<encodings, byID, retained, burn, seq, now, stops, sweeper, highWater>>
      /\ dirs \subseteq dirs' /\ dirs' \subseteq dirs \cup {i}
  BY DEF StartReserved, StartFails, maps
<1>4. StopLists' /\ BeingStopped' = BeingStopped
  BY <1>3 DEF ManagerInv, StopLists, BeingStopped
<1>5. DOMAIN enc' = DOMAIN enc /\ enc'[i] = r /\ \A j \in DOMAIN enc \ {i} : enc'[j] = enc[j]
  BY <1>1, <1>2
<1>6. OnDisk'
  BY <1>2, <1>3, <1>5 DEF ManagerInv, OnDisk, TrackedLive
<1>7. i \in byID => (Working(i)' <=> r.proc # "exited")
  BY <1>1, <1>2, <1>5 DEF ManagerInv, TrackedLive, Working
<1> QED
  BY <1>1, <1>2, <1>3, <1>4, <1>5, <1>6, <1>7, EncodingKeeps
     DEF ManagerInv, ManagerTypeOK, TrackedLive, StoppingLive, RecordsAgree

LEMMA TailOnceKeeps ==
    ASSUME ManagerInv, NEW i \in Ids, TailOnce(i)
    PROVE  ManagerInv'
<1>1. i \in DOMAIN enc /\ enc[i] \in Encoding /\ enc[i].tail
  BY EncodingFields DEF TailOnce, Live, ManagerInv
<1> DEFINE r == [enc[i] EXCEPT !.parsed = enc[i].parsed + 1, !.age = 0,
                               !.state = IF enc[i].state = "starting" THEN "serving" ELSE enc[i].state]
<1>0. enc[i].parsed + 1 \in Nat
  BY <1>1 DEF Encoding
<1>2. /\ r \in Encoding /\ r.entry = enc[i].entry /\ r.parsed = enc[i].parsed + 1
      /\ r.pruned = enc[i].pruned /\ r.stopped = enc[i].stopped
      /\ r.cancelled = enc[i].cancelled /\ r.proc = enc[i].proc /\ r.done = enc[i].done
      /\ r.state = IF enc[i].state = "starting" THEN "serving" ELSE enc[i].state
      /\ r.tail = enc[i].tail
  BY <1>0, <1>1 DEF Encoding
<1>3. enc' = [enc EXCEPT ![i] = r]
  BY DEF TailOnce
<1> HIDE DEF r
<1>4. UNCHANGED <<encodings, byID, retained, burn, seq, now, stops, sweeper, dirs>>
  BY DEF TailOnce, maps
<1>5. StopLists' /\ BeingStopped' = BeingStopped
  BY <1>4 DEF ManagerInv, StopLists, BeingStopped
<1>6. DOMAIN enc' = DOMAIN enc /\ enc'[i] = r /\ \A j \in DOMAIN enc \ {i} : enc'[j] = enc[j]
  BY <1>1, <1>3
<1>7. OnDisk'
  BY <1>1, <1>2, <1>4, <1>6 DEF ManagerInv, OnDisk, TrackedLive
<1>8. i \in byID => (Working(i)' <=> r.proc # "exited")
  BY <1>2, <1>6 DEF ManagerInv, TrackedLive, Working
<1>9. enc[i].parsed \in Nat /\ enc[i].pruned \in Nat /\ enc[i].base \in Int /\ enc[i].entry \in Entries
  BY <1>1 DEF Encoding
<1>10. r.pruned <= r.parsed
  BY <1>1, <1>2, <1>9 DEF ManagerInv, RecordsAgree
<1>11. highWater' \in [Entries -> Int]
  <2>1. highWater[enc[i].entry] \in Int /\ highWater \in [Entries -> Int]
    BY <1>9 DEF ManagerInv, ManagerTypeOK
  <2> DEFINE e == enc[i].entry
             n == enc[i].base + enc[i].parsed
             top == Largest({highWater[e]} \cup {n})
  <2>2. highWater' = [highWater EXCEPT ![e] = Largest({highWater[e], n})]
    BY DEF TailOnce
  <2>3. {highWater[e], n} = {highWater[e]} \cup {n}
    OBVIOUS
  <2>4. top \in Int
    <3>1. highWater[e] \in Int /\ n \in Int
      BY <1>9, <2>1
    <3> HIDE DEF n, e
    <3> QED BY <3>1, LargestOfTwo
  <2> HIDE DEF n, e
  <2> QED BY <2>1, <2>2, <2>3, <2>4
<1> QED
  BY <1>1, <1>2, <1>3, <1>4, <1>5, <1>6, <1>7, <1>8, <1>10, <1>11, EncodingKeeps
     DEF ManagerInv, ManagerTypeOK, TrackedLive, StoppingLive, RecordsAgree

\* A record that is kept with a field changed, or dropped.
LEMMA SettledDomain ==
    ASSUME ManagerTypeOK, NEW i \in DOMAIN enc, NEW r \in Encoding, enc' = Settled(i, r)
    PROVE  /\ enc' \in [DOMAIN enc' -> Encoding]
           /\ \A j \in DOMAIN enc \ {i} : j \in DOMAIN enc' /\ enc'[j] = enc[j]
           /\ IF r.stopped /\ ~r.tail THEN DOMAIN enc' = DOMAIN enc \ {i}
              ELSE DOMAIN enc' = DOMAIN enc /\ enc'[i] = r
BY DEF ManagerTypeOK, Settled, With, Without

LEMMA TailEndKeeps ==
    ASSUME ManagerInv, NEW i \in Ids, TailEnd(i)
    PROVE  ManagerInv'
<1>1. i \in DOMAIN enc /\ enc[i] \in Encoding /\ enc[i].tail
  BY EncodingFields DEF TailEnd, Live, ManagerInv
<1> DEFINE r == [enc[i] EXCEPT !.tail = FALSE]
<1>2. /\ r \in Encoding /\ r.entry = enc[i].entry /\ r.parsed = enc[i].parsed
      /\ r.pruned = enc[i].pruned /\ r.stopped = enc[i].stopped
      /\ r.cancelled = enc[i].cancelled /\ r.proc = enc[i].proc /\ r.done = enc[i].done
      /\ r.state = enc[i].state /\ ~r.tail
  BY <1>1 DEF Encoding
<1>3. enc' = Settled(i, r)
  BY DEF TailEnd
<1> HIDE DEF r
<1>4. UNCHANGED <<encodings, byID, retained, highWater, burn, seq, now, stops, sweeper, dirs>>
  BY DEF TailEnd, maps
<1>5. StopLists' /\ BeingStopped' = BeingStopped
  BY <1>4 DEF ManagerInv, StopLists, BeingStopped
<1>6. /\ enc' \in [DOMAIN enc' -> Encoding]
      /\ \A j \in DOMAIN enc \ {i} : j \in DOMAIN enc' /\ enc'[j] = enc[j]
      /\ IF r.stopped THEN DOMAIN enc' = DOMAIN enc \ {i}
         ELSE DOMAIN enc' = DOMAIN enc /\ enc'[i] = r
  BY <1>1, <1>2, <1>3, SettledDomain DEF ManagerInv
<1>7. r.stopped => i \notin byID /\ i \notin BeingStopped
  BY <1>1, <1>2 DEF ManagerInv, TrackedLive, StoppingLive
<1>8. OnDisk'
  BY <1>2, <1>4, <1>6, <1>7 DEF ManagerInv, OnDisk, TrackedLive
<1>9. i \in byID => (Working(i)' <=> r.proc # "exited")
  BY <1>2, <1>6, <1>7 DEF ManagerInv, TrackedLive, Working
<1>10. i \in DOMAIN enc' => ~r.stopped /\ enc'[i] = r
  BY <1>1, <1>6
<1>11. i \notin DOMAIN enc' => i \notin byID /\ i \notin BeingStopped'
  BY <1>1, <1>5, <1>6, <1>7
<1>12. (r.done <=> r.proc = "exited") /\ r.pruned <= r.parsed
  BY <1>1, <1>2 DEF ManagerInv, RecordsAgree
<1>13. i \in byID => ~r.cancelled
  BY <1>1, <1>2 DEF ManagerInv, TrackedLive
<1>14. highWater' \in [Entries -> Int] /\ dirs' \subseteq 1..seq /\ sweeper'.dirs \subseteq 1..seq
  BY <1>4 DEF ManagerInv, ManagerTypeOK
<1> QED
  BY <1>1, <1>2, <1>4, <1>5, <1>6, <1>8, <1>9, <1>10, <1>11, <1>12, <1>13, <1>14, EncodingKeeps

LEMMA WaitLoopKeeps ==
    ASSUME ManagerInv, NEW i \in Ids, NEW ok \in BOOLEAN, WaitLoop(i, ok)
    PROVE  ManagerInv'
<1>1. i \in DOMAIN enc /\ enc[i] \in Encoding /\ enc[i].proc = "running"
  BY EncodingFields DEF WaitLoop, Live, ManagerInv
<1> DEFINE noted == enc[i].state \notin {"failed", "stopping"}
           state == IF ~noted THEN enc[i].state ELSE IF ok THEN "ended" ELSE "failed"
           r == [enc[i] EXCEPT !.proc = "exited", !.done = TRUE, !.age = 0, !.state = state]
<1>2. state \in {"starting", "serving", "stopping", "ended", "failed"}
  BY <1>1 DEF Encoding
<1>3. state \notin {"starting", "serving"}
  OBVIOUS
<1>4. enc' = [enc EXCEPT ![i] = r]
  BY DEF WaitLoop
<1> HIDE DEF state
<1>5. /\ r \in Encoding /\ r.entry = enc[i].entry /\ r.parsed = enc[i].parsed
      /\ r.pruned = enc[i].pruned /\ r.stopped = enc[i].stopped
      /\ r.cancelled = enc[i].cancelled /\ r.proc = "exited" /\ r.done = TRUE
      /\ r.state = state /\ r.tail = enc[i].tail
  BY <1>1, <1>2 DEF Encoding
<1> HIDE DEF r
<1>6. UNCHANGED <<encodings, byID, retained, highWater, burn, seq, now, stops, sweeper, dirs>>
  BY DEF WaitLoop, maps
<1>7. StopLists' /\ BeingStopped' = BeingStopped
  BY <1>6 DEF ManagerInv, StopLists, BeingStopped
<1>8. DOMAIN enc' = DOMAIN enc /\ enc'[i] = r /\ \A j \in DOMAIN enc \ {i} : enc'[j] = enc[j]
  BY <1>1, <1>4
<1>9. OnDisk'
  BY <1>5, <1>6, <1>8 DEF ManagerInv, OnDisk, TrackedLive
<1>10. i \in byID => (Working(i)' <=> r.proc # "exited")
  BY <1>3, <1>5, <1>8 DEF Working
<1> QED
  BY <1>1, <1>4, <1>5, <1>6, <1>7, <1>8, <1>9, <1>10, EncodingKeeps
     DEF ManagerInv, ManagerTypeOK, TrackedLive, StoppingLive, RecordsAgree

-----------------------------------------------------------------------------
(* stop().                                                                 *)

LEMMA StopBeginKeeps ==
    ASSUME ManagerInv, StopBegin
    PROVE  ManagerInv'
<1>1. PICK i \in BeingStopped : Stopping(i)
  <2>1. \A s \in stops : Head(s) \in BeingStopped
    BY TailOfList DEF ManagerInv, StopLists, BeingStopped
  <2>2. sweeper.list # <<>> => Head(sweeper.list) \in BeingStopped
    BY TailOfList DEF ManagerInv, StopLists, BeingStopped
  <2> QED BY <2>1, <2>2 DEF StopBegin
<1>2. i \in DOMAIN enc /\ enc[i] \in Encoding /\ i \notin byID /\ ~enc[i].stopped
  BY EncodingFields DEF ManagerInv, StoppingLive, Apart
<1> DEFINE r == [enc[i] EXCEPT !.cancelled = TRUE, !.age = 0,
                               !.state = IF enc[i].state = "failed" THEN "failed" ELSE "stopping"]
<1>3. /\ r \in Encoding /\ r.entry = enc[i].entry /\ r.parsed = enc[i].parsed
      /\ r.pruned = enc[i].pruned /\ r.stopped = enc[i].stopped
      /\ r.proc = enc[i].proc /\ r.done = enc[i].done
  BY <1>2 DEF Encoding
<1>4. enc' = [enc EXCEPT ![i] = r]
  BY <1>1 DEF Stopping
<1> HIDE DEF r
<1>5. UNCHANGED <<encodings, byID, retained, highWater, burn, seq, now, stops, sweeper, dirs>>
  BY DEF StopBegin, maps
<1>6. StopLists' /\ BeingStopped' = BeingStopped
  BY <1>5 DEF ManagerInv, StopLists, BeingStopped
<1>7. DOMAIN enc' = DOMAIN enc /\ enc'[i] = r /\ \A j \in DOMAIN enc \ {i} : enc'[j] = enc[j]
  BY <1>2, <1>4
<1>8. OnDisk'
  BY <1>2, <1>5, <1>7 DEF ManagerInv, OnDisk, TrackedLive
<1> QED
  BY <1>2, <1>3, <1>4, <1>5, <1>6, <1>7, <1>8, EncodingKeeps
     DEF ManagerInv, ManagerTypeOK, TrackedLive, StoppingLive, RecordsAgree

\* The head of a list has stopped, and the list goes on with the next.
LEMMA StoppedKeeps ==
    ASSUME ManagerInv, NEW i \in BeingStopped, Stoppable(i), Stopped(i),
           StopLists', BeingStopped' = BeingStopped \ {i},
           UNCHANGED <<maps, highWater, burn, seq, now>>,
           dirs' \subseteq dirs, sweeper'.dirs \subseteq sweeper.dirs, OnDisk'
    PROVE  ManagerInv'
<1>1. i \in DOMAIN enc /\ enc[i] \in Encoding /\ i \notin byID /\ enc[i].proc = "exited"
  BY EncodingFields DEF ManagerInv, StoppingLive, Apart, Stoppable, RecordsAgree
<1> DEFINE r == [enc[i] EXCEPT !.stopped = TRUE]
<1>2. /\ r \in Encoding /\ r.entry = enc[i].entry /\ r.parsed = enc[i].parsed
      /\ r.pruned = enc[i].pruned /\ r.proc = enc[i].proc /\ r.done = enc[i].done
  BY <1>1 DEF Encoding
<1>3. enc' = Settled(i, r)
  BY DEF Stopped
<1> HIDE DEF r
<1>4. /\ enc' \in [DOMAIN enc' -> Encoding]
      /\ \A j \in DOMAIN enc \ {i} : j \in DOMAIN enc' /\ enc'[j] = enc[j]
      /\ \/ DOMAIN enc' = DOMAIN enc \ {i}
         \/ DOMAIN enc' = DOMAIN enc /\ enc'[i] = r
  BY <1>1, <1>2, <1>3, SettledDomain DEF ManagerInv
<1> QED
  BY <1>1, <1>2, <1>4, EncodingKeeps
     DEF ManagerInv, ManagerTypeOK, RecordsAgree, maps

LEMMA StopEndKeeps ==
    ASSUME ManagerInv, StopEnd
    PROVE  ManagerInv'
<1>1. PICK s \in stops :
        /\ Stoppable(Head(s)) /\ Stopped(Head(s))
        /\ stops' = (stops \ {s}) \cup ({Tail(s)} \ {<<>>})
  BY DEF StopEnd
<1>2. UNCHANGED <<maps, highWater, burn, seq, dirs, sweeper, now>>
  BY DEF StopEnd
<1>3. /\ StopLists' /\ Head(s) \in BeingStopped
      /\ BeingStopped' = BeingStopped \ {Head(s)}
  BY <1>1, <1>2, StopListShrinks DEF ManagerInv
<1>4. \A j \in byID : j # Head(s) /\ j \in DOMAIN enc
  BY <1>3 DEF ManagerInv, Apart, TrackedLive
<1>5. \A j \in byID : enc'[j] = enc[j]
  BY <1>1, <1>3, <1>4 DEF Stopped, Settled, With, Without
<1>6. OnDisk'
  BY <1>2, <1>5 DEF ManagerInv, OnDisk, maps
<1> QED
  BY <1>1, <1>2, <1>3, <1>6, StoppedKeeps

LEMMA SweepStopEndKeeps ==
    ASSUME ManagerInv, SweepStopEnd
    PROVE  ManagerInv'
<1> DEFINE i == Head(sweeper.list)
<1>1. /\ sweeper.list # <<>> /\ Stoppable(i) /\ Stopped(i)
      /\ SweepRest(sweeper.due, Tail(sweeper.list), sweeper.dirs)
  BY DEF SweepStopEnd
<1>2. UNCHANGED <<maps, highWater, burn, seq, stops, now>>
  BY DEF SweepStopEnd
<1>3. /\ sweeper'.list = Tail(sweeper.list)
      /\ sweeper'.dirs = IF sweeper'.list = <<>> THEN {} ELSE sweeper.dirs
      /\ dirs' = IF sweeper'.list = <<>> THEN dirs \ sweeper.dirs ELSE dirs
  BY <1>1 DEF SweepRest
<1>4. StopLists' /\ i \in BeingStopped /\ BeingStopped' = BeingStopped \ {i}
  BY <1>1, <1>2, <1>3, SweepListShrinks DEF ManagerInv
<1>5. \A j \in byID : j # i /\ j \in DOMAIN enc
  BY <1>4 DEF ManagerInv, Apart, TrackedLive
<1>6. \A j \in byID : enc'[j] = enc[j]
  BY <1>1, <1>4, <1>5 DEF Stopped, Settled, With, Without
<1>7. OnDisk'
  BY <1>2, <1>3, <1>6 DEF ManagerInv, OnDisk, maps
<1> QED
  BY <1>1, <1>2, <1>3, <1>4, <1>7, StoppedKeeps

-----------------------------------------------------------------------------
(* Detaching.                                                              *)

LEMMA RetainAdds ==
    ASSUME ManagerTypeOK, NEW S \in SUBSET DOMAIN enc
    PROVE  /\ DOMAIN Retain(retained, S) = DOMAIN retained \cup S
           /\ Retain(retained, S) \in [DOMAIN retained \cup S ->
                                          [entry : Entries, list : SUBSET Int, left : Nat]]
           /\ \A i \in S : /\ Retain(retained, S)[i].entry = enc[i].entry
                           /\ Retain(retained, S)[i].list = Kept(i)
           /\ \A i \in DOMAIN retained \ S : Retain(retained, S)[i] = retained[i]
<1>1. Retention \in Nat
  BY OnDemandAssumption
<1>2. \A i \in S : enc[i].entry \in Entries /\ Kept(i) \in SUBSET Int
  BY EncodingFields DEF Kept
<1>3. \A i \in S : [entry |-> enc[i].entry, list |-> Kept(i), left |-> Retention]
                      \in [entry : Entries, list : SUBSET Int, left : Nat]
  BY <1>1, <1>2
<1> QED
  BY <1>3 DEF ManagerTypeOK, Retain

\* An encoding that lists anything has listed it in its directory.
LEMMA KeptListed ==
    ASSUME ManagerTypeOK, NEW i \in DOMAIN enc, Kept(i) # {}
    PROVE  enc[i].parsed > 0
BY EncodingFields DEF Kept

LEMMA DetachKeeps ==
    ASSUME ManagerInv, NEW S \in SUBSET byID,
           byID' = byID \ S, \A c \in Channels : Tracked(c)' = Tracked(c) \ S,
           DOMAIN encodings' \subseteq Channels,
           encodings' \in [DOMAIN encodings' -> SUBSET Ids],
           retained' = Retain(retained, S), highWater' \in [Entries -> Int],
           StopLists', BeingStopped' = BeingStopped \cup S,
           UNCHANGED <<enc, burn, seq, dirs, sweeper, now>>
    PROVE  ManagerInv'
<1>1. S \subseteq DOMAIN enc
  BY DEF ManagerInv, TrackedLive
<1>2. /\ DOMAIN retained' = DOMAIN retained \cup S
      /\ retained' \in [DOMAIN retained \cup S -> [entry : Entries, list : SUBSET Int, left : Nat]]
      /\ \A i \in S : retained'[i].list = Kept(i)
      /\ \A i \in DOMAIN retained \ S : retained'[i] = retained[i]
  <2>1. ManagerTypeOK /\ S \in SUBSET DOMAIN enc
    BY <1>1 DEF ManagerInv
  <2> QED BY <2>1, RetainAdds
<1>3. ManagerTypeOK'
  BY <1>1, <1>2 DEF ManagerInv, ManagerTypeOK
<1>4. Indexed'
  BY DEF ManagerInv, Indexed
<1>5. OnePerEntry' /\ RecordsAgree'
  BY DEF ManagerInv, OnePerEntry, RecordsAgree
<1>6. Apart'
  BY <1>2 DEF ManagerInv, Apart
<1>7. TrackedLive' /\ NoOrphan'
  BY DEF ManagerInv, TrackedLive, Working, NoOrphan
<1>8. StoppingLive'
  BY DEF ManagerInv, StoppingLive, TrackedLive
<1>9. OnDisk'
  <2>1. ASSUME NEW i \in DOMAIN retained', retained'[i].list # {}
        PROVE  i \in dirs'
    <3>1. CASE i \in S
      <4>1. Kept(i) # {}
        BY <1>2, <2>1, <3>1
      <4>2. enc[i].parsed > 0
        BY <1>1, <3>1, <4>1, KeptListed DEF ManagerInv
      <4> QED BY <3>1, <4>2 DEF ManagerInv, OnDisk
    <3>2. CASE i \notin S
      BY <1>2, <2>1, <3>2 DEF ManagerInv, OnDisk
    <3> QED BY <3>1, <3>2
  <2> QED BY <1>2, <2>1 DEF ManagerInv, OnDisk
<1>10. Capacity'
  <2>1. byID \subseteq Ids
    BY EncodingFields DEF ManagerInv, TrackedLive
  <2> QED BY <2>1, FewerWorking DEF ManagerInv, Working
<1> QED
  BY <1>3, <1>4, <1>5, <1>6, <1>7, <1>8, <1>9, <1>10 DEF ManagerInv

\* The largest number an entry's encodings have listed, when they are detached:
\* nothing is forgotten.
LEMMA RetainRaises ==
    ASSUME ManagerInv, NEW S \in SUBSET byID
    PROVE  /\ RetainRaised(S) \in [Entries -> Int]
           /\ \A e \in Entries : RetainRaised(S)[e] >= highWater[e]
           /\ \A e \in Entries : (\A i \in S : enc[i].entry # e) => RetainRaised(S)[e] = highWater[e]
<1> SUFFICES ASSUME NEW e \in Entries
             PROVE  /\ RetainRaised(S)[e] \in Int /\ RetainRaised(S)[e] >= highWater[e]
                    /\ (\A i \in S : enc[i].entry # e) => RetainRaised(S)[e] = highWater[e]
  BY DEF RetainRaised
<1> DEFINE T == {j \in S : enc[j].entry = e /\ Kept(j) # {}}
           tops == {RetainTop(i) : i \in T}
<1>1. RetainRaised(S)[e] = Largest({highWater[e]} \cup tops)
  BY DEF RetainRaised
<1>2. highWater[e] \in Int
  BY DEF ManagerInv, ManagerTypeOK
<1>3. CASE T = {}
  <2>1. {highWater[e]} \cup tops = {highWater[e]}
    BY <1>3
  <2> QED BY <1>1, <1>2, <2>1, LargestOfOne
<1>4. CASE T # {}
  <2>1. PICK i \in T : TRUE
    BY <1>4
  <2>2. T = {i}
    BY <2>1 DEF ManagerInv, OnePerEntry
  <2>3. tops = {RetainTop(i)}
    BY <2>2
  <2>4. RetainTop(i) \in Int
    BY <2>1, EncodingFields DEF RetainTop, ManagerInv, TrackedLive
  <2>5. {highWater[e]} \cup tops = {highWater[e]} \cup {RetainTop(i)}
    BY <2>3
  <2> HIDE DEF tops
  <2>6. /\ Largest({highWater[e]} \cup {RetainTop(i)}) \in {highWater[e], RetainTop(i)}
        /\ highWater[e] <= Largest({highWater[e]} \cup {RetainTop(i)})
    BY <1>2, <2>4, LargestOfTwo
  <2> QED BY <1>1, <1>2, <2>1, <2>4, <2>5, <2>6
<1> QED BY <1>3, <1>4

LEMMA ParsedRaises ==
    ASSUME ManagerInv, NEW S \in SUBSET byID
    PROVE  /\ ParsedRaised(S) \in [Entries -> Int]
           /\ \A e \in Entries : ParsedRaised(S)[e] >= highWater[e]
<1> SUFFICES ASSUME NEW e \in Entries
             PROVE  ParsedRaised(S)[e] \in Int /\ ParsedRaised(S)[e] >= highWater[e]
  BY DEF ParsedRaised
<1> DEFINE T == {j \in S : enc[j].entry = e}
           tops == {enc[i].base + enc[i].parsed - 1 : i \in T}
           water == RetainRaised(S)[e]
<1>1. ParsedRaised(S)[e] = Largest({water} \cup tops)
  BY DEF ParsedRaised
<1>2. water \in Int /\ water >= highWater[e] /\ highWater[e] \in Int
  BY RetainRaises DEF ManagerInv, ManagerTypeOK
<1> HIDE DEF water
<1>3. CASE T = {}
  <2>1. {water} \cup tops = {water}
    BY <1>3
  <2> QED BY <1>1, <1>2, <2>1, LargestOfOne
<1>4. CASE T # {}
  <2>1. PICK i \in T : TRUE
    BY <1>4
  <2>2. T = {i}
    BY <2>1 DEF ManagerInv, OnePerEntry
  <2> DEFINE n == enc[i].base + enc[i].parsed - 1
  <2>3. tops = {n}
    BY <2>2
  <2>4. n \in Int
    BY <2>1, EncodingFields DEF ManagerInv, TrackedLive
  <2>5. {water} \cup tops = {water} \cup {n}
    BY <2>3
  <2> HIDE DEF tops, n
  <2>6. /\ Largest({water} \cup {n}) \in {water, n}
        /\ water <= Largest({water} \cup {n})
    BY <1>2, <2>4, LargestOfTwo
  <2> QED BY <1>1, <1>2, <2>4, <2>5, <2>6
<1> QED BY <1>3, <1>4

LEMMA DroppedTracks ==
    ASSUME ManagerInv, NEW S \in SUBSET byID, NEW cs \in SUBSET Channels,
           \A c \in cs : Tracked(c) \subseteq S
    PROVE  /\ DOMAIN Dropped(S, cs) \subseteq Channels
           /\ Dropped(S, cs) \in [DOMAIN Dropped(S, cs) -> SUBSET Ids]
           /\ encodings' = Dropped(S, cs) => \A c \in Channels : Tracked(c)' = Tracked(c) \ S
BY DEF ManagerInv, ManagerTypeOK, Dropped, Tracked

LEMMA TrackedForSubset ==
    ASSUME ManagerInv, NEW e \in Entries
    PROVE  /\ TrackedFor(e) = {i \in byID : enc[i].entry = e}
           /\ TrackedFor(e) \in SUBSET byID /\ TrackedFor(e) \subseteq Tracked(ChannelOf[e])
           /\ \A c \in Channels : Tracked(c) \in SUBSET byID
           /\ byID \in SUBSET Ids /\ byID \in SUBSET DOMAIN enc
           /\ byID \cap BeingStopped = {}
<1>1. Indexed /\ byID \in SUBSET DOMAIN enc /\ byID \cap BeingStopped = {}
  BY DEF ManagerInv, Apart, TrackedLive
<1>2. \A i \in DOMAIN enc : i \in Ids
  BY EncodingFields DEF ManagerInv
<1>3. ChannelOf[e] \in Channels
  BY ChannelOfEntry
<1>4. TrackedFor(e) = {i \in byID : enc[i].entry = e}
  BY <1>1, <1>3, TrackedIn
<1>5. \A c \in Channels : Tracked(c) \subseteq byID
  BY <1>1, <1>3, TrackedIn
<1>6. TrackedFor(e) \subseteq Tracked(ChannelOf[e])
  BY DEF TrackedFor
<1> QED BY <1>1, <1>2, <1>4, <1>5, <1>6

LEMMA ReserveDetachKeeps ==
    ASSUME ManagerInv, NEW e \in Entries, ReserveBlocked(e) \/ ReserveFull(e)
    PROVE  ManagerInv'
<1> DEFINE S == TrackedFor(e)
<1>1. S \in SUBSET byID /\ S \in SUBSET Ids /\ S \cap BeingStopped = {}
  BY TrackedForSubset
<1>2. /\ encodings' = Dropped(S, {}) /\ byID' = byID \ S /\ retained' = Retain(retained, S)
      /\ highWater' = RetainRaised(S) /\ StopAll(S)
      /\ UNCHANGED <<enc, burn, seq, dirs, sweeper, now>>
  BY DEF ReserveBlocked, ReserveFull
<1> HIDE DEF S
<1>3. /\ DOMAIN encodings' \subseteq Channels /\ encodings' \in [DOMAIN encodings' -> SUBSET Ids]
      /\ \A c \in Channels : Tracked(c)' = Tracked(c) \ S
  BY <1>1, <1>2, DroppedTracks
<1>4. StopLists' /\ BeingStopped' = BeingStopped \cup S
  BY <1>1, <1>2, StopAllAdds DEF ManagerInv
<1>5. highWater' \in [Entries -> Int]
  BY <1>1, <1>2, RetainRaises
<1> QED
  BY <1>1, <1>2, <1>3, <1>4, <1>5, DetachKeeps

LEMMA ReserveEvictKeeps ==
    ASSUME ManagerInv, NEW e \in Entries, NEW d \in Channels, ReserveEvict(e, d)
    PROVE  ManagerInv'
<1> DEFINE A == TrackedFor(e)
           B == Tracked(d)
           S == A \cup B
<1>1. /\ A \in SUBSET Ids /\ B \in SUBSET Ids /\ S \in SUBSET byID
      /\ S \cap BeingStopped = {} /\ A \subseteq Tracked(ChannelOf[e])
  BY TrackedForSubset
<1>2. d # ChannelOf[e]
  BY DEF ReserveEvict, Victims, Idle
<1>3. A \cap B = {}
  BY <1>1, <1>2, ChannelOfEntry DEF ManagerInv, Indexed
<1>4. /\ encodings' = Dropped(S, {d}) /\ byID' = byID \ S /\ retained' = Retain(retained, S)
      /\ highWater' = RetainRaised(S)
      /\ \E s \in Orders(A), t \in Orders(B) : stops' = stops \cup ({s, t} \ {<<>>})
      /\ UNCHANGED <<enc, burn, seq, dirs, sweeper, now>>
  BY DEF ReserveEvict
<1>5. B \subseteq S
  OBVIOUS
<1> HIDE DEF A
<1>6. PICK s \in Orders(A), t \in Orders(B) : stops' = stops \cup ({s, t} \ {<<>>})
  BY <1>4
<1>7. /\ s \in Seq(Ids) /\ IsInjective(s) /\ Range(s) = A
      /\ t \in Seq(Ids) /\ IsInjective(t) /\ Range(t) = B
  BY <1>1, OrdersVisitAll
<1>8. StopLists' /\ BeingStopped' = BeingStopped \cup Range(s) \cup Range(t)
  BY <1>1, <1>3, <1>4, <1>6, <1>7, ListsAdded DEF ManagerInv
<1>9. BeingStopped' = BeingStopped \cup S
  BY <1>7, <1>8
<1>10. /\ DOMAIN encodings' \subseteq Channels /\ encodings' \in [DOMAIN encodings' -> SUBSET Ids]
       /\ \A c \in Channels : Tracked(c)' = Tracked(c) \ S
  <2>1. \A c \in {d} : Tracked(c) \subseteq S
    OBVIOUS
  <2> HIDE DEF S, B
  <2> QED BY <1>1, <1>4, <2>1, DroppedTracks
<1>11. highWater' \in [Entries -> Int]
  <2> HIDE DEF S
  <2> QED BY <1>1, <1>4, RetainRaises
<1> HIDE DEF S
<1> QED
  BY <1>1, <1>4, <1>8, <1>9, <1>10, <1>11, DetachKeeps

\* What operators detach is what the channel tracks.
LEMMA DetachChannelKeeps ==
    ASSUME ManagerInv, NEW c \in Channels, DetachChannel(c),
           UNCHANGED <<enc, burn, seq, dirs, sweeper, now>>
    PROVE  ManagerInv'
<1> DEFINE S == Tracked(c)
<1>1. S \in SUBSET byID /\ S \in SUBSET Ids /\ S \cap BeingStopped = {}
  BY EncodingFields DEF ManagerInv, Indexed, Apart, TrackedLive
<1>2. /\ byID' = byID \ S /\ retained' = Retain(retained, S)
      /\ highWater' = ParsedRaised(S) /\ StopAll(S)
  BY DEF DetachChannel
<1>3. /\ DOMAIN encodings' \subseteq Channels /\ encodings' \in [DOMAIN encodings' -> SUBSET Ids]
      /\ \A x \in Channels \ {c} : Tracked(x)' = Tracked(x)
      /\ Tracked(c)' = {}
  BY DEF DetachChannel, Without, Tracked, ManagerInv, ManagerTypeOK
<1>4. \A x \in Channels \ {c} : Tracked(x) \cap S = {}
  BY DEF ManagerInv, Indexed
<1> HIDE DEF S
<1>5. \A x \in Channels : Tracked(x)' = Tracked(x) \ S
  BY <1>3, <1>4 DEF S
<1>6. StopLists' /\ BeingStopped' = BeingStopped \cup S
  BY <1>1, <1>2, StopAllAdds DEF ManagerInv
<1>7. highWater' \in [Entries -> Int]
  BY <1>1, <1>2, ParsedRaises
<1> QED
  BY <1>1, <1>2, <1>3, <1>5, <1>6, <1>7, DetachKeeps

LEMMA OperatorKeeps ==
    ASSUME ManagerInv, NEW c \in Channels, RestartChannel(c) \/ KillChannel(c)
    PROVE  ManagerInv'
BY DetachChannelKeeps DEF RestartChannel, KillChannel

\* Where an encode starts and what its first number is.
LEMMA BaseTypes ==
    ASSUME ManagerTypeOK, NEW e \in Entries, NEW water \in Int
    PROVE  /\ Position(e) \in Int /\ BaseSeq(e, water) \in Int
           /\ BaseSeq(e, water) > water
<1> DEFINE a == StartOf[e]
           b == now - Lag
<1>1. a \in Int /\ b \in Int
  <2>1. Lag \in Nat /\ StartOf[e] \in Nat
    BY OnDemandAssumption
  <2> QED BY <2>1 DEF ManagerInv, ManagerTypeOK
<1>2. Position(e) = Largest({a} \cup {b})
  <2>1. {a, b} = {a} \cup {b}
    OBVIOUS
  <2> QED BY <2>1 DEF Position
<1> HIDE DEF a, b
<1>3. Largest({a} \cup {b}) \in {a, b}
  BY <1>1, LargestOfTwo
<1>4. Position(e) \in Int
  BY <1>1, <1>2, <1>3
<1> QED BY <1>4 DEF BaseSeq

LEMMA ReserveNewKeeps ==
    ASSUME ManagerInv, NEW e \in Entries, ReserveNew(e)
    PROVE  ManagerInv'
<1> DEFINE S == TrackedFor(e)
           c == ChannelOf[e]
           i == seq + 1
           r == Reserved(e, burn[c], Position(e), BaseSeq(e, RetainRaised(S)[e]))
<1>1. S \in SUBSET byID /\ S \in SUBSET Ids /\ S \cap BeingStopped = {} /\ c \in Channels
      /\ byID \in SUBSET Ids /\ byID \in SUBSET DOMAIN enc
      /\ S = {j \in byID : enc[j].entry = e}
  BY TrackedForSubset, ChannelOfEntry
<1>2. seq \in Nat /\ i \in 1..MaxStarts /\ i \in Ids /\ i \notin 1..seq /\ 1..seq \subseteq 1..i
      /\ i \in 0..MaxStarts
  <2>1. seq < MaxStarts /\ seq \in 0..MaxStarts /\ MaxStarts \in Nat
    BY OnDemandAssumption DEF ReserveNew, Admissible, Request, ManagerInv, ManagerTypeOK
  <2> QED BY <2>1 DEF Ids
<1>3. i \notin DOMAIN enc /\ i \notin byID /\ i \notin DOMAIN retained /\ i \notin BeingStopped
      /\ i \notin sweeper.dirs
  BY <1>1, <1>2 DEF ManagerInv, ManagerTypeOK, StoppingLive
<1>4. /\ RetainRaised(S) \in [Entries -> Int]
      /\ BaseSeq(e, RetainRaised(S)[e]) \in Int /\ Position(e) \in Int
  <2>1. RetainRaised(S) \in [Entries -> Int]
    BY <1>1, RetainRaises
  <2> QED BY <2>1, BaseTypes DEF ManagerInv
<1>5. /\ r \in Encoding /\ r.entry = e /\ r.state = "starting" /\ r.proc = "reserved"
      /\ ~r.cancelled /\ ~r.stopped /\ ~r.done /\ ~r.tail /\ r.parsed = 0 /\ r.pruned = 0
  BY <1>1, <1>4 DEF Reserved, Encoding, ManagerInv, ManagerTypeOK
<1>6. /\ enc' = With(enc, i, r) /\ seq' = i /\ byID' = (byID \ S) \cup {i}
      /\ encodings' = With(Dropped(S, {}), c,
                           (IF c \in DOMAIN Dropped(S, {}) THEN Dropped(S, {})[c] ELSE {}) \cup {i})
      /\ retained' = Retain(retained, S) /\ highWater' = RetainRaised(S) /\ StopAll(S)
      /\ UNCHANGED <<burn, dirs, sweeper, now>>
  BY DEF ReserveNew
<1> HIDE DEF r, S
<1>7. DOMAIN enc' = DOMAIN enc \cup {i} /\ enc'[i] = r /\ \A j \in DOMAIN enc : enc'[j] = enc[j]
  BY <1>3, <1>6 DEF With
<1>8. enc' \in [DOMAIN enc' -> Encoding]
  BY <1>3, <1>5, <1>6 DEF With, ManagerInv, ManagerTypeOK
<1>9. /\ DOMAIN encodings' \subseteq Channels /\ encodings' \in [DOMAIN encodings' -> SUBSET Ids]
      /\ \A x \in Channels : Tracked(x)' = IF x = c THEN (Tracked(x) \ S) \cup {i} ELSE Tracked(x) \ S
  BY <1>1, <1>2, <1>6 DEF With, Dropped, Tracked, ManagerInv, ManagerTypeOK
<1>10. /\ DOMAIN retained' = DOMAIN retained \cup S
       /\ retained' \in [DOMAIN retained \cup S -> [entry : Entries, list : SUBSET Int, left : Nat]]
       /\ \A j \in S : retained'[j].list = Kept(j)
       /\ \A j \in DOMAIN retained \ S : retained'[j] = retained[j]
  <2>1. ManagerTypeOK /\ S \in SUBSET DOMAIN enc
    BY <1>1 DEF ManagerInv
  <2> QED BY <1>6, <2>1, RetainAdds
<1>11. StopLists' /\ BeingStopped' = BeingStopped \cup S
  BY <1>1, <1>6, StopAllAdds DEF ManagerInv
<1>12. ManagerTypeOK'
  <2>1. ManagerTypeOK
    BY DEF ManagerInv
  <2>2. seq' \in 0..MaxStarts /\ now' \in Nat
    BY <1>2, <1>6, <2>1 DEF ManagerTypeOK
  <2>3. DOMAIN enc' \subseteq 1..seq'
    BY <1>2, <1>6, <1>7, <2>1 DEF ManagerTypeOK
  <2>4. DOMAIN retained' \subseteq 1..seq'
    BY <1>1, <1>2, <1>6, <1>10, <2>1 DEF ManagerTypeOK
  <2>5. retained' \in [DOMAIN retained' -> [entry : Entries, list : SUBSET Int, left : Nat]]
    BY <1>10
  <2>6. /\ highWater' \in [Entries -> Int] /\ burn' \in [Channels -> BurnChoices]
        /\ dirs' \subseteq 1..seq' /\ sweeper'.dirs \subseteq 1..seq'
    BY <1>2, <1>4, <1>6, <2>1 DEF ManagerTypeOK
  <2> QED BY <1>8, <1>9, <2>2, <2>3, <2>4, <2>5, <2>6 DEF ManagerTypeOK
<1>13. Indexed'
  <2>1. byID' = UNION {Tracked(x)' : x \in Channels}
    BY <1>1, <1>6, <1>9 DEF ManagerInv, Indexed
  <2>2. ASSUME NEW x \in Channels, NEW j \in Tracked(x)' PROVE ChannelOf[enc'[j].entry] = x
    <3>1. CASE j = i
      BY <1>1, <1>2, <1>3, <1>5, <1>7, <1>9, <2>2, <3>1 DEF ManagerInv, Indexed
    <3>2. CASE j # i
      BY <1>1, <1>7, <1>9, <2>2, <3>2 DEF ManagerInv, Indexed
    <3> QED BY <3>1, <3>2
  <2> QED BY <2>1, <2>2 DEF Indexed
<1>14. OnePerEntry'
  BY <1>1, <1>3, <1>5, <1>6, <1>7 DEF ManagerInv, OnePerEntry
<1>15. Apart'
  BY <1>1, <1>3, <1>6, <1>10, <1>11 DEF ManagerInv, Apart
<1>16. TrackedLive'
  BY <1>1, <1>3, <1>5, <1>6, <1>7 DEF ManagerInv, TrackedLive, Working
<1>17. StoppingLive' /\ RecordsAgree'
  BY <1>1, <1>3, <1>5, <1>7, <1>11 DEF ManagerInv, StoppingLive, TrackedLive, RecordsAgree
<1>18. NoOrphan'
  BY <1>3, <1>6, <1>7, <1>11 DEF ManagerInv, NoOrphan
<1>19. OnDisk'
  <2>1. ASSUME NEW j \in DOMAIN retained', retained'[j].list # {}
        PROVE  j \in dirs'
    <3>1. CASE j \in S
      <4>1. Kept(j) # {}
        BY <1>10, <2>1, <3>1
      <4>2. enc[j].parsed > 0
        BY <1>1, <3>1, <4>1, KeptListed DEF ManagerInv
      <4> QED BY <1>1, <1>6, <3>1, <4>2 DEF ManagerInv, OnDisk
    <3>2. CASE j \notin S
      BY <1>6, <1>10, <2>1, <3>2 DEF ManagerInv, OnDisk
    <3> QED BY <3>1, <3>2
  <2>2. \A j \in byID' : enc'[j].tail \/ enc'[j].parsed > 0 => j \in dirs'
    BY <1>1, <1>3, <1>5, <1>6, <1>7 DEF ManagerInv, OnDisk
  <2>3. sweeper'.dirs \cap (byID' \cup DOMAIN retained') = {}
    BY <1>1, <1>3, <1>6, <1>10 DEF ManagerInv, OnDisk
  <2> QED BY <1>6, <2>1, <2>2, <2>3 DEF ManagerInv, OnDisk
<1>20. Capacity'
  <2> DEFINE old == {j \in byID \ S : Working(j)}
             new == {j \in byID' : Working(j)'}
  <2>1. new = old \cup {i}
    BY <1>1, <1>3, <1>5, <1>6, <1>7 DEF Working
  <2>2. old \in SUBSET Ids
    BY <1>1
  <2>3. IsFiniteSet(old) /\ Cardinality(old) \in Nat
    BY <2>2, IdsFinite
  <2>4. Cardinality(old) < MaxConcurrent
    BY DEF ReserveNew, Running, S
  <2>5. i \notin old
    BY <1>3
  <2> HIDE DEF old, new
  <2>6. Cardinality(new) = Cardinality(old) + 1
    BY <2>1, <2>3, <2>5, FS_AddElement
  <2>7. MaxConcurrent \in Nat
    BY OnDemandAssumption
  <2>8. Cardinality(new) <= MaxConcurrent
    BY <2>3, <2>4, <2>6, <2>7
  <2> QED BY <2>8 DEF Capacity, Running, new
<1> QED
  BY <1>11, <1>12, <1>13, <1>14, <1>15, <1>16, <1>17, <1>18, <1>19, <1>20 DEF ManagerInv

-----------------------------------------------------------------------------
(* The sweeper and the clock.                                              *)

\* What a sweep makes of the records: it prunes lists, and gives up on the
\* encodings that stalled, which it detaches.
LEMMA SweptRecords ==
    ASSUME ManagerInv, NEW p \in Prunings, Sweep(p)
    PROVE  /\ DOMAIN enc' = DOMAIN enc /\ enc' \in [DOMAIN enc -> Encoding]
           /\ \A i \in DOMAIN enc : /\ enc'[i].entry = enc[i].entry /\ enc'[i].proc = enc[i].proc
                                    /\ enc'[i].cancelled = enc[i].cancelled
                                    /\ enc'[i].stopped = enc[i].stopped
                                    /\ enc'[i].done = enc[i].done /\ enc'[i].tail = enc[i].tail
                                    /\ enc'[i].base = enc[i].base /\ enc'[i].parsed = enc[i].parsed
                                    /\ enc'[i].pruned <= enc'[i].parsed
           /\ \A i \in byID : enc'[i].pruned = p[i] /\ enc[i].pruned <= p[i]
           /\ \A i \in byID \ TornDown : enc'[i].state = enc[i].state
           /\ \A i \in DOMAIN enc \ byID : enc'[i] = enc[i]
<1>1. MaxSegments \in Nat
  BY OnDemandAssumption
<1>2. \A i \in byID : i \in DOMAIN enc /\ p[i] \in Nat /\ p[i] <= enc[i].parsed /\ enc[i].pruned <= p[i]
  BY <1>1 DEF Prunings, ManagerInv, TrackedLive
<1>3. enc' = [i \in DOMAIN enc |->
                IF i \notin byID THEN enc[i]
                ELSE [(IF Stalled(i) THEN Failed(enc[i]) ELSE enc[i]) EXCEPT !.pruned = p[i]]]
  BY DEF Sweep
<1>4. ASSUME NEW i \in DOMAIN enc, NEW r \in Encoding, r = enc[i], i \notin byID
      PROVE  enc'[i] = r /\ r.pruned <= r.parsed
  BY <1>3, <1>4 DEF ManagerInv, RecordsAgree
<1>5. ASSUME NEW i \in DOMAIN enc, NEW r \in Encoding, r = enc[i], i \in byID
      PROVE  /\ enc'[i] \in Encoding
             /\ enc'[i].entry = r.entry /\ enc'[i].proc = r.proc /\ enc'[i].cancelled = r.cancelled
             /\ enc'[i].stopped = r.stopped /\ enc'[i].done = r.done /\ enc'[i].tail = r.tail
             /\ enc'[i].base = r.base /\ enc'[i].parsed = r.parsed
             /\ enc'[i].pruned = p[i] /\ enc'[i].pruned <= enc'[i].parsed
             /\ i \notin TornDown => enc'[i].state = r.state
  <2>1. p[i] \in Nat /\ p[i] <= r.parsed
    BY <1>2, <1>5
  <2>2. CASE Stalled(i)
    <3>1. enc'[i] = [Failed(r) EXCEPT !.pruned = p[i]]
      BY <1>3, <1>5, <2>2
    <3>2. i \in TornDown
      BY <1>5, <2>2 DEF TornDown
    <3> DEFINE f == Failed(r)
    <3>3. /\ f \in Encoding
          /\ f.entry = r.entry /\ f.proc = r.proc /\ f.cancelled = r.cancelled
          /\ f.stopped = r.stopped /\ f.done = r.done /\ f.tail = r.tail
          /\ f.base = r.base /\ f.parsed = r.parsed
      BY DEF Failed, Encoding
    <3>4. enc'[i] = [f EXCEPT !.pruned = p[i]]
      BY <3>1
    <3> HIDE DEF f
    <3> QED BY <2>1, <3>2, <3>3, <3>4 DEF Encoding
  <2>3. CASE ~Stalled(i)
    <3>1. enc'[i] = [r EXCEPT !.pruned = p[i]]
      BY <1>3, <1>5, <2>3
    <3> QED BY <2>1, <3>1 DEF Encoding
  <2> QED BY <2>2, <2>3
<1>6. \A i \in DOMAIN enc : enc[i] \in Encoding
  BY EncodingFields DEF ManagerInv
<1>7. DOMAIN enc' = DOMAIN enc /\ \A i \in DOMAIN enc : enc'[i] \in Encoding
  BY <1>3, <1>4, <1>5, <1>6
<1>8. enc' \in [DOMAIN enc -> Encoding]
  BY <1>3, <1>7
<1> QED BY <1>2, <1>4, <1>5, <1>6, <1>7, <1>8

\* What a sweep leaves of the numbers an entry has used: all of them, unless the
\* entry is over.
LEMMA SweptWater ==
    ASSUME ManagerInv, NEW p \in Prunings, Sweep(p), NEW e \in Entries
    PROVE  /\ highWater'[e] \in Int
           /\ (\A i \in TornDown : enc[i].entry = e => ~EntryOver(e)) => highWater'[e] >= highWater[e]
           /\ (\A i \in TornDown : enc[i].entry # e) => highWater'[e] = highWater[e]
<1> DEFINE J == {j \in TornDown : enc[j].entry = e /\ enc[j].parsed > p[j]}
           tops == {enc[i].base + enc[i].parsed - p[i] - 1 : i \in J}
<1>1. highWater[e] \in Int /\ MaxSegments \in Nat
  BY OnDemandAssumption DEF ManagerInv, ManagerTypeOK
<1>2. highWater'[e] = IF \E i \in TornDown : enc[i].entry = e /\ EntryOver(e)
                      THEN -1 ELSE Largest({highWater[e]} \cup tops)
  BY DEF Sweep
<1>3. CASE \E i \in TornDown : enc[i].entry = e /\ EntryOver(e)
  BY <1>2, <1>3
<1>4. CASE J = {} /\ ~\E i \in TornDown : enc[i].entry = e /\ EntryOver(e)
  <2>1. {highWater[e]} \cup tops = {highWater[e]}
    BY <1>4
  <2> QED BY <1>1, <1>2, <1>4, <2>1, LargestOfOne
<1>5. CASE J # {} /\ ~\E i \in TornDown : enc[i].entry = e /\ EntryOver(e)
  <2>1. PICK i \in J : i \in TornDown /\ i \in byID /\ enc[i].entry = e
    BY <1>5 DEF TornDown
  <2>2. J = {i}
    BY <2>1 DEF TornDown, ManagerInv, OnePerEntry
  <2> DEFINE n == enc[i].base + enc[i].parsed - p[i] - 1
  <2>3. tops = {n}
    BY <2>2
  <2>4. n \in Int
    BY <1>1, <2>1, EncodingFields DEF Prunings, ManagerInv, TrackedLive
  <2>5. {highWater[e]} \cup tops = {highWater[e]} \cup {n}
    BY <2>3
  <2> HIDE DEF tops, n, J
  <2>6. /\ Largest({highWater[e]} \cup {n}) \in {highWater[e], n}
        /\ highWater[e] <= Largest({highWater[e]} \cup {n})
    BY <1>1, <2>4, LargestOfTwo
  <2> QED BY <1>1, <1>2, <1>5, <2>1, <2>4, <2>5, <2>6
<1> QED BY <1>3, <1>4, <1>5

LEMMA SweptLists ==
    ASSUME ManagerInv, NEW p \in Prunings, Sweep(p)
    PROVE  /\ DOMAIN retained' = (DOMAIN retained \ Expired) \cup TornDown
           /\ retained' \in [DOMAIN retained' -> [entry : Entries, list : SUBSET Int, left : Nat]]
           /\ \A i \in TornDown : /\ retained'[i].entry = enc[i].entry
                                  /\ retained'[i].list \subseteq Kept(i)
           /\ \A i \in DOMAIN retained' \ TornDown : retained'[i] = retained[i]
<1> DEFINE new(i) == [entry |-> enc[i].entry, left |-> Retention,
                      list |-> {n \in Kept(i) : n >= enc[i].base + p[i]}]
<1>1. retained' = [i \in (DOMAIN retained \ Expired) \cup TornDown |->
                     IF i \in TornDown THEN new(i) ELSE retained[i]]
  BY DEF Sweep
<1>2. Retention \in Nat
  BY OnDemandAssumption
<1>3. \A i \in TornDown : enc[i].entry \in Entries /\ Kept(i) \in SUBSET Int
  BY EncodingFields DEF Kept, TornDown, ManagerInv, TrackedLive
<1>4. \A i \in TornDown : /\ new(i) \in [entry : Entries, list : SUBSET Int, left : Nat]
                          /\ new(i).entry = enc[i].entry /\ new(i).list \subseteq Kept(i)
  BY <1>2, <1>3
<1> HIDE DEF new
<1> QED BY <1>1, <1>4 DEF ManagerInv, ManagerTypeOK

LEMMA SweepKeeps ==
    ASSUME ManagerInv, NEW p \in Prunings, Sweep(p)
    PROVE  ManagerInv'
<1> DEFINE T == TornDown
<1>1. /\ T \in SUBSET byID /\ T \in SUBSET Ids /\ T \cap BeingStopped = {}
      /\ byID \in SUBSET Ids /\ byID \in SUBSET DOMAIN enc
  BY EncodingFields DEF TornDown, ManagerInv, Apart, TrackedLive
<1>2. Expired \in SUBSET DOMAIN retained /\ Expired \cap byID = {}
  BY DEF Expired, ManagerInv, Apart
<1>3. PICK s \in Orders(T) : SweepRest(FALSE, s, Expired)
  BY DEF Sweep
<1>4. /\ sweeper.list = <<>> /\ sweeper'.list = s /\ byID' = byID \ T
      /\ dirs' = (IF s = <<>> THEN dirs \ Expired ELSE dirs)
      /\ sweeper'.dirs = (IF s = <<>> THEN {} ELSE Expired)
      /\ UNCHANGED <<burn, seq, stops, now>>
  BY <1>3 DEF Sweep, SweepRest
<1> HIDE DEF T
<1>5. StopLists' /\ BeingStopped' = BeingStopped \cup T
  BY <1>1, <1>4, SweepListTaken DEF ManagerInv
<1>6. /\ DOMAIN encodings' \subseteq Channels /\ encodings' \in [DOMAIN encodings' -> SUBSET Ids]
      /\ \A c \in Channels : Tracked(c)' = Tracked(c) \ T
  BY <1>1 DEF Sweep, T, Dropped, Without, Tracked, ManagerInv, ManagerTypeOK
<1>7. highWater' \in [Entries -> Int]
  <2>1. highWater' = [e \in Entries |-> highWater'[e]]
    BY DEF Sweep
  <2> QED BY <2>1, SweptWater
<1>8. ManagerTypeOK'
  <2>1. DOMAIN retained' \subseteq 1..seq' /\ dirs' \subseteq 1..seq' /\ sweeper'.dirs \subseteq 1..seq'
    <3>1. T \subseteq 1..seq
      BY <1>1 DEF ManagerInv, ManagerTypeOK
    <3> QED BY <1>2, <1>4, <3>1, SweptLists DEF ManagerInv, ManagerTypeOK, T
  <2> QED BY <1>4, <1>6, <1>7, <2>1, SweptLists, SweptRecords DEF ManagerInv, ManagerTypeOK
<1>9. Indexed' /\ OnePerEntry'
  BY <1>1, <1>4, <1>6, SweptRecords DEF ManagerInv, Indexed, OnePerEntry
<1>10. Apart'
  BY <1>1, <1>4, <1>5, SweptLists DEF ManagerInv, Apart, T
<1>11. TrackedLive' /\ \A i \in byID' : Working(i)' => Working(i)
  BY <1>1, <1>4, SweptRecords DEF ManagerInv, TrackedLive, Working, T
<1>12. StoppingLive' /\ RecordsAgree' /\ NoOrphan'
  BY <1>1, <1>4, <1>5, SweptRecords
  DEF ManagerInv, TrackedLive, StoppingLive, RecordsAgree, NoOrphan
<1>13. OnDisk'
  <2>1. \A i \in byID' : enc'[i].tail \/ enc'[i].parsed > 0 => i \in dirs'
    BY <1>1, <1>2, <1>4, SweptRecords DEF ManagerInv, OnDisk
  <2>2. ASSUME NEW i \in DOMAIN retained', retained'[i].list # {}
        PROVE  i \in dirs'
    <3>1. CASE i \in T
      <4>1. Kept(i) # {} /\ i \in DOMAIN enc /\ i \in byID
        BY <1>1, <2>2, <3>1, SweptLists DEF T
      <4>2. enc[i].parsed > 0
        BY <4>1, KeptListed DEF ManagerInv
      <4> QED BY <1>2, <1>4, <4>1, <4>2 DEF ManagerInv, OnDisk
    <3>2. CASE i \notin T
      BY <1>4, <2>2, <3>2, SweptLists DEF ManagerInv, OnDisk, T
    <3> QED BY <3>1, <3>2
  <2>3. sweeper'.dirs \cap (byID' \cup DOMAIN retained') = {}
    BY <1>1, <1>2, <1>4, SweptLists DEF T
  <2> QED BY <1>4, <2>1, <2>2, <2>3 DEF OnDisk
<1>14. Capacity'
  BY <1>1, <1>4, <1>11, FewerWorking DEF ManagerInv
<1> QED
  BY <1>5, <1>8, <1>9, <1>10, <1>11, <1>12, <1>13, <1>14 DEF ManagerInv

LEMMA TickKeeps ==
    ASSUME ManagerInv, Tick
    PROVE  ManagerInv'
<1>1. /\ DOMAIN enc' = DOMAIN enc /\ enc' \in [DOMAIN enc -> Encoding]
      /\ \A i \in DOMAIN enc : /\ enc'[i].entry = enc[i].entry /\ enc'[i].proc = enc[i].proc
                               /\ enc'[i].state = enc[i].state
                               /\ enc'[i].cancelled = enc[i].cancelled
                               /\ enc'[i].stopped = enc[i].stopped
                               /\ enc'[i].done = enc[i].done /\ enc'[i].tail = enc[i].tail
                               /\ enc'[i].parsed = enc[i].parsed /\ enc'[i].pruned = enc[i].pruned
  <2>1. enc' = [i \in DOMAIN enc |->
                  IF Working(i)
                  THEN [enc[i] EXCEPT !.age = Older(@, StallTimeout + 1)] ELSE enc[i]]
    BY DEF Tick
  <2>2. ASSUME NEW i \in DOMAIN enc, NEW r \in Encoding, r = enc[i]
        PROVE  /\ enc'[i] \in Encoding
               /\ enc'[i].entry = r.entry /\ enc'[i].proc = r.proc /\ enc'[i].state = r.state
               /\ enc'[i].cancelled = r.cancelled /\ enc'[i].stopped = r.stopped
               /\ enc'[i].done = r.done /\ enc'[i].tail = r.tail
               /\ enc'[i].parsed = r.parsed /\ enc'[i].pruned = r.pruned
    <3>1. r.age \in Nat /\ Older(r.age, StallTimeout + 1) \in Nat
      BY OlderNat DEF Encoding
    <3>2. enc'[i] \in {r, [r EXCEPT !.age = Older(r.age, StallTimeout + 1)]}
      BY <2>1, <2>2
    <3> QED BY <3>1, <3>2 DEF Encoding
  <2>3. \A i \in DOMAIN enc : enc[i] \in Encoding
    BY EncodingFields DEF ManagerInv
  <2> QED BY <2>1, <2>2, <2>3
<1>2. /\ DOMAIN retained' = DOMAIN retained
      /\ retained' \in [DOMAIN retained -> [entry : Entries, list : SUBSET Int, left : Nat]]
      /\ \A i \in DOMAIN retained : retained'[i].list = retained[i].list
  <2>1. retained' = [i \in DOMAIN retained |-> [retained[i] EXCEPT !.left = Sooner(@)]]
    BY DEF Tick
  <2>2. \A i \in DOMAIN retained : retained[i] \in [entry : Entries, list : SUBSET Int, left : Nat]
    BY DEF ManagerInv, ManagerTypeOK
  <2>3. \A i \in DOMAIN retained : Sooner(retained[i].left) \in Nat
    BY <2>2, OlderNat
  <2> QED BY <2>1, <2>2, <2>3
<1>3. /\ sweeper'.list = sweeper.list /\ sweeper'.dirs = sweeper.dirs
      /\ UNCHANGED <<encodings, byID, highWater, burn, seq, dirs, stops>>
      /\ now' \in Nat
  <2>1. now' = Older(now, Horizon) /\ now \in Nat
    BY DEF Tick, ManagerInv, ManagerTypeOK
  <2>2. now' \in Nat
    BY <2>1, OlderNat
  <2>3. sweeper' = [sweeper EXCEPT !.due = TRUE]
    BY DEF Tick
  <2>4. sweeper'.list = sweeper.list /\ sweeper'.dirs = sweeper.dirs
    BY <2>3
  <2> QED BY <2>2, <2>4 DEF Tick
<1>4. StopLists' /\ BeingStopped' = BeingStopped
  BY <1>3 DEF ManagerInv, StopLists, BeingStopped
<1>5. ManagerTypeOK'
  BY <1>1, <1>2, <1>3 DEF ManagerInv, ManagerTypeOK
<1>6. Indexed'
  <2>1. \A c \in Channels : Tracked(c)' = Tracked(c)
    BY <1>3 DEF Tracked
  <2> QED BY <1>1, <1>3, <2>1 DEF ManagerInv, Indexed, TrackedLive
<1>7. OnePerEntry' /\ Apart' /\ TrackedLive' /\ StoppingLive' /\ RecordsAgree' /\ NoOrphan'
  BY <1>1, <1>2, <1>3, <1>4
  DEF ManagerInv, OnePerEntry, Apart, TrackedLive, StoppingLive, RecordsAgree, NoOrphan, Working
<1>8. OnDisk'
  BY <1>1, <1>2, <1>3 DEF ManagerInv, OnDisk, TrackedLive
<1>9. Capacity'
  <2>1. byID \subseteq Ids /\ \A i \in byID : Working(i)' => Working(i)
    BY <1>1, EncodingFields DEF ManagerInv, TrackedLive, Working
  <2> QED BY <1>3, <2>1, FewerWorking DEF ManagerInv
<1> QED
  BY <1>4, <1>5, <1>7, <1>6, <1>8, <1>9 DEF ManagerInv

-----------------------------------------------------------------------------
(* The theorems.                                                           *)

\* A manager that has just been made.
Fresh ==
    /\ enc = Empty /\ encodings = Empty /\ byID = {} /\ retained = Empty
    /\ highWater = [e \in Entries |-> -1] /\ burn = [c \in Channels |-> NoBurn]
    /\ seq = 0 /\ dirs = {} /\ stops = {}
    /\ sweeper = [due |-> FALSE, list |-> <<>>, dirs |-> {}] /\ now \in Nat

LEMMA FreshKeeps == Fresh => ManagerInv
<1> SUFFICES ASSUME Fresh PROVE ManagerInv
  OBVIOUS
<1> USE DEF Fresh
<1>1. NoBurn \in BurnChoices /\ MaxStarts \in Nat /\ MaxConcurrent \in Nat
  BY OnDemandAssumption
<1>2. DOMAIN Empty = {}
  BY DEF Empty
<1>3. BeingStopped = {}
  BY DEF BeingStopped, Range
<1>4. ManagerTypeOK
  BY <1>1, <1>2 DEF ManagerTypeOK
<1>5. StopLists
  BY DEF StopLists, IsInjective, Range
<1>6. \A c \in Channels : Tracked(c) = {}
  BY <1>2 DEF Tracked
<1>7. Indexed /\ OnePerEntry /\ Apart /\ TrackedLive /\ StoppingLive /\ RecordsAgree /\ NoOrphan
      /\ OnDisk
  BY <1>2, <1>3, <1>6
  DEF Indexed, OnePerEntry, Apart, TrackedLive, StoppingLive, RecordsAgree, NoOrphan, OnDisk
<1>8. Capacity
  <2>1. {i \in byID : Working(i)} = {}
    OBVIOUS
  <2>2. Cardinality({}) = 0
    BY FS_EmptySet
  <2> QED BY <1>1, <2>1, <2>2 DEF Capacity, Running
<1> QED BY <1>4, <1>5, <1>7, <1>8 DEF ManagerInv

LEMMA ManagerStutters ==
    ASSUME ManagerInv,
           UNCHANGED <<enc, encodings, byID, retained, highWater, seq, dirs, stops, sweeper, now>>,
           burn' \in [Channels -> BurnChoices]
    PROVE  ManagerInv'
<1>1. BeingStopped' = BeingStopped
  BY DEF BeingStopped
<1>2. ManagerTypeOK'
  BY DEF ManagerInv, ManagerTypeOK
<1>3. Indexed'
  BY DEF ManagerInv, Indexed, Tracked
<1>4. StopLists' /\ OnePerEntry' /\ Apart' /\ TrackedLive' /\ StoppingLive' /\ RecordsAgree'
      /\ NoOrphan' /\ OnDisk'
  BY <1>1 DEF ManagerInv, StopLists, OnePerEntry, Apart, TrackedLive, Working, StoppingLive,
              RecordsAgree, NoOrphan, OnDisk
<1>5. Capacity'
  BY DEF ManagerInv, Capacity, Running, Working
<1> QED BY <1>2, <1>3, <1>4, <1>5 DEF ManagerInv

LEMMA ManagerStep ==
    ASSUME ManagerInv, [Next]_vars
    PROVE  ManagerInv'
<1>1. CASE \E e \in Entries : \/ ReserveNothing(e) \/ ReserveBlocked(e)
                              \/ ReserveNew(e) \/ ReserveFull(e)
  <2>1. PICK e \in Entries : ReserveNothing(e) \/ ReserveBlocked(e) \/ ReserveNew(e) \/ ReserveFull(e)
    BY <1>1
  <2>2. CASE ReserveNothing(e)
    BY <2>2, ManagerStutters DEF ReserveNothing, ManagerInv, ManagerTypeOK
  <2> QED BY <2>1, <2>2, ReserveDetachKeeps, ReserveNewKeeps
<1>2. CASE \E e \in Entries, d \in Channels : ReserveEvict(e, d)
  BY <1>2, ReserveEvictKeeps
<1>3. CASE \E i \in Ids : \/ StartReserved(i) \/ StartFails(i)
                          \/ TailOnce(i) \/ TailEnd(i)
                          \/ \E ok \in BOOLEAN : WaitLoop(i, ok)
  BY <1>3, StartKeeps, TailOnceKeeps, TailEndKeeps, WaitLoopKeeps
<1>4. CASE StopBegin \/ StopEnd \/ SweepStopEnd
  BY <1>4, StopBeginKeeps, StopEndKeeps, SweepStopEndKeeps
<1>5. CASE \E p \in Prunings : Sweep(p)
  BY <1>5, SweepKeeps
<1>6. CASE \E c \in Channels : \/ RestartChannel(c) \/ KillChannel(c)
                               \/ \E l \in BurnChoices : SetBurnSubtitleLanguage(c, l)
  <2>1. CASE \E c \in Channels : RestartChannel(c) \/ KillChannel(c)
    BY <2>1, OperatorKeeps
  <2>2. CASE \E c \in Channels, l \in BurnChoices : SetBurnSubtitleLanguage(c, l)
    BY <2>2, ManagerStutters DEF SetBurnSubtitleLanguage, maps, ManagerInv, ManagerTypeOK
  <2> QED BY <1>6, <2>1, <2>2
<1>7. CASE NewManager
  <2>1. now' \in Nat
    BY <1>7 DEF NewManager, ManagerInv, ManagerTypeOK
  <2>2. Fresh'
    BY <1>7, <2>1 DEF NewManager, Fresh
  <2> QED BY <2>2, FreshKeeps, PTL
<1>8. CASE Tick
  BY <1>8, TickKeeps
<1>9. CASE UNCHANGED vars
  BY <1>9, ManagerStutters DEF vars, ManagerInv, ManagerTypeOK
<1> QED
  BY <1>1, <1>2, <1>3, <1>4, <1>5, <1>6, <1>7, <1>8, <1>9 DEF Next

\* ManagerInv holds of every state the manager reaches.
THEOREM ManagerInvariant == Spec => []ManagerInv
<1>1. Init => ManagerInv
  BY FreshKeeps DEF Init, Fresh
<1>2. ManagerInv /\ [Next]_vars => ManagerInv'
  BY ManagerStep
<1> QED BY <1>1, <1>2, PTL DEF Spec

\* Whichever section of the manager's code detaches an encoding, its two indexes
\* and the retained list go on agreeing, and an entry has one encoding at most.
THEOREM ManagerMapsAgree == Spec => []MapsAgree
<1>1. ManagerInv => MapsAgree
  <2> SUFFICES ASSUME ManagerInv PROVE MapsAgree
    OBVIOUS
  <2>1. ASSUME NEW e \in Entries PROVE Cardinality(TrackedFor(e)) <= 1
    <3>1. TrackedFor(e) = {i \in byID : enc[i].entry = e}
      BY TrackedForSubset
    <3>2. CASE TrackedFor(e) = {}
      BY <3>2, FS_EmptySet
    <3>3. CASE TrackedFor(e) # {}
      <4>1. PICK i : i \in TrackedFor(e)
        BY <3>3
      <4>2. TrackedFor(e) = {i}
        BY <3>1, <4>1 DEF ManagerInv, OnePerEntry
      <4>3. Cardinality({i}) = 1
        BY FS_Singleton
      <4> QED BY <4>2, <4>3
    <3> QED BY <3>2, <3>3
  <2> QED BY <2>1 DEF MapsAgree, ManagerInv, Indexed, Apart
<1> QED BY <1>1, ManagerInvariant, PTL

\* No ffmpeg is lost: one that has not exited is tracked or is being stopped.
THEOREM ManagerForgetsNothing == Spec => []NoOrphan
<1>1. ManagerInv => NoOrphan
  BY DEF ManagerInv
<1> QED BY <1>1, ManagerInvariant, PTL

\* The ffmpegs that nobody is stopping never outnumber the limit, by whichever
\* way a slot was freed: replacement, eviction, failure, a sweep or an operator.
THEOREM ManagerKeepsCapacity == Spec => []WithinCapacity
<1>1. ManagerInv => WithinCapacity
  <2> SUFFICES ASSUME ManagerInv PROVE WithinCapacity
    OBVIOUS
  <2> DEFINE loose == {i \in DOMAIN enc : OSProcess(i) /\ i \notin BeingStopped}
             working == {i \in byID : Working(i)}
  <2>1. loose \subseteq working
    BY DEF ManagerInv, NoOrphan, TrackedLive, OSProcess
  <2>2. working \in SUBSET Ids
    BY EncodingFields DEF ManagerInv, TrackedLive
  <2>3. Cardinality(working) <= MaxConcurrent
    BY DEF ManagerInv, Capacity, Running
  <2>4. IsFiniteSet(working) /\ Cardinality(working) \in Nat
    BY <2>2, IdsFinite
  <2>5. MaxConcurrent \in Nat
    BY OnDemandAssumption
  <2> HIDE DEF loose, working
  <2>6. Cardinality(loose) \in Nat /\ Cardinality(loose) <= Cardinality(working)
    BY <2>1, <2>4, FS_Subset, FS_CardinalityType
  <2>7. Cardinality(loose) <= MaxConcurrent
    BY <2>3, <2>4, <2>5, <2>6
  <2> QED BY <2>7 DEF WithinCapacity, loose
<1> QED BY <1>1, ManagerInvariant, PTL

\* Whatever the manager may still send a viewer is on disk: the sweeper removes
\* the directories of expired lists only, and only after it has stopped the rest.
THEOREM ManagerKeepsFiles == Spec => []ListedIsOnDisk
<1>1. ManagerInv => ListedIsOnDisk
  BY DEF ManagerInv, OnDisk, ListedIsOnDisk
<1> QED BY <1>1, ManagerInvariant, PTL

-----------------------------------------------------------------------------
(* Types.  An entry's failures are counted against its encodings: each one *)
(* that is handed out fails once at most.                                  *)

LEMMA LeastNat ==
    ASSUME NEW S, S \subseteq Nat, S # {}
    PROVE  \E x \in S : \A y \in S : x <= y
<1>1. PICK x \in S : \A y \in S : <<y, x>> \notin OpToRel(<, Nat)
  BY WFMin, NatLessThanWellFounded, Zenon
<1>2. \A y \in S : ~(y < x)
  BY <1>1, Zenon DEF OpToRel
<1>3. \A y \in S : x \in Int /\ y \in Int
  OBVIOUS
<1> QED
  BY <1>2, <1>3

\* A finite set of numbers has a largest: else a smallest subset without one
\* would still lack one after an element has been taken out.
LEMMA LargestOfFinite ==
    ASSUME NEW S, S \subseteq Nat, IsFiniteSet(S), S # {}
    PROVE  Largest(S) \in S
<1> DEFINE Lacks(A) == A # {} /\ ~\E x \in A : \A y \in A : y <= x
           sizes == {n \in Nat : \E A \in SUBSET S : Lacks(A) /\ Cardinality(A) = n}
<1>1. SUFFICES ~Lacks(S)
  BY DEF Largest
<1>2. SUFFICES ASSUME sizes # {} PROVE FALSE
  <2>1. Cardinality(S) \in Nat
    BY FS_CardinalityType
  <2> QED BY <2>1
<1>3. PICK n \in sizes : \A m \in sizes : n <= m
  <2>1. sizes \subseteq Nat
    OBVIOUS
  <2> HIDE DEF sizes
  <2> QED BY <1>2, <2>1, LeastNat
<1>4. PICK A \in SUBSET S : Lacks(A) /\ Cardinality(A) = n
  OBVIOUS
<1>5. PICK x \in A : TRUE
  BY <1>4
<1>6. /\ IsFiniteSet(A \ {x}) /\ Cardinality(A \ {x}) = n - 1 /\ n - 1 \in Nat
  <2>1. IsFiniteSet(A)
    BY FS_Subset
  <2>2. IsFiniteSet(A \ {x}) /\ Cardinality(A \ {x}) = Cardinality(A) - 1
    BY <2>1, <1>5, FS_RemoveElement
  <2>3. Cardinality(A \ {x}) \in Nat
    BY <2>2, FS_CardinalityType
  <2> QED BY <1>4, <2>2, <2>3
<1>7. ~Lacks(A \ {x})
  <2>1. n - 1 \in sizes => n <= n - 1
    BY <1>3
  <2>2. n - 1 \notin sizes
    BY <1>6, <2>1
  <2> QED BY <1>6, <2>2
<1>8. CASE A \ {x} = {}
  <2>1. A = {x} /\ x \in Nat
    BY <1>5, <1>8
  <2> QED BY <1>4, <2>1
<1>9. CASE A \ {x} # {}
  <2>1. PICK z \in A \ {x} : \A y \in A \ {x} : y <= z
    BY <1>7, <1>9
  <2>2. x \in Nat /\ z \in Nat /\ \A y \in A : y \in Nat
    OBVIOUS
  <2>3. CASE x <= z
    BY <1>4, <2>1, <2>2, <2>3
  <2>4. CASE z <= x
    <3>1. \A y \in A : y <= x
      BY <2>1, <2>2, <2>4
    <3> QED BY <1>4, <1>5, <3>1
  <2> QED BY <2>2, <2>3, <2>4
<1> QED BY <1>8, <1>9

LEMMA HorizonNat == Horizon \in Nat
<1> DEFINE ends == {EndOf(e) : e \in Entries}
           end == [e \in Entries |-> EndOf(e)]
<1>1. \A e \in Entries : EndOf(e) \in Nat
  BY OnDemandAssumption DEF EndOf
<1>2. end \in Surjection(Entries, ends)
  BY DEF Surjection
<1>3. IsFiniteSet(ends)
  BY <1>2, FS_Surjection, OnDemandAssumption
<1>4. IsFiniteSet({0} \cup ends)
  BY <1>3, FS_Singleton, FS_Union
<1>5. {0} \cup ends \subseteq Nat
  BY <1>1
<1> HIDE DEF ends
<1>6. Largest({0} \cup ends) \in Nat
  BY <1>4, <1>5, LargestOfFinite
<1>7. Trailing \in Nat
  BY OnDemandAssumption
<1>8. Horizon = Largest({0} \cup ends) + Trailing + 1
  BY DEF Horizon, ends
<1> QED BY <1>6, <1>7, <1>8

Ages ==
    /\ \A i \in DOMAIN retained : retained[i].left \in 0..Retention
    /\ DOMAIN lastTouch \subseteq Channels
    /\ \A c \in DOMAIN lastTouch : lastTouch[c] \in 0..(Grace + 1)
    /\ DOMAIN blocked \subseteq Entries
    /\ \A e \in DOMAIN blocked : blocked[e] \in 0..Cooldown
    /\ killGate \in [Channels -> 0..KillGate]
    /\ rows \subseteq Ids /\ restarting \subseteq Channels /\ now \in 0..Horizon

\* An encoding whose ffmpeg has not been spawned yet has not failed either.
Unspawned ==
    \A i \in DOMAIN enc :
        enc[i].proc = "reserved" => /\ enc[i].age = 0 /\ ~enc[i].tail
                                    /\ enc[i].state # "failed"

NotFailed(e) == {i \in DOMAIN enc : enc[i].entry = e /\ enc[i].state # "failed"}
FailuresCounted ==
    /\ restarts \in [Entries -> Nat]
    /\ \A e \in Entries : restarts[e] + Cardinality(NotFailed(e)) <= seq

TypeInv == ManagerInv /\ Ages /\ Unspawned /\ FailuresCounted

LEMMA Limits ==
    /\ {MaxStarts, Grace, Cooldown, KillGate, Retention, RestartBudget, StallTimeout} \subseteq Nat
    /\ 0 \in 0..Retention /\ Retention \in 0..Retention
    /\ 0 \in 0..(Grace + 1) /\ 0 \in 0..Cooldown /\ Cooldown \in 0..Cooldown
    /\ 0 \in 0..KillGate /\ KillGate \in 0..KillGate
BY OnDemandAssumption

LEMMA NotFailedFinite ==
    ASSUME ManagerTypeOK, NEW e
    PROVE  IsFiniteSet(NotFailed(e)) /\ Cardinality(NotFailed(e)) \in Nat
<1>1. NotFailed(e) \in SUBSET Ids
  BY EncodingFields DEF NotFailed
<1> QED BY <1>1, IdsFinite

\* Failures are noted of encodings that had not failed, and that now have.
LEMMA CountKeeps ==
    ASSUME ManagerTypeOK, FailuresCounted, NEW e \in Entries, NEW F \in SUBSET NotFailed(e),
           NotFailed(e)' \subseteq NotFailed(e) \ F,
           restarts'[e] \in Nat, restarts'[e] <= restarts[e] + Cardinality(F), seq' = seq
    PROVE  restarts'[e] + Cardinality(NotFailed(e)') <= seq'
<1> DEFINE A == NotFailed(e)
           B == NotFailed(e)'
<1>1. IsFiniteSet(A) /\ Cardinality(A) \in Nat
  BY NotFailedFinite
<1>2. restarts[e] \in Nat /\ restarts[e] + Cardinality(A) <= seq /\ seq \in Int
  BY DEF FailuresCounted, ManagerTypeOK
<1>3. F \subseteq A /\ B \subseteq A \ F
  OBVIOUS
<1> HIDE DEF A, B
<1>4. IsFiniteSet(A \ F) /\ Cardinality(A \ F) = Cardinality(A) - Cardinality(A \cap F)
  BY <1>1, FS_Difference
<1>5. Cardinality(A \ F) = Cardinality(A) - Cardinality(F)
  <2>1. A \cap F = F
    BY <1>3
  <2> QED BY <1>4, <2>1
<1>6. Cardinality(F) \in Nat
  BY <1>1, <1>3, FS_Subset, FS_CardinalityType
<1>7. Cardinality(B) <= Cardinality(A \ F) /\ Cardinality(B) \in Nat
  BY <1>3, <1>4, FS_Subset, FS_CardinalityType
<1>8. restarts'[e] + Cardinality(B) <= seq
  <2>1. restarts'[e] \in Nat /\ restarts'[e] <= restarts[e] + Cardinality(F)
    OBVIOUS
  <2> QED BY ONLY <1>1, <1>2, <1>5, <1>6, <1>7, <2>1
<1> QED BY <1>8 DEF B

\* Nothing fails: the unfailed encodings are those of before, or fewer.
LEMMA CountStays ==
    ASSUME ManagerTypeOK, FailuresCounted, restarts' \in [Entries -> Nat], seq' = seq,
           \A e \in Entries : restarts'[e] <= restarts[e],
           \A i \in DOMAIN enc' : /\ i \in DOMAIN enc /\ enc'[i].entry = enc[i].entry
                                  /\ enc[i].state = "failed" => enc'[i].state = "failed"
    PROVE  FailuresCounted'
<1>1. ASSUME NEW e \in Entries
      PROVE  restarts'[e] + Cardinality(NotFailed(e)') <= seq'
  <2>1. NotFailed(e)' \subseteq NotFailed(e) \ {}
    BY DEF NotFailed
  <2>2. Cardinality({}) = 0 /\ {} \in SUBSET NotFailed(e)
    BY FS_EmptySet
  <2>3. restarts'[e] \in Nat /\ restarts[e] \in Nat
    BY DEF FailuresCounted
  <2>4. restarts'[e] <= restarts[e] + Cardinality({})
    BY <2>2, <2>3
  <2> QED BY <2>1, <2>2, <2>3, <2>4, CountKeeps
<1> QED BY <1>1 DEF FailuresCounted

LEMMA FailuresNoted ==
    ASSUME TypeInv, NEW S \in SUBSET DOMAIN enc, NoteFailures(S), seq' = seq,
           \A i \in S : enc[i].state # "failed",
           \A i \in DOMAIN enc' : /\ i \in DOMAIN enc /\ enc'[i].entry = enc[i].entry
                                  /\ i \in S \/ enc[i].state = "failed" => enc'[i].state = "failed"
    PROVE  /\ FailuresCounted'
           /\ DOMAIN blocked' \subseteq Entries
           /\ \A e \in DOMAIN blocked' : blocked'[e] \in 0..Cooldown
<1> DEFINE F(e) == {i \in S : enc[i].entry = e}
<1>1. \A e : F(e) \in SUBSET NotFailed(e)
  BY DEF NotFailed
<1>2. \A e : IsFiniteSet(F(e)) /\ Cardinality(F(e)) \in Nat
  <2> TAKE e
  <2>1. IsFiniteSet(NotFailed(e))
    BY NotFailedFinite DEF TypeInv, ManagerInv
  <2> QED BY <1>1, <2>1, FS_Subset, FS_CardinalityType
<1>3. restarts' = [e \in Entries |-> restarts[e] + Cardinality(F(e))]
  BY DEF NoteFailures, Failures
<1> HIDE DEF F
<1>4. restarts' \in [Entries -> Nat]
  <2>1. \A e \in Entries : restarts[e] \in Nat
    BY DEF TypeInv, FailuresCounted
  <2>2. \A e \in Entries : restarts[e] + Cardinality(F(e)) \in Nat
    BY <1>2, <2>1
  <2> QED BY ONLY <1>3, <2>2
<1>5. FailuresCounted'
  <2>1. ASSUME NEW e \in Entries
        PROVE  restarts'[e] + Cardinality(NotFailed(e)') <= seq'
    <3>1. NotFailed(e)' \subseteq NotFailed(e) \ F(e)
      BY DEF NotFailed, F
    <3>2. restarts'[e] \in Nat /\ restarts'[e] = restarts[e] + Cardinality(F(e))
      BY <1>3, <1>4
    <3> QED
      BY <1>1, <3>1, <3>2, CountKeeps DEF TypeInv, ManagerInv
  <2> QED BY <1>4, <2>1 DEF FailuresCounted
<1> DEFINE new == {enc[i].entry : i \in {j \in S : restarts'[enc[j].entry] >= RestartBudget}}
<1>6. /\ DOMAIN blocked' = DOMAIN blocked \cup new
      /\ \A e \in DOMAIN blocked \cup new :
            blocked'[e] = IF Cardinality(F(e)) > 0 /\ restarts'[e] >= RestartBudget
                          THEN Cooldown ELSE blocked[e]
  BY DEF NoteFailures, Failures, F
<1>7. new \subseteq Entries
  BY EncodingFields DEF TypeInv, ManagerInv
<1>8. ASSUME NEW e \in new PROVE Cardinality(F(e)) > 0 /\ restarts'[e] >= RestartBudget
  <2>1. F(e) # {} /\ restarts'[e] >= RestartBudget
    BY DEF F
  <2>2. Cardinality(F(e)) # 0
    BY <1>2, <2>1, FS_EmptySet
  <2> QED BY <1>2, <2>1, <2>2
<1> HIDE DEF new
<1>9. ASSUME NEW e \in DOMAIN blocked' PROVE blocked'[e] \in 0..Cooldown
  <2>1. e \in DOMAIN blocked \cup new
    BY <1>6
  <2>2. blocked'[e] = IF Cardinality(F(e)) > 0 /\ restarts'[e] >= RestartBudget
                      THEN Cooldown ELSE blocked[e]
    BY <1>6, <2>1
  <2>3. CASE e \in new
    BY <1>8, <2>2, <2>3, Limits
  <2>4. CASE e \notin new
    <3>1. e \in DOMAIN blocked
      BY <2>1, <2>4
    <3>2. blocked[e] \in 0..Cooldown
      BY <3>1 DEF TypeInv, Ages
    <3> QED BY <2>2, <3>2, Limits
  <2> QED BY <2>3, <2>4
<1>10. DOMAIN blocked' \subseteq Entries
  BY <1>6, <1>7 DEF TypeInv, Ages
<1> QED BY <1>5, <1>9, <1>10
\* What the actions leave of the ages.
LEMMA RetainTyped ==
    ASSUME Ages, NEW S
    PROVE  \A i \in DOMAIN Retain(retained, S) : Retain(retained, S)[i].left \in 0..Retention
BY Limits DEF Ages, Retain

LEMMA TouchTyped ==
    ASSUME Ages, NEW e \in Entries, NEW f, DOMAIN f \subseteq Channels,
           \A c \in DOMAIN f : f[c] \in 0..(Grace + 1),
           lastTouch' = With(f, ChannelOf[e], 0)
    PROVE  /\ DOMAIN lastTouch' \subseteq Channels
           /\ \A c \in DOMAIN lastTouch' : lastTouch'[c] \in 0..(Grace + 1)
BY Limits, ChannelOfEntry DEF With

LEMMA AgesStay ==
    ASSUME Ages, retained' = retained \/ \E S : retained' = Retain(retained, S),
           DOMAIN lastTouch' \subseteq Channels,
           \A c \in DOMAIN lastTouch' : lastTouch'[c] \in 0..(Grace + 1),
           DOMAIN blocked' \subseteq Entries,
           \A e \in DOMAIN blocked' : blocked'[e] \in 0..Cooldown,
           killGate' \in [Channels -> 0..KillGate],
           rows' \subseteq Ids, restarting' \subseteq Channels, now' = now
    PROVE  Ages'
<1>1. \A i \in DOMAIN retained' : retained'[i].left \in 0..Retention
  <2>1. CASE retained' = retained
    BY <2>1 DEF Ages
  <2>2. CASE \E S : retained' = Retain(retained, S)
    BY <2>2, RetainTyped
  <2> QED BY <2>1, <2>2
<1>2. Horizon' = Horizon
  BY DEF Horizon, EndOf
<1> QED BY <1>1, <1>2 DEF Ages

LEMMA CooldownForgotten ==
    ASSUME TypeInv, NEW e \in Entries, ForgetCooldown(e)
    PROVE  /\ DOMAIN blocked' \subseteq Entries
           /\ \A x \in DOMAIN blocked' : blocked'[x] \in 0..Cooldown
           /\ killGate' = killGate
           /\ restarts' \in [Entries -> Nat]
           /\ \A x \in Entries : restarts'[x] <= restarts[x]
BY DEF ForgetCooldown, TypeInv, Ages, FailuresCounted, Without

LEMMA AdmitTyped ==
    ASSUME TypeInv, NEW e \in Entries,
           \/ ReserveNothing(e) \/ ReserveBlocked(e) \/ ReserveFull(e)
           \/ \E d \in Channels : ReserveEvict(e, d)
    PROVE  Ages' /\ Unspawned' /\ FailuresCounted'
<1>1. UNCHANGED <<enc, seq, rows, restarting, now>>
  BY DEF ReserveNothing, ReserveBlocked, ReserveFull, ReserveEvict
<1>2. retained' = retained \/ \E S : retained' = Retain(retained, S)
  BY DEF ReserveNothing, ReserveBlocked, ReserveFull, ReserveEvict
<1>3. UNCHANGED limits \/ ForgetCooldown(e)
  BY DEF ReserveNothing, ReserveBlocked, ReserveFull, ReserveEvict
<1>4. /\ DOMAIN blocked' \subseteq Entries
      /\ \A x \in DOMAIN blocked' : blocked'[x] \in 0..Cooldown
      /\ killGate' = killGate
      /\ restarts' \in [Entries -> Nat]
      /\ \A x \in Entries : restarts'[x] <= restarts[x]
  BY <1>3, CooldownForgotten DEF limits, TypeInv, Ages, FailuresCounted
<1>5. \E f : /\ lastTouch' = With(f, ChannelOf[e], 0) /\ DOMAIN f \subseteq Channels
             /\ \A c \in DOMAIN f : f[c] \in 0..(Grace + 1)
  <2>1. CASE Touched(e)
    BY <2>1 DEF Touched, TypeInv, Ages
  <2>2. CASE \E d \in Channels : ReserveEvict(e, d)
    BY <2>2 DEF ReserveEvict, Without, TypeInv, Ages
  <2> QED BY <2>1, <2>2 DEF ReserveNothing, ReserveBlocked, ReserveFull
<1>6. /\ DOMAIN lastTouch' \subseteq Channels
      /\ \A c \in DOMAIN lastTouch' : lastTouch'[c] \in 0..(Grace + 1)
  BY <1>5, TouchTyped DEF TypeInv
<1>7. Ages'
  BY <1>1, <1>2, <1>4, <1>6, AgesStay DEF TypeInv, Ages
<1>8. Unspawned'
  BY <1>1 DEF TypeInv, Unspawned
<1>9. FailuresCounted'
  BY <1>1, <1>4, CountStays DEF TypeInv, ManagerInv
<1> QED BY <1>7, <1>8, <1>9

LEMMA ReserveNewTyped ==
    ASSUME TypeInv, NEW e \in Entries, ReserveNew(e)
    PROVE  Ages' /\ Unspawned' /\ FailuresCounted'
<1> DEFINE i == seq + 1
           S == TrackedFor(e)
           r == Reserved(e, burn[ChannelOf[e]], Position(e), BaseSeq(e, RetainRaised(S)[e]))
<1>1. UNCHANGED <<rows, restarting, now>> /\ retained' = Retain(retained, S) /\ seq' = i
  BY DEF ReserveNew
<1>2. /\ DOMAIN blocked' \subseteq Entries
      /\ \A x \in DOMAIN blocked' : blocked'[x] \in 0..Cooldown
      /\ killGate' = killGate
      /\ restarts' \in [Entries -> Nat]
      /\ \A x \in Entries : restarts'[x] <= restarts[x]
  BY CooldownForgotten DEF ReserveNew
<1>3. /\ DOMAIN lastTouch' \subseteq Channels
      /\ \A c \in DOMAIN lastTouch' : lastTouch'[c] \in 0..(Grace + 1)
  BY TouchTyped DEF TypeInv, Ages, ReserveNew, Touched
<1>4. Ages'
  BY <1>1, <1>2, <1>3, AgesStay DEF TypeInv, Ages
<1>5. /\ r.entry = e /\ r.proc = "reserved" /\ r.age = 0 /\ ~r.tail
      /\ r.state = "starting"
  BY DEF Reserved
<1>6. enc' = With(enc, i, r)
  BY DEF ReserveNew
<1> HIDE DEF r
<1>7. seq \in Nat /\ DOMAIN enc \subseteq 1..seq /\ i \notin DOMAIN enc
  BY OnDemandAssumption DEF TypeInv, ManagerInv, ManagerTypeOK
<1>8. /\ DOMAIN enc' = DOMAIN enc \cup {i} /\ enc'[i] = r
      /\ \A j \in DOMAIN enc : enc'[j] = enc[j]
  BY <1>6, <1>7 DEF With
<1>9. Unspawned'
  BY <1>5, <1>8 DEF TypeInv, Unspawned
<1>10. ASSUME NEW x \in Entries
       PROVE  restarts'[x] + Cardinality(NotFailed(x)') <= seq'
  <2> DEFINE A == NotFailed(x)
             B == NotFailed(x)'
  <2>1. IsFiniteSet(A) /\ Cardinality(A) \in Nat
    BY NotFailedFinite DEF TypeInv, ManagerInv
  <2>2. B \subseteq A \cup {i}
    BY <1>8 DEF NotFailed
  <2> HIDE DEF A, B, i
  <2>3. IsFiniteSet(A \cup {i}) /\ Cardinality(A \cup {i}) \in {Cardinality(A), Cardinality(A) + 1}
    BY <2>1, FS_AddElement
  <2>4. Cardinality(B) <= Cardinality(A \cup {i}) /\ Cardinality(B) \in Nat
    BY <2>2, <2>3, FS_Subset, FS_CardinalityType
  <2>5. restarts[x] \in Nat /\ restarts[x] + Cardinality(A) <= seq
    BY DEF TypeInv, FailuresCounted, A
  <2>6. restarts'[x] \in Nat /\ restarts'[x] <= restarts[x]
    BY <1>2
  <2>7. seq' = seq + 1
    BY <1>1 DEF i
  <2>8. restarts'[x] + Cardinality(B) <= seq'
    BY ONLY <1>7, <2>1, <2>3, <2>4, <2>5, <2>6, <2>7
  <2> QED BY <2>8 DEF B
<1>11. FailuresCounted'
  BY <1>2, <1>10 DEF FailuresCounted
<1> QED BY <1>4, <1>9, <1>11

\* The steps of an encoding's goroutines in which nothing fails.
LEMMA GoroutineTyped ==
    ASSUME TypeInv, NEW i \in DOMAIN enc,
           \A j \in DOMAIN enc' : j \in DOMAIN enc /\ (j # i => enc'[j] = enc[j]),
           i \in DOMAIN enc' =>
               /\ enc'[i].entry = enc[i].entry
               /\ enc[i].state = "failed" => enc'[i].state = "failed"
               /\ enc'[i].proc = "reserved" =>
                     /\ enc[i].proc = "reserved" /\ ~enc'[i].tail
                     /\ enc'[i].age = 0 /\ enc'[i].state # "failed",
           UNCHANGED <<retained, lastTouch, limits, seq, restarting, now>>,
           rows' \subseteq Ids
    PROVE  Ages' /\ Unspawned' /\ FailuresCounted'
<1>1. Ages'
  BY AgesStay DEF TypeInv, Ages, limits
<1>2. Unspawned'
  BY DEF TypeInv, Unspawned
<1>3. restarts' \in [Entries -> Nat] /\ \A e \in Entries : restarts'[e] <= restarts[e]
  BY DEF TypeInv, FailuresCounted, limits
<1>4. FailuresCounted'
  BY <1>3, CountStays DEF TypeInv, ManagerInv
<1> QED BY <1>1, <1>2, <1>4

LEMMA RecordedTyped == \A i \in Ids : TypeInv => Recorded(i) \subseteq Ids
BY DEF TypeInv, Ages, Recorded

LEMMA StartTyped ==
    ASSUME TypeInv, NEW i \in Ids, StartReserved(i)
    PROVE  Ages' /\ Unspawned' /\ FailuresCounted'
<1>1. i \in DOMAIN enc /\ enc[i] \in Encoding
  BY EncodingFields DEF StartReserved, Live, TypeInv, ManagerInv
<1>2. /\ DOMAIN enc' = DOMAIN enc /\ \A j \in DOMAIN enc \ {i} : enc'[j] = enc[j]
      /\ enc'[i].entry = enc[i].entry /\ enc'[i].state = enc[i].state /\ enc'[i].proc = "running"
  BY <1>1 DEF StartReserved, Encoding
<1>3. UNCHANGED <<retained, lastTouch, limits, seq, restarting, now>> /\ rows' \subseteq Ids
  BY RecordedTyped DEF StartReserved, maps
<1> QED BY <1>1, <1>2, <1>3, GoroutineTyped

LEMMA TailTyped ==
    ASSUME TypeInv, NEW i \in Ids, TailOnce(i)
    PROVE  Ages' /\ Unspawned' /\ FailuresCounted'
<1>1. i \in DOMAIN enc /\ enc[i] \in Encoding /\ enc[i].proc # "reserved"
  BY EncodingFields DEF TailOnce, Live, TypeInv, ManagerInv, Unspawned
<1>2. /\ DOMAIN enc' = DOMAIN enc /\ \A j \in DOMAIN enc \ {i} : enc'[j] = enc[j]
      /\ enc'[i].entry = enc[i].entry /\ enc'[i].proc = enc[i].proc
      /\ enc[i].state = "failed" => enc'[i].state = "failed"
  BY <1>1 DEF TailOnce, Encoding
<1>3. UNCHANGED <<retained, lastTouch, limits, seq, restarting, now>> /\ rows' \subseteq Ids
  BY RecordedTyped DEF TailOnce, maps
<1> QED BY <1>1, <1>2, <1>3, GoroutineTyped

LEMMA SettledTyped ==
    ASSUME TypeInv, NEW i \in DOMAIN enc, NEW r \in Encoding, enc' = Settled(i, r),
           r.entry = enc[i].entry, r.state = enc[i].state, r.proc = enc[i].proc,
           r.proc = "reserved" => ~r.tail /\ r.age = enc[i].age,
           UNCHANGED <<retained, lastTouch, limits, seq, restarting, now>>, rows' \subseteq Ids
    PROVE  Ages' /\ Unspawned' /\ FailuresCounted'
<1>1. /\ \A j \in DOMAIN enc \ {i} : j \in DOMAIN enc' /\ enc'[j] = enc[j]
      /\ DOMAIN enc' \subseteq DOMAIN enc
      /\ i \in DOMAIN enc' => enc'[i] = r
  BY SettledDomain DEF TypeInv, ManagerInv
<1>2. i \in DOMAIN enc' =>
               /\ enc'[i].entry = enc[i].entry
               /\ enc[i].state = "failed" => enc'[i].state = "failed"
               /\ enc'[i].proc = "reserved" =>
                     /\ enc[i].proc = "reserved" /\ ~enc'[i].tail
                     /\ enc'[i].age = 0 /\ enc'[i].state # "failed"
  BY <1>1 DEF TypeInv, Unspawned
<1> QED BY <1>1, <1>2, GoroutineTyped

LEMMA TailEndTyped ==
    ASSUME TypeInv, NEW i \in Ids, TailEnd(i)
    PROVE  Ages' /\ Unspawned' /\ FailuresCounted'
<1>1. i \in DOMAIN enc /\ enc[i] \in Encoding
  BY EncodingFields DEF TailEnd, Live, TypeInv, ManagerInv
<1> DEFINE r == [enc[i] EXCEPT !.tail = FALSE]
<1>2. /\ r \in Encoding /\ r.entry = enc[i].entry /\ r.state = enc[i].state
      /\ r.proc = enc[i].proc /\ ~r.tail /\ r.age = enc[i].age
  BY <1>1 DEF Encoding
<1>3. enc' = Settled(i, r)
  BY DEF TailEnd
<1>4. UNCHANGED <<retained, lastTouch, limits, seq, restarting, now>> /\ rows' \subseteq Ids
  BY DEF TailEnd, maps, TypeInv, Ages
<1> HIDE DEF r
<1> QED BY <1>1, <1>2, <1>3, <1>4, SettledTyped

LEMMA StoppedTyped ==
    ASSUME TypeInv, NEW i \in BeingStopped, Stopped(i),
           UNCHANGED <<retained, lastTouch, limits, seq, restarting, now>>
    PROVE  Ages' /\ Unspawned' /\ FailuresCounted'
<1>1. i \in DOMAIN enc /\ enc[i] \in Encoding
  BY EncodingFields DEF TypeInv, ManagerInv, StoppingLive
<1> DEFINE r == [enc[i] EXCEPT !.stopped = TRUE]
<1>2. /\ r \in Encoding /\ r.entry = enc[i].entry /\ r.state = enc[i].state
      /\ r.proc = enc[i].proc /\ r.tail = enc[i].tail /\ r.age = enc[i].age
  BY <1>1 DEF Encoding
<1>3. enc' = Settled(i, r)
  BY DEF Stopped
<1>4. rows' \subseteq Ids
  BY DEF Stopped, TypeInv, Ages
<1> HIDE DEF r
<1>5. r.proc = "reserved" => ~r.tail
  BY <1>1, <1>2 DEF TypeInv, Unspawned
<1> QED BY <1>1, <1>2, <1>3, <1>4, <1>5, SettledTyped

LEMMA StopTyped ==
    ASSUME TypeInv, StopBegin \/ StopEnd \/ SweepStopEnd
    PROVE  Ages' /\ Unspawned' /\ FailuresCounted'
<1>1. /\ \A s \in stops : Head(s) \in BeingStopped
      /\ sweeper.list # <<>> => Head(sweeper.list) \in BeingStopped
  BY TailOfList DEF TypeInv, ManagerInv, StopLists, BeingStopped
<1>2. UNCHANGED <<retained, lastTouch, limits, seq, restarting, now>>
  BY DEF StopBegin, StopEnd, SweepStopEnd, maps
<1>3. CASE StopBegin
  <2>1. PICK i \in BeingStopped : Stopping(i)
    BY <1>1, <1>3 DEF StopBegin
  <2>2. i \in DOMAIN enc /\ enc[i] \in Encoding /\ i \in Ids
    BY EncodingFields DEF TypeInv, ManagerInv, StoppingLive
  <2>3. /\ DOMAIN enc' = DOMAIN enc /\ \A j \in DOMAIN enc \ {i} : enc'[j] = enc[j]
        /\ enc'[i].entry = enc[i].entry /\ enc'[i].proc = enc[i].proc
        /\ enc'[i].tail = enc[i].tail /\ enc'[i].age = 0
        /\ enc'[i].state = IF enc[i].state = "failed" THEN "failed" ELSE "stopping"
    BY <2>1, <2>2 DEF Stopping, Encoding
  <2>4. rows' \subseteq Ids
    BY <2>1, <2>2, RecordedTyped DEF Stopping, TypeInv, Ages
  <2>5. enc[i].proc = "reserved" => ~enc[i].tail /\ enc[i].state # "failed"
    BY <2>2 DEF TypeInv, Unspawned
  <2> QED BY <1>2, <2>2, <2>3, <2>4, <2>5, GoroutineTyped
<1>4. CASE StopEnd
  BY <1>1, <1>2, <1>4, StoppedTyped DEF StopEnd
<1>5. CASE SweepStopEnd
  BY <1>1, <1>2, <1>5, StoppedTyped DEF SweepStopEnd
<1> QED BY <1>3, <1>4, <1>5
\* The steps in which an encoding's goroutine finds that it has failed.
LEMMA FailsTyped ==
    ASSUME TypeInv, NEW i \in DOMAIN enc, NoteFailures({i}), enc[i].state # "failed",
           \A j \in DOMAIN enc' : j \in DOMAIN enc /\ (j # i => enc'[j] = enc[j]),
           i \in DOMAIN enc' => /\ enc'[i].entry = enc[i].entry /\ enc'[i].state = "failed"
                                /\ enc'[i].proc # "reserved",
           UNCHANGED <<retained, lastTouch, killGate, seq, restarting, now>>,
           rows' \subseteq Ids
    PROVE  Ages' /\ Unspawned' /\ FailuresCounted'
<1>1. {i} \in SUBSET DOMAIN enc /\ \A j \in {i} : enc[j].state # "failed"
  OBVIOUS
<1>2. \A j \in DOMAIN enc' : /\ j \in DOMAIN enc /\ enc'[j].entry = enc[j].entry
                             /\ j \in {i} \/ enc[j].state = "failed" => enc'[j].state = "failed"
  OBVIOUS
<1>3. /\ FailuresCounted'
      /\ DOMAIN blocked' \subseteq Entries
      /\ \A e \in DOMAIN blocked' : blocked'[e] \in 0..Cooldown
  BY <1>1, <1>2, FailuresNoted
<1>4. Ages'
  BY <1>3, AgesStay DEF TypeInv, Ages
<1>5. Unspawned'
  BY DEF TypeInv, Unspawned
<1> QED BY <1>3, <1>4, <1>5

LEMMA StartFailsTyped ==
    ASSUME TypeInv, NEW i \in Ids, StartFails(i)
    PROVE  Ages' /\ Unspawned' /\ FailuresCounted'
<1>1. i \in DOMAIN enc /\ enc[i] \in Encoding /\ enc[i].state # "failed"
  BY EncodingFields DEF StartFails, Live, TypeInv, ManagerInv, Unspawned
<1>2. /\ DOMAIN enc' = DOMAIN enc /\ \A j \in DOMAIN enc \ {i} : enc'[j] = enc[j]
      /\ enc'[i].entry = enc[i].entry /\ enc'[i].proc = "exited" /\ enc'[i].state = "failed"
  BY <1>1 DEF StartFails, Failed, Encoding
<1>3. /\ UNCHANGED <<retained, lastTouch, killGate, seq, restarting, now>>
      /\ rows' \subseteq Ids /\ NoteFailures({i})
  BY DEF StartFails, maps, TypeInv, Ages
<1> QED BY <1>1, <1>2, <1>3, FailsTyped

LEMMA WaitTyped ==
    ASSUME TypeInv, NEW i \in Ids, NEW ok \in BOOLEAN, WaitLoop(i, ok)
    PROVE  Ages' /\ Unspawned' /\ FailuresCounted'
<1>1. i \in DOMAIN enc /\ enc[i] \in Encoding
  BY EncodingFields DEF WaitLoop, Live, TypeInv, ManagerInv
<1> DEFINE noted == enc[i].state \notin {"failed", "stopping"}
<1>2. /\ DOMAIN enc' = DOMAIN enc /\ \A j \in DOMAIN enc \ {i} : enc'[j] = enc[j]
      /\ enc'[i].entry = enc[i].entry /\ enc'[i].proc = "exited"
      /\ enc'[i].state = IF ~noted THEN enc[i].state ELSE IF ok THEN "ended" ELSE "failed"
  BY <1>1 DEF WaitLoop, Encoding
<1>3. /\ UNCHANGED <<retained, lastTouch, killGate, seq, restarting, now>>
      /\ rows' \subseteq Ids
  BY RecordedTyped DEF WaitLoop, maps
<1>4. CASE noted /\ ~ok
  <2>1. NoteFailures({i}) /\ enc'[i].state = "failed"
    BY <1>2, <1>4 DEF WaitLoop
  <2> QED BY <1>1, <1>2, <1>3, <1>4, <2>1, FailsTyped
<1>5. CASE ~(noted /\ ~ok)
  <2>1. UNCHANGED limits
    BY <1>3, <1>5 DEF WaitLoop, limits
  <2>2. enc[i].state = "failed" => enc'[i].state = "failed"
    BY <1>2
  <2> QED BY <1>1, <1>2, <1>3, <2>1, <2>2, GoroutineTyped
<1> QED BY <1>4, <1>5

LEMMA SweepTyped ==
    ASSUME TypeInv, NEW p \in Prunings, Sweep(p)
    PROVE  Ages' /\ Unspawned' /\ FailuresCounted'
<1> DEFINE S == {i \in byID : Stalled(i)}
<1>1. S \in SUBSET DOMAIN enc /\ \A i \in byID : i \in DOMAIN enc
  BY DEF TypeInv, ManagerInv, TrackedLive
<1>2. \A i \in S : enc[i].state # "failed" /\ enc[i].proc # "reserved"
  <2> TAKE i \in S
  <2>1. Working(i) /\ enc[i].age > StallTimeout /\ i \in DOMAIN enc
    BY <1>1 DEF Stalled
  <2>2. StallTimeout \in Nat
    BY Limits
  <2>3. enc[i].age # 0
    BY <2>1, <2>2
  <2> QED BY <2>1, <2>3 DEF Working, TypeInv, Unspawned
<1>3. enc' = [i \in DOMAIN enc |->
                 IF i \notin byID THEN enc[i]
                 ELSE [(IF Stalled(i) THEN Failed(enc[i]) ELSE enc[i]) EXCEPT !.pruned = p[i]]]
  BY DEF Sweep
<1>4. \A i \in DOMAIN enc :
         /\ i \in DOMAIN enc' /\ enc'[i].entry = enc[i].entry /\ enc'[i].proc = enc[i].proc
         /\ enc'[i].tail = enc[i].tail
         /\ enc'[i].state = IF i \in S THEN "failed" ELSE enc[i].state
         /\ i \notin S => enc'[i].age = enc[i].age
  <2> TAKE i \in DOMAIN enc
  <2>1. enc[i] \in Encoding
    BY EncodingFields DEF TypeInv, ManagerInv
  <2>0. i \in DOMAIN enc' /\ (i \in S <=> i \in byID /\ Stalled(i))
    BY <1>3
  <2> HIDE DEF S
  <2>2. CASE i \notin byID
    BY <1>3, <2>0, <2>2
  <2>3. CASE i \in byID /\ Stalled(i)
    <3>1. enc'[i] = [Failed(enc[i]) EXCEPT !.pruned = p[i]]
      BY <1>3, <2>3
    <3> QED BY <2>0, <2>1, <2>3, <3>1 DEF Failed, Encoding
  <2>4. CASE i \in byID /\ ~Stalled(i)
    <3>1. enc'[i] = [enc[i] EXCEPT !.pruned = p[i]]
      BY <1>3, <2>4
    <3> QED BY <2>0, <2>1, <2>4, <3>1 DEF Encoding
  <2> QED BY <2>2, <2>3, <2>4
<1>5. DOMAIN enc' = DOMAIN enc
  BY <1>3
<1>6. NoteFailures(S) /\ UNCHANGED <<killGate, seq, rows, restarting, now>>
  BY DEF Sweep
<1> HIDE DEF S
<1>7. /\ FailuresCounted'
      /\ DOMAIN blocked' \subseteq Entries
      /\ \A e \in DOMAIN blocked' : blocked'[e] \in 0..Cooldown
  BY <1>1, <1>2, <1>4, <1>5, <1>6, FailuresNoted
<1>8. Unspawned'
  BY <1>2, <1>4, <1>5 DEF TypeInv, Unspawned
<1>9. /\ DOMAIN lastTouch' \subseteq DOMAIN lastTouch
      /\ \A c \in DOMAIN lastTouch' : lastTouch'[c] = lastTouch[c]
  BY DEF Sweep, Without
<1>10. \A i \in DOMAIN retained' :
          retained'[i].left = Retention \/ (i \in DOMAIN retained /\ retained'[i] = retained[i])
  <2> DEFINE lists == [i \in TornDown |-> [entry |-> enc[i].entry, left |-> Retention,
                                           list |-> {n \in Kept(i) : n >= enc[i].base + p[i]}]]
  <2>1. retained' = [i \in (DOMAIN retained \ Expired) \cup TornDown |->
                       IF i \in TornDown THEN lists[i] ELSE retained[i]]
    BY DEF Sweep
  <2>2. \A i \in TornDown : lists[i].left = Retention
    OBVIOUS
  <2> HIDE DEF lists
  <2> QED BY <2>1, <2>2
<1>11. \A i \in DOMAIN retained' : retained'[i].left \in 0..Retention
  BY <1>10, Limits DEF TypeInv, Ages
<1>12. Horizon' = Horizon
  BY DEF Horizon, EndOf
<1>13. Ages'
  BY <1>6, <1>7, <1>9, <1>11, <1>12 DEF TypeInv, Ages
<1> QED BY <1>7, <1>8, <1>13

LEMMA OperatorTyped ==
    ASSUME TypeInv, NEW c \in Channels,
           \/ RestartChannel(c) \/ KillChannel(c)
           \/ \E l \in BurnChoices : SetBurnSubtitleLanguage(c, l)
    PROVE  Ages' /\ Unspawned' /\ FailuresCounted'
<1>1. UNCHANGED <<enc, lastTouch, restarts, blocked, seq, rows, now>>
  BY DEF RestartChannel, KillChannel, SetBurnSubtitleLanguage, maps, limits
<1>2. retained' = retained \/ \E S : retained' = Retain(retained, S)
  BY DEF RestartChannel, KillChannel, SetBurnSubtitleLanguage, DetachChannel, maps
<1>3. killGate' \in [Channels -> 0..KillGate]
  BY Limits DEF TypeInv, Ages, RestartChannel, KillChannel, SetBurnSubtitleLanguage, limits
<1>4. restarting' \subseteq Channels
  BY DEF TypeInv, Ages, RestartChannel, KillChannel, SetBurnSubtitleLanguage
<1>5. Ages'
  BY <1>1, <1>2, <1>3, <1>4, AgesStay DEF TypeInv, Ages
<1>6. Unspawned'
  BY <1>1 DEF TypeInv, Unspawned
<1>7. restarts' \in [Entries -> Nat] /\ \A e \in Entries : restarts'[e] <= restarts[e]
  BY <1>1 DEF TypeInv, FailuresCounted
<1>8. FailuresCounted'
  BY <1>1, <1>7, CountStays DEF TypeInv, ManagerInv
<1> QED BY <1>5, <1>6, <1>8

LEMMA OlderBounded ==
    \A cap \in Nat : \A n \in 0..cap : Older(n, cap) \in 0..cap /\ Sooner(n) \in 0..cap
BY DEF Older, Sooner

LEMMA TickTyped ==
    ASSUME TypeInv, Tick
    PROVE  Ages' /\ Unspawned' /\ FailuresCounted'
<1>1. UNCHANGED <<restarts, seq, rows, restarting>>
  BY DEF Tick
<1>2. \A i \in DOMAIN retained' : retained'[i].left \in 0..Retention
  <2>1. retained' = [i \in DOMAIN retained |-> [retained[i] EXCEPT !.left = Sooner(retained[i].left)]]
    BY DEF Tick
  <2>2. \A i \in DOMAIN retained : retained[i].left \in 0..Retention
                                   /\ Sooner(retained[i].left) \in 0..Retention
    BY OlderBounded, Limits DEF TypeInv, Ages
  <2>3. ASSUME NEW i \in DOMAIN retained
        PROVE  [retained[i] EXCEPT !.left = Sooner(retained[i].left)].left = Sooner(retained[i].left)
    <3>1. retained[i] \in [entry : Entries, list : SUBSET Int, left : Nat]
      BY DEF TypeInv, ManagerInv, ManagerTypeOK
    <3> QED BY <3>1
  <2> QED BY <2>1, <2>2, <2>3
<1>3. /\ DOMAIN lastTouch' = DOMAIN lastTouch
      /\ \A c \in DOMAIN lastTouch' : lastTouch'[c] \in 0..(Grace + 1)
  <2>1. Grace + 1 \in Nat
    BY Limits
  <2>2. lastTouch' = [c \in DOMAIN lastTouch |-> Older(lastTouch[c], Grace + 1)]
    BY DEF Tick
  <2> QED BY <2>1, <2>2, OlderBounded DEF TypeInv, Ages
<1>4. /\ DOMAIN blocked' = DOMAIN blocked
      /\ \A e \in DOMAIN blocked' : blocked'[e] \in 0..Cooldown
  BY OlderBounded, Limits DEF Tick, TypeInv, Ages
<1>5. killGate' \in [Channels -> 0..KillGate]
  BY OlderBounded, Limits DEF Tick, TypeInv, Ages
<1>6. now' \in 0..Horizon /\ Horizon' = Horizon
  BY OlderBounded, HorizonNat DEF Tick, TypeInv, Ages, Horizon, EndOf
<1>7. Ages'
  BY <1>1, <1>2, <1>3, <1>4, <1>5, <1>6 DEF TypeInv, Ages
<1>8. \A i \in DOMAIN enc :
         /\ enc'[i].entry = enc[i].entry /\ enc'[i].proc = enc[i].proc
         /\ enc'[i].state = enc[i].state /\ enc[i].proc # "reserved"
  <2> TAKE i \in DOMAIN enc
  <2>1. enc[i] \in Encoding
    BY EncodingFields DEF TypeInv, ManagerInv
  <2>2. enc[i].proc # "reserved"
    BY DEF Tick, Quiet
  <2>3. enc'[i] = IF Working(i) THEN [enc[i] EXCEPT !.age = Older(enc[i].age, StallTimeout + 1)] ELSE enc[i]
    BY DEF Tick
  <2> QED BY <2>1, <2>2, <2>3 DEF Encoding
<1>9. DOMAIN enc' = DOMAIN enc
  BY DEF Tick
<1>10. Unspawned'
  BY <1>8, <1>9 DEF Unspawned
<1>11. restarts' \in [Entries -> Nat] /\ \A e \in Entries : restarts'[e] <= restarts[e]
  BY <1>1 DEF TypeInv, FailuresCounted
<1>12. FailuresCounted'
  BY <1>1, <1>8, <1>9, <1>11, CountStays DEF TypeInv, ManagerInv
<1> QED BY <1>7, <1>10, <1>12

\* A manager that has just started, at any time.
Started ==
    /\ enc = Empty /\ retained = Empty /\ lastTouch = Empty /\ blocked = Empty
    /\ restarts = [e \in Entries |-> 0] /\ killGate = [c \in Channels |-> 0]
    /\ seq = 0 /\ rows = {} /\ restarting = {} /\ now \in 0..Horizon

LEMMA StartedTyped == Started => Ages /\ Unspawned /\ FailuresCounted
<1> SUFFICES ASSUME Started PROVE Ages /\ Unspawned /\ FailuresCounted
  OBVIOUS
<1>1. DOMAIN Empty = {}
  BY DEF Empty
<1>2. Ages
  BY <1>1, Limits DEF Started, Ages
<1>3. Unspawned
  BY <1>1 DEF Started, Unspawned
<1>4. ASSUME NEW e \in Entries PROVE restarts[e] + Cardinality(NotFailed(e)) <= seq
  <2>1. NotFailed(e) = {}
    BY <1>1 DEF Started, NotFailed
  <2>2. Cardinality({}) = 0
    BY FS_EmptySet
  <2> QED BY <2>1, <2>2 DEF Started
<1>5. FailuresCounted
  BY <1>4 DEF Started, FailuresCounted
<1> QED BY <1>2, <1>3, <1>5

LEMMA TypeStep ==
    ASSUME TypeInv, [Next]_vars
    PROVE  TypeInv'
<1>0. ManagerInv'
  BY ManagerStep DEF TypeInv
<1> SUFFICES Ages' /\ Unspawned' /\ FailuresCounted'
  BY <1>0 DEF TypeInv
<1>1. CASE \E e \in Entries : \/ ReserveNothing(e) \/ ReserveBlocked(e)
                              \/ ReserveNew(e) \/ ReserveFull(e)
  BY <1>1, AdmitTyped, ReserveNewTyped
<1>2. CASE \E e \in Entries, d \in Channels : ReserveEvict(e, d)
  BY <1>2, AdmitTyped
<1>3. CASE \E i \in Ids : \/ StartReserved(i) \/ StartFails(i)
                          \/ TailOnce(i) \/ TailEnd(i)
                          \/ \E ok \in BOOLEAN : WaitLoop(i, ok)
  BY <1>3, StartTyped, StartFailsTyped, TailTyped, TailEndTyped, WaitTyped
<1>4. CASE StopBegin \/ StopEnd \/ SweepStopEnd
  BY <1>4, StopTyped
<1>5. CASE \E p \in Prunings : Sweep(p)
  BY <1>5, SweepTyped
<1>6. CASE \E c \in Channels : \/ RestartChannel(c) \/ KillChannel(c)
                               \/ \E l \in BurnChoices : SetBurnSubtitleLanguage(c, l)
  BY <1>6, OperatorTyped
<1>7. CASE NewManager
  <2>1. Horizon' = Horizon
    BY DEF Horizon, EndOf
  <2>2. Started'
    BY <1>7, <2>1 DEF NewManager, Started, TypeInv, Ages
  <2> QED BY <2>2, StartedTyped, PTL
<1>8. CASE Tick
  BY <1>8, TickTyped
<1>9. CASE UNCHANGED vars
  <2>1. UNCHANGED <<enc, retained, lastTouch, limits, seq, rows, restarting, now>>
    BY <1>9 DEF vars, limits
  <2>2. Ages' /\ Unspawned'
    BY <2>1, AgesStay DEF TypeInv, Ages, Unspawned, limits
  <2>3. restarts' \in [Entries -> Nat] /\ \A e \in Entries : restarts'[e] <= restarts[e]
    BY <2>1 DEF TypeInv, FailuresCounted, limits
  <2>4. FailuresCounted'
    BY <2>1, <2>3, CountStays DEF TypeInv, ManagerInv
  <2> QED BY <2>2, <2>4
<1> QED
  BY <1>1, <1>2, <1>3, <1>4, <1>5, <1>6, <1>7, <1>8, <1>9 DEF Next

\* Ages, cool-downs and gates keep within their limits, and however encodings
\* fail, stall, are stopped and are replaced, an entry never has more failures
\* counted against it than encodings were handed out: none is counted twice.
THEOREM ManagerTyped == Spec => []TypeOK
<1>1. Init => TypeInv
  <2> SUFFICES ASSUME Init PROVE TypeInv
    OBVIOUS
  <2>1. Fresh /\ Started
    BY HorizonNat DEF Init, Fresh, Started
  <2> QED BY <2>1, FreshKeeps, StartedTyped DEF TypeInv
<1>2. TypeInv /\ [Next]_vars => TypeInv'
  BY TypeStep
<1>3. TypeInv => TypeOK
  <2> SUFFICES ASSUME TypeInv PROVE TypeOK
    OBVIOUS
  <2>1. MaxStarts \in Nat /\ seq \in 0..MaxStarts
    BY Limits DEF TypeInv, ManagerInv, ManagerTypeOK
  <2>2. DOMAIN encodings \subseteq Channels /\ UNION Range(encodings) \subseteq Ids
    BY DEF TypeInv, ManagerInv, ManagerTypeOK, Range
  <2>3. byID \subseteq Ids
    BY EncodingFields DEF TypeInv, ManagerInv, TrackedLive
  <2>4. DOMAIN retained \subseteq Ids /\ dirs \subseteq Ids
    BY <2>1 DEF TypeInv, ManagerInv, ManagerTypeOK, Ids
  <2>5. restarts \in [Entries -> 0..MaxStarts]
    <3>1. ASSUME NEW e \in Entries PROVE restarts[e] \in 0..MaxStarts
      <4>1. Cardinality(NotFailed(e)) \in Nat
        BY NotFailedFinite DEF TypeInv, ManagerInv
      <4>2. restarts[e] \in Nat /\ restarts[e] + Cardinality(NotFailed(e)) <= seq
        BY DEF TypeInv, FailuresCounted
      <4> QED BY ONLY <2>1, <4>1, <4>2
    <3> QED BY <3>1 DEF TypeInv, FailuresCounted
  <2>6. burn \in [Channels -> BurnChoices]
    BY DEF TypeInv, ManagerInv, ManagerTypeOK
  <2>7. Range(lastTouch) \subseteq 0..(Grace + 1) /\ Range(blocked) \subseteq 0..Cooldown
    BY DEF TypeInv, Ages, Range
  <2> QED BY <2>1, <2>2, <2>3, <2>4, <2>5, <2>6, <2>7 DEF TypeInv, Ages, TypeOK
<1> QED BY <1>1, <1>2, <1>3, PTL DEF Spec

-----------------------------------------------------------------------------
(***************************************************************************)
(* The manager implements EncodingFeed: every critical section is a step   *)
(* of the feed, or leaves it alone.                                        *)
(***************************************************************************)

FeedStep == [Feed!Next]_(Feed!feed)

\* The last number an encoding has listed.
Newest(i) == enc[i].base + enc[i].parsed - 1

\* What feedTop is: the least of the last number listed and the high water.
TopFacts ==
    \A e \in Entries :
        /\ feedTop[e] \in Int /\ highWater[e] \in Int /\ feedTop[e] <= highWater[e]
        /\ \A i \in byID : enc[i].entry = e => Newest(i) \in Int /\ feedTop[e] <= Newest(i)
        /\ \/ feedTop[e] = highWater[e]
           \/ \E i \in byID : enc[i].entry = e /\ feedTop[e] = Newest(i)

LEMMA LeastOfTwo ==
    ASSUME NEW x \in Int, NEW y \in Int
    PROVE  LET n == CHOOSE n \in {x} \cup {y} : \A z \in {x} \cup {y} : n <= z
           IN  n \in {x, y} /\ n <= x /\ n <= y
<1>1. \E n \in {x} \cup {y} : \A z \in {x} \cup {y} : n <= z
  OBVIOUS
<1> QED
  BY <1>1

LEMMA TopHolds == ManagerInv => TopFacts
<1> SUFFICES ASSUME ManagerInv, NEW e \in Entries
             PROVE  /\ feedTop[e] \in Int /\ highWater[e] \in Int /\ feedTop[e] <= highWater[e]
                    /\ \A i \in byID : enc[i].entry = e => Newest(i) \in Int /\ feedTop[e] <= Newest(i)
                    /\ \/ feedTop[e] = highWater[e]
                       \/ \E i \in byID : enc[i].entry = e /\ feedTop[e] = Newest(i)
  BY DEF TopFacts
<1> DEFINE S == TrackedFor(e)
           tops == {enc[i].base + enc[i].parsed - 1 : i \in S}
           least == CHOOSE n \in tops \cup {highWater[e]} : \A x \in tops \cup {highWater[e]} : n <= x
<1>1. S = {i \in byID : enc[i].entry = e} /\ highWater[e] \in Int
  BY TrackedForSubset DEF ManagerInv, ManagerTypeOK
<1>2. feedTop[e] = least
  BY DEF feedTop
<1>3. CASE S = {}
  <2>1. tops \cup {highWater[e]} = {highWater[e]}
    BY <1>3
  <2>2. least = highWater[e]
    BY <1>1, <2>1
  <2>3. \A i \in byID : enc[i].entry # e
    BY <1>1, <1>3
  <2> HIDE DEF least, S
  <2> QED BY <1>1, <1>2, <2>2, <2>3
<1>4. CASE S # {}
  <2>1. PICK i \in byID : enc[i].entry = e
    BY <1>1, <1>4
  <2>2. \A j \in byID : enc[j].entry = e => j = i
    BY <2>1 DEF ManagerInv, OnePerEntry
  <2>3. Newest(i) \in Int
    BY <2>1, EncodingFields DEF Newest, ManagerInv, TrackedLive
  <2>4. tops \cup {highWater[e]} = {Newest(i)} \cup {highWater[e]}
    BY <1>1, <2>1, <2>2 DEF Newest
  <2> HIDE DEF tops
  <2>5. least \in {Newest(i), highWater[e]} /\ least <= Newest(i) /\ least <= highWater[e]
    <3> DEFINE x == Newest(i)
               y == highWater[e]
               two == {x} \cup {y}
               n == CHOOSE n \in two : \A z \in two : n <= z
    <3>1. x \in Int /\ y \in Int
      BY <1>1, <2>3
    <3>2. n = least
      BY <2>4
    <3> HIDE DEF x, y
    <3>3. n \in {x, y} /\ n <= x /\ n <= y
      BY <3>1, LeastOfTwo
    <3> QED BY <3>2, <3>3 DEF x, y
  <2> HIDE DEF least
  <2> QED BY <1>1, <1>2, <2>1, <2>2, <2>3, <2>5
<1> QED BY <1>3, <1>4

LEMMA TopHoldsNext == ManagerInv' => TopFacts'
BY TopHolds, PTL

FeedTypes ==
    /\ feedEntryOf \in [Ids -> Entries \cup {None}]
    /\ feedListed \in [Ids -> SUBSET Int]
    /\ feedTop \in [Entries -> Int]

LEMMA FeedTyped == ManagerInv => FeedTypes
<1> SUFFICES ASSUME ManagerInv PROVE FeedTypes
  OBVIOUS
<1>1. \A i \in byID : i \in DOMAIN enc /\ enc[i].entry \in Entries /\ Kept(i) \in SUBSET Int
  BY EncodingFields DEF Kept, ManagerInv, TrackedLive
<1>2. \A i \in DOMAIN retained : retained[i].entry \in Entries /\ retained[i].list \in SUBSET Int
  BY DEF ManagerInv, ManagerTypeOK
<1>3. feedTop = [e \in Entries |-> feedTop[e]] /\ \A e \in Entries : feedTop[e] \in Int
  BY TopHolds DEF TopFacts, feedTop
<1> QED BY <1>1, <1>2, <1>3 DEF FeedTypes, feedEntryOf, feedListed

LEMMA FeedTypedNext == ManagerInv' => FeedTypes'
BY FeedTyped, PTL

-----------------------------------------------------------------------------
(* The kinds of steps.                                                     *)

LEMMA TopSame ==
    ASSUME ManagerInv, UNCHANGED <<encodings, byID, highWater>>,
           \A i \in byID : /\ enc'[i].entry = enc[i].entry /\ enc'[i].base = enc[i].base
                           /\ enc'[i].parsed = enc[i].parsed
    PROVE  feedTop' = feedTop
<1> DEFINE last(e) == {enc[i].base + enc[i].parsed - 1 : i \in TrackedFor(e)} \cup {highWater[e]}
<1>1. ASSUME NEW e \in Entries
      PROVE  last(e)' = last(e)
  <2>1. ChannelOf[e] \in Channels /\ Tracked(ChannelOf[e]) \subseteq byID
    BY ChannelOfEntry DEF ManagerInv, Indexed
  <2>2. Tracked(ChannelOf[e])' = Tracked(ChannelOf[e])
    BY DEF Tracked
  <2>3. TrackedFor(e)' = TrackedFor(e) /\ TrackedFor(e) \subseteq byID
    BY <2>1, <2>2 DEF TrackedFor
  <2> QED BY <2>3
<1>2. feedTop = [e \in Entries |-> CHOOSE n \in last(e) : \A x \in last(e) : n <= x]
  BY DEF feedTop
<1>3. feedTop' = [e \in Entries |-> CHOOSE n \in last(e)' : \A x \in last(e)' : n <= x]
  BY DEF feedTop
<1> HIDE DEF last
<1> QED BY <1>1, <1>2, <1>3

\* Sections that change nothing of what the feed shows.
LEMMA FeedSame ==
    ASSUME ManagerInv,
           UNCHANGED <<encodings, byID, retained, highWater, now>>,
           \A i \in byID : /\ enc'[i].entry = enc[i].entry /\ enc'[i].base = enc[i].base
                           /\ enc'[i].parsed = enc[i].parsed /\ enc'[i].pruned = enc[i].pruned
    PROVE  FeedStep
<1>1. feedEntryOf' = feedEntryOf /\ feedListed' = feedListed
  BY DEF feedEntryOf, feedListed, Kept
<1>2. feedTop' = feedTop
  BY TopSame
<1>3. feedOver' = feedOver
  BY DEF feedOver
<1> QED BY <1>1, <1>2, <1>3 DEF FeedStep, Feed!feed

\* Sections that detach encodings, prune lists or let them expire.
LEMMA FeedWithdraws ==
    ASSUME ManagerInv, ManagerInv', UNCHANGED now, byID' \subseteq byID,
           byID \ byID' \subseteq DOMAIN retained',
           DOMAIN retained' \subseteq DOMAIN retained \cup byID,
           \A i \in byID' : enc'[i].entry = enc[i].entry /\ Kept(i)' \subseteq Kept(i),
           \A i \in byID \ byID' : /\ retained'[i].entry = enc[i].entry
                                   /\ retained'[i].list \subseteq Kept(i),
           \A i \in DOMAIN retained' \ byID : retained'[i].entry = retained[i].entry
                                              /\ retained'[i].list = retained[i].list,
           \A e \in Entries : \/ feedTop'[e] >= feedTop[e]
                              \/ e \in feedOver /\ \A i \in byID' : enc[i].entry # e
    PROVE  FeedStep
<1>1. /\ feedEntryOf' \in [Ids -> Entries \cup {None}]
      /\ feedListed' \in [Ids -> SUBSET Int]
      /\ feedTop' \in [Entries -> Int]
  BY FeedTypedNext DEF FeedTypes
<1>2. \A i \in byID' : enc'[i].entry # None /\ i \notin DOMAIN retained'
  BY EncodingFields, OnDemandAssumption
  DEF ManagerInv, TrackedLive, Apart, ManagerTypeOK, Encoding
<1>3. \A i \in DOMAIN retained' : retained'[i].entry # None /\ i \notin byID'
  BY OnDemandAssumption DEF ManagerInv, Apart, ManagerTypeOK
<1>4. \A i \in Ids : /\ feedEntryOf'[i] = IF i \in byID' THEN enc'[i].entry
                                          ELSE IF i \in DOMAIN retained' THEN retained'[i].entry ELSE None
                     /\ feedListed'[i] = IF i \in byID' THEN Kept(i)'
                                         ELSE IF i \in DOMAIN retained' THEN retained'[i].list ELSE {}
                     /\ feedEntryOf[i] = IF i \in byID THEN enc[i].entry
                                         ELSE IF i \in DOMAIN retained THEN retained[i].entry ELSE None
                     /\ feedListed[i] = IF i \in byID THEN Kept(i)
                                        ELSE IF i \in DOMAIN retained THEN retained[i].list ELSE {}
  BY DEF feedEntryOf, feedListed
<1>5. ASSUME NEW i \in Ids
      PROVE  /\ feedListed'[i] \subseteq feedListed[i]
             /\ feedEntryOf'[i] \in {feedEntryOf[i], None}
             /\ feedEntryOf'[i] = None => feedListed'[i] = {} /\ i \notin byID'
  BY <1>2, <1>3, <1>4
<1>6. \A i \in byID' : i \in Ids /\ feedEntryOf[i] = enc[i].entry
  BY <1>4, EncodingFields DEF ManagerInv, TrackedLive
<1>7. \A e \in Entries : \/ feedTop'[e] >= feedTop[e]
                         \/ e \in feedOver /\ \A i \in byID' : feedEntryOf[i] # e
  BY <1>6
<1>8. feedOver' = feedOver
  BY DEF feedOver
<1>9. Feed!Withdraw
  BY <1>1, <1>5, <1>7, <1>8 DEF Feed!Withdraw, None, Feed!None
<1> QED BY <1>9 DEF FeedStep, Feed!Next

\* Where nothing new is tracked and the high water does not fall, no top falls.
LEMMA TopRises ==
    ASSUME ManagerInv, ManagerInv', NEW e \in Entries, highWater'[e] >= highWater[e],
           \A i \in byID' : enc'[i].entry = e =>
               /\ i \in byID /\ enc[i].entry = e
               /\ enc'[i].base = enc[i].base /\ enc'[i].parsed = enc[i].parsed
    PROVE  feedTop'[e] >= feedTop[e]
<1>1. TopFacts /\ TopFacts'
  BY TopHolds, TopHoldsNext
<1>2. /\ feedTop[e] \in Int /\ feedTop'[e] \in Int /\ highWater[e] \in Int /\ highWater'[e] \in Int
      /\ feedTop[e] <= highWater[e]
      /\ \A i \in byID : enc[i].entry = e => feedTop[e] <= Newest(i)
      /\ \/ feedTop'[e] = highWater'[e]
         \/ \E i \in byID' : enc'[i].entry = e /\ feedTop'[e] = Newest(i)'
  BY <1>1 DEF TopFacts
<1>3. CASE feedTop'[e] = highWater'[e]
  BY <1>2, <1>3
<1>4. ASSUME NEW i \in byID', enc'[i].entry = e, feedTop'[e] = Newest(i)'
      PROVE  feedTop'[e] >= feedTop[e]
  <2>1. Newest(i)' = Newest(i) /\ feedTop[e] <= Newest(i)
    BY <1>2, <1>4 DEF Newest
  <2> QED BY <1>2, <1>4, <2>1
<1> QED BY <1>2, <1>3, <1>4

-----------------------------------------------------------------------------
(* The sections, one kind after the other.                                 *)

LEMMA DetachFeed ==
    ASSUME ManagerInv, ManagerInv', NEW S \in SUBSET byID, byID' = byID \ S,
           retained' = Retain(retained, S), \A e \in Entries : highWater'[e] >= highWater[e],
           UNCHANGED <<enc, now>>
    PROVE  FeedStep
<1>1. S \in SUBSET DOMAIN enc /\ ManagerTypeOK /\ DOMAIN retained \cap byID = {}
  BY DEF ManagerInv, TrackedLive, Apart
<1>2. /\ DOMAIN retained' = DOMAIN retained \cup S
      /\ \A i \in S : retained'[i].entry = enc[i].entry /\ retained'[i].list = Kept(i)
      /\ \A i \in DOMAIN retained \ S : retained'[i] = retained[i]
  BY <1>1, RetainAdds
<1>3. \A e \in Entries : feedTop'[e] >= feedTop[e]
  BY TopRises
<1>4. \A i \in byID' : enc'[i].entry = enc[i].entry /\ Kept(i)' \subseteq Kept(i)
  BY DEF Kept
<1> QED BY <1>1, <1>2, <1>3, <1>4, FeedWithdraws

LEMMA ReserveDetachFeed ==
    ASSUME ManagerInv, ManagerInv', NEW e \in Entries,
           \/ ReserveBlocked(e) \/ ReserveFull(e)
           \/ \E d \in Channels : ReserveEvict(e, d)
    PROVE  FeedStep
<1>1. PICK S \in SUBSET byID :
        /\ byID' = byID \ S /\ retained' = Retain(retained, S)
        /\ highWater' = RetainRaised(S) /\ UNCHANGED <<enc, now>>
  <2>1. /\ TrackedFor(e) \in SUBSET byID
        /\ \A d \in Channels : TrackedFor(e) \cup Tracked(d) \in SUBSET byID
    BY TrackedForSubset
  <2>2. CASE ReserveBlocked(e) \/ ReserveFull(e)
    BY <2>1, <2>2 DEF ReserveBlocked, ReserveFull
  <2>3. ASSUME NEW d \in Channels, ReserveEvict(e, d)
        PROVE  \E S \in SUBSET byID :
                  /\ byID' = byID \ S /\ retained' = Retain(retained, S)
                  /\ highWater' = RetainRaised(S) /\ UNCHANGED <<enc, now>>
    BY <2>1, <2>3 DEF ReserveEvict
  <2> QED BY <2>2, <2>3
<1>2. \A x \in Entries : highWater'[x] >= highWater[x]
  BY <1>1, RetainRaises
<1> QED BY <1>1, <1>2, DetachFeed

LEMMA OperatorFeed ==
    ASSUME ManagerInv, ManagerInv', NEW c \in Channels, RestartChannel(c) \/ KillChannel(c)
    PROVE  FeedStep
<1>1. Tracked(c) \in SUBSET byID
  BY DEF ManagerInv, Indexed
<1>2. /\ byID' = byID \ Tracked(c) /\ retained' = Retain(retained, Tracked(c))
      /\ highWater' = ParsedRaised(Tracked(c)) /\ UNCHANGED <<enc, now>>
  BY DEF RestartChannel, KillChannel, DetachChannel
<1>3. \A x \in Entries : highWater'[x] >= highWater[x]
  BY <1>1, <1>2, ParsedRaises
<1> QED BY <1>1, <1>2, <1>3, DetachFeed

\* A reservation opens an encoding whose first number is past the entry's high water.
LEMMA ReserveNewFeed ==
    ASSUME ManagerInv, ManagerInv', NEW e \in Entries, ReserveNew(e)
    PROVE  FeedStep
<1> DEFINE S == TrackedFor(e)
           water == RetainRaised(S)
           r == Reserved(e, burn[ChannelOf[e]], Position(e), BaseSeq(e, water[e]))
<1>1. S \in SUBSET byID /\ S \in SUBSET DOMAIN enc /\ byID \in SUBSET DOMAIN enc
      /\ S = {j \in byID : enc[j].entry = e}
  BY TrackedForSubset
<1>2. PICK i \in Ids : i = seq + 1 /\ i \notin DOMAIN enc /\ i \notin byID /\ i \notin DOMAIN retained
  <2>1. seq < MaxStarts /\ seq \in 0..MaxStarts /\ MaxStarts \in Nat
    BY OnDemandAssumption DEF ReserveNew, Admissible, Request, ManagerInv, ManagerTypeOK
  <2>2. seq + 1 \notin 1..seq /\ seq + 1 \in 1..MaxStarts
    BY <2>1
  <2> QED BY <1>1, <2>2 DEF Ids, ManagerInv, ManagerTypeOK
<1>3. /\ enc' = With(enc, i, r) /\ byID' = (byID \ S) \cup {i}
      /\ retained' = Retain(retained, S) /\ highWater' = water /\ now' = now
  BY <1>2 DEF ReserveNew
<1>4. /\ \A x \in Entries : water[x] >= highWater[x] /\ highWater[x] \in Int
      /\ water[e] \in Int
  BY <1>1, RetainRaises DEF ManagerInv, ManagerTypeOK
<1>5. r.entry = e /\ r.base \in Int /\ r.base > water[e] /\ r.parsed = 0 /\ r.pruned = 0
  <2>1. ManagerTypeOK /\ water[e] \in Int
    BY <1>4 DEF ManagerInv
  <2> HIDE DEF water
  <2> QED BY <2>1, BaseTypes DEF Reserved
<1> HIDE DEF r, S, water
<1>6. enc'[i] = r /\ \A j \in DOMAIN enc : enc'[j] = enc[j]
  BY <1>2, <1>3 DEF With
<1>7. /\ DOMAIN retained' = DOMAIN retained \cup S
      /\ \A j \in S : retained'[j].entry = enc[j].entry /\ retained'[j].list = Kept(j)
      /\ \A j \in DOMAIN retained \ S : retained'[j] = retained[j]
  <2>1. ManagerTypeOK
    BY DEF ManagerInv
  <2> QED BY <1>1, <1>3, <2>1, RetainAdds
<1>8. e \notin feedOver /\ feedOver' = feedOver
  <2>1. now <= EndOf(e) + Lag /\ now \in Nat /\ EndOf(e) \in Int /\ Lag \in Int
    BY OnDemandAssumption DEF ReserveNew, Admissible, Request, EndOf, ManagerInv, ManagerTypeOK
  <2> QED BY <1>3, <2>1 DEF feedOver
<1>9. feedEntryOf[i] = None /\ \A j \in byID : j \in Ids /\ feedEntryOf[j] = enc[j].entry
  BY <1>1, <1>2, EncodingFields DEF feedEntryOf, ManagerInv
<1>10. byID \cap DOMAIN retained = {}
  BY DEF ManagerInv, Apart
<1>11. feedEntryOf' = [feedEntryOf EXCEPT ![i] = e]
  <2>1. ASSUME NEW j \in Ids
        PROVE  feedEntryOf'[j] = IF j = i THEN e ELSE feedEntryOf[j]
    BY <1>1, <1>2, <1>3, <1>5, <1>6, <1>7, <1>10 DEF feedEntryOf
  <2>2. feedEntryOf' = [j \in Ids |-> feedEntryOf'[j]] /\ DOMAIN feedEntryOf = Ids
    BY DEF feedEntryOf
  <2> QED BY <2>1, <2>2
<1>12. feedListed' = feedListed
  <2>1. Kept(i)' = {}
    <3>1. Kept(i)' = (r.base + 0) .. (r.base + 0 - 1)
      BY <1>5, <1>6 DEF Kept
    <3> QED BY <1>5, <3>1
  <2>2. \A j \in byID : Kept(j)' = Kept(j)
    BY <1>1, <1>6 DEF Kept
  <2>3. ASSUME NEW j \in Ids
        PROVE  feedListed'[j] = feedListed[j]
    BY <1>1, <1>2, <1>3, <1>7, <1>10, <2>1, <2>2 DEF feedListed
  <2> QED BY <2>3 DEF feedListed
<1>13. ASSUME NEW x \in Entries PROVE feedTop'[x] >= feedTop[x]
  <2>1. highWater'[x] >= highWater[x]
    BY <1>3, <1>4
  <2>2. CASE x # e
    <3>1. \A j \in byID' : enc'[j].entry = x => j \in byID /\ enc'[j] = enc[j]
      BY <1>1, <1>3, <1>5, <1>6, <2>2
    <3> QED BY <2>1, <3>1, TopRises
  <2>3. CASE x = e
    <3>1. TopFacts /\ TopFacts'
      BY TopHolds, TopHoldsNext
    <3>2. /\ feedTop[e] \in Int /\ feedTop[e] <= highWater[e]
          /\ \/ feedTop'[e] = highWater'[e]
             \/ \E j \in byID' : enc'[j].entry = e /\ feedTop'[e] = Newest(j)'
      BY <3>1 DEF TopFacts
    <3>3. \A j \in byID' : enc'[j].entry = e => j = i
      BY <1>1, <1>3, <1>6
    <3>4. Newest(i)' = r.base + 0 - 1
      BY <1>5, <1>6 DEF Newest
    <3> QED BY <1>3, <1>4, <1>5, <2>3, <3>2, <3>3, <3>4
  <2> QED BY <2>2, <2>3
<1>14. feedTop' \in [Entries -> Int]
  BY FeedTypedNext DEF FeedTypes
<1>15. /\ byID' \subseteq byID \cup {i} /\ i \in byID'
       /\ \A j \in byID' \ {i} : feedEntryOf[j] # e
  BY <1>1, <1>3, <1>9
<1>16. Feed!Open(e, i)
  BY <1>8, <1>9, <1>11, <1>12, <1>13, <1>14, <1>15 DEF Feed!Open, Feed!None, None
<1> QED BY <1>2, <1>16 DEF FeedStep, Feed!Next

\* The next segment of a tracked encoding is listed past everything its entry
\* has listed; that of a detached one is only numbers skipped.
LEMMA TailOnceFeed ==
    ASSUME ManagerInv, ManagerInv', NEW i \in Ids, TailOnce(i)
    PROVE  FeedStep
<1> DEFINE e == enc[i].entry
           n == enc[i].base + enc[i].parsed
<1>1. /\ i \in DOMAIN enc /\ enc[i] \in Encoding /\ e \in Entries /\ n \in Int
      /\ enc[i].base \in Int /\ enc[i].parsed \in Nat /\ enc[i].pruned \in Nat
      /\ enc[i].pruned <= enc[i].parsed
  BY EncodingFields DEF TailOnce, Live, ManagerInv, RecordsAgree
<1>2. /\ DOMAIN enc' = DOMAIN enc /\ \A j \in DOMAIN enc \ {i} : enc'[j] = enc[j]
      /\ enc'[i].entry = e /\ enc'[i].base = enc[i].base
      /\ enc'[i].parsed = enc[i].parsed + 1 /\ enc'[i].pruned = enc[i].pruned
  BY <1>1 DEF TailOnce, Encoding
<1>3. UNCHANGED <<encodings, byID, retained, now>>
  BY DEF TailOnce, maps
<1>4. /\ highWater \in [Entries -> Int]
      /\ highWater' = [highWater EXCEPT ![e] = Largest({highWater[e], n})]
  BY DEF TailOnce, ManagerInv, ManagerTypeOK
<1>5. /\ highWater'[e] \in {highWater[e], n} /\ highWater'[e] >= highWater[e] /\ highWater'[e] >= n
      /\ \A x \in Entries \ {e} : highWater'[x] = highWater[x]
  <2> DEFINE water == highWater[e]
  <2>1. water \in Int /\ {water, n} = {water} \cup {n}
    BY <1>1, <1>4
  <2>2. highWater'[e] = Largest({water} \cup {n})
    BY <1>1, <1>4, <2>1
  <2>3. \A x \in Entries \ {e} : highWater'[x] = highWater[x]
    BY <1>4
  <2> HIDE DEF water, n, e
  <2>4. /\ Largest({water} \cup {n}) \in {water, n}
        /\ water <= Largest({water} \cup {n}) /\ n <= Largest({water} \cup {n})
    BY <1>1, <2>1, LargestOfTwo
  <2> QED BY <1>1, <2>1, <2>2, <2>3, <2>4 DEF water
<1>6. feedEntryOf' = feedEntryOf /\ feedOver' = feedOver
  BY <1>2, <1>3 DEF feedEntryOf, feedOver, ManagerInv, TrackedLive
<1>7. \A j \in byID : j \in DOMAIN enc
  BY DEF ManagerInv, TrackedLive
<1>8. CASE i \notin byID
  <2>1. \A j \in byID : enc'[j] = enc[j]
    BY <1>2, <1>7, <1>8
  <2>2. \A x \in Entries : feedTop'[x] >= feedTop[x]
    <3>1. \A x \in Entries : highWater'[x] >= highWater[x]
      BY <1>4, <1>5
    <3> QED BY <1>3, <2>1, <3>1, TopRises
  <2>3. \A j \in byID' : enc'[j].entry = enc[j].entry /\ Kept(j)' \subseteq Kept(j)
    BY <1>3, <2>1 DEF Kept
  <2> QED BY <1>3, <2>2, <2>3, FeedWithdraws
<1>9. CASE i \in byID
  <2>1. /\ TopFacts /\ TopFacts'
    BY TopHolds, TopHoldsNext
  <2>2. \A j \in byID : enc[j].entry = e => j = i
    BY <1>9 DEF ManagerInv, OnePerEntry
  <2>3. n > feedTop[e] /\ feedEntryOf[i] = e
    BY <1>1, <1>9, <2>1 DEF TopFacts, Newest, feedEntryOf
  <2>4. feedTop'[e] = n
    <3>1. Newest(i)' = n
      BY <1>1, <1>2 DEF Newest
    <3>2. /\ feedTop'[e] <= Newest(i)' /\ feedTop'[e] \in Int
          /\ feedTop'[e] = highWater'[e] \/ feedTop'[e] = Newest(i)'
      BY <1>1, <1>2, <1>3, <1>7, <1>9, <2>1, <2>2 DEF TopFacts
    <3> QED BY <1>1, <1>5, <3>1, <3>2
  <2>5. \A x \in Entries \ {e} : feedTop'[x] = feedTop[x]
    <3> SUFFICES ASSUME NEW x \in Entries \ {e} PROVE feedTop'[x] = feedTop[x]
      OBVIOUS
    <3> DEFINE last == {enc[j].base + enc[j].parsed - 1 : j \in TrackedFor(x)} \cup {highWater[x]}
    <3>1. TrackedFor(x) = {j \in byID : enc[j].entry = x}
      BY TrackedForSubset
    <3>2. TrackedFor(x)' = TrackedFor(x)
      <4>1. Tracked(ChannelOf[x])' = Tracked(ChannelOf[x]) /\ Tracked(ChannelOf[x]) \subseteq byID
        BY <1>3, ChannelOfEntry DEF Tracked, ManagerInv, Indexed
      <4> QED BY <1>2, <1>7, <4>1 DEF TrackedFor
    <3>3. last' = last
      BY <1>2, <1>5, <1>7, <3>1, <3>2
    <3>4. feedTop[x] = CHOOSE m \in last : \A y \in last : m <= y
      BY DEF feedTop
    <3>5. feedTop'[x] = CHOOSE m \in last' : \A y \in last' : m <= y
      BY DEF feedTop
    <3> HIDE DEF last
    <3> QED BY <3>3, <3>4, <3>5
  <2>6. feedTop' = [feedTop EXCEPT ![e] = n]
    <3>1. feedTop \in [Entries -> Int] /\ feedTop' \in [Entries -> Int]
      BY FeedTyped, FeedTypedNext DEF FeedTypes
    <3> HIDE DEF n, e
    <3> QED BY <2>4, <2>5, <3>1
  <2>7. Kept(i)' = Kept(i) \cup {n}
    <3>1. /\ Kept(i) = (enc[i].base + enc[i].pruned) .. (enc[i].base + enc[i].parsed - 1)
          /\ Kept(i)' = (enc[i].base + enc[i].pruned) .. (enc[i].base + enc[i].parsed)
      BY <1>1, <1>2 DEF Kept
    <3> QED BY <1>1, <3>1
  <2>8. \A j \in byID \ {i} : Kept(j)' = Kept(j)
    BY <1>2, <1>7 DEF Kept
  <2>9. feedListed' = [feedListed EXCEPT ![i] = @ \cup {n}] /\ n \in feedListed'[i]
    <3>1. /\ feedListed = [j \in Ids |-> IF j \in byID THEN Kept(j)
                            ELSE IF j \in DOMAIN retained THEN retained[j].list ELSE {}]
          /\ feedListed' = [j \in Ids |-> IF j \in byID THEN Kept(j)'
                             ELSE IF j \in DOMAIN retained THEN retained[j].list ELSE {}]
      BY <1>3 DEF feedListed
    <3> HIDE DEF n
    <3> QED BY <1>9, <2>7, <2>8, <3>1
  <2>10. Feed!List(i)
    <3> HIDE DEF n, e
    <3> QED BY <1>1, <1>3, <1>6, <1>9, <2>3, <2>6, <2>9 DEF Feed!List
  <2> QED BY <2>10 DEF FeedStep, Feed!Next
<1> QED BY <1>8, <1>9

LEMMA SweepFeed ==
    ASSUME ManagerInv, ManagerInv', NEW p \in Prunings, Sweep(p)
    PROVE  FeedStep
<1>1. /\ TornDown \in SUBSET byID /\ byID' = byID \ TornDown /\ now' = now
      /\ byID \in SUBSET DOMAIN enc /\ byID \cap DOMAIN retained = {}
  BY DEF TornDown, Sweep, ManagerInv, TrackedLive, Apart
<1>2. ASSUME NEW i \in byID'
      PROVE  enc'[i].entry = enc[i].entry /\ Kept(i)' \subseteq Kept(i)
  <2>1. /\ enc'[i].entry = enc[i].entry /\ enc'[i].base = enc[i].base /\ enc'[i].parsed = enc[i].parsed
        /\ enc[i].pruned <= enc'[i].pruned /\ enc'[i].pruned \in Nat
        /\ enc[i].base \in Int /\ enc[i].pruned \in Nat /\ enc[i].parsed \in Nat
    BY <1>1, SweptRecords, EncodingFields DEF Encoding, ManagerInv
  <2> QED BY <2>1 DEF Kept
<1>3. ASSUME NEW e \in Entries
      PROVE  \/ feedTop'[e] >= feedTop[e]
             \/ e \in feedOver /\ \A i \in byID' : enc[i].entry # e
  <2>1. CASE \E i \in TornDown : enc[i].entry = e /\ EntryOver(e)
    <3>1. now > EndOf(e) + Lag
      <4>1. Lag \in Nat /\ Trailing \in Nat /\ Lag <= Trailing /\ EndOf(e) \in Int /\ now \in Nat
        BY OnDemandAssumption DEF EndOf, ManagerInv, ManagerTypeOK
      <4> QED BY <2>1, <4>1 DEF EntryOver
    <3>2. \A i \in byID' : enc[i].entry # e
      BY <1>1, <2>1 DEF ManagerInv, OnePerEntry
    <3> QED BY <3>1, <3>2 DEF feedOver
  <2>2. CASE ~\E i \in TornDown : enc[i].entry = e /\ EntryOver(e)
    <3>1. highWater'[e] >= highWater[e]
      BY <2>2, SweptWater
    <3>2. \A i \in byID' : /\ i \in byID /\ enc'[i].entry = enc[i].entry
                           /\ enc'[i].base = enc[i].base /\ enc'[i].parsed = enc[i].parsed
      BY <1>1, SweptRecords
    <3> QED BY <3>1, <3>2, TopRises
  <2> QED BY <2>1, <2>2
<1> QED BY <1>1, <1>2, <1>3, SweptLists, FeedWithdraws

\* Time passes: entries end, and lists and numbers stay as they are.
LEMMA TickFeed ==
    ASSUME ManagerInv, Tick
    PROVE  FeedStep
<1>1. UNCHANGED <<encodings, byID, highWater>> /\ now' = Older(now, Horizon) /\ now \in Nat
  BY DEF Tick, ManagerInv, ManagerTypeOK
<1>2. /\ DOMAIN enc' = DOMAIN enc
      /\ \A i \in DOMAIN enc : /\ enc'[i].entry = enc[i].entry /\ enc'[i].base = enc[i].base
                               /\ enc'[i].parsed = enc[i].parsed /\ enc'[i].pruned = enc[i].pruned
  BY DEF Tick, ManagerInv, ManagerTypeOK, Encoding
<1>3. /\ DOMAIN retained' = DOMAIN retained
      /\ \A i \in DOMAIN retained : /\ retained'[i].entry = retained[i].entry
                                    /\ retained'[i].list = retained[i].list
  BY DEF Tick, ManagerInv, ManagerTypeOK
<1>4. \A i \in byID : i \in DOMAIN enc
  BY DEF ManagerInv, TrackedLive
<1>5. feedEntryOf' = feedEntryOf /\ feedListed' = feedListed
  BY <1>1, <1>2, <1>3, <1>4 DEF feedEntryOf, feedListed, Kept
<1>6. feedTop' = feedTop
  BY <1>1, <1>2, <1>4, TopSame
<1>7. feedOver \subseteq feedOver' /\ feedOver' \subseteq Entries
  <2>1. now <= now' /\ now' \in Nat
    BY <1>1 DEF Older
  <2>2. \A e \in Entries : EndOf(e) + Lag \in Int
    BY OnDemandAssumption DEF EndOf
  <2>3. \A e \in Entries : (EndOf(e) + Lag)' = EndOf(e) + Lag
    BY DEF EndOf
  <2> QED BY <1>1, <2>1, <2>2, <2>3 DEF feedOver
<1>8. Feed!EndEntry
  BY <1>1, <1>5, <1>6, <1>7 DEF Feed!EndEntry
<1> QED BY <1>8 DEF FeedStep, Feed!Next

LEMMA NewManagerFeed ==
    ASSUME ManagerInv, ManagerInv', NewManager
    PROVE  FeedStep
<1>1. /\ byID' = {} /\ DOMAIN retained' = {} /\ now' = now
      /\ \A e \in Entries : highWater'[e] = -1
  BY DEF NewManager, Empty
<1>2. feedEntryOf' = [i \in Ids |-> Feed!None] /\ feedListed' = [i \in Ids |-> {}]
  BY <1>1 DEF feedEntryOf, feedListed, None, Feed!None
<1>3. feedTop' = [e \in Entries |-> -1]
  <2>1. \A e \in Entries : feedTop'[e] = -1
    BY <1>1, TopHoldsNext DEF TopFacts
  <2>2. feedTop' \in [Entries -> Int]
    BY FeedTypedNext DEF FeedTypes
  <2> QED BY <2>1, <2>2
<1>4. feedOver' = feedOver
  BY <1>1 DEF feedOver
<1>5. Feed!Relaunch
  BY <1>1, <1>2, <1>3, <1>4 DEF Feed!Relaunch
<1> QED BY <1>5 DEF FeedStep, Feed!Next

\* Starting, failing, exiting, and being stopped change nothing that is listed.
LEMMA GoroutineFeed ==
    ASSUME ManagerInv, ManagerInv',
           \/ \E i \in Ids : \/ StartReserved(i) \/ StartFails(i) \/ TailEnd(i)
                             \/ \E ok \in BOOLEAN : WaitLoop(i, ok)
           \/ StopBegin \/ StopEnd \/ SweepStopEnd
    PROVE  FeedStep
<1>1. UNCHANGED <<encodings, byID, retained, highWater, now>>
  BY DEF StartReserved, StartFails, TailEnd, WaitLoop, StopBegin, StopEnd, SweepStopEnd, maps
<1>2. PICK i \in Ids, r \in Encoding :
        /\ r.entry = enc[i].entry /\ r.base = enc[i].base
        /\ r.parsed = enc[i].parsed /\ r.pruned = enc[i].pruned
        /\ i \in DOMAIN enc /\ enc' \in {[enc EXCEPT ![i] = r], Settled(i, r)}
  <2>1. ASSUME NEW i \in Ids, StartReserved(i) \/ StartFails(i) \/ TailEnd(i)
                              \/ \E ok \in BOOLEAN : WaitLoop(i, ok)
        PROVE  /\ i \in DOMAIN enc
               /\ \E r \in Encoding :
                    /\ r.entry = enc[i].entry /\ r.base = enc[i].base
                    /\ r.parsed = enc[i].parsed /\ r.pruned = enc[i].pruned
                    /\ enc' \in {[enc EXCEPT ![i] = r], Settled(i, r)}
    <3>1. i \in DOMAIN enc /\ enc[i] \in Encoding
      BY <2>1, EncodingFields DEF StartReserved, StartFails, TailEnd, WaitLoop, Live, ManagerInv
    <3> DEFINE x == enc[i]
    <3>2. CASE StartReserved(i)
      <4> DEFINE r == [x EXCEPT !.proc = "running", !.tail = TRUE]
      <4>1. enc' = [enc EXCEPT ![i] = r]
        BY <3>1, <3>2 DEF StartReserved
      <4>2. r \in Encoding /\ r.entry = x.entry /\ r.base = x.base /\ r.parsed = x.parsed
            /\ r.pruned = x.pruned
        BY <3>1 DEF Encoding
      <4> QED BY <3>1, <4>1, <4>2
    <3>3. CASE StartFails(i)
      <4> DEFINE r == [Failed(x) EXCEPT !.proc = "exited", !.done = TRUE]
      <4>1. enc' = [enc EXCEPT ![i] = r]
        BY <3>1, <3>3 DEF StartFails
      <4>2. r \in Encoding /\ r.entry = x.entry /\ r.base = x.base /\ r.parsed = x.parsed
            /\ r.pruned = x.pruned
        BY <3>1 DEF Encoding, Failed
      <4> QED BY <3>1, <4>1, <4>2
    <3>4. CASE TailEnd(i)
      <4> DEFINE r == [x EXCEPT !.tail = FALSE]
      <4>1. enc' = Settled(i, r)
        BY <3>4 DEF TailEnd
      <4>2. r \in Encoding /\ r.entry = x.entry /\ r.base = x.base /\ r.parsed = x.parsed
            /\ r.pruned = x.pruned
        BY <3>1 DEF Encoding
      <4> QED BY <3>1, <4>1, <4>2
    <3>5. ASSUME NEW ok \in BOOLEAN, WaitLoop(i, ok)
          PROVE  \E r \in Encoding :
                    /\ r.entry = enc[i].entry /\ r.base = enc[i].base
                    /\ r.parsed = enc[i].parsed /\ r.pruned = enc[i].pruned
                    /\ enc' \in {[enc EXCEPT ![i] = r], Settled(i, r)}
      <4> DEFINE noted == x.state \notin {"failed", "stopping"}
                 s == IF ~noted THEN x.state ELSE IF ok THEN "ended" ELSE "failed"
                 r == [x EXCEPT !.proc = "exited", !.done = TRUE, !.age = 0, !.state = s]
      <4>1. enc' = [enc EXCEPT ![i] = r]
        BY <3>1, <3>5 DEF WaitLoop
      <4>2. s \in {x.state, "ended", "failed"}
        OBVIOUS
      <4> HIDE DEF s
      <4>3. r \in Encoding /\ r.entry = x.entry /\ r.base = x.base /\ r.parsed = x.parsed
            /\ r.pruned = x.pruned
        BY <3>1, <4>2 DEF Encoding
      <4> QED BY <3>1, <4>1, <4>3
    <3> QED BY <2>1, <3>1, <3>2, <3>3, <3>4, <3>5
  <2>2. ASSUME NEW i \in BeingStopped, Stopping(i) \/ Stopped(i)
        PROVE  /\ i \in Ids /\ i \in DOMAIN enc
               /\ \E r \in Encoding :
                    /\ r.entry = enc[i].entry /\ r.base = enc[i].base
                    /\ r.parsed = enc[i].parsed /\ r.pruned = enc[i].pruned
                    /\ enc' \in {[enc EXCEPT ![i] = r], Settled(i, r)}
    <3> DEFINE x == enc[i]
    <3>1. i \in Ids /\ i \in DOMAIN enc /\ x \in Encoding
      BY EncodingFields DEF ManagerInv, StoppingLive
    <3>2. CASE Stopping(i)
      <4> DEFINE s == IF x.state = "failed" THEN "failed" ELSE "stopping"
                 r == [x EXCEPT !.cancelled = TRUE, !.age = 0, !.state = s]
      <4>1. enc' = [enc EXCEPT ![i] = r]
        BY <3>1, <3>2 DEF Stopping
      <4>2. s \in {"failed", "stopping"}
        OBVIOUS
      <4> HIDE DEF s
      <4>3. r \in Encoding /\ r.entry = x.entry /\ r.base = x.base /\ r.parsed = x.parsed
            /\ r.pruned = x.pruned
        BY <3>1, <4>2 DEF Encoding
      <4> QED BY <3>1, <4>1, <4>3
    <3>3. CASE Stopped(i)
      <4> DEFINE r == [x EXCEPT !.stopped = TRUE]
      <4>1. enc' = Settled(i, r)
        BY <3>3 DEF Stopped
      <4>2. r \in Encoding /\ r.entry = x.entry /\ r.base = x.base /\ r.parsed = x.parsed
            /\ r.pruned = x.pruned
        BY <3>1 DEF Encoding
      <4> QED BY <3>1, <4>1, <4>2
    <3> QED BY <2>2, <3>1, <3>2, <3>3
  <2>3. \A s \in stops : Head(s) \in BeingStopped
    BY TailOfList DEF ManagerInv, StopLists, BeingStopped
  <2>4. sweeper.list # <<>> => Head(sweeper.list) \in BeingStopped
    BY TailOfList DEF ManagerInv, StopLists, BeingStopped
  <2>5. CASE StopBegin \/ StopEnd \/ SweepStopEnd
    <3>1. \E i \in BeingStopped : Stopping(i) \/ Stopped(i)
      BY <2>3, <2>4, <2>5 DEF StopBegin, StopEnd, SweepStopEnd
    <3> QED BY <2>2, <3>1
  <2> QED BY <2>1, <2>5
<1>3. \A j \in byID : /\ j \in DOMAIN enc /\ j \in DOMAIN enc'
  BY <1>1 DEF ManagerInv, TrackedLive
<1>4. \A j \in byID : enc'[j] = enc[j] \/ (j = i /\ enc'[j] = r)
  BY <1>2, <1>3 DEF Settled, With, Without
<1> QED BY <1>1, <1>2, <1>4, FeedSame

LEMMA FeedOfNext ==
    ASSUME ManagerInv, ManagerInv', [Next]_vars
    PROVE  FeedStep
<1>1. CASE \E e \in Entries : \/ ReserveNothing(e) \/ ReserveBlocked(e)
                              \/ ReserveNew(e) \/ ReserveFull(e)
  <2>1. ASSUME NEW e \in Entries, ReserveNothing(e)
        PROVE  FeedStep
    BY <2>1, FeedSame DEF ReserveNothing
  <2> QED BY <1>1, <2>1, ReserveDetachFeed, ReserveNewFeed
<1>2. CASE \E e \in Entries, d \in Channels : ReserveEvict(e, d)
  BY <1>2, ReserveDetachFeed
<1>3. CASE \E i \in Ids : \/ StartReserved(i) \/ StartFails(i)
                          \/ TailOnce(i) \/ TailEnd(i)
                          \/ \E ok \in BOOLEAN : WaitLoop(i, ok)
  BY <1>3, TailOnceFeed, GoroutineFeed
<1>4. CASE StopBegin \/ StopEnd \/ SweepStopEnd
  BY <1>4, GoroutineFeed
<1>5. CASE \E p \in Prunings : Sweep(p)
  BY <1>5, SweepFeed
<1>6. CASE \E c \in Channels : \/ RestartChannel(c) \/ KillChannel(c)
                               \/ \E l \in BurnChoices : SetBurnSubtitleLanguage(c, l)
  <2>1. ASSUME NEW c \in Channels, NEW l \in BurnChoices, SetBurnSubtitleLanguage(c, l)
        PROVE  FeedStep
    BY <2>1, FeedSame DEF SetBurnSubtitleLanguage, maps
  <2> QED BY <1>6, <2>1, OperatorFeed
<1>7. CASE NewManager
  BY <1>7, NewManagerFeed
<1>8. CASE Tick
  BY <1>8, TickFeed
<1>9. CASE UNCHANGED vars
  BY <1>9, FeedSame DEF vars
<1> QED
  BY <1>1, <1>2, <1>3, <1>4, <1>5, <1>6, <1>7, <1>8, <1>9 DEF Next

LEMMA FeedOfInit == Init => Feed!Init
<1> SUFFICES ASSUME Init PROVE Feed!Init
  OBVIOUS
<1>1. byID = {} /\ DOMAIN retained = {} /\ \A e \in Entries : highWater[e] = -1
  BY DEF Init, Empty
<1>2. feedEntryOf = [i \in Ids |-> Feed!None] /\ feedListed = [i \in Ids |-> {}]
  BY <1>1 DEF feedEntryOf, feedListed, None, Feed!None
<1>3. TopFacts /\ FeedTypes
  BY FreshKeeps, TopHolds, FeedTyped DEF Init, Fresh
<1>4. feedTop = [e \in Entries |-> -1]
  <2>1. \A e \in Entries : feedTop[e] = -1
    BY <1>1, <1>3 DEF TopFacts
  <2> QED BY <1>3, <2>1 DEF FeedTypes
<1>5. feedOver = {}
  BY OnDemandAssumption DEF feedOver, EndOf, Init
<1> QED BY <1>1, <1>2, <1>4, <1>5 DEF Feed!Init

\* Whatever is replaced, evicted, stopped, swept or restarted, the manager numbers
\* segments as EncodingFeed promises playback.
THEOREM FeedImplemented == Spec => ImplementsFeed
<1>1. ManagerInv /\ ManagerInv' /\ [Next]_vars => FeedStep
  BY FeedOfNext
<1> QED
  BY <1>1, FeedOfInit, ManagerInvariant, PTL DEF Spec, ImplementsFeed, Feed!Spec, FeedStep

Numbered == INSTANCE EncodingFeed_proofs WITH
    entryOf <- feedEntryOf, current <- byID, listed <- feedListed,
    top <- feedTop, over <- feedOver

\* So no media sequence number of an entry ever names segments of two encodings,
\* and no two encodings add to the list of one entry.
THEOREM ManagerNumbersUnique == Spec => [](Feed!OneCurrent /\ Feed!NumbersUnique)
<1>1. None \notin Entries
  BY OnDemandAssumption
<1>2. Numbered!Spec => [](Numbered!OneCurrent /\ Numbered!NumbersUnique)
  BY <1>1, Numbered!FeedUnique DEF None, Numbered!None
<1>3. Feed!Init => Numbered!Init
  BY DEF Feed!Init, Numbered!Init, Feed!None, Numbered!None
<1>4. [Feed!Next]_(Feed!feed) => [Numbered!Next]_(Numbered!feed)
  <2>1. UNCHANGED Feed!feed => UNCHANGED Numbered!feed
    BY DEF Feed!feed, Numbered!feed
  <2>2. Feed!EndEntry => Numbered!EndEntry
    BY DEF Feed!EndEntry, Numbered!EndEntry
  <2>3. \A e \in Entries, i \in Ids : Feed!Open(e, i) => Numbered!Open(e, i)
    BY DEF Feed!Open, Numbered!Open, Feed!None, Numbered!None
  <2>4. \A i \in Ids : Feed!List(i) => Numbered!List(i)
    BY DEF Feed!List, Numbered!List
  <2>5. Feed!Withdraw => Numbered!Withdraw
    BY DEF Feed!Withdraw, Numbered!Withdraw, Feed!None, Numbered!None
  <2>6. Feed!Relaunch => Numbered!Relaunch
    BY DEF Feed!Relaunch, Numbered!Relaunch, Feed!None, Numbered!None
  <2> QED BY <2>1, <2>2, <2>3, <2>4, <2>5, <2>6 DEF Feed!Next, Numbered!Next
<1>5. (Numbered!OneCurrent /\ Numbered!NumbersUnique) => (Feed!OneCurrent /\ Feed!NumbersUnique)
  BY DEF Feed!OneCurrent, Feed!NumbersUnique, Numbered!OneCurrent, Numbered!NumbersUnique
<1> QED
  BY <1>2, <1>3, <1>4, <1>5, FeedImplemented, PTL DEF ImplementsFeed, Feed!Spec, Numbered!Spec

=============================================================================
