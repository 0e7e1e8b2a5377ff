------------------------------ MODULE TagProofs -------------------------------
(***************************************************************************)
(* Proofs about the extended analysis, for any circuit, delays and settings:*)
(* references to tags never dangle, and the handler of a node touches no   *)
(* other node unless the reducer merges input tags.  The lemmas say what   *)
(* each operation does to the tags, merging above all.                     *)
(***************************************************************************)
EXTENDS TagCoverage, FoldInduction

(* The net as functions and intervals.                                      *)
LEMMA NetFacts ==
    /\ NumNodes \in Nat /\ Node = 1..NumNodes
    /\ \A n \in Node : /\ DOMAIN Fanin[n] = 1..Len(Fanin[n]) /\ Len(Fanin[n]) \in Nat
                       /\ Type[n] \in NodeTypes
                       /\ \A i \in DOMAIN Fanin[n] : Fanin[n][i] \in Node /\ Fanin[n][i] < n
                       /\ Fanin[n] = <<>> <=> DOMAIN Fanin[n] = {}
  <1>1. NumNodes \in Nat /\ Node = 1..NumNodes
    BY NetAssumption DEF Node
  <1>2. ASSUME NEW n \in Node
        PROVE  /\ DOMAIN Fanin[n] = 1..Len(Fanin[n]) /\ Len(Fanin[n]) \in Nat
               /\ Type[n] \in NodeTypes
               /\ \A i \in DOMAIN Fanin[n] : Fanin[n][i] \in Node /\ Fanin[n][i] < n
               /\ Fanin[n] = <<>> <=> DOMAIN Fanin[n] = {}
    <2>1. Fanin[n] \in Seq(Node) /\ AsBuilt(n) /\ Type[n] \in NodeTypes
      BY NetAssumption
    <2>2. \A i \in DOMAIN Fanin[n] : Fanin[n][i] < n
      BY <2>1 DEF AsBuilt
    <2> QED
      BY <2>1, <2>2
  <1> QED
    BY <1>1, <1>2

(* levelize() puts a node above all the nodes its in-edges come from.       *)
LEMMA LevelEquation ==
    /\ Level \in [Node -> Nat]
    /\ \A n \in Node : Level[n] = IF Fanin[n] = <<>> THEN 0
                                  ELSE 1 + Max({Level[Fanin[n][i]] : i \in DOMAIN Fanin[n]})
  <1> DEFINE Lv(n, f) == IF Fanin[n] = <<>> THEN 0 ELSE 1 + Max({f[Fanin[n][i]] : i \in DOMAIN Fanin[n]})
             step == [n \in 1..NumNodes |-> [f \in [1..(n - 1) -> Nat] |-> Lv(n, f)]]
             levelOf == CHOOSE f : f = [n \in Node |-> Lv(n, f)]
  <1>1. ASSUME NEW n \in Node, NEW f \in [1..(n - 1) -> Nat] PROVE Lv(n, f) \in Nat
    <2> DEFINE img == {f[Fanin[n][i]] : i \in DOMAIN Fanin[n]}
    <2>1. \A i \in DOMAIN Fanin[n] : Fanin[n][i] \in 1..(n - 1)
      BY NetFacts
    <2>2. img \in SUBSET Nat
      BY <2>1
    <2>3. IsFiniteSet(img)
      <3>1. DOMAIN Fanin[n] = 1..Len(Fanin[n]) /\ Len(Fanin[n]) \in Nat
        BY NetFacts
      <3>2. IsFiniteSet(DOMAIN Fanin[n])
        <4>1. 1 \in Int /\ Len(Fanin[n]) \in Int
          BY <3>1
        <4> QED
          BY <3>1, <4>1, FS_Interval
      <3> DEFINE g == [i \in DOMAIN Fanin[n] |-> f[Fanin[n][i]]]
      <3>3. IsFiniteSet({g[i] : i \in DOMAIN Fanin[n]})
        <4> HIDE DEF g
        <4> QED
          BY <3>2, FiniteImage
      <3>4. img = {g[i] : i \in DOMAIN Fanin[n]}
        OBVIOUS
      <3> QED
        BY <3>3, <3>4
    <2>4. Fanin[n] # <<>> => img # {}
      <3>1. Fanin[n] # <<>> => DOMAIN Fanin[n] # {}
        BY NetFacts
      <3> QED
        BY <3>1
    <2>5. img \in SUBSET Int
      BY <2>2
    <2> HIDE DEF img
    <2>6. Fanin[n] # <<>> => Max(img) \in img
      BY <2>3, <2>4, <2>5, GreatestMember
    <2>7. Fanin[n] # <<>> => Max(img) \in Nat
      BY <2>2, <2>6
    <2> QED
      BY <2>7 DEF img
  <1> HIDE DEF Lv
  <1>2. MadeOfEarlier(NumNodes, Nat, step)
    <2> SUFFICES ASSUME NEW n \in 1..NumNodes PROVE step[n] \in [[1..(n - 1) -> Nat] -> Nat]
      BY NetFacts DEF MadeOfEarlier
    <2> QED
      BY <1>1, NetFacts
  <1>3. PICK f : Obeys(f, NumNodes, Nat, step)
    <2> HIDE DEF step
    <2> QED
      BY <1>2, RecursionExists
  <1>4. ASSUME NEW n \in Node, NEW g \in [Node -> Nat]
        PROVE  Lv(n, [j \in 1..(n - 1) |-> g[j]]) = Lv(n, g)
    <2>1. \A i \in DOMAIN Fanin[n] : Fanin[n][i] \in 1..(n - 1)
      BY NetFacts
    <2>2. {[j \in 1..(n - 1) |-> g[j]][Fanin[n][i]] : i \in DOMAIN Fanin[n]}
             = {g[Fanin[n][i]] : i \in DOMAIN Fanin[n]}
      BY <2>1
    <2> QED
      BY <2>2 DEF Lv
  <1>5. f = [n \in Node |-> Lv(n, f)]
    <2>1. f \in [Node -> Nat]
      BY <1>3, NetFacts DEF Obeys
    <2>2. ASSUME NEW n \in Node PROVE f[n] = Lv(n, f)
      <3>1. f[n] = step[n][[j \in 1..(n - 1) |-> f[j]]]
        BY <1>3, NetFacts DEF Obeys
      <3>2. [j \in 1..(n - 1) |-> f[j]] \in [1..(n - 1) -> Nat]
        BY <2>1, NetFacts
      <3>3. f[n] = Lv(n, [j \in 1..(n - 1) |-> f[j]])
        BY <3>1, <3>2, NetFacts
      <3> QED
        BY <1>4, <2>1, <3>3
    <2> QED
      BY <2>1, <2>2
  <1>6. levelOf = [n \in Node |-> Lv(n, levelOf)]
    BY <1>5
  <1>7. Level = levelOf
    BY DEF Level, Lv
  <1> HIDE DEF levelOf
  <1>8. \A n \in Node : Level[n] = Lv(n, Level)
    BY <1>6, <1>7
  <1>9. Level = [n \in Node |-> Level[n]]
    BY <1>6, <1>7
  <1> DEFINE Q == {m \in Nat : \A n \in Node : n <= m => Level[n] \in Nat}
  <1>10. 0 \in Q
    BY NetFacts
  <1>11. ASSUME NEW m \in Nat, m \in Q PROVE m + 1 \in Q
    <2> SUFFICES ASSUME NEW n \in Node, n = m + 1 PROVE Level[n] \in Nat
      BY <1>11, NetFacts
    <2>1. [j \in 1..(n - 1) |-> Level[j]] \in [1..(n - 1) -> Nat]
      BY <1>11, NetFacts
    <2>2. Lv(n, [j \in 1..(n - 1) |-> Level[j]]) = Lv(n, Level)
      <3>1. \A i \in DOMAIN Fanin[n] : Fanin[n][i] \in 1..(n - 1)
        BY NetFacts
      <3>2. {[j \in 1..(n - 1) |-> Level[j]][Fanin[n][i]] : i \in DOMAIN Fanin[n]}
               = {Level[Fanin[n][i]] : i \in DOMAIN Fanin[n]}
        BY <3>1
      <3> QED
        BY <3>2 DEF Lv
    <2> QED
      BY <1>1, <1>8, <2>1, <2>2
  <1> HIDE DEF Q
  <1>12. \A m \in Nat : m \in Q
    BY <1>10, <1>11, NaturalInduction
  <1>13. \A n \in Node : Level[n] \in Nat
    <2> TAKE n \in Node
    <2>1. n \in Nat /\ n \in Q
      BY <1>12, NetFacts
    <2> QED
      BY <2>1 DEF Q
  <1>14. Level \in [Node -> Nat]
    BY <1>9, <1>13
  <1> QED
    BY <1>8, <1>14 DEF Lv

(* Only sources are at level zero, and every other node is above its inputs.*)
LEMMA LevelFacts ==
    ASSUME NEW n \in Node
    PROVE  /\ Level[n] \in Nat /\ (Level[n] = 0 <=> Fanin[n] = <<>>)
           /\ \A i \in DOMAIN Fanin[n] : Level[Fanin[n][i]] < Level[n]
  <1> DEFINE img == {Level[Fanin[n][i]] : i \in DOMAIN Fanin[n]}
  <1>1. Level[n] = IF Fanin[n] = <<>> THEN 0 ELSE 1 + Max(img)
    BY LevelEquation
  <1>2. img \in SUBSET Nat
    BY LevelEquation, NetFacts
  <1>3. IsFiniteSet(img)
    <2>1. DOMAIN Fanin[n] = 1..Len(Fanin[n]) /\ Len(Fanin[n]) \in Nat
      BY NetFacts
    <2>2. IsFiniteSet(DOMAIN Fanin[n])
      <3>1. 1 \in Int /\ Len(Fanin[n]) \in Int
        BY <2>1
      <3> QED
        BY <2>1, <3>1, FS_Interval
    <2> DEFINE g == [i \in DOMAIN Fanin[n] |-> Level[Fanin[n][i]]]
    <2>3. IsFiniteSet({g[i] : i \in DOMAIN Fanin[n]})
      <3> HIDE DEF g
      <3> QED
        BY <2>2, FiniteImage
    <2>4. img = {g[i] : i \in DOMAIN Fanin[n]}
      OBVIOUS
    <2> QED
      BY <2>3, <2>4
  <1>4. ASSUME Fanin[n] # <<>> PROVE Max(img) \in Nat /\ \A x \in img : x <= Max(img)
    <2>1. img # {} /\ img \in SUBSET Int
      BY <1>2, <1>4, NetFacts
    <2> HIDE DEF img
    <2> QED
      BY <1>2, <1>3, <2>1, GreatestMember
  <1>5. \A i \in DOMAIN Fanin[n] : Level[Fanin[n][i]] \in img /\ Fanin[n] # <<>>
    BY NetFacts
  <1> HIDE DEF img
  <1>6. ASSUME NEW i \in DOMAIN Fanin[n] PROVE Level[Fanin[n][i]] < Level[n]
    <2>1. Fanin[n] # <<>> /\ Level[Fanin[n][i]] \in img
      BY <1>5
    <2>2. Level[Fanin[n][i]] <= Max(img) /\ Max(img) \in Nat /\ Level[Fanin[n][i]] \in Nat
      BY <1>2, <1>4, <2>1
    <2>3. Level[n] = 1 + Max(img)
      BY <1>1, <2>1
    <2> QED
      BY <2>2, <2>3
  <1>7. Level[n] \in Nat /\ (Level[n] = 0 <=> Fanin[n] = <<>>)
    BY <1>1, <1>4
  <1> QED
    BY <1>6, <1>7

(* Data edges come first, and apart from them there are only clock edges.   *)
LEMMA DataNetFacts ==
    ASSUME NEW n \in Node
    PROVE  /\ DataEdges(n) \in SUBSET DOMAIN Fanin[n]
           /\ n \in ClockNet =>
                /\ Type[n] \notin {"FF_SOURCE", "FF_SINK", "INPAD_SOURCE", "CONSTANT_GEN_SOURCE"}
                /\ \A i \in DOMAIN Fanin[n] : Fanin[n][i] \in ClockNet
           /\ n \notin ClockNet =>
                /\ Type[n] # "CLOCK_SOURCE"
                /\ \E k \in Nat : DataEdges(n) = 1..k
                /\ \A i \in DOMAIN Fanin[n] : Fanin[n][i] \notin ClockNet <=> i \in DataEdges(n)
                /\ DataEdges(n) = {} => Fanin[n] = <<>> \/ Type[n] = "FF_SOURCE"
           /\ Type[n] = "FF_SOURCE" => /\ DataEdges(n) = {} /\ Fanin[n] # <<>>
                                       /\ \E i \in DOMAIN Fanin[n] : Fanin[n][i] \in ClockNet
  <1>1. DataEdges(n) \in SUBSET DOMAIN Fanin[n]
    BY DEF DataEdges
  <1>2. /\ Fanin[n] = <<>> <=> Type[n] \in PrimaryTypes
        /\ Type[n] = "FF_SOURCE" => Len(Fanin[n]) = 1 /\ Type[Fanin[n][1]] = "FF_CLOCK"
        /\ Type[n] = "FF_SINK" => DataEdges(n) = {1}
        /\ \A i \in DOMAIN Fanin[n] :
              /\ Type[Fanin[n][i]] = "CLOCK_SOURCE" => Type[n] = "INPAD_OPIN"
              /\ Type[Fanin[n][i]] = "FF_CLOCK" => Type[n] \in {"FF_SOURCE", "FF_SINK"}
    BY NetAssumption DEF AsBuilt
  <1>3. /\ DOMAIN Fanin[n] = 1..Len(Fanin[n]) /\ Len(Fanin[n]) \in Nat
        /\ \A i \in DOMAIN Fanin[n] : Fanin[n][i] \in Node
    BY NetFacts
  <1>4. \A i \in DOMAIN Fanin[n] :
           Fanin[n][i] \in ClockNet <=> n \in ClockNet \/ Type[Fanin[n][i]] = "FF_CLOCK"
    BY ClockNetAssumption
  <1>5. n \in ClockNet <=> \/ Type[n] \in {"CLOCK_SOURCE", "FF_CLOCK"}
                          \/ \E i \in DOMAIN Fanin[n] : Type[Fanin[n][i]] = "CLOCK_SOURCE"
    BY DEF ClockNet
  <1>6. n \in ClockNet =>
                /\ Type[n] \notin {"FF_SOURCE", "FF_SINK", "INPAD_SOURCE", "CONSTANT_GEN_SOURCE"}
                /\ \A i \in DOMAIN Fanin[n] : Fanin[n][i] \in ClockNet
    BY <1>2, <1>4, <1>5
  <1>7. Type[n] = "FF_SOURCE" => /\ DataEdges(n) = {} /\ Fanin[n] # <<>>
                                /\ \E i \in DOMAIN Fanin[n] : Fanin[n][i] \in ClockNet
    <2> SUFFICES ASSUME Type[n] = "FF_SOURCE" PROVE DataEdges(n) = {} /\ Fanin[n] # <<>>
                                /\ \E i \in DOMAIN Fanin[n] : Fanin[n][i] \in ClockNet
      OBVIOUS
    <2>1. DOMAIN Fanin[n] = {1} /\ Type[Fanin[n][1]] = "FF_CLOCK"
      BY <1>2, <1>3
    <2>2. DataEdges(n) = {}
      BY <2>1 DEF DataEdges
    <2>3. Fanin[n] # <<>>
      BY <2>1, NetFacts
    <2> QED
      BY <1>4, <2>1, <2>2, <2>3
  <1>8. ASSUME n \notin ClockNet
        PROVE  /\ Type[n] # "CLOCK_SOURCE"
               /\ \E k \in Nat : DataEdges(n) = 1..k
               /\ \A i \in DOMAIN Fanin[n] : Fanin[n][i] \notin ClockNet <=> i \in DataEdges(n)
               /\ DataEdges(n) = {} => Fanin[n] = <<>> \/ Type[n] = "FF_SOURCE"
    <2>1. Type[n] # "CLOCK_SOURCE"
      BY <1>5, <1>8
    <2>2. \A i \in DOMAIN Fanin[n] : Fanin[n][i] \notin ClockNet <=> i \in DataEdges(n)
      BY <1>4, <1>8 DEF DataEdges
    <2>3. CASE Type[n] = "FF_SOURCE"
      <3>1. DataEdges(n) = 1..0
        BY <1>7, <2>3
      <3> QED
        BY <2>1, <2>2, <2>3, <3>1
    <2>4. CASE Type[n] = "FF_SINK"
      <3>1. DataEdges(n) = 1..1
        BY <1>2, <2>4
      <3> QED
        BY <2>1, <2>2, <3>1
    <2>5. CASE Type[n] \notin {"FF_SOURCE", "FF_SINK"}
      <3>1. DataEdges(n) = DOMAIN Fanin[n]
        BY <1>2, <2>5 DEF DataEdges
      <3>2. DataEdges(n) = {} => Fanin[n] = <<>>
        BY <3>1, NetFacts
      <3> QED
        BY <1>3, <2>1, <2>2, <3>1, <3>2
    <2> QED
      BY <2>3, <2>4, <2>5
  <1> QED
    BY <1>1, <1>6, <1>7, <1>8

(* The j-th member of 1..k.                                                 *)
LEMMA NthOfInterval ==
    ASSUME NEW k \in Nat, NEW j \in 1..k
    PROVE  Nth(1..k, j) = j
  <1>1. ASSUME NEW i \in 1..k PROVE Cardinality({m \in 1..k : m <= i}) = i
    <2>1. {m \in 1..k : m <= i} = 1..i
      OBVIOUS
    <2>2. 1 \in Int /\ i \in Int /\ i >= 1
      OBVIOUS
    <2>3. Cardinality(1..i) = i - 1 + 1
      BY <2>2, FS_Interval
    <2>4. i - 1 + 1 = i
      BY <2>2
    <2> QED
      BY <2>1, <2>3, <2>4
  <1> QED
    BY <1>1 DEF Nth

(* The tag sets collected for a node whose data inputs are those with tags. *)
LEMMA InputSetsAre ==
    ASSUME NEW n \in Node, WithData(n) = DataEdges(n), NEW k \in Nat, DataEdges(n) = 1..k
    PROVE  InputSets(n) = [i \in DataEdges(n) |-> dataTags[Fanin[n][i]]]
  <1>1. Cardinality(1..k) = k
    <2>1. 1 \in Int /\ k \in Int
      OBVIOUS
    <2>2. Cardinality(1..k) = IF 1 > k THEN 0 ELSE k - 1 + 1
      BY <2>1, FS_Interval
    <2> QED
      BY <2>2
  <1>2. \A j \in 1..k : Nth(1..k, j) = j
    BY NthOfInterval
  <1> QED
    BY <1>1, <1>2 DEF InputSets
-------------------------------------------------------------------------------
(* Heaps of well-formed tags, and the references to the tags of one node.   *)
Reference == Node \X Nat
AnyScenario == UNION {[DataEdges(n) -> Reference] : n \in Node}
TagType == [trans : Transitions, arr : Nat, scen : SUBSET AnyScenario]
Heap == [Node -> Seq(TagType)]
RefsAt(heap, m) == {t \in Reference : t[1] = m /\ t[2] \in DOMAIN heap[m]}

(* What merging tags of node m may do to a heap: a tag keeps its transition *)
(* and its scenarios, it is not made earlier, and whatever it gains it has  *)
(* from a tag of the same node and transition.                              *)
GrownTag(old, m, tag, i) ==
    /\ tag.trans = old[m][i].trans
    /\ old[m][i].arr <= tag.arr /\ \E j \in DOMAIN old[m] : tag.arr = old[m][j].arr
    /\ old[m][i].scen \subseteq tag.scen
    /\ \A s \in tag.scen : \E j \in DOMAIN old[m] :
          old[m][j].trans = tag.trans /\ s \in old[m][j].scen

Grown(old, new, m) ==
    /\ new \in Heap
    /\ \A n \in Node : n # m => new[n] = old[n]
    /\ DOMAIN new[m] = DOMAIN old[m]
    /\ \A i \in DOMAIN old[m] : GrownTag(old, m, new[m][i], i)

(* An empty sequence is one without positions.                              *)
LEMMA EmptySequence ==
    ASSUME NEW S, NEW seq \in Seq(S)
    PROVE  seq = <<>> <=> DOMAIN seq = {}
  OBVIOUS

(* A tag of a heap.                                                         *)
LEMMA TagsOfHeap ==
    ASSUME NEW heap \in Heap, NEW m \in Node, NEW i \in DOMAIN heap[m]
    PROVE  /\ heap[m][i] \in TagType /\ heap[m][i].trans \in Transitions
           /\ heap[m][i].arr \in Nat /\ heap[m][i].scen \in SUBSET AnyScenario
           /\ DOMAIN heap[m] = 1..Len(heap[m]) /\ Len(heap[m]) \in Nat
  <1>1. heap[m] \in Seq(TagType)
    BY DEF Heap
  <1>2. heap[m][i] \in TagType
    BY <1>1
  <1> QED
    BY <1>1, <1>2 DEF TagType

(* The absorbing tag, and that nothing else changes.                        *)
LEMMA AbsorbEffect ==
    ASSUME NEW heap \in Heap, NEW m \in Node, NEW r \in RefsAt(heap, m), NEW t \in RefsAt(heap, m),
           At(heap, t).trans = At(heap, r).trans
    PROVE  /\ Grown(heap, Absorb(heap, r, t), m)
           /\ At(Absorb(heap, r, t), r).scen = At(heap, r).scen \cup At(heap, t).scen
           /\ At(Absorb(heap, r, t), r).arr \in {At(heap, r).arr, At(heap, t).arr}
           /\ At(heap, t).arr <= At(Absorb(heap, r, t), r).arr
           /\ \A x \in RefsAt(heap, m) : x # r => At(Absorb(heap, r, t), x) = At(heap, x)
  <1> DEFINE j == r[2]
             new == Absorb(heap, r, t)
             late == Max({heap[m][j].arr, heap[m][t[2]].arr})
             tag == [heap[m][j] EXCEPT !.arr = late, !.scen = @ \cup heap[m][t[2]].scen]
  <1>1. r[1] = m /\ t[1] = m /\ j \in DOMAIN heap[m] /\ t[2] \in DOMAIN heap[m]
    BY DEF RefsAt
  <1>2. /\ heap[m][j].trans = heap[m][t[2]].trans
        /\ heap[m] \in Seq(TagType) /\ heap \in [Node -> Seq(TagType)]
    BY <1>1 DEF At, Heap
  <1>3. /\ heap[m][j] \in TagType
        /\ heap[m][j].arr \in Nat /\ heap[m][t[2]].arr \in Nat
        /\ heap[m][j].scen \in SUBSET AnyScenario /\ heap[m][t[2]].scen \in SUBSET AnyScenario
        /\ heap[m][j].trans \in Transitions
    BY <1>1, TagsOfHeap
  <1>4. /\ late \in {heap[m][j].arr, heap[m][t[2]].arr}
        /\ late \in Nat /\ heap[m][j].arr <= late /\ heap[m][t[2]].arr <= late
    <2> DEFINE x == heap[m][j].arr
               y == heap[m][t[2]].arr
    <2>1. x \in Nat /\ y \in Nat
      BY <1>3
    <2> HIDE DEF x, y
    <2>2. \E z \in {x, y} : \A w \in {x, y} : z >= w
      BY <2>1
    <2>3. Max({x, y}) \in {x, y} /\ \A w \in {x, y} : Max({x, y}) >= w
      BY <2>2 DEF Max
    <2>4. Max({x, y}) \in Nat /\ x <= Max({x, y}) /\ y <= Max({x, y})
      BY <2>1, <2>3
    <2> QED
      BY <2>3, <2>4 DEF x, y
  <1>5. new = [heap EXCEPT ![m] = [heap[m] EXCEPT ![j] = tag]]
    BY <1>1, <1>2 DEF Absorb, At, Heap
  <1> HIDE DEF late
  <1>6. /\ tag.trans = heap[m][j].trans /\ tag.arr = late
        /\ tag.scen = heap[m][j].scen \cup heap[m][t[2]].scen /\ tag \in TagType
    BY <1>3, <1>4 DEF TagType
  <1> HIDE DEF tag, new, j
  <1>7. /\ new \in Heap /\ \A n \in Node : n # m => new[n] = heap[n]
        /\ DOMAIN new[m] = DOMAIN heap[m] /\ new[m][j] = tag
        /\ \A i \in DOMAIN heap[m] : i # j => new[m][i] = heap[m][i]
    BY <1>1, <1>2, <1>5, <1>6 DEF Heap
  <1>8. ASSUME NEW i \in DOMAIN heap[m] PROVE GrownTag(heap, m, new[m][i], i)
    <2>1. CASE i = j
      <3>1. \A s \in tag.scen : s \in heap[m][j].scen \/ s \in heap[m][t[2]].scen
        BY <1>6
      <3> QED
        BY <1>1, <1>2, <1>3, <1>4, <1>6, <1>7, <2>1, <3>1 DEF GrownTag
    <2>2. CASE i # j
      <3>1. new[m][i] = heap[m][i] /\ heap[m][i].arr \in Nat
        BY <1>7, <2>2, TagsOfHeap
      <3> QED
        BY <3>1 DEF GrownTag
    <2> QED
      BY <2>1, <2>2
  <1>9. Grown(heap, new, m)
    BY <1>7, <1>8 DEF Grown
  <1>10. At(new, r) = tag /\ At(heap, t) = heap[m][t[2]] /\ At(heap, r) = heap[m][j]
    BY <1>1, <1>7 DEF At, j
  <1>11. ASSUME NEW x \in RefsAt(heap, m), x # r PROVE At(new, x) = At(heap, x)
    <2>1. /\ x[1] = m /\ x[2] \in DOMAIN heap[m]
          /\ x = <<x[1], x[2]>> /\ r = <<r[1], r[2]>>
      BY DEF RefsAt, Reference
    <2>2. x[2] # j
      BY <1>1, <1>11, <2>1 DEF j
    <2> QED
      BY <1>7, <2>1, <2>2 DEF At
  <1> QED
    BY <1>4, <1>6, <1>9, <1>10, <1>11 DEF new

(* Nothing merged: a heap is grown from itself ...                          *)
LEMMA GrownReflexive ==
    ASSUME NEW heap \in Heap, NEW m \in Node
    PROVE  Grown(heap, heap, m)
  <1>1. \A i \in DOMAIN heap[m] : heap[m][i].arr \in Nat
    BY TagsOfHeap
  <1> QED
    BY <1>1 DEF Grown, GrownTag

(* ... and one merge may follow another.                                    *)
LEMMA GrownTransitive ==
    ASSUME NEW h1 \in Heap, NEW h2, NEW h3, NEW m \in Node, Grown(h1, h2, m), Grown(h2, h3, m)
    PROVE  Grown(h1, h3, m)
  <1>1. h2 \in Heap /\ h3 \in Heap /\ DOMAIN h2[m] = DOMAIN h1[m] /\ DOMAIN h3[m] = DOMAIN h1[m]
    BY DEF Grown
  <1>2. \A n \in Node : n # m => h3[n] = h1[n]
    BY DEF Grown
  <1>3. ASSUME NEW i \in DOMAIN h1[m] PROVE GrownTag(h1, m, h3[m][i], i)
    <2>1. GrownTag(h1, m, h2[m][i], i) /\ GrownTag(h2, m, h3[m][i], i)
      BY <1>1 DEF Grown
    <2>2. h1[m][i].arr \in Nat /\ h2[m][i].arr \in Nat /\ h3[m][i].arr \in Nat
      BY <1>1, TagsOfHeap
    <2>3. h1[m][i].arr <= h3[m][i].arr /\ h3[m][i].trans = h1[m][i].trans
          /\ h1[m][i].scen \subseteq h3[m][i].scen
      BY <2>1, <2>2 DEF GrownTag
    <2>4. \E j \in DOMAIN h1[m] : h3[m][i].arr = h1[m][j].arr
      <3>1. PICK k \in DOMAIN h2[m] : h3[m][i].arr = h2[m][k].arr
        BY <2>1 DEF GrownTag
      <3>2. GrownTag(h1, m, h2[m][k], k)
        BY <1>1, <3>1 DEF Grown
      <3> QED
        BY <3>1, <3>2 DEF GrownTag
    <2>5. ASSUME NEW s \in h3[m][i].scen
          PROVE  \E j \in DOMAIN h1[m] : h1[m][j].trans = h3[m][i].trans /\ s \in h1[m][j].scen
      <3>1. PICK k \in DOMAIN h2[m] : h2[m][k].trans = h3[m][i].trans /\ s \in h2[m][k].scen
        BY <2>1 DEF GrownTag
      <3>2. GrownTag(h1, m, h2[m][k], k)
        BY <1>1, <3>1 DEF Grown
      <3> QED
        BY <3>1, <3>2 DEF GrownTag
    <2> QED
      BY <2>3, <2>4, <2>5 DEF GrownTag
  <1> QED
    BY <1>1, <1>2, <1>3 DEF Grown

(* Tag t of the old heap lives on in a tag of the merged set.               *)
LivesOn(old, t, new, merged) ==
    \E k \in DOMAIN merged : /\ At(new, merged[k]).trans = At(old, t).trans
                             /\ At(old, t).scen \subseteq At(new, merged[k]).scen
                             /\ At(old, t).arr <= At(new, merged[k]).arr

(* What merge_tags makes of the tags of a set it has passed, those at J.   *)
MergeState(old, m) == {st \in [heap : Heap, merged : Seq(RefsAt(old, m))] : Grown(old, st.heap, m)}

Collected(old, m, set, J, st) ==
    /\ st \in MergeState(old, m)
    /\ \A i \in DOMAIN st.merged : \E j \in DOMAIN set : st.merged[i] = set[j]
    /\ \A j \in J : LivesOn(old, set[j], st.heap, st.merged)

(* A reference stays valid, and its tag keeps what it has.                  *)
LEMMA GrownRefs ==
    ASSUME NEW old \in Heap, NEW new, NEW m \in Node, Grown(old, new, m)
    PROVE  /\ new \in Heap /\ RefsAt(new, m) = RefsAt(old, m)
           /\ \A t \in RefsAt(old, m) :
                /\ At(new, t).trans = At(old, t).trans
                /\ At(old, t).scen \subseteq At(new, t).scen
                /\ At(old, t).arr <= At(new, t).arr
                /\ At(old, t).arr \in Nat /\ At(new, t).arr \in Nat
  <1>1. new \in Heap /\ DOMAIN new[m] = DOMAIN old[m]
    BY DEF Grown
  <1>2. RefsAt(new, m) = RefsAt(old, m)
    BY <1>1 DEF RefsAt
  <1>3. ASSUME NEW t \in RefsAt(old, m)
        PROVE  /\ At(new, t).trans = At(old, t).trans
               /\ At(old, t).scen \subseteq At(new, t).scen
               /\ At(old, t).arr <= At(new, t).arr
               /\ At(old, t).arr \in Nat /\ At(new, t).arr \in Nat
    <2>1. t[1] = m /\ t[2] \in DOMAIN old[m]
      BY DEF RefsAt
    <2>2. GrownTag(old, m, new[m][t[2]], t[2])
      BY <2>1 DEF Grown
    <2>3. old[m][t[2]].arr \in Nat /\ new[m][t[2]].arr \in Nat
      BY <1>1, <2>1, TagsOfHeap
    <2> QED
      BY <2>1, <2>2, <2>3 DEF GrownTag, At
  <1> QED
    BY <1>1, <1>2, <1>3

(* A tag that lives on in a set still does after another merge.             *)
LEMMA LivesOnGrown ==
    ASSUME NEW old \in Heap, NEW h1, NEW h2, NEW m \in Node, NEW merged \in Seq(RefsAt(old, m)),
           NEW t \in RefsAt(old, m), Grown(old, h1, m), Grown(h1, h2, m), LivesOn(old, t, h1, merged)
    PROVE  LivesOn(old, t, h2, merged)
  <1>1. PICK k \in DOMAIN merged : /\ At(h1, merged[k]).trans = At(old, t).trans
                                   /\ At(old, t).scen \subseteq At(h1, merged[k]).scen
                                   /\ At(old, t).arr <= At(h1, merged[k]).arr
    BY DEF LivesOn
  <1>2. merged[k] \in RefsAt(old, m)
    BY <1>1
  <1>3. h1 \in Heap /\ RefsAt(h1, m) = RefsAt(old, m) /\ At(old, t).arr \in Nat
    BY GrownRefs
  <1>4. /\ At(h2, merged[k]).trans = At(h1, merged[k]).trans
        /\ At(h1, merged[k]).scen \subseteq At(h2, merged[k]).scen
        /\ At(h1, merged[k]).arr <= At(h2, merged[k]).arr
        /\ At(h1, merged[k]).arr \in Nat /\ At(h2, merged[k]).arr \in Nat
    BY <1>2, <1>3, GrownRefs
  <1>5. At(old, t).arr <= At(h2, merged[k]).arr
    BY <1>1, <1>3, <1>4
  <1> QED
    BY <1>1, <1>4, <1>5 DEF LivesOn

(* Collecting the next tag of the set.                                      *)
LEMMA CollectStep ==
    ASSUME NEW old \in Heap, NEW m \in Node, NEW set \in Seq(RefsAt(old, m)), NEW J \in SUBSET DOMAIN set,
           NEW k \in DOMAIN set, NEW coarse, NEW fine, NEW thr,
           NEW st, Collected(old, m, set, J, st)
    PROVE  Collected(old, m, set, J \cup {k}, CollectTag(st, set[k], coarse, fine, thr))
  <1> DEFINE t == set[k]
             reps == {i \in DOMAIN st.merged : Joinable(st.heap, t, st.merged[i], coarse, fine, thr)}
             new == CollectTag(st, t, coarse, fine, thr)
  <1>1. /\ st \in [heap : Heap, merged : Seq(RefsAt(old, m))] /\ Grown(old, st.heap, m)
        /\ st.heap \in Heap /\ st.merged \in Seq(RefsAt(old, m)) /\ st.merged \in Seq(Reference)
        /\ \A i \in DOMAIN st.merged : \E j \in DOMAIN set : st.merged[i] = set[j]
        /\ \A j \in J : LivesOn(old, set[j], st.heap, st.merged)
    <2>1. RefsAt(old, m) \in SUBSET Reference
      BY DEF RefsAt
    <2> QED
      BY <2>1 DEF Collected, MergeState
  <1>2. t \in RefsAt(old, m) /\ RefsAt(st.heap, m) = RefsAt(old, m)
    BY <1>1, GrownRefs
  <1>3. \A j \in J \cup {k} : j \in J \/ j = k
    OBVIOUS
  <1>4. \A j \in J : set[j] \in RefsAt(old, m)
    OBVIOUS
  <1>5. CASE reps = {}
    <2>1. new = [st EXCEPT !.merged = Append(@, t)]
      BY <1>5 DEF CollectTag
    <2> HIDE DEF t
    <2> DEFINE longer == Append(st.merged, t)
    <2>9. longer \in Seq(RefsAt(old, m))
      BY <1>1, <1>2
    <2> HIDE DEF longer, new
    <2>10. new.heap = st.heap /\ new.merged = longer
      BY <1>1, <2>1 DEF longer
    <2>11. new \in [heap : Heap, merged : Seq(RefsAt(old, m))]
      BY <1>1, <2>1, <2>9 DEF longer
    <2>2. new.heap = st.heap /\ new.merged = Append(st.merged, t) /\ new \in MergeState(old, m)
      BY <1>1, <2>10, <2>11 DEF MergeState, longer
    <2> HIDE DEF reps
    <2>3. /\ Len(st.merged) \in Nat /\ DOMAIN st.merged = 1..Len(st.merged)
          /\ DOMAIN new.merged = 1..(Len(st.merged) + 1)
          /\ \A i \in DOMAIN st.merged : i \in DOMAIN new.merged /\ new.merged[i] = st.merged[i]
          /\ Len(st.merged) + 1 \in DOMAIN new.merged /\ new.merged[Len(st.merged) + 1] = t
      BY <1>1, <1>2, <2>2
    <2>4. \A i \in DOMAIN new.merged : i \in DOMAIN st.merged \/ i = Len(st.merged) + 1
      BY <2>3
    <2>5. \A i \in DOMAIN new.merged : \E j \in DOMAIN set : new.merged[i] = set[j]
      BY <1>1, <2>3, <2>4 DEF t
    <2>6. ASSUME NEW j \in J PROVE LivesOn(old, set[j], new.heap, new.merged)
      <3>1. LivesOn(old, set[j], st.heap, st.merged)
        BY <1>1
      <3> QED
        BY <2>2, <2>3, <3>1 DEF LivesOn
    <2>7. LivesOn(old, t, new.heap, new.merged)
      <3>1. /\ At(st.heap, t).trans = At(old, t).trans
            /\ At(old, t).scen \subseteq At(st.heap, t).scen
            /\ At(old, t).arr <= At(st.heap, t).arr
        BY <1>1, <1>2, GrownRefs
      <3> QED
        BY <2>2, <2>3, <3>1 DEF LivesOn
    <2>8. \A j \in J \cup {k} : LivesOn(old, set[j], new.heap, new.merged)
      BY <1>3, <2>6, <2>7 DEF t
    <2> QED
      BY <2>2, <2>5, <2>8 DEF Collected, new, t
  <1>6. CASE reps # {}
    <2> DEFINE r == st.merged[Min(reps)]
    <2>1. Min(reps) \in reps
      <3>1. reps \in SUBSET Nat
        <4>1. DOMAIN st.merged = 1..Len(st.merged)
          BY <1>1
        <4> QED
          BY <4>1
      <3> HIDE DEF reps
      <3> QED
        BY <1>6, <3>1, LeastMember
    <2>2. Min(reps) \in DOMAIN st.merged /\ Joinable(st.heap, t, r, coarse, fine, thr)
      BY <2>1
    <2>3. new = [st EXCEPT !.heap = Absorb(@, r, t)]
      BY <1>6 DEF CollectTag
    <2>4. r \in RefsAt(old, m)
      BY <1>1, <2>2
    <2>5. At(st.heap, t).trans = At(st.heap, r).trans
      BY <2>2 DEF Joinable
    <2> DEFINE i0 == Min(reps)
    <2>6. i0 \in DOMAIN st.merged /\ r = st.merged[i0]
      BY <2>2
    <2> HIDE DEF t, i0, r
    <2>7. /\ Grown(st.heap, Absorb(st.heap, r, t), m)
          /\ At(st.heap, t).scen \subseteq At(Absorb(st.heap, r, t), r).scen
          /\ At(st.heap, t).arr <= At(Absorb(st.heap, r, t), r).arr
      BY <1>1, <1>2, <2>4, <2>5, AbsorbEffect
    <2>8. new.heap = Absorb(st.heap, r, t) /\ new.merged = st.merged
      BY <1>1, <2>3
    <2> HIDE DEF new, reps
    <2>9. Grown(st.heap, new.heap, m) /\ Grown(old, new.heap, m)
      BY <1>1, <2>7, <2>8, GrownTransitive
    <2>10. new \in MergeState(old, m)
      <3>1. new.heap \in Heap
        BY <2>9 DEF Grown
      <3>2. new \in [heap : Heap, merged : Seq(RefsAt(old, m))]
        BY <1>1, <2>3, <2>8, <3>1
      <3> QED
        BY <2>9, <3>2 DEF MergeState
    <2>11. ASSUME NEW j \in J PROVE LivesOn(old, set[j], new.heap, new.merged)
      <3>1. LivesOn(old, set[j], st.heap, st.merged) /\ set[j] \in RefsAt(old, m)
        BY <1>1, <1>4
      <3> QED
        BY <1>1, <2>8, <2>9, <3>1, LivesOnGrown
    <2>12. LivesOn(old, t, new.heap, new.merged)
      <3>1. /\ At(st.heap, t).trans = At(old, t).trans
            /\ At(old, t).scen \subseteq At(st.heap, t).scen
            /\ At(old, t).arr <= At(st.heap, t).arr
            /\ At(old, t).arr \in Nat /\ At(st.heap, t).arr \in Nat
        BY <1>1, <1>2, GrownRefs
      <3>2. At(new.heap, r).trans = At(st.heap, r).trans /\ At(new.heap, r).arr \in Nat
        BY <1>1, <1>2, <2>4, <2>9, GrownRefs
      <3>3. At(st.heap, t).scen \subseteq At(new.heap, r).scen /\ At(st.heap, t).arr <= At(new.heap, r).arr
        BY <2>7, <2>8
      <3>4. At(old, t).arr <= At(new.heap, r).arr
        BY <3>1, <3>2, <3>3
      <3>5. At(new.heap, r).trans = At(old, t).trans /\ At(old, t).scen \subseteq At(new.heap, r).scen
        BY <2>5, <3>1, <3>2, <3>3
      <3> QED
        BY <2>6, <2>8, <3>4, <3>5 DEF LivesOn
    <2>13. \A j \in J \cup {k} : LivesOn(old, set[j], new.heap, new.merged)
      BY <1>3, <2>11, <2>12 DEF t
    <2>14. \A i \in DOMAIN new.merged : \E j \in DOMAIN set : new.merged[i] = set[j]
      BY <1>1, <2>8
    <2> QED
      BY <2>10, <2>13, <2>14 DEF Collected, new, t
  <1> QED
    BY <1>5, <1>6

(* What holds at first and after every turn of merge_tags holds in the end. *)
(* good[k] are the states the first k tags of the set may leave.            *)
Turns(old, set, States, good, coarse, fine, thr) ==
    /\ Len(set) \in Nat /\ DOMAIN set = 1..Len(set)
    /\ \A k \in 0..Len(set) : good[k] \in SUBSET States
    /\ [heap |-> old, merged |-> <<>>] \in good[0]
    /\ \A st \in States, k \in DOMAIN set : CollectTag(st, set[k], coarse, fine, thr) \in States
    /\ \A k \in Nat : k + 1 <= Len(set) =>
          \A st \in good[k] : CollectTag(st, set[k + 1], coarse, fine, thr) \in good[k + 1]

(* merge_tags, the fold of its turns, ends in a state of good[Len(set)].    *)
LEMMA MergeByTurns ==
    ASSUME NEW old, NEW set, NEW States, NEW good, NEW coarse, NEW fine, NEW thr,
           Turns(old, set, States, good, coarse, fine, thr), thr # {}
    PROVE  MergeTags(old, set, coarse, fine, thr) \in good[Len(set)]
  <1> DEFINE n == Len(set)
             Empty == [heap |-> old, merged |-> <<>>]
             base == {Empty}
             S == {{st} : st \in States}
             Op(sts, t) == {CollectTag(st, t, coarse, fine, thr) : st \in sts}
             step == [p \in S \X (1..n) |-> Op(p[1], set[p[2]])]
             fold(iter) == [s \in SUBSET DOMAIN set |->
                             IF s = {} THEN base ELSE Op(iter[s \ {Max(s)}], set[Max(s)])]
             latest == CHOOSE iter : iter = fold(iter)
  <1>1. n \in Nat /\ DOMAIN set = 1..n
    BY DEF Turns
  <1>2. FoldLeft(LAMBDA sts, t : {CollectTag(st, t, coarse, fine, thr) : st \in sts},
                 {[heap |-> old, merged |-> <<>>]}, set) = latest[DOMAIN set]
    BY DEF FoldLeft, MapThenFoldSet
  <1>3. Empty \in good[0] /\ Empty \in States
    BY <1>1 DEF Turns
  <1>4. /\ \A st \in States, k \in 1..n : CollectTag(st, set[k], coarse, fine, thr) \in States
        /\ \A k \in Nat : k + 1 <= n =>
              \A st \in good[k] : CollectTag(st, set[k + 1], coarse, fine, thr) \in good[k + 1]
    BY <1>1 DEF Turns
  <1> HIDE DEF n, Empty
  <1>5. ASSUME NEW st, NEW t PROVE Op({st}, t) = {CollectTag(st, t, coarse, fine, thr)}
    OBVIOUS
  <1>6. ASSUME NEW v \in S, NEW k \in 1..n PROVE Op(v, set[k]) \in S
    <2>1. PICK st \in States : v = {st}
      OBVIOUS
    <2> DEFINE next == CollectTag(st, set[k], coarse, fine, thr)
    <2>2. next \in States
      BY <1>4
    <2>3. Op(v, set[k]) = {next}
      BY <1>5, <2>1
    <2> HIDE DEF next, Op
    <2> QED
      BY <2>2, <2>3
  <1>7. base \in S
    BY <1>3
  <1> HIDE DEF S, base, Op
  <1>8. step \in [S \X (1..n) -> S] /\ \A v \in S, k \in 1..n : step[<<v, k>>] = Op(v, set[k])
    BY <1>6
  <1> HIDE DEF step
  <1>9. StepsWithin(S, n, base, step)
    BY <1>1, <1>7, <1>8 DEF StepsWithin
  <1>10. latest = fold(latest)
    <2>1. PICK iter : FoldsOver(iter, S, n, base, step)
      BY <1>9, FoldExists
    <2>2. /\ iter \in [SUBSET (1..n) -> S]
          /\ \A s \in SUBSET (1..n) :
               iter[s] = IF s = {} THEN base ELSE step[<<iter[s \ {Max(s)}], Max(s)>>]
      BY <2>1 DEF FoldsOver
    <2>3. ASSUME NEW s \in SUBSET (1..n), s # {}
          PROVE  step[<<iter[s \ {Max(s)}], Max(s)>>] = Op(iter[s \ {Max(s)}], set[Max(s)])
      <3>1. Max(s) \in 1..n
        BY <1>1, <2>3, MaxOfInterval
      <3>2. iter[s \ {Max(s)}] \in S
        BY <2>2
      <3> QED
        BY <1>8, <3>1, <3>2
    <2>4. iter = fold(iter)
      BY <1>1, <2>2, <2>3
    <2> HIDE DEF fold
    <2> QED
      BY <2>4
  <1> HIDE DEF latest
  <1>11. latest[1..0] = base
    <2>1. 1..0 = {} /\ 1..0 \in SUBSET DOMAIN set
      OBVIOUS
    <2> QED
      BY <1>10, <2>1
  <1>12. ASSUME NEW k \in Nat, k + 1 <= n PROVE latest[1..(k + 1)] = Op(latest[1..k], set[k + 1])
    <2>1. 1..(k + 1) \in SUBSET DOMAIN set
      BY <1>1, <1>12
    <2>2. 1..(k + 1) # {} /\ Max(1..(k + 1)) = k + 1 /\ (1..(k + 1)) \ {k + 1} = 1..k
      BY PrefixMax
    <2> QED
      BY <1>10, <2>1, <2>2
  <1> DEFINE Good(k) == {st \in good[k] : latest[1..k] = {st}}
             Q == {k \in Nat : k <= n => Good(k) # {}}
  <1>13. 0 \in Q
    <2>1. Empty \in Good(0)
      BY <1>3, <1>11 DEF base
    <2> HIDE DEF Good
    <2> QED
      BY <2>1
  <1>14. ASSUME NEW k \in Nat, k \in Q PROVE k + 1 \in Q
    <2> SUFFICES ASSUME k + 1 <= n PROVE Good(k + 1) # {}
      <3> HIDE DEF Good
      <3> QED
        OBVIOUS
    <2>1. PICK st : st \in Good(k)
      <3>1. k <= n
        BY <1>1
      <3> HIDE DEF Good
      <3> QED
        BY <1>14, <3>1
    <2> DEFINE next == CollectTag(st, set[k + 1], coarse, fine, thr)
    <2>2. st \in good[k] /\ latest[1..k] = {st}
      BY <2>1
    <2>3. next \in good[k + 1]
      BY <1>4, <2>2
    <2>4. latest[1..(k + 1)] = {next}
      BY <1>5, <1>12, <2>2
    <2> HIDE DEF next
    <2> QED
      BY <2>3, <2>4
  <1> HIDE DEF Q
  <1>15. n \in Q
    BY <1>1, <1>13, <1>14, NaturalInduction
  <1>16. PICK st \in good[n] : latest[1..n] = {st}
    BY <1>1, <1>15 DEF Q
  <1>17. MergeTags(old, set, coarse, fine, thr) = CHOOSE last \in latest[DOMAIN set] : TRUE
    BY <1>2 DEF MergeTags
  <1> QED
    BY <1>1, <1>16, <1>17 DEF n

(* The states of a merge: part of the set collected in a grown heap.        *)
MergeStates(old, m, set) == {st \in MergeState(old, m) : Collected(old, m, set, {}, st)}

(* merge_tags starts in one of them, and collecting a tag leads to another. *)
LEMMA MergeStatesClosed ==
    ASSUME NEW old \in Heap, NEW m \in Node, NEW set \in Seq(RefsAt(old, m)),
           NEW coarse, NEW fine, NEW thr
    PROVE  /\ [heap |-> old, merged |-> <<>>] \in MergeStates(old, m, set)
           /\ \A st \in MergeStates(old, m, set), k \in DOMAIN set :
                 CollectTag(st, set[k], coarse, fine, thr) \in MergeStates(old, m, set)
  <1> DEFINE Empty == [heap |-> old, merged |-> <<>>]
  <1>1. Empty \in MergeState(old, m)
    <2>1. Grown(old, old, m) /\ <<>> \in Seq(RefsAt(old, m))
      BY GrownReflexive
    <2> QED
      BY <2>1 DEF MergeState
  <1>2. Collected(old, m, set, {}, Empty)
    BY <1>1 DEF Collected
  <1>3. ASSUME NEW st \in MergeStates(old, m, set), NEW k \in DOMAIN set
        PROVE  CollectTag(st, set[k], coarse, fine, thr) \in MergeStates(old, m, set)
    <2>1. Collected(old, m, set, {}, st) /\ {} \in SUBSET DOMAIN set
      BY DEF MergeStates
    <2>2. Collected(old, m, set, {} \cup {k}, CollectTag(st, set[k], coarse, fine, thr))
      BY <2>1, CollectStep
    <2> QED
      BY <2>2 DEF Collected, MergeStates
  <1> QED
    BY <1>1, <1>2, <1>3 DEF MergeStates

(* merge_tags returns a part of the set, in which every tag lives on, and   *)
(* changes nothing but the tags of the set.                                 *)
LEMMA MergeOutcome ==
    ASSUME NEW old \in Heap, NEW m \in Node, NEW set \in Seq(RefsAt(old, m)),
           NEW coarse, NEW fine, NEW thr
    PROVE  Collected(old, m, set, DOMAIN set, MergeTags(old, set, coarse, fine, thr))
  <1> DEFINE States == MergeStates(old, m, set)
             good == [k \in 0..Len(set) |-> {st \in States : Collected(old, m, set, 1..k, st)}]
  <1>1. Len(set) \in Nat /\ DOMAIN set = 1..Len(set)
    OBVIOUS
  <1>2. /\ [heap |-> old, merged |-> <<>>] \in States
        /\ \A st \in States, k \in DOMAIN set : CollectTag(st, set[k], coarse, fine, thr) \in States
    BY MergeStatesClosed
  <1> HIDE DEF States
  <1>3. [heap |-> old, merged |-> <<>>] \in good[0]
    <2>1. 0 \in 0..Len(set) /\ 1..0 = {}
      BY <1>1
    <2> QED
      BY <1>2, <2>1 DEF States, MergeStates
  <1>4. ASSUME NEW k \in Nat, k + 1 <= Len(set), NEW st \in good[k]
        PROVE  CollectTag(st, set[k + 1], coarse, fine, thr) \in good[k + 1]
    <2>1. k \in 0..Len(set) /\ k + 1 \in 0..Len(set) /\ k + 1 \in DOMAIN set
          /\ 1..k \in SUBSET DOMAIN set /\ (1..k) \cup {k + 1} = 1..(k + 1)
      BY <1>1, <1>4
    <2>2. st \in States /\ Collected(old, m, set, 1..k, st)
      BY <2>1
    <2>3. Collected(old, m, set, (1..k) \cup {k + 1}, CollectTag(st, set[k + 1], coarse, fine, thr))
      BY <2>1, <2>2, CollectStep
    <2> QED
      BY <1>2, <2>1, <2>2, <2>3
  <1>5. \A k \in 0..Len(set) : good[k] \in SUBSET States
    OBVIOUS
  <1> HIDE DEF good
  <1>6. Turns(old, set, States, good, coarse, fine, thr)
    BY <1>1, <1>2, <1>3, <1>4, <1>5 DEF Turns
  <1>7. CASE thr # {}
    <2>1. MergeTags(old, set, coarse, fine, thr) \in good[Len(set)]
      BY <1>6, <1>7, MergeByTurns
    <2>2. Len(set) \in 0..Len(set)
      BY <1>1
    <2> QED
      BY <1>1, <2>1, <2>2 DEF good
  <1>8. CASE thr = {}
    <2> DEFINE res == [heap |-> old, merged |-> set]
    <2>1. MergeTags(old, set, coarse, fine, thr) = res
      BY <1>8 DEF MergeTags
    <2>2. res \in MergeState(old, m) /\ res.heap = old /\ res.merged = set
      BY GrownReflexive DEF MergeState
    <2>3. \A j \in DOMAIN set : LivesOn(old, set[j], old, set)
      <3>1. \A j \in DOMAIN set : set[j] \in RefsAt(old, m)
        OBVIOUS
      <3>2. \A j \in DOMAIN set : At(old, set[j]).arr <= At(old, set[j]).arr
        BY <3>1, GrownReflexive, GrownRefs
      <3> QED
        BY <3>2 DEF LivesOn
    <2> HIDE DEF res
    <2> QED
      BY <2>1, <2>2, <2>3 DEF Collected
  <1> QED
    BY <1>7, <1>8
-------------------------------------------------------------------------------
(* The bin size that decides what a collected tag may take.                 *)
BinSize(arr, coarse, fine, thr) == IF Beyond(arr, thr) THEN fine ELSE coarse

(* A tag and the collected tag that stands for it.                          *)
Taken(tag, rep, coarse, fine, thr) ==
    /\ rep.trans = tag.trans /\ tag.scen \subseteq rep.scen /\ tag.arr <= rep.arr
    /\ SameBin(BinSize(rep.arr, coarse, fine, thr), tag.arr, rep.arr)

(* What collecting the first k tags of the set has done: home[j] is the     *)
(* place of the collected tag that the j-th tag of the set went to.         *)
MergedInto(old, set, k, home, st, coarse, fine, thr) ==
    /\ home \in [1..k -> DOMAIN st.merged]
    /\ IsInjective(st.merged)
    /\ \A a \in DOMAIN st.merged : \E j \in 1..k : st.merged[a] = set[j]
    /\ \A j \in DOMAIN set : k < j => At(st.heap, set[j]) = At(old, set[j])
    /\ \A j \in 1..k : Taken(At(old, set[j]), At(st.heap, st.merged[home[j]]), coarse, fine, thr)
    /\ \A a \in DOMAIN st.merged : \A s \in At(st.heap, st.merged[a]).scen :
          \E j \in 1..k : home[j] = a /\ s \in At(old, set[j]).scen

(* No collected tag could still be merged with one collected before it.     *)
Apart(st, coarse, fine, thr) ==
    \A a, b \in DOMAIN st.merged :
        a < b => ~Joinable(st.heap, st.merged[b], st.merged[a], coarse, fine, thr)

(* Being in one bin is an equivalence.                                      *)
LEMMA SameBinFacts ==
    ASSUME NEW size, NEW x, NEW y, NEW z
    PROVE  /\ SameBin(size, x, x)
           /\ SameBin(size, x, y) => SameBin(size, y, x)
           /\ SameBin(size, x, y) /\ SameBin(size, y, z) => SameBin(size, x, z)
  BY DEF SameBin

(* A collected tag that takes another stays on its side of the threshold    *)
(* and in its bin.                                                          *)
LEMMA TakingStays ==
    ASSUME NEW thr \in SUBSET Int, NEW x \in Nat, NEW r \in Nat, NEW new \in {x, r}, r <= new,
           NEW coarse, NEW fine, ~(Beyond(x, thr) /\ ~Beyond(r, thr)),
           SameBin(BinSize(r, coarse, fine, thr), x, r)
    PROVE  /\ Beyond(new, thr) <=> Beyond(r, thr)
           /\ BinSize(new, coarse, fine, thr) = BinSize(r, coarse, fine, thr)
           /\ SameBin(BinSize(r, coarse, fine, thr), r, new)
           /\ SameBin(BinSize(r, coarse, fine, thr), new, r)
  <1>1. Beyond(new, thr) <=> Beyond(r, thr)
    <2>1. ASSUME Beyond(r, thr) PROVE Beyond(new, thr)
      <3>1. PICK limit \in thr : r > limit
        BY <2>1 DEF Beyond
      <3>2. limit \in Int /\ new \in Nat
        OBVIOUS
      <3>3. new > limit
        BY <3>1, <3>2
      <3> QED
        BY <3>3 DEF Beyond
    <2>2. ASSUME Beyond(new, thr) PROVE Beyond(r, thr)
      BY <2>2
    <2> QED
      BY <2>1, <2>2
  <1>2. BinSize(new, coarse, fine, thr) = BinSize(r, coarse, fine, thr)
    BY <1>1 DEF BinSize
  <1> DEFINE size == BinSize(r, coarse, fine, thr)
  <1> HIDE DEF size
  <1>3. SameBin(size, x, r)
    BY DEF size
  <1>4. SameBin(size, r, new) /\ SameBin(size, new, r)
    BY <1>3, SameBinFacts
  <1> QED
    BY <1>1, <1>2, <1>4 DEF size

(* Collecting the next tag of a set without repetitions: it becomes a new   *)
(* collected tag ...                                                        *)
LEMMA CollectNew ==
    ASSUME NEW old \in Heap, NEW m \in Node, NEW set \in Seq(RefsAt(old, m)), IsInjective(set),
           NEW coarse, NEW fine, NEW thr, NEW k \in Nat, k + 1 \in DOMAIN set,
           NEW st \in MergeStates(old, m, set), NEW home, MergedInto(old, set, k, home, st, coarse, fine, thr),
           Apart(st, coarse, fine, thr),
           \A a \in DOMAIN st.merged : ~Joinable(st.heap, set[k + 1], st.merged[a], coarse, fine, thr),
           NEW new, new = [st EXCEPT !.merged = Append(@, set[k + 1])]
    PROVE  /\ \E home2 : MergedInto(old, set, k + 1, home2, new, coarse, fine, thr)
           /\ Apart(new, coarse, fine, thr)
  <1> DEFINE t == set[k + 1]
             last == Len(st.merged) + 1
             home2 == [j \in 1..(k + 1) |-> IF j = k + 1 THEN last ELSE home[j]]
  <1>1. st \in [heap : Heap, merged : Seq(RefsAt(old, m))] /\ Grown(old, st.heap, m)
    BY DEF MergeStates, MergeState
  <1>2. t \in RefsAt(old, m)
    OBVIOUS
  <1>3. new.heap = st.heap /\ new.merged = Append(st.merged, t)
    BY <1>1
  <1>4. /\ Len(st.merged) \in Nat /\ DOMAIN st.merged = 1..Len(st.merged)
        /\ DOMAIN new.merged = 1..last
        /\ \A a \in DOMAIN st.merged : a \in DOMAIN new.merged /\ new.merged[a] = st.merged[a]
        /\ last \in DOMAIN new.merged /\ new.merged[last] = t
        /\ \A a \in DOMAIN new.merged : a \in DOMAIN st.merged \/ a = last
        /\ last \notin DOMAIN st.merged
    <2>1. st.merged \in Seq(RefsAt(old, m))
      BY <1>1
    <2> QED
      BY <1>2, <1>3, <2>1
  <1>5. /\ home \in [1..k -> DOMAIN st.merged] /\ IsInjective(st.merged)
        /\ \A a \in DOMAIN st.merged : \E j \in 1..k : st.merged[a] = set[j]
        /\ \A j \in DOMAIN set : k < j => At(st.heap, set[j]) = At(old, set[j])
        /\ \A j \in 1..k : Taken(At(old, set[j]), At(st.heap, st.merged[home[j]]), coarse, fine, thr)
        /\ \A a \in DOMAIN st.merged : \A s \in At(st.heap, st.merged[a]).scen :
              \E j \in 1..k : home[j] = a /\ s \in At(old, set[j]).scen
    BY DEF MergedInto
  <1>6. /\ \A j \in 1..(k + 1) : j \in 1..k \/ j = k + 1
        /\ k + 1 \in 1..(k + 1) /\ k + 1 \notin 1..k
        /\ \A j \in 1..k : j \in 1..(k + 1) /\ j \in DOMAIN set
    <2>1. DOMAIN set = 1..Len(set) /\ Len(set) \in Nat
      OBVIOUS
    <2> QED
      BY <2>1
  <1>7. ASSUME NEW a \in DOMAIN st.merged PROVE st.merged[a] # t
    <2>1. PICK j \in 1..k : st.merged[a] = set[j]
      BY <1>5
    <2> QED
      BY <1>6, <2>1 DEF IsInjective
  <1>8. At(st.heap, t) = At(old, t) /\ At(old, t).arr \in Nat
    <2>1. k < k + 1
      OBVIOUS
    <2> QED
      BY <1>1, <1>2, <1>5, <2>1, GrownRefs
  <1> HIDE DEF t, last
  <1>9. home2 \in [1..(k + 1) -> DOMAIN new.merged]
    BY <1>4, <1>5, <1>6
  <1>10. \A j \in 1..k : home2[j] = home[j] /\ home[j] \in DOMAIN st.merged
    BY <1>5, <1>6
  <1>11. home2[k + 1] = last
    BY <1>6
  <1> HIDE DEF home2
  <1>12. IsInjective(new.merged)
    <2> SUFFICES ASSUME NEW a \in DOMAIN new.merged, NEW b \in DOMAIN new.merged,
                        new.merged[a] = new.merged[b]
                 PROVE  a = b
      BY DEF IsInjective
    <2>1. CASE a \in DOMAIN st.merged /\ b \in DOMAIN st.merged
      <3>1. st.merged[a] = st.merged[b]
        BY <1>4, <2>1
      <3> QED
        BY <1>5, <2>1, <3>1 DEF IsInjective
    <2>2. CASE a = last \/ b = last
      BY <1>4, <1>7, <2>2
    <2> QED
      BY <1>4, <2>1, <2>2
  <1>13. ASSUME NEW a \in DOMAIN new.merged PROVE \E j \in 1..(k + 1) : new.merged[a] = set[j]
    <2>1. CASE a \in DOMAIN st.merged
      <3>1. PICK j \in 1..k : st.merged[a] = set[j]
        BY <1>5, <2>1
      <3> QED
        BY <1>4, <1>6, <2>1, <3>1
    <2>2. CASE a = last
      BY <1>4, <1>6, <2>2 DEF t
    <2> QED
      BY <1>4, <2>1, <2>2
  <1>14. \A j \in DOMAIN set : k + 1 < j => At(new.heap, set[j]) = At(old, set[j])
    <2>1. \A j \in DOMAIN set : j \in Nat
      BY <1>6
    <2>2. \A j \in DOMAIN set : k + 1 < j => k < j
      BY <2>1
    <2> QED
      BY <1>3, <1>5, <2>2
  <1>15. ASSUME NEW j \in 1..(k + 1)
         PROVE  Taken(At(old, set[j]), At(new.heap, new.merged[home2[j]]), coarse, fine, thr)
    <2>1. CASE j \in 1..k
      BY <1>3, <1>4, <1>5, <1>10, <2>1
    <2>2. CASE j = k + 1
      <3>1. set[j] = t /\ At(new.heap, new.merged[home2[j]]) = At(old, t)
        BY <1>3, <1>4, <1>8, <1>11, <2>2 DEF t
      <3>2. At(old, t).arr <= At(old, t).arr
        BY <1>8
      <3> QED
        BY <3>1, <3>2, SameBinFacts DEF Taken
    <2> QED
      BY <1>6, <2>1, <2>2
  <1>16. ASSUME NEW a \in DOMAIN new.merged, NEW s \in At(new.heap, new.merged[a]).scen
         PROVE  \E j \in 1..(k + 1) : home2[j] = a /\ s \in At(old, set[j]).scen
    <2>1. CASE a \in DOMAIN st.merged
      <3>1. PICK j \in 1..k : home[j] = a /\ s \in At(old, set[j]).scen
        BY <1>3, <1>4, <1>5, <2>1
      <3> QED
        BY <1>6, <1>10, <3>1
    <2>2. CASE a = last
      BY <1>3, <1>4, <1>6, <1>8, <1>11, <2>2 DEF t
    <2> QED
      BY <1>4, <2>1, <2>2
  <1>17. Apart(new, coarse, fine, thr)
    <2> SUFFICES ASSUME NEW a \in DOMAIN new.merged, NEW b \in DOMAIN new.merged, a < b
                 PROVE  ~Joinable(new.heap, new.merged[b], new.merged[a], coarse, fine, thr)
      BY DEF Apart
    <2>1. a \in DOMAIN st.merged
      BY <1>4 DEF last
    <2>2. CASE b \in DOMAIN st.merged
      BY <1>3, <1>4, <2>1, <2>2 DEF Apart
    <2>3. CASE b = last
      BY <1>3, <1>4, <2>1, <2>3 DEF t
    <2> QED
      BY <1>4, <2>2, <2>3
  <1>18. MergedInto(old, set, k + 1, home2, new, coarse, fine, thr)
    BY <1>9, <1>12, <1>13, <1>14, <1>15, <1>16 DEF MergedInto
  <1> QED
    BY <1>17, <1>18

(* ... or the first collected tag that may take it does.                    *)
LEMMA CollectTaken ==
    ASSUME NEW old \in Heap, NEW m \in Node, NEW set \in Seq(RefsAt(old, m)), IsInjective(set),
           NEW coarse, NEW fine, NEW thr \in SUBSET Int, NEW k \in Nat, k + 1 \in DOMAIN set,
           NEW st \in MergeStates(old, m, set), NEW home, MergedInto(old, set, k, home, st, coarse, fine, thr),
           Apart(st, coarse, fine, thr), NEW i \in DOMAIN st.merged,
           Joinable(st.heap, set[k + 1], st.merged[i], coarse, fine, thr),
           \A a \in DOMAIN st.merged :
              a < i => ~Joinable(st.heap, set[k + 1], st.merged[a], coarse, fine, thr),
           NEW new, new = [st EXCEPT !.heap = Absorb(@, st.merged[i], set[k + 1])]
    PROVE  /\ \E home2 : MergedInto(old, set, k + 1, home2, new, coarse, fine, thr)
           /\ Apart(new, coarse, fine, thr)
  <1> DEFINE t == set[k + 1]
             r == st.merged[i]
             home2 == [j \in 1..(k + 1) |-> IF j = k + 1 THEN i ELSE home[j]]
  <1>1. /\ st \in [heap : Heap, merged : Seq(RefsAt(old, m))] /\ Grown(old, st.heap, m)
        /\ st.heap \in Heap /\ RefsAt(st.heap, m) = RefsAt(old, m)
        /\ \A a \in DOMAIN st.merged : st.merged[a] \in RefsAt(old, m)
        /\ DOMAIN st.merged = 1..Len(st.merged)
    <2>1. st \in [heap : Heap, merged : Seq(RefsAt(old, m))] /\ Grown(old, st.heap, m)
      BY DEF MergeStates, MergeState
    <2>2. st.merged \in Seq(RefsAt(old, m)) /\ st.heap \in Heap
      BY <2>1
    <2> QED
      BY <2>1, <2>2, GrownRefs
  <1>2. t \in RefsAt(old, m) /\ r \in RefsAt(old, m)
    BY <1>1
  <1>3. new.heap = Absorb(st.heap, r, t) /\ new.merged = st.merged
    BY <1>1
  <1>4. /\ home \in [1..k -> DOMAIN st.merged] /\ IsInjective(st.merged)
        /\ \A a \in DOMAIN st.merged : \E j \in 1..k : st.merged[a] = set[j]
        /\ \A j \in DOMAIN set : k < j => At(st.heap, set[j]) = At(old, set[j])
        /\ \A j \in 1..k : Taken(At(old, set[j]), At(st.heap, st.merged[home[j]]), coarse, fine, thr)
        /\ \A a \in DOMAIN st.merged : \A s \in At(st.heap, st.merged[a]).scen :
              \E j \in 1..k : home[j] = a /\ s \in At(old, set[j]).scen
    BY DEF MergedInto
  <1>5. /\ \A j \in 1..(k + 1) : j \in 1..k \/ j = k + 1
        /\ k + 1 \in 1..(k + 1) /\ k + 1 \notin 1..k
        /\ \A j \in 1..k : j \in 1..(k + 1) /\ j \in DOMAIN set
        /\ \A j \in DOMAIN set : k + 1 < j => k < j /\ j \notin 1..k
    <2>1. DOMAIN set = 1..Len(set) /\ Len(set) \in Nat
      OBVIOUS
    <2> QED
      BY <2>1
  <1>6. ASSUME NEW j \in DOMAIN set, j \notin 1..k PROVE set[j] # r
    <2>1. PICK l \in 1..k : r = set[l]
      BY <1>4
    <2> QED
      BY <1>5, <1>6, <2>1 DEF IsInjective
  <1> DEFINE x == At(st.heap, t)
             y == At(st.heap, r)
             z == At(new.heap, r)
  <1>7. At(st.heap, t) = At(old, t)
    <2>1. k < k + 1
      OBVIOUS
    <2> QED
      BY <1>4, <2>1
  <1>8. /\ x.trans = y.trans /\ ~(Beyond(x.arr, thr) /\ ~Beyond(y.arr, thr))
        /\ SameBin(BinSize(y.arr, coarse, fine, thr), x.arr, y.arr)
    BY DEF Joinable, BinSize
  <1>9. /\ x.arr \in Nat /\ y.arr \in Nat
    BY <1>1, <1>2, GrownRefs
  <1>10. /\ Grown(st.heap, new.heap, m)
         /\ z.scen = y.scen \cup x.scen /\ z.arr \in {x.arr, y.arr} /\ x.arr <= z.arr
         /\ \A w \in RefsAt(old, m) : w # r => At(new.heap, w) = At(st.heap, w)
    <2>1. At(st.heap, t).trans = At(st.heap, r).trans
      BY <1>8
    <2> HIDE DEF t, r
    <2> QED
      BY <1>1, <1>2, <1>3, <2>1, AbsorbEffect
  <1>11. z.trans = y.trans /\ y.arr <= z.arr
    BY <1>1, <1>2, <1>10, GrownRefs
  <1> HIDE DEF t, r, home2, x, y, z
  <1>12. /\ Beyond(z.arr, thr) <=> Beyond(y.arr, thr)
         /\ BinSize(z.arr, coarse, fine, thr) = BinSize(y.arr, coarse, fine, thr)
         /\ SameBin(BinSize(y.arr, coarse, fine, thr), y.arr, z.arr)
         /\ SameBin(BinSize(y.arr, coarse, fine, thr), z.arr, y.arr)
    BY <1>8, <1>9, <1>10, <1>11, TakingStays
  <1>13. /\ home2 \in [1..(k + 1) -> DOMAIN new.merged]
         /\ \A j \in 1..k : home2[j] = home[j] /\ home[j] \in DOMAIN st.merged
         /\ home2[k + 1] = i
    BY <1>3, <1>4, <1>5 DEF home2
  <1>14. \A a \in DOMAIN st.merged : a # i => At(new.heap, st.merged[a]) = At(st.heap, st.merged[a])
    BY <1>1, <1>4, <1>10 DEF r, IsInjective
  <1>15. \A a \in DOMAIN new.merged : \E j \in 1..(k + 1) : new.merged[a] = set[j]
    BY <1>3, <1>4, <1>5
  <1>16. ASSUME NEW j \in DOMAIN set, k + 1 < j PROVE At(new.heap, set[j]) = At(old, set[j])
    <2>1. set[j] \in RefsAt(old, m) /\ set[j] # r
      BY <1>5, <1>6, <1>16
    <2> QED
      BY <1>4, <1>5, <1>10, <1>16, <2>1
  <1>17. ASSUME NEW j \in 1..(k + 1)
         PROVE  Taken(At(old, set[j]), At(new.heap, new.merged[home2[j]]), coarse, fine, thr)
    <2>1. CASE j \in 1..k /\ home[j] # i
      BY <1>3, <1>4, <1>13, <1>14, <2>1
    <2>2. CASE j \in 1..k /\ home[j] = i
      <3> DEFINE v == At(old, set[j])
      <3>1. Taken(v, y, coarse, fine, thr)
        BY <1>4, <2>2 DEF y, r
      <3>2. v.arr \in Nat
        <4>1. set[j] \in RefsAt(old, m)
          BY <1>5, <2>2
        <4> QED
          BY <1>1, <4>1, GrownRefs
      <3> HIDE DEF v
      <3>3. SameBin(BinSize(y.arr, coarse, fine, thr), v.arr, z.arr)
        BY <1>12, <3>1, SameBinFacts DEF Taken
      <3>4. v.arr <= z.arr
        BY <1>9, <1>10, <1>11, <3>1, <3>2 DEF Taken
      <3>5. Taken(v, z, coarse, fine, thr)
        BY <1>10, <1>11, <1>12, <3>1, <3>3, <3>4 DEF Taken
      <3> QED
        BY <1>3, <1>13, <2>2, <3>5 DEF v, z, r
    <2>3. CASE j = k + 1
      <3>1. SameBin(BinSize(y.arr, coarse, fine, thr), x.arr, z.arr)
        BY <1>8, <1>12, SameBinFacts
      <3>2. Taken(x, z, coarse, fine, thr)
        BY <1>8, <1>10, <1>11, <1>12, <3>1 DEF Taken
      <3> QED
        BY <1>3, <1>7, <1>13, <2>3, <3>2 DEF x, z, r, t
    <2> QED
      BY <1>5, <2>1, <2>2, <2>3
  <1>18. ASSUME NEW a \in DOMAIN new.merged, NEW s \in At(new.heap, new.merged[a]).scen
         PROVE  \E j \in 1..(k + 1) : home2[j] = a /\ s \in At(old, set[j]).scen
    <2>1. ASSUME s \in At(st.heap, st.merged[a]).scen
          PROVE  \E j \in 1..(k + 1) : home2[j] = a /\ s \in At(old, set[j]).scen
      <3>1. a \in DOMAIN st.merged
        BY <1>3
      <3>2. PICK j \in 1..k : home[j] = a /\ s \in At(old, set[j]).scen
        BY <2>1, <3>1 DEF MergedInto
      <3> QED
        BY <1>5, <1>13, <3>2
    <2>2. CASE a # i
      BY <1>3, <1>14, <1>18, <2>1, <2>2
    <2>3. CASE a = i
      <3>1. s \in y.scen \/ s \in x.scen
        BY <1>3, <1>10, <1>18, <2>3 DEF z, r
      <3>2. CASE s \in y.scen
        BY <2>1, <2>3, <3>2 DEF y, r
      <3>3. CASE s \in x.scen
        BY <1>5, <1>7, <1>13, <2>3, <3>3 DEF x, t
      <3> QED
        BY <3>1, <3>2, <3>3
    <2> QED
      BY <2>2, <2>3
  <1>19. Apart(new, coarse, fine, thr)
    <2> SUFFICES ASSUME NEW a \in DOMAIN st.merged, NEW b \in DOMAIN st.merged, a < b,
                        Joinable(new.heap, st.merged[b], st.merged[a], coarse, fine, thr)
                 PROVE  FALSE
      BY <1>3 DEF Apart
    <2>1. ~Joinable(st.heap, st.merged[b], st.merged[a], coarse, fine, thr)
      BY DEF Apart
    <2>2. CASE a # i /\ b # i
      BY <1>14, <2>1, <2>2 DEF Joinable
    <2>3. CASE a = i
      <3> DEFINE w == At(st.heap, st.merged[b])
      <3>1. b # i
        BY <1>1, <2>3
      <3>2. At(new.heap, st.merged[b]) = w
        BY <1>14, <3>1
      <3> HIDE DEF w
      <3>3. /\ w.trans = z.trans /\ ~(Beyond(w.arr, thr) /\ ~Beyond(z.arr, thr))
            /\ SameBin(BinSize(z.arr, coarse, fine, thr), w.arr, z.arr)
        BY <2>3, <3>2 DEF Joinable, BinSize, z, r
      <3>4. SameBin(BinSize(y.arr, coarse, fine, thr), w.arr, y.arr)
        BY <1>12, <3>3, SameBinFacts
      <3>5. w.trans = y.trans /\ ~(Beyond(w.arr, thr) /\ ~Beyond(y.arr, thr))
        BY <1>11, <1>12, <3>3
      <3> QED
        BY <2>1, <2>3, <3>4, <3>5 DEF Joinable, BinSize, w, y, r
    <2>4. CASE b = i
      <3> DEFINE w == At(st.heap, st.merged[a])
      <3>1. a # i /\ a < i
        BY <1>1, <2>4
      <3>2. At(new.heap, st.merged[a]) = w
        BY <1>14, <3>1
      <3>3. ~Joinable(st.heap, t, st.merged[a], coarse, fine, thr)
        BY <3>1 DEF t
      <3> HIDE DEF w
      <3>4. /\ z.trans = w.trans /\ ~(Beyond(z.arr, thr) /\ ~Beyond(w.arr, thr))
            /\ SameBin(BinSize(w.arr, coarse, fine, thr), z.arr, w.arr)
        BY <2>4, <3>2 DEF Joinable, BinSize, z, r
      <3>5. CASE z.arr = y.arr
        BY <1>11, <2>1, <2>4, <3>4, <3>5 DEF Joinable, BinSize, w, y, r
      <3>6. CASE z.arr = x.arr
        BY <1>8, <1>11, <3>3, <3>4, <3>6 DEF Joinable, BinSize, w, x
      <3> QED
        BY <1>10, <3>5, <3>6
    <2> QED
      BY <2>2, <2>3, <2>4
  <1>20. IsInjective(new.merged)
    BY <1>3, <1>4
  <1>21. MergedInto(old, set, k + 1, home2, new, coarse, fine, thr)
    BY <1>13, <1>15, <1>16, <1>17, <1>18, <1>20 DEF MergedInto
  <1> QED
    BY <1>19, <1>21

(* One turn of merge_tags over a set without repetitions.                   *)
LEMMA CollectMerged ==
    ASSUME NEW old \in Heap, NEW m \in Node, NEW set \in Seq(RefsAt(old, m)), IsInjective(set),
           NEW coarse, NEW fine, NEW thr \in SUBSET Int, NEW k \in Nat, k + 1 \in DOMAIN set,
           NEW st \in MergeStates(old, m, set), NEW home, MergedInto(old, set, k, home, st, coarse, fine, thr),
           Apart(st, coarse, fine, thr)
    PROVE  LET new == CollectTag(st, set[k + 1], coarse, fine, thr)
           IN /\ \E home2 : MergedInto(old, set, k + 1, home2, new, coarse, fine, thr)
              /\ Apart(new, coarse, fine, thr)
  <1> DEFINE t == set[k + 1]
             reps == {a \in DOMAIN st.merged : Joinable(st.heap, t, st.merged[a], coarse, fine, thr)}
             new == CollectTag(st, t, coarse, fine, thr)
  <1>1. DOMAIN st.merged \in SUBSET Nat
    <2>1. st.merged \in Seq(RefsAt(old, m))
      BY DEF MergeStates, MergeState
    <2>2. DOMAIN st.merged = 1..Len(st.merged)
      BY <2>1
    <2> QED
      BY <2>2
  <1>2. CASE reps = {}
    <2>1. new = [st EXCEPT !.merged = Append(@, t)]
      BY <1>2 DEF CollectTag
    <2>2. \A a \in DOMAIN st.merged : ~Joinable(st.heap, t, st.merged[a], coarse, fine, thr)
      BY <1>2
    <2> HIDE DEF new, reps
    <2>3. /\ \E home2 : MergedInto(old, set, k + 1, home2, new, coarse, fine, thr)
          /\ Apart(new, coarse, fine, thr)
      BY <2>1, <2>2, CollectNew
    <2> QED
      BY <2>3 DEF new
  <1>3. CASE reps # {}
    <2> DEFINE i == Min(reps)
    <2>1. reps \in SUBSET Nat
      BY <1>1
    <2>2. i \in reps /\ \A a \in reps : i <= a
      <3> HIDE DEF reps
      <3> QED
        BY <1>3, <2>1, LeastMember
    <2>3. new = [st EXCEPT !.heap = Absorb(@, st.merged[i], t)]
      BY <1>3 DEF CollectTag
    <2>4. i \in DOMAIN st.merged /\ Joinable(st.heap, t, st.merged[i], coarse, fine, thr)
      BY <2>2
    <2>5. ASSUME NEW a \in DOMAIN st.merged, a < i
          PROVE  ~Joinable(st.heap, t, st.merged[a], coarse, fine, thr)
      <3> HIDE DEF i
      <3>1. a \in Nat /\ i \in Nat
        BY <1>1, <2>4
      <3>2. a \notin reps
        <4> HIDE DEF reps
        <4> QED
          BY <2>2, <2>5, <3>1
      <3> QED
        BY <3>2
    <2> HIDE DEF new, reps, i
    <2>6. /\ \E home2 : MergedInto(old, set, k + 1, home2, new, coarse, fine, thr)
          /\ Apart(new, coarse, fine, thr)
      <3> HIDE DEF t
      <3>1. \A a \in DOMAIN st.merged : a < i => ~Joinable(st.heap, t, st.merged[a], coarse, fine, thr)
        BY <2>5
      <3> QED
        BY <2>3, <2>4, <3>1, CollectTaken DEF t
    <2> HIDE DEF t
    <2> QED
      BY <2>6 DEF new, t
  <1> QED
    BY <1>2, <1>3

(* What merge_tags makes of a set without repetitions: every tag of the set *)
(* goes to one collected tag, which takes over its scenarios and is in its  *)
(* bin; a collected tag has no other scenarios, and none could still be     *)
(* merged with an earlier one.                                              *)
LEMMA MergeFacts ==
    ASSUME NEW old \in Heap, NEW m \in Node, NEW set \in Seq(RefsAt(old, m)), IsInjective(set),
           NEW coarse, NEW fine, NEW thr \in SUBSET Int
    PROVE  LET res == MergeTags(old, set, coarse, fine, thr)
           IN /\ \E home : MergedInto(old, set, Len(set), home, res, coarse, fine, thr)
              /\ thr # {} => Apart(res, coarse, fine, thr)
  <1> DEFINE States == MergeStates(old, m, set)
             Done(k, st) == /\ \E home : MergedInto(old, set, k, home, st, coarse, fine, thr)
                            /\ Apart(st, coarse, fine, thr)
             good == [k \in 0..Len(set) |-> {st \in States : Done(k, st)}]
             res == MergeTags(old, set, coarse, fine, thr)
             Empty == [heap |-> old, merged |-> <<>>]
  <1>1. Len(set) \in Nat /\ DOMAIN set = 1..Len(set)
    OBVIOUS
  <1>2. Empty \in States /\ \A st \in States, k \in DOMAIN set : CollectTag(st, set[k], coarse, fine, thr) \in States
    BY MergeStatesClosed
  <1>3. Done(0, Empty)
    <2>1. Empty.merged = <<>> /\ DOMAIN Empty.merged = {} /\ Empty.heap = old /\ 1..0 = {}
      OBVIOUS
    <2> HIDE DEF Empty
    <2>2. <<>> \in [1..0 -> DOMAIN Empty.merged]
      BY <2>1
    <2>3. MergedInto(old, set, 0, <<>>, Empty, coarse, fine, thr)
      BY <2>1, <2>2 DEF MergedInto, IsInjective
    <2>4. Apart(Empty, coarse, fine, thr)
      BY <2>1 DEF Apart
    <2> QED
      BY <2>3, <2>4
  <1>4. ASSUME NEW k \in Nat, k + 1 <= Len(set), NEW st \in States, Done(k, st)
        PROVE  Done(k + 1, CollectTag(st, set[k + 1], coarse, fine, thr))
    <2>1. PICK home : MergedInto(old, set, k, home, st, coarse, fine, thr)
      BY <1>4
    <2>2. k + 1 \in DOMAIN set
      BY <1>1, <1>4
    <2> QED
      BY <1>4, <2>1, <2>2, CollectMerged
  <1> HIDE DEF States, Done
  <1>5. Empty \in good[0]
    <2>1. 0 \in 0..Len(set)
      BY <1>1
    <2> QED
      BY <1>2, <1>3, <2>1
  <1>6. ASSUME NEW k \in Nat, k + 1 <= Len(set), NEW st \in good[k]
        PROVE  CollectTag(st, set[k + 1], coarse, fine, thr) \in good[k + 1]
    <2>1. k \in 0..Len(set) /\ k + 1 \in 0..Len(set) /\ k + 1 \in DOMAIN set
      BY <1>1, <1>6
    <2>2. st \in States /\ Done(k, st)
      BY <2>1
    <2> QED
      BY <1>2, <1>4, <1>6, <2>1, <2>2
  <1>7. \A k \in 0..Len(set) : good[k] \in SUBSET States
    OBVIOUS
  <1> HIDE DEF good
  <1>8. Turns(old, set, States, good, coarse, fine, thr)
    BY <1>1, <1>2, <1>5, <1>6, <1>7 DEF Turns
  <1>9. CASE thr # {}
    <2>1. res \in good[Len(set)]
      BY <1>8, <1>9, MergeByTurns
    <2>2. Len(set) \in 0..Len(set)
      BY <1>1
    <2> HIDE DEF res
    <2>3. Done(Len(set), res)
      BY <2>1, <2>2 DEF good
    <2> QED
      BY <2>3 DEF Done, res
  <1>10. CASE thr = {}
    <2>1. res = [heap |-> old, merged |-> set]
      BY <1>10 DEF MergeTags
    <2>2. res.heap = old /\ res.merged = set
      BY <2>1
    <2> HIDE DEF res
    <2> DEFINE home == [j \in 1..Len(set) |-> j]
    <2>3. home \in [1..Len(set) -> DOMAIN res.merged] /\ \A j \in 1..Len(set) : home[j] = j
      BY <1>1, <2>2
    <2> HIDE DEF home
    <2>4. \A j \in 1..Len(set) : Taken(At(old, set[j]), At(res.heap, res.merged[home[j]]), coarse, fine, thr)
      <3> TAKE j \in 1..Len(set)
      <3>1. set[j] \in RefsAt(old, m)
        BY <1>1
      <3>2. At(old, set[j]).arr \in Nat
        BY <3>1, GrownReflexive, GrownRefs
      <3>3. At(res.heap, res.merged[home[j]]) = At(old, set[j])
        BY <2>2, <2>3
      <3> DEFINE v == At(old, set[j])
      <3> HIDE DEF v
      <3>4. Taken(v, v, coarse, fine, thr)
        BY <3>2, SameBinFacts DEF Taken, v
      <3> QED
        BY <3>3, <3>4 DEF v
    <2>5. \A j \in DOMAIN set : j <= Len(set)
      BY <1>1
    <2>6. \A j \in DOMAIN set : Len(set) < j => At(res.heap, set[j]) = At(old, set[j])
      BY <2>2
    <2>7. \A a \in DOMAIN res.merged : \A s \in At(res.heap, res.merged[a]).scen :
              \E j \in 1..Len(set) : home[j] = a /\ s \in At(old, set[j]).scen
      BY <1>1, <2>2, <2>3
    <2>8. \A a \in DOMAIN res.merged : \E j \in 1..Len(set) : res.merged[a] = set[j]
      BY <1>1, <2>2
    <2>9. MergedInto(old, set, Len(set), home, res, coarse, fine, thr)
      BY <2>2, <2>3, <2>4, <2>6, <2>7, <2>8 DEF MergedInto
    <2> QED
      BY <1>10, <2>9 DEF res
  <1> QED
    BY <1>9, <1>10
-------------------------------------------------------------------------------
(* What a node answers: a transition, at time zero or one delay after the   *)
(* arrival of some data input.                                              *)
LEMMA ResponseFacts ==
    ASSUME NEW n \in Node, delay \in DelayModels, NEW in \in [DataEdges(n) -> TagType],
           NEW response \in Responses(n, in)
    PROVE  /\ \E o \in SortedOrders(in) : response = Response(n, in, Unfiltered(n, in, o))
           /\ response \in [trans : Transitions, arr : Nat]
           /\ \/ response.arr = 0
              \/ \E i \in DataEdges(n) : response.arr = in[i].arr + EdgeDelay(n, i, response.trans)
  <1>1. PICK o \in SortedOrders(in) : response = Response(n, in, Unfiltered(n, in, o))
    BY DEF Responses
  <1> DEFINE u == Unfiltered(n, in, o)
             late == {in[i].arr + EdgeDelay(n, i, response.trans) : i \in u}
  <1>2. u \in SUBSET DataEdges(n) /\ DataEdges(n) \in SUBSET DOMAIN Fanin[n]
    BY DataNetFacts DEF Unfiltered, SortedOrders
  <1>3. /\ response.trans \in Transitions
        /\ response.arr = Max({0} \cup late)
    BY <1>1 DEF Response, Transitions, Dynamic, Static
  <1>4. \A i \in DataEdges(n) : in[i].arr \in Nat /\ EdgeDelay(n, i, response.trans) \in Nat
    <2> TAKE i \in DataEdges(n)
    <2>1. in[i] \in TagType
      OBVIOUS
    <2>2. delay[n] \in [DOMAIN Fanin[n] -> Nat]
      BY OptionsAssumption
    <2>3. delay[n][i] \in Nat
      BY <1>2, <2>2
    <2> QED
      BY <2>1, <2>3 DEF TagType, EdgeDelay
  <1>5. IsFiniteSet(DataEdges(n))
    <2>1. DOMAIN Fanin[n] = 1..Len(Fanin[n]) /\ Len(Fanin[n]) \in Int /\ 1 \in Int
      BY NetFacts
    <2>2. IsFiniteSet(DOMAIN Fanin[n])
      BY <2>1, FS_Interval
    <2> QED
      BY <1>2, <2>2, FS_Subset
  <1>6. IsFiniteSet({0} \cup late)
    <2>1. IsFiniteSet(u)
      BY <1>2, <1>5, FS_Subset
    <2> DEFINE g == [i \in u |-> in[i].arr + EdgeDelay(n, i, response.trans)]
    <2>2. IsFiniteSet({g[i] : i \in u})
      <3> HIDE DEF g, u
      <3> QED
        BY <2>1, FiniteImage
    <2>3. late = {g[i] : i \in u}
      <3> HIDE DEF u
      <3> QED
        OBVIOUS
    <2>4. IsFiniteSet({0})
      BY FS_Singleton
    <2> QED
      BY <2>2, <2>3, <2>4, FS_Union
  <1> DEFINE T == {0} \cup late
  <1>7. T \in SUBSET Nat /\ T \in SUBSET Int /\ T # {}
    <2>1. late \in SUBSET Nat
      <3> HIDE DEF u
      <3> QED
        BY <1>2, <1>4
    <2> HIDE DEF late
    <2> QED
      BY <2>1
  <1>8. Max(T) \in T
    <2> HIDE DEF T
    <2>1. IsFiniteSet(T)
      BY <1>6 DEF T
    <2> QED
      BY <1>7, <2>1, GreatestMember
  <1>9. response.arr \in T
    BY <1>3, <1>8
  <1>10. response.arr \in Nat
    <2> HIDE DEF T
    <2> QED
      BY <1>7, <1>9
  <1>11. \/ response.arr = 0
         \/ \E i \in DataEdges(n) : response.arr = in[i].arr + EdgeDelay(n, i, response.trans)
    <2> HIDE DEF u
    <2> QED
      BY <1>2, <1>9
  <1>12. response = [trans |-> response.trans, arr |-> response.arr]
    BY <1>1 DEF Response
  <1>13. response \in [trans : Transitions, arr : Nat]
    BY <1>3, <1>10, <1>12
  <1> QED
    BY <1>1, <1>11, <1>13

(* How a tag of the node comes out of adding a scenario.                    *)
AddedTag(seq, response, scenario, tag, i) ==
    /\ i \in DOMAIN seq => /\ tag.trans = seq[i].trans /\ tag.arr = seq[i].arr
                           /\ seq[i].scen \subseteq tag.scen
    /\ i \notin DOMAIN seq => tag.trans = response.trans /\ tag.arr = response.arr
    /\ \A s \in tag.scen : \/ i \in DOMAIN seq /\ s \in seq[i].scen
                           \/ s = scenario /\ tag.trans = response.trans /\ tag.arr = response.arr

(* max_arr(tag) puts the scenario into some tag, and changes nothing else.  *)
LEMMA AddScenarioEffect ==
    ASSUME NEW seq \in Seq(TagType), NEW response \in [trans : Transitions, arr : Nat],
           NEW scenario \in AnyScenario
    PROVE  LET new == AddScenario(seq, response, scenario) IN
             /\ new \in Seq(TagType) /\ DOMAIN seq \subseteq DOMAIN new
             /\ \E i \in DOMAIN new : scenario \in new[i].scen
             /\ \A i \in DOMAIN new : AddedTag(seq, response, scenario, new[i], i)
             /\ \E k \in DOMAIN new : \A i \in DOMAIN new :
                   i # k => i \in DOMAIN seq /\ new[i] = seq[i]
  <1> DEFINE same == {k \in DOMAIN seq : seq[k].trans = response.trans /\ seq[k].arr = response.arr}
             first == [trans |-> response.trans, arr |-> response.arr, scen |-> {scenario}]
             new == AddScenario(seq, response, scenario)
  <1>1. DOMAIN seq = 1..Len(seq) /\ Len(seq) \in Nat
    OBVIOUS
  <1>2. first \in TagType /\ first.trans = response.trans /\ first.arr = response.arr
        /\ first.scen = {scenario}
    BY DEF TagType
  <1>3. CASE same = {}
    <2>1. new = Append(seq, first)
      BY <1>3 DEF AddScenario
    <2> HIDE DEF first, same, new
    <2>2. /\ new \in Seq(TagType) /\ DOMAIN new = 1..(Len(seq) + 1)
          /\ \A i \in 1..Len(seq) : new[i] = seq[i]
          /\ new[Len(seq) + 1] = first
      BY <1>1, <1>2, <2>1
    <2>3. DOMAIN seq \subseteq DOMAIN new
      BY <1>1, <2>2
    <2>4. \E i \in DOMAIN new : scenario \in new[i].scen
      <3>1. Len(seq) + 1 \in DOMAIN new
        BY <1>1, <2>2
      <3> QED
        BY <1>2, <2>2, <3>1
    <2>5. ASSUME NEW i \in DOMAIN new PROVE AddedTag(seq, response, scenario, new[i], i)
      <3>1. CASE i \in DOMAIN seq
        BY <1>1, <2>2, <3>1 DEF AddedTag
      <3>2. CASE i \notin DOMAIN seq
        <4>1. i = Len(seq) + 1
          BY <1>1, <2>2, <3>2
        <4> QED
          BY <1>2, <2>2, <3>2, <4>1 DEF AddedTag
      <3> QED
        BY <3>1, <3>2
    <2>6. \A i \in DOMAIN new : i # Len(seq) + 1 => i \in DOMAIN seq /\ new[i] = seq[i]
      BY <1>1, <2>2
    <2>7. Len(seq) + 1 \in DOMAIN new
      BY <1>1, <2>2
    <2> QED
      BY <2>2, <2>3, <2>4, <2>5, <2>6, <2>7 DEF new
  <1>4. CASE same # {}
    <2> DEFINE k == Min(same)
               tag == [seq[k] EXCEPT !.scen = @ \cup {scenario}]
    <2>1. k \in same
      <3>1. same \in SUBSET Nat
        BY <1>1
      <3> HIDE DEF same
      <3> QED
        BY <1>4, <3>1, LeastMember
    <2>2. new = [seq EXCEPT ![k].scen = @ \cup {scenario}]
      BY <1>4 DEF AddScenario
    <2>3. k \in DOMAIN seq /\ seq[k].trans = response.trans /\ seq[k].arr = response.arr
      BY <2>1
    <2> HIDE DEF k, same, new
    <2>4. new = [seq EXCEPT ![k] = tag]
      BY <2>2
    <2>5. seq[k] \in TagType
      BY <2>3
    <2>6. /\ tag \in TagType /\ tag.trans = seq[k].trans /\ tag.arr = seq[k].arr
          /\ tag.scen = seq[k].scen \cup {scenario}
      BY <2>5 DEF TagType
    <2> HIDE DEF tag
    <2>7. /\ new \in Seq(TagType) /\ DOMAIN new = DOMAIN seq /\ new[k] = tag
          /\ \A i \in DOMAIN seq : i # k => new[i] = seq[i]
      BY <2>3, <2>4, <2>6
    <2>8. \E i \in DOMAIN new : scenario \in new[i].scen
      BY <2>3, <2>6, <2>7
    <2>9. ASSUME NEW i \in DOMAIN new PROVE AddedTag(seq, response, scenario, new[i], i)
      BY <2>3, <2>6, <2>7 DEF AddedTag
    <2>10. k \in DOMAIN new /\ \A i \in DOMAIN new : i # k => i \in DOMAIN seq /\ new[i] = seq[i]
      BY <2>3, <2>7
    <2> QED
      BY <2>7, <2>8, <2>9, <2>10 DEF new
  <1> QED
    BY <1>3, <1>4
-------------------------------------------------------------------------------
(* The inductive invariant behind TypeOK.  Scenarios and tag sets refer to  *)
(* existing tags; the clock tag is where the clock network has been visited,*)
(* and every other visited node has data tags; the node being evaluated has *)
(* a set of tags of each data input, and an iterator in each.               *)
ScenarioRefs(heap, n) == {s \in [DataEdges(n) -> Reference] :
                            \A e \in DataEdges(n) : s[e] \in RefsAt(heap, Fanin[n][e])}

HeapOK ==
    /\ tags \in Heap /\ dataTags \in [Node -> Seq(Reference)]
    /\ \A n \in Node : \A i \in DOMAIN tags[n] : tags[n][i].scen \subseteq ScenarioRefs(tags, n)
    /\ \A n \in Node : dataTags[n] \in Seq(RefsAt(tags, n))

VisitsOK ==
    /\ visited \in SUBSET Node /\ clocked = visited \cap ClockNet
    /\ \A n \in visited : dataTags[n] = <<>> <=> n \in ClockNet
    /\ \A n \in Node \ visited : dataTags[n] = <<>> /\ (n # node => tags[n] = <<>>)

WorkspaceOK ==
    /\ delay \in DelayModels /\ opts \in Options /\ done \in BOOLEAN
    /\ phase \in {"idle", "reduce", "eval"} /\ (phase = "idle" <=> node = NoNode)
    /\ phase = "idle" => srcs = <<>>
    /\ phase # "idle" =>
          /\ node \in Node \ visited /\ node \notin ClockNet /\ DataEdges(node) # {}
          /\ srcs = [i \in DataEdges(node) |-> srcs[i]]
          /\ \A i \in DataEdges(node) : /\ srcs[i] \in Seq(RefsAt(tags, Fanin[node][i]))
                                        /\ srcs[i] # <<>> /\ Fanin[node][i] \in visited
    /\ phase = "reduce" => tags[node] = <<>>
    /\ phase = "eval" => /\ its = [i \in DataEdges(node) |-> its[i]]
                         /\ \A i \in DataEdges(node) : its[i] \in 1..Len(srcs[i])
                         /\ done => tags[node] # <<>>

TInv == HeapOK /\ VisitsOK /\ WorkspaceOK

(* It says what TypeOK says, and more.                                      *)
LEMMA TInvImpliesTypeOK == TInv => TypeOK
  <1> SUFFICES ASSUME TInv PROVE TypeOK
    OBVIOUS
  <1>0. HeapOK /\ VisitsOK /\ WorkspaceOK
    BY DEF TInv
  <1>1. ASSUME NEW n \in Node, NEW i \in DOMAIN tags[n]
        PROVE  /\ tags[n][i].trans \in Transitions /\ tags[n][i].arr \in Nat
               /\ \A s \in tags[n][i].scen : \A e \in DOMAIN s :
                    s[e][1] = Fanin[n][e] /\ s[e][2] \in DOMAIN tags[s[e][1]]
    <2>1. tags[n][i].trans \in Transitions /\ tags[n][i].arr \in Nat
      BY <1>0, TagsOfHeap DEF HeapOK
    <2>2. ASSUME NEW s \in tags[n][i].scen, NEW e \in DOMAIN s
          PROVE  s[e][1] = Fanin[n][e] /\ s[e][2] \in DOMAIN tags[s[e][1]]
      <3>1. s \in ScenarioRefs(tags, n)
        BY <1>0 DEF HeapOK
      <3>2. s[e] \in RefsAt(tags, Fanin[n][e])
        BY <3>1 DEF ScenarioRefs
      <3> QED
        BY <3>2 DEF RefsAt
    <2> QED
      BY <2>1, <2>2
  <1>2. ASSUME NEW n \in Node, NEW i \in DOMAIN dataTags[n]
        PROVE  dataTags[n][i][1] = n /\ dataTags[n][i][2] \in DOMAIN tags[n]
    <2>1. dataTags[n] \in Seq(RefsAt(tags, n))
      BY <1>0 DEF HeapOK
    <2>2. dataTags[n][i] \in RefsAt(tags, n)
      BY <2>1
    <2> QED
      BY <2>2 DEF RefsAt
  <1>3. /\ clocked \subseteq Node /\ visited \subseteq Node
        /\ phase \in {"idle", "reduce", "eval"}
        /\ (phase = "idle") = (node = NoNode)
        /\ node # NoNode => node \in Node \ visited
        /\ done \in BOOLEAN
    BY <1>0 DEF VisitsOK, WorkspaceOK
  <1>4. DOMAIN srcs = IF node = NoNode THEN {} ELSE DataEdges(node)
    <2>1. CASE phase = "idle"
      BY <1>0, <2>1 DEF WorkspaceOK
    <2>2. CASE phase # "idle"
      <3>1. srcs = [i \in DataEdges(node) |-> srcs[i]] /\ node # NoNode
        BY <1>0, <2>2 DEF WorkspaceOK
      <3> QED
        BY <3>1
    <2> QED
      BY <2>1, <2>2
  <1>5. ASSUME NEW i \in DOMAIN srcs, NEW j \in DOMAIN srcs[i]
        PROVE  srcs[i][j][1] = Fanin[node][i] /\ srcs[i][j][2] \in DOMAIN tags[Fanin[node][i]]
    <2>1. phase # "idle" /\ i \in DataEdges(node)
      BY <1>0, <1>4 DEF WorkspaceOK
    <2>2. srcs[i] \in Seq(RefsAt(tags, Fanin[node][i]))
      BY <1>0, <2>1 DEF WorkspaceOK
    <2>3. srcs[i][j] \in RefsAt(tags, Fanin[node][i])
      BY <2>2
    <2> QED
      BY <2>3 DEF RefsAt
  <1> QED
    BY <1>1, <1>2, <1>3, <1>4, <1>5 DEF TypeOK

(* Before the traversal there are no tags at all.                           *)
LEMMA TInvInitially == Init => TInv
  <1> SUFFICES ASSUME Init PROVE TInv
    OBVIOUS
  <1>1. /\ delay \in DelayModels /\ opts \in Options
        /\ tags = [n \in Node |-> <<>>] /\ dataTags = [n \in Node |-> <<>>]
        /\ clocked = {} /\ visited = {} /\ node = NoNode /\ phase = "idle"
        /\ srcs = <<>> /\ done = FALSE
    BY DEF Init
  <1>2. HeapOK
    <2>1. tags \in Heap /\ dataTags \in [Node -> Seq(Reference)]
      BY <1>1 DEF Heap
    <2>2. \A n \in Node : DOMAIN tags[n] = {} /\ dataTags[n] = <<>>
      BY <1>1
    <2> QED
      BY <2>1, <2>2 DEF HeapOK
  <1>3. VisitsOK
    BY <1>1 DEF VisitsOK
  <1>4. WorkspaceOK
    BY <1>1 DEF WorkspaceOK
  <1> QED
    BY <1>2, <1>3, <1>4 DEF TInv
-------------------------------------------------------------------------------
(* A heap that has all the tags of another still has all its references.    *)
Larger(h1, h2) == \A n \in Node : DOMAIN h1[n] \subseteq DOMAIN h2[n]

(* So a scenario of the smaller heap is one of the larger.                  *)
LEMMA LargerKeepsRefs ==
    ASSUME NEW h1, NEW h2, Larger(h1, h2)
    PROVE  /\ \A m \in Node : RefsAt(h1, m) \subseteq RefsAt(h2, m)
           /\ \A n \in Node : ScenarioRefs(h1, n) \subseteq ScenarioRefs(h2, n)
  <1>1. \A m \in Node : RefsAt(h1, m) \subseteq RefsAt(h2, m)
    BY DEF RefsAt, Larger
  <1>2. \A n \in Node : \A e \in DataEdges(n) : Fanin[n][e] \in Node
    BY NetFacts, DataNetFacts
  <1> QED
    BY <1>1, <1>2 DEF ScenarioRefs

(* The heap invariant after a step that gives node n new tags.              *)
LEMMA HeapStep ==
    ASSUME HeapOK, tags' \in Heap, Larger(tags, tags'), NEW n \in Node,
           \A m \in Node : m # n => tags'[m] = tags[m],
           \A i \in DOMAIN tags'[n] : tags'[n][i].scen \subseteq ScenarioRefs(tags', n),
           dataTags' \in [Node -> Seq(Reference)],
           \A m \in Node : m # n => dataTags'[m] = dataTags[m],
           dataTags'[n] \in Seq(RefsAt(tags', n))
    PROVE  HeapOK'
  <1>1. ASSUME NEW m \in Node, m # n
        PROVE  /\ \A i \in DOMAIN tags'[m] : tags'[m][i].scen \subseteq ScenarioRefs(tags', m)
               /\ dataTags'[m] \in Seq(RefsAt(tags', m))
    <2>1. \A i \in DOMAIN tags[m] : tags[m][i].scen \subseteq ScenarioRefs(tags, m)
      BY DEF HeapOK
    <2>2. ScenarioRefs(tags, m) \subseteq ScenarioRefs(tags', m) /\ RefsAt(tags, m) \subseteq RefsAt(tags', m)
      BY LargerKeepsRefs
    <2>3. dataTags[m] \in Seq(RefsAt(tags, m))
      BY DEF HeapOK
    <2>4. dataTags[m] \in Seq(RefsAt(tags', m))
      BY <2>2, <2>3
    <2> QED
      BY <1>1, <2>1, <2>2, <2>4
  <1> QED
    BY <1>1 DEF HeapOK

(* The tags a node is launched with.                                        *)
LEMMA LaunchFacts ==
    /\ LaunchTags \in Seq(TagType) /\ LaunchTags # <<>>
    /\ \A i \in DOMAIN LaunchTags : LaunchTags[i].scen = {}
    /\ \A trans \in Transitions : /\ <<Launch(trans)>> \in Seq(TagType) /\ <<Launch(trans)>> # <<>>
                                  /\ \A i \in DOMAIN <<Launch(trans)>> : <<Launch(trans)>>[i].scen = {}
  <1>1. \A trans \in Transitions : Launch(trans) \in TagType /\ Launch(trans).scen = {}
    BY DEF Launch, TagType
  <1>2. {"RISE", "FALL", "HIGH", "LOW"} \in SUBSET Transitions
    BY DEF Transitions, Dynamic, Static
  <1> HIDE DEF Launch
  <1>3. LaunchTags \in Seq(TagType) /\ LaunchTags # <<>>
    BY <1>1, <1>2 DEF LaunchTags
  <1>4. \A i \in DOMAIN LaunchTags : LaunchTags[i].scen = {}
    BY <1>1, <1>2 DEF LaunchTags
  <1>5. \A trans \in Transitions : /\ <<Launch(trans)>> \in Seq(TagType) /\ <<Launch(trans)>> # <<>>
                                  /\ \A i \in DOMAIN <<Launch(trans)>> : <<Launch(trans)>>[i].scen = {}
    BY <1>1
  <1> QED
    BY <1>3, <1>4, <1>5

(* A node that is launched gets references to exactly its new tags.         *)
LEMMA SettleHeap ==
    ASSUME HeapOK, NEW n \in Node, tags[n] = <<>>, NEW seq \in Seq(TagType), seq # <<>>,
           \A i \in DOMAIN seq : seq[i].scen = {}, SettleTags(n, seq)
    PROVE  /\ HeapOK' /\ Larger(tags, tags') /\ dataTags'[n] # <<>>
           /\ tags'[n] = seq
           /\ \A m \in Node : m # n => tags'[m] = tags[m] /\ dataTags'[m] = dataTags[m]
  <1>1. /\ tags \in Heap /\ tags \in [Node -> Seq(TagType)] /\ dataTags \in [Node -> Seq(Reference)]
        /\ tags' = [tags EXCEPT ![n] = seq]
        /\ dataTags' = [dataTags EXCEPT ![n] = References(n, seq)]
    BY DEF HeapOK, Heap, SettleTags
  <1>2. /\ tags' \in Heap /\ tags'[n] = seq
        /\ \A m \in Node : m # n => tags'[m] = tags[m] /\ dataTags'[m] = dataTags[m]
        /\ dataTags'[n] = References(n, seq)
    BY <1>1 DEF Heap
  <1>3. DOMAIN seq = 1..Len(seq) /\ Len(seq) \in Nat /\ Len(seq) # 0
    OBVIOUS
  <1>4. References(n, seq) \in Seq(RefsAt(tags', n)) /\ References(n, seq) \in Seq(Reference)
        /\ References(n, seq) # <<>>
    <2>1. \A i \in 1..Len(seq) : <<n, i>> \in RefsAt(tags', n) /\ <<n, i>> \in Reference
      BY <1>2, <1>3 DEF RefsAt, Reference
    <2>2. References(n, seq) = [i \in 1..Len(seq) |-> <<n, i>>]
      BY <1>3 DEF References
    <2>3. References(n, seq) \in Seq(RefsAt(tags', n)) /\ References(n, seq) \in Seq(Reference)
      BY <1>3, <2>1, <2>2
    <2>4. DOMAIN References(n, seq) # {}
      BY <1>3, <2>2
    <2>5. References(n, seq) # <<>>
      BY <2>4
    <2> QED
      BY <2>3, <2>5
  <1>5. Larger(tags, tags')
    <2>1. DOMAIN tags[n] = {}
      OBVIOUS
    <2> QED
      BY <1>2, <2>1 DEF Larger
  <1>6. dataTags' \in [Node -> Seq(Reference)]
    BY <1>1, <1>4
  <1>7. \A i \in DOMAIN tags'[n] : tags'[n][i].scen \subseteq ScenarioRefs(tags', n)
    BY <1>2
  <1>8. HeapOK'
    BY <1>2, <1>4, <1>5, <1>6, <1>7, HeapStep
  <1> QED
    BY <1>2, <1>4, <1>5, <1>8
-------------------------------------------------------------------------------
(* The workspace is not disturbed by a step that leaves it and the node     *)
(* being evaluated alone.                                                   *)
LEMMA WorkspaceStays ==
    ASSUME WorkspaceOK, UNCHANGED <<NodeWorkspace, Configuration>>, Larger(tags, tags'),
           visited' \in SUBSET Node, visited \subseteq visited',
           phase # "idle" => node \notin visited' /\ tags'[node] = tags[node]
    PROVE  WorkspaceOK'
  <1>1. /\ node' = node /\ phase' = phase /\ srcs' = srcs /\ its' = its /\ done' = done
        /\ delay' = delay /\ opts' = opts
    BY DEF NodeWorkspace, Configuration
  <1>2. \A m \in Node : RefsAt(tags, m) \subseteq RefsAt(tags', m)
    BY LargerKeepsRefs
  <1>3. ASSUME phase # "idle", NEW i \in DataEdges(node)
        PROVE  srcs[i] \in Seq(RefsAt(tags', Fanin[node][i])) /\ Fanin[node][i] \in visited'
    <2>1. srcs[i] \in Seq(RefsAt(tags, Fanin[node][i])) /\ node \in Node /\ Fanin[node][i] \in visited
      BY <1>3 DEF WorkspaceOK
    <2>2. Fanin[node][i] \in Node
      BY <2>1, NetFacts, DataNetFacts
    <2>3. RefsAt(tags, Fanin[node][i]) \subseteq RefsAt(tags', Fanin[node][i])
      BY <1>2, <2>2
    <2>4. srcs[i] \in Seq(RefsAt(tags', Fanin[node][i]))
      BY <2>1, <2>3
    <2> QED
      BY <2>1, <2>4
  <1> QED
    BY <1>1, <1>3 DEF WorkspaceOK

(* The inputs of a ready node have been visited, and those with data tags   *)
(* are its data inputs, or none in the clock network.                       *)
LEMMA ReadyInputs ==
    ASSUME VisitsOK, NEW n \in Node, Ready(n)
    PROVE  /\ \A i \in DOMAIN Fanin[n] : Fanin[n][i] \in visited
           /\ n \in ClockNet => WithData(n) = {}
           /\ n \notin ClockNet => WithData(n) = DataEdges(n)
           /\ \A i \in DOMAIN Fanin[n] : Fanin[n][i] \in clocked <=> Fanin[n][i] \in ClockNet
           /\ Fanin[n] # <<>>
  <1>1. Fanin[n] # <<>>
    BY LevelFacts DEF Ready
  <1>2. \A i \in DOMAIN Fanin[n] : Fanin[n][i] \in visited
    <2> TAKE i \in DOMAIN Fanin[n]
    <2>1. Level[Fanin[n][i]] < Level[n] /\ Fanin[n][i] \in Node
      BY LevelFacts, NetFacts
    <2> QED
      BY <2>1 DEF Ready
  <1>3. \A i \in DOMAIN Fanin[n] : dataTags[Fanin[n][i]] # <<>> <=> Fanin[n][i] \notin ClockNet
    BY <1>2 DEF VisitsOK
  <1>4. WithData(n) = {i \in DOMAIN Fanin[n] : Fanin[n][i] \notin ClockNet}
    BY <1>3 DEF WithData
  <1>5. n \in ClockNet => WithData(n) = {}
    BY <1>4, DataNetFacts
  <1>6. n \notin ClockNet => WithData(n) = DataEdges(n)
    <2>1. DataEdges(n) \in SUBSET DOMAIN Fanin[n]
      BY DataNetFacts
    <2>2. n \notin ClockNet => \A i \in DOMAIN Fanin[n] : Fanin[n][i] \notin ClockNet <=> i \in DataEdges(n)
      BY DataNetFacts
    <2> QED
      BY <1>4, <2>1, <2>2
  <1>7. \A i \in DOMAIN Fanin[n] : Fanin[n][i] \in clocked <=> Fanin[n][i] \in ClockNet
    BY <1>2 DEF VisitsOK
  <1> QED
    BY <1>1, <1>2, <1>5, <1>6, <1>7

(* The clock tag reaches the clock network and no other node.               *)
LEMMA PropagatedClock ==
    ASSUME VisitsOK, NEW n \in Node, Ready(n), PropagateClock(n)
    PROVE  clocked' = IF n \in ClockNet THEN clocked \cup {n} ELSE clocked
  <1>1. /\ \A i \in DOMAIN Fanin[n] : Fanin[n][i] \in clocked <=> Fanin[n][i] \in ClockNet
        /\ DOMAIN Fanin[n] # {}
    BY ReadyInputs, NetFacts
  <1>2. CASE n \in ClockNet
    <2>1. Type[n] \notin {"FF_SOURCE", "FF_SINK"} /\ \A i \in DOMAIN Fanin[n] : Fanin[n][i] \in ClockNet
      BY <1>2, DataNetFacts
    <2>2. ClockArrives(n)
      BY <1>1, <2>1 DEF ClockArrives
    <2> QED
      BY <1>2, <2>1, <2>2 DEF PropagateClock
  <1>3. CASE n \notin ClockNet
    <2>1. ClockArrives(n) => Type[n] \in {"FF_SOURCE", "FF_SINK"}
      <3> SUFFICES ASSUME NEW i \in DOMAIN Fanin[n], Fanin[n][i] \in ClockNet
                   PROVE  Type[n] \in {"FF_SOURCE", "FF_SINK"}
        BY <1>1 DEF ClockArrives
      <3>1. Type[Fanin[n][i]] = "FF_CLOCK"
        BY <1>3, ClockNetAssumption
      <3> QED
        BY <3>1, NetAssumption DEF AsBuilt
    <2> QED
      BY <1>3, <2>1 DEF PropagateClock
  <1> QED
    BY <1>2, <1>3

(* What a step keeps when it finishes node n, with or without data.         *)
LEMMA VisitStep ==
    ASSUME VisitsOK, NEW n \in Node \ visited, visited' = visited \cup {n},
           clocked' = (IF n \in ClockNet THEN clocked \cup {n} ELSE clocked),
           dataTags'[n] = <<>> <=> n \in ClockNet,
           \A m \in Node : m # n => dataTags'[m] = dataTags[m] /\ tags'[m] = tags[m],
           node' = node \/ node = n
    PROVE  VisitsOK'
  <1>1. /\ visited' \in SUBSET Node /\ clocked' = visited' \cap ClockNet
    BY DEF VisitsOK
  <1>2. \A m \in visited' : dataTags'[m] = <<>> <=> m \in ClockNet
    BY DEF VisitsOK
  <1>3. \A m \in Node \ visited' : dataTags'[m] = <<>> /\ (m # node' => tags'[m] = <<>>)
    BY DEF VisitsOK
  <1> QED
    BY <1>1, <1>2, <1>3 DEF VisitsOK

(* pre_traverse_node: a source node is launched, and no other is touched.   *)
LEMMA PreTraverseStep ==
    ASSUME TInv, NEW n \in Node, PreTraverse(n)
    PROVE  TInv' /\ n \notin visited /\ Larger(tags, tags')
           /\ \A m \in Node : m # n => tags'[m] = tags[m] /\ dataTags'[m] = dataTags[m]
  <1>1. /\ HeapOK /\ VisitsOK /\ WorkspaceOK
        /\ Level[n] = 0 /\ n \notin visited /\ visited' = visited \cup {n}
        /\ UNCHANGED <<NodeWorkspace, Configuration>> /\ node' = node
    BY DEF TInv, PreTraverse, NodeWorkspace
  <1>2. phase # "idle" => n # node
    <2>1. Fanin[n] = <<>>
      BY <1>1, LevelFacts
    <2>2. DOMAIN Fanin[n] = {} /\ DataEdges(n) \in SUBSET DOMAIN Fanin[n]
      BY <2>1, NetFacts, DataNetFacts
    <2>3. phase # "idle" => DataEdges(node) # {}
      BY <1>1 DEF WorkspaceOK
    <2> QED
      BY <2>2, <2>3
  <1>3. tags[n] = <<>> /\ dataTags[n] = <<>>
    <2>1. phase = "idle" => n # node
      BY <1>1, NetFacts DEF WorkspaceOK, NoNode
    <2> QED
      BY <1>1, <1>2, <2>1 DEF VisitsOK
  <1>4. /\ HeapOK' /\ Larger(tags, tags')
        /\ \A m \in Node : m # n => tags'[m] = tags[m] /\ dataTags'[m] = dataTags[m]
        /\ dataTags'[n] = <<>> <=> n \in ClockNet
        /\ clocked' = IF n \in ClockNet THEN clocked \cup {n} ELSE clocked
    <2>1. CASE Type[n] = "CLOCK_SOURCE"
      <3>1. n \in ClockNet
        BY <2>1 DEF ClockNet
      <3>2. tags' = tags /\ dataTags' = dataTags /\ clocked' = clocked \cup {n}
        BY <2>1 DEF PreTraverse
      <3>3. HeapOK'
        BY <1>1, <3>2 DEF HeapOK, RefsAt, ScenarioRefs
      <3> QED
        BY <1>3, <3>1, <3>2, <3>3 DEF Larger
    <2>2. CASE Type[n] # "CLOCK_SOURCE"
      <3>1. \E seq \in Seq(TagType) :
               /\ seq # <<>> /\ SettleTags(n, seq) /\ \A i \in DOMAIN seq : seq[i].scen = {}
        <4>1. (IF OnSet[n] = {} THEN "LOW" ELSE "HIGH") \in Transitions
          BY DEF Transitions, Static
        <4>2. \/ SettleTags(n, LaunchTags)
              \/ SettleTags(n, <<Launch(IF OnSet[n] = {} THEN "LOW" ELSE "HIGH")>>)
          BY <2>2 DEF PreTraverse
        <4> HIDE DEF SettleTags, LaunchTags, Launch
        <4> QED
          BY <4>1, <4>2, LaunchFacts
      <3>2. n \notin ClockNet
        <4>1. DOMAIN Fanin[n] = {} /\ Type[n] \in {"INPAD_SOURCE", "CONSTANT_GEN_SOURCE"}
          BY <1>1, <2>2, LevelFacts, NetFacts DEF PreTraverse
        <4> QED
          BY <4>1 DEF ClockNet
      <3>3. clocked' = clocked
        BY <2>2 DEF PreTraverse
      <3> QED
        BY <1>1, <1>3, <3>1, <3>2, <3>3, SettleHeap
    <2> QED
      BY <2>1, <2>2
  <1>5. VisitsOK'
    BY <1>1, <1>4, VisitStep
  <1>6. WorkspaceOK'
    <2>1. visited' \in SUBSET Node /\ visited \subseteq visited'
      BY <1>1 DEF VisitsOK
    <2>2. phase # "idle" => node \notin visited' /\ tags'[node] = tags[node]
      BY <1>1, <1>2, <1>4 DEF WorkspaceOK
    <2> QED
      BY <1>1, <1>4, <2>1, <2>2, WorkspaceStays
  <1> QED
    BY <1>1, <1>4, <1>5, <1>6 DEF TInv

(* A node without data inputs is of the clock network or launches data.     *)
LEMMA TraverseClockStep ==
    ASSUME TInv, NEW n \in Node, TraverseClockNode(n)
    PROVE  TInv' /\ n \notin visited /\ Larger(tags, tags')
           /\ (n \in ClockNet \/ (Type[n] = "FF_SOURCE" /\ tags'[n] = LaunchTags))
           /\ \A m \in Node : m # n => tags'[m] = tags[m] /\ dataTags'[m] = dataTags[m]
  <1>1. /\ HeapOK /\ VisitsOK /\ WorkspaceOK
        /\ Ready(n) /\ InputSets(n) = <<>> /\ PropagateClock(n)
        /\ node = NoNode /\ n \notin visited /\ visited' = visited \cup {n}
        /\ UNCHANGED <<NodeWorkspace, Configuration>> /\ node' = node
    BY DEF TInv, TraverseClockNode, NodeWorkspace, Ready
  <1>2. clocked' = IF n \in ClockNet THEN clocked \cup {n} ELSE clocked
    BY <1>1, PropagatedClock
  <1>3. tags[n] = <<>> /\ dataTags[n] = <<>> /\ phase = "idle"
    <2>1. n # node /\ phase = "idle"
      BY <1>1, NetFacts DEF WorkspaceOK, NoNode
    <2> QED
      BY <1>1, <2>1 DEF VisitsOK
  <1>4. n \in ClockNet \/ (Type[n] = "FF_SOURCE" /\ ClockArrives(n))
    <2> SUFFICES ASSUME n \notin ClockNet PROVE Type[n] = "FF_SOURCE" /\ ClockArrives(n)
      OBVIOUS
    <2>1. WithData(n) = DataEdges(n)
      BY <1>1, ReadyInputs
    <2>2. PICK k \in Nat : DataEdges(n) = 1..k
      BY DataNetFacts
    <2>3. InputSets(n) = [i \in DataEdges(n) |-> dataTags[Fanin[n][i]]]
      BY <2>1, <2>2, InputSetsAre
    <2>4. DataEdges(n) = {}
      BY <1>1, <2>3
    <2>5. Type[n] = "FF_SOURCE"
      BY <1>1, <2>4, DataNetFacts, ReadyInputs
    <2>6. ClockArrives(n)
      BY <1>1, <2>5, DataNetFacts, ReadyInputs DEF ClockArrives
    <2> QED
      BY <2>5, <2>6
  <1>5. /\ HeapOK' /\ Larger(tags, tags')
        /\ \A m \in Node : m # n => tags'[m] = tags[m] /\ dataTags'[m] = dataTags[m]
        /\ dataTags'[n] = <<>> <=> n \in ClockNet
        /\ n \in ClockNet \/ (Type[n] = "FF_SOURCE" /\ tags'[n] = LaunchTags)
    <2>1. CASE n \in ClockNet
      <3>1. tags' = tags /\ dataTags' = dataTags
        BY <2>1, DataNetFacts DEF TraverseClockNode
      <3>2. HeapOK'
        BY <1>1, <3>1 DEF HeapOK, RefsAt, ScenarioRefs
      <3> QED
        BY <1>3, <2>1, <3>1, <3>2 DEF Larger
    <2>2. CASE n \notin ClockNet
      <3>1. SettleTags(n, LaunchTags)
        BY <1>4, <2>2 DEF TraverseClockNode
      <3> HIDE DEF SettleTags, LaunchTags
      <3>2. /\ LaunchTags \in Seq(TagType) /\ LaunchTags # <<>>
            /\ \A i \in DOMAIN LaunchTags : LaunchTags[i].scen = {}
        BY LaunchFacts
      <3>3. /\ HeapOK' /\ Larger(tags, tags') /\ dataTags'[n] # <<>>
            /\ tags'[n] = LaunchTags
            /\ \A m \in Node : m # n => tags'[m] = tags[m] /\ dataTags'[m] = dataTags[m]
        BY <1>1, <1>3, <3>1, <3>2, SettleHeap
      <3> QED
        BY <1>4, <2>2, <3>3
    <2> QED
      BY <2>1, <2>2
  <1>6. VisitsOK'
    BY <1>1, <1>2, <1>5, VisitStep
  <1>7. WorkspaceOK'
    <2>1. visited' \in SUBSET Node /\ visited \subseteq visited'
      BY <1>1 DEF VisitsOK
    <2> QED
      BY <1>1, <1>3, <1>5, <2>1, WorkspaceStays
  <1> QED
    BY <1>1, <1>5, <1>6, <1>7 DEF TInv
-------------------------------------------------------------------------------
(* A node is begun with the tag sets of its data inputs, none of them empty.*)
LEMMA BeginStep ==
    ASSUME TInv, NEW n \in Node, BeginNode(n)
    PROVE  /\ TInv' /\ tags' = tags /\ dataTags' = dataTags /\ visited' = visited
           /\ n \in Node \ visited /\ node' = n /\ phase' = "reduce" /\ DataEdges(n) # {}
           /\ \A i \in DataEdges(n) : srcs'[i] = dataTags[Fanin[n][i]] /\ Fanin[n][i] \in visited
  <1>1. /\ HeapOK /\ VisitsOK /\ WorkspaceOK
        /\ Ready(n) /\ InputSets(n) # <<>> /\ PropagateClock(n)
        /\ node = NoNode /\ n \notin visited /\ node' = n /\ phase' = "reduce"
        /\ srcs' = InputSets(n) /\ tags' = tags /\ dataTags' = dataTags
        /\ visited' = visited /\ its' = its /\ done' = done /\ delay' = delay /\ opts' = opts
    BY DEF TInv, BeginNode, Ready, Configuration
  <1>2. n \notin ClockNet /\ InputSets(n) = [i \in DataEdges(n) |-> dataTags[Fanin[n][i]]]
    <2>1. WithData(n) # {}
      <3> SUFFICES ASSUME WithData(n) = {} PROVE FALSE
        OBVIOUS
      <3>1. InputSets(n) = [k \in 1..0 |-> dataTags[Fanin[n][Nth(WithData(n), k)]]]
        BY FS_EmptySet DEF InputSets
      <3>2. InputSets(n) = <<>>
        BY <3>1
      <3> QED
        BY <1>1, <3>2
    <2>2. n \notin ClockNet /\ WithData(n) = DataEdges(n)
      BY <1>1, <2>1, ReadyInputs
    <2>3. PICK k \in Nat : DataEdges(n) = 1..k
      BY <2>2, DataNetFacts
    <2> QED
      BY <2>2, <2>3, InputSetsAre
  <1>3. DataEdges(n) # {}
    <2> SUFFICES ASSUME DataEdges(n) = {} PROVE InputSets(n) = <<>>
      BY <1>1
    <2> QED
      BY <1>2
  <1>4. clocked' = clocked
    BY <1>1, <1>2, PropagatedClock
  <1>5. tags[n] = <<>>
    <2>1. n # node
      BY <1>1, NetFacts DEF NoNode
    <2> QED
      BY <1>1, <2>1 DEF VisitsOK
  <1>6. ASSUME NEW i \in DataEdges(n)
        PROVE  /\ srcs'[i] = dataTags[Fanin[n][i]] /\ Fanin[n][i] \in visited
               /\ srcs'[i] \in Seq(RefsAt(tags, Fanin[n][i])) /\ srcs'[i] # <<>>
    <2>1. i \in DOMAIN Fanin[n] /\ Fanin[n][i] \in Node /\ Fanin[n][i] \notin ClockNet
      BY <1>2, DataNetFacts, NetFacts
    <2>2. Fanin[n][i] \in visited
      BY <1>1, <2>1, ReadyInputs
    <2>3. dataTags[Fanin[n][i]] # <<>> /\ dataTags[Fanin[n][i]] \in Seq(RefsAt(tags, Fanin[n][i]))
      BY <1>1, <2>1, <2>2 DEF VisitsOK, HeapOK
    <2>4. srcs'[i] = dataTags[Fanin[n][i]]
      BY <1>1, <1>2
    <2> QED
      BY <2>2, <2>3, <2>4
  <1>7. HeapOK'
    BY <1>1 DEF HeapOK, RefsAt, ScenarioRefs
  <1>8. VisitsOK'
    BY <1>1, <1>4, NetFacts DEF VisitsOK, NoNode
  <1>9. WorkspaceOK'
    <2>1. n # NoNode
      BY NetFacts DEF NoNode
    <2>2. srcs' = [i \in DataEdges(n) |-> srcs'[i]]
      BY <1>1, <1>2
    <2>3. \A m \in Node : RefsAt(tags', m) = RefsAt(tags, m)
      BY <1>1
    <2>4. \A i \in DataEdges(n) : Fanin[n][i] \in Node
      BY DataNetFacts, NetFacts
    <2> QED
      BY <1>1, <1>2, <1>3, <1>5, <1>6, <2>1, <2>2, <2>3, <2>4 DEF WorkspaceOK
  <1> QED
    BY <1>1, <1>3, <1>6, <1>7, <1>8, <1>9 DEF TInv

(* Merging keeps the heap invariant, with the node's set taken from what    *)
(* was merged or left.                                                      *)
LEMMA GrownHeap ==
    ASSUME HeapOK, NEW m \in Node, Grown(tags, tags', m),
           dataTags' \in [Node -> Seq(Reference)],
           \A n \in Node : n # m => dataTags'[n] = dataTags[n],
           dataTags'[m] \in Seq(RefsAt(tags, m))
    PROVE  HeapOK' /\ Larger(tags, tags') /\ \A n \in Node : DOMAIN tags'[n] = DOMAIN tags[n]
  <1>1. /\ tags \in Heap /\ tags' \in Heap /\ DOMAIN tags'[m] = DOMAIN tags[m]
        /\ \A n \in Node : n # m => tags'[n] = tags[n]
    BY DEF HeapOK, Grown
  <1>2. Larger(tags, tags') /\ \A n \in Node : DOMAIN tags'[n] = DOMAIN tags[n]
    BY <1>1 DEF Larger
  <1>3. RefsAt(tags', m) = RefsAt(tags, m)
    BY <1>1, GrownRefs
  <1>4. ASSUME NEW i \in DOMAIN tags'[m] PROVE tags'[m][i].scen \subseteq ScenarioRefs(tags', m)
    <2> SUFFICES ASSUME NEW s \in tags'[m][i].scen PROVE s \in ScenarioRefs(tags', m)
      OBVIOUS
    <2>1. GrownTag(tags, m, tags'[m][i], i)
      BY <1>1 DEF Grown
    <2>2. PICK j \in DOMAIN tags[m] : s \in tags[m][j].scen
      BY <2>1 DEF GrownTag
    <2>3. s \in ScenarioRefs(tags, m)
      BY <2>2 DEF HeapOK
    <2> QED
      BY <1>2, <2>3, LargerKeepsRefs
  <1>5. dataTags'[m] \in Seq(RefsAt(tags', m))
    BY <1>3
  <1>6. HeapOK'
    BY <1>1, <1>2, <1>4, <1>5, HeapStep
  <1> QED
    BY <1>2, <1>6

(* The input with the most tags is one of the data inputs.                  *)
LEMMA MostTagsIsInput ==
    ASSUME TInv, phase # "idle"
    PROVE  MostTags \in DataEdges(node)
  <1>1. /\ node \in Node /\ DataEdges(node) # {} /\ DOMAIN srcs = DataEdges(node)
        /\ \A i \in DataEdges(node) : srcs[i] \in Seq(RefsAt(tags, Fanin[node][i]))
        /\ node \notin ClockNet
    <2>1. WorkspaceOK
      BY DEF TInv
    <2>2. srcs = [i \in DataEdges(node) |-> srcs[i]]
      BY <2>1 DEF WorkspaceOK
    <2>3. DOMAIN srcs = DataEdges(node)
      BY <2>2
    <2> QED
      BY <2>1, <2>3 DEF WorkspaceOK
  <1>2. PICK k \in Nat : DataEdges(node) = 1..k
    BY <1>1, DataNetFacts
  <1> DEFINE len == [i \in DataEdges(node) |-> Len(srcs[i])]
             lens == {len[i] : i \in DataEdges(node)}
  <1>3. \A i \in DataEdges(node) : len[i] = Len(srcs[i]) /\ len[i] \in Nat
    BY <1>1
  <1> HIDE DEF len
  <1>4. lens \in SUBSET Int /\ IsFiniteSet(lens) /\ lens # {}
    <2>1. IsFiniteSet(DataEdges(node))
      <3>1. 1 \in Int /\ k \in Int
        OBVIOUS
      <3> QED
        BY <1>2, <3>1, FS_Interval
    <2>2. IsFiniteSet(lens)
      BY <2>1, FiniteImage
    <2> QED
      BY <1>1, <1>3, <2>2
  <1>5. Max(lens) \in lens /\ \A y \in lens : y <= Max(lens)
    <2> HIDE DEF lens
    <2> QED
      BY <1>4, GreatestMember
  <1> DEFINE longest == {i \in DataEdges(node) : len[i] = Max(lens)}
  <1>6. Min(longest) \in longest /\ \A y \in longest : Min(longest) <= y
    <2>1. longest \in SUBSET Nat
      <3>1. DataEdges(node) \in SUBSET Nat
        BY <1>2
      <3> QED
        BY <3>1
    <2>2. longest # {}
      <3>1. PICK x \in DataEdges(node) : Max(lens) = len[x]
        BY <1>5
      <3> HIDE DEF lens
      <3> QED
        BY <3>1
    <2> HIDE DEF longest
    <2> QED
      BY <2>1, <2>2, LeastMember
  <1> DEFINE i0 == Min(longest)
  <1>7. i0 \in DataEdges(node) /\ len[i0] = Max(lens)
    BY <1>6
  <1> DEFINE Leads(i) ==
               \A j \in DOMAIN srcs : /\ Len(srcs[j]) <= Len(srcs[i])
                                      /\ j < i => Len(srcs[j]) < Len(srcs[i])
  <1>8. Leads(i0)
    <2> TAKE j \in DOMAIN srcs
    <2>1. len[j] <= len[i0] /\ j \in 1..k /\ i0 \in 1..k
      BY <1>1, <1>2, <1>5, <1>7
    <2>2. j < i0 => len[j] # len[i0]
      <3>1. j \in longest => i0 <= j
        BY <1>6
      <3>2. len[j] = len[i0] => j \in longest
        BY <1>1, <1>7
      <3> HIDE DEF longest, i0
      <3> QED
        BY <2>1, <3>1, <3>2
    <2> HIDE DEF lens, longest, i0
    <2>3. len[j] \in Nat /\ len[i0] \in Nat /\ len[j] = Len(srcs[j]) /\ len[i0] = Len(srcs[i0])
      BY <1>1, <1>3, <1>7
    <2> QED
      BY <2>1, <2>2, <2>3
  <1> HIDE DEF i0
  <1>9. \E i \in DOMAIN srcs : Leads(i)
    BY <1>1, <1>7, <1>8
  <1>10. MostTags \in DOMAIN srcs
    <2>1. MostTags = CHOOSE i \in DOMAIN srcs : Leads(i)
      BY DEF MostTags
    <2>2. \E i \in DOMAIN srcs : Leads(i)
      BY <1>9
    <2> HIDE DEF Leads
    <2> QED
      BY <2>1, <2>2
  <1> QED
    BY <1>1, <1>10

(* Reducing an input merges the tags of its node and no others.             *)
LEMMA ReduceStep ==
    ASSUME TInv, ReduceInput
    PROVE  /\ TInv'
           /\ \E i \in DataEdges(node) :
                /\ Grown(tags, tags', Fanin[node][i])
                /\ \A j \in DOMAIN srcs[i] : LivesOn(tags, srcs[i][j], tags', srcs'[i])
                /\ \A k \in DataEdges(node) : k # i => srcs'[k] = srcs[k]
           /\ node \in Node \ visited
           /\ UNCHANGED <<dataTags, visited, node, delay, opts>> /\ phase = "reduce" /\ phase' = "reduce"
  <1> DEFINE i == MostTags
             m == Fanin[node][i]
             res == Coarsened(NewBin)
  <1>1. /\ HeapOK /\ VisitsOK /\ WorkspaceOK /\ phase = "reduce"
        /\ tags' = res.heap /\ srcs' = [srcs EXCEPT ![i] = res.merged]
        /\ UNCHANGED <<dataTags, clocked, visited, node, phase, its, done, delay, opts>>
    BY DEF TInv, ReduceInput, Configuration
  <1>2. /\ node \in Node \ visited /\ i \in DataEdges(node)
        /\ srcs = [k \in DataEdges(node) |-> srcs[k]]
        /\ \A k \in DataEdges(node) : /\ srcs[k] \in Seq(RefsAt(tags, Fanin[node][k])) /\ srcs[k] # <<>>
                                      /\ Fanin[node][k] \in visited /\ Fanin[node][k] \in Node
    BY <1>1, MostTagsIsInput, NetFacts, DataNetFacts DEF WorkspaceOK
  <1>3. m \in Node /\ srcs[i] \in Seq(RefsAt(tags, m)) /\ tags \in Heap
    BY <1>1, <1>2 DEF HeapOK
  <1> HIDE DEF i, m
  <1>4. Collected(tags, m, srcs[i], DOMAIN srcs[i], res)
    <2>1. res = MergeTags(tags, srcs[i], NewBin, NewBin, Threshold(m))
      BY DEF Coarsened, i, m
    <2> HIDE DEF res
    <2> QED
      BY <1>3, <2>1, MergeOutcome
  <1>5. /\ Grown(tags, res.heap, m) /\ res.merged \in Seq(RefsAt(tags, m))
        /\ \A j \in DOMAIN srcs[i] : LivesOn(tags, srcs[i][j], res.heap, res.merged)
    BY <1>4 DEF Collected, MergeState
  <1> HIDE DEF res
  <1>6. /\ Grown(tags, tags', m) /\ srcs'[i] \in Seq(RefsAt(tags, m))
        /\ \A j \in DOMAIN srcs[i] : LivesOn(tags, srcs[i][j], tags', srcs'[i])
        /\ \A k \in DataEdges(node) : k # i => srcs'[k] = srcs[k]
        /\ srcs' = [k \in DataEdges(node) |-> srcs'[k]]
    BY <1>1, <1>2, <1>5
  <1>7. srcs'[i] # <<>>
    <2>0. srcs[i] # <<>>
      BY <1>2
    <2>1. DOMAIN srcs[i] # {}
      BY <1>3, <2>0, EmptySequence
    <2>2. DOMAIN srcs'[i] # {}
      BY <1>6, <2>1 DEF LivesOn
    <2> QED
      BY <2>2
  <1>8. HeapOK' /\ Larger(tags, tags')
    <2>1. dataTags' \in [Node -> Seq(Reference)] /\ dataTags'[m] \in Seq(RefsAt(tags, m))
      BY <1>1, <1>3 DEF HeapOK
    <2> QED
      BY <1>1, <1>3, <1>6, <2>1, GrownHeap
  <1>9. m \in visited
    BY <1>2 DEF m
  <1>10. \A n \in Node \ visited : tags'[n] = tags[n]
    BY <1>6, <1>9 DEF Grown
  <1>11. VisitsOK'
    BY <1>1, <1>10 DEF VisitsOK
  <1>12. WorkspaceOK'
    <2>1. ASSUME NEW k \in DataEdges(node) PROVE srcs'[k] \in Seq(RefsAt(tags', Fanin[node][k])) /\ srcs'[k] # <<>>
      <3>1. RefsAt(tags, Fanin[node][k]) \subseteq RefsAt(tags', Fanin[node][k])
        BY <1>2, <1>8, LargerKeepsRefs
      <3>2. srcs'[k] \in Seq(RefsAt(tags, Fanin[node][k])) /\ srcs'[k] # <<>>
        BY <1>2, <1>6, <1>7 DEF m
      <3> QED
        BY <3>1, <3>2
    <2>2. tags'[node] = tags[node]
      BY <1>2, <1>10
    <2> QED
      BY <1>1, <1>2, <1>6, <2>1, <2>2 DEF WorkspaceOK
  <1>13. \E k \in DataEdges(node) :
                /\ Grown(tags, tags', Fanin[node][k])
                /\ \A j \in DOMAIN srcs[k] : LivesOn(tags, srcs[k][j], tags', srcs'[k])
                /\ \A l \in DataEdges(node) : l # k => srcs'[l] = srcs[l]
    BY <1>2, <1>6 DEF m
  <1> QED
    BY <1>1, <1>2, <1>8, <1>11, <1>12, <1>13 DEF TInv
-------------------------------------------------------------------------------
(* Evaluation starts at the first tag of each set.                          *)
LEMMA StartStep ==
    ASSUME TInv, StartEvaluation
    PROVE  /\ TInv' /\ UNCHANGED <<tags, dataTags, visited, node, srcs, opts, delay, sta>>
           /\ phase = "reduce" /\ phase' = "eval" /\ done' = FALSE
           /\ its' = [i \in DataEdges(node) |-> 1]
  <1>1. /\ HeapOK /\ VisitsOK /\ WorkspaceOK /\ phase = "reduce" /\ phase' = "eval"
        /\ UNCHANGED <<tags, dataTags, clocked, visited, node, srcs, delay, opts, sta>>
        /\ its' = Generator!First(Sizes(srcs)) /\ done' = FALSE
    BY DEF TInv, StartEvaluation, Configuration
  <1>2. /\ srcs = [i \in DataEdges(node) |-> srcs[i]] /\ node \in Node
        /\ \A i \in DataEdges(node) : /\ srcs[i] \in Seq(RefsAt(tags, Fanin[node][i]))
                                      /\ srcs[i] # <<>>
    BY <1>1 DEF WorkspaceOK
  <1>3. its' = [i \in DataEdges(node) |-> 1]
    BY <1>1, <1>2 DEF Generator!First, Sizes
  <1>4. \A i \in DataEdges(node) : 1 \in 1..Len(srcs[i])
    <2> TAKE i \in DataEdges(node)
    <2>1. srcs[i] \in Seq(RefsAt(tags, Fanin[node][i])) /\ srcs[i] # <<>>
      BY <1>2
    <2> QED
      BY <2>1
  <1>5. HeapOK'
    BY <1>1 DEF HeapOK, RefsAt, ScenarioRefs
  <1>6. VisitsOK'
    BY <1>1 DEF VisitsOK
  <1>7. WorkspaceOK'
    <2>1. \A m \in Node : RefsAt(tags', m) = RefsAt(tags, m)
      BY <1>1
    <2>2. \A i \in DataEdges(node) : Fanin[node][i] \in Node
      BY <1>2, DataNetFacts, NetFacts
    <2>3. \A i \in DataEdges(node) : its'[i] \in 1..Len(srcs[i])
      BY <1>3, <1>4
    <2>4. its' = [i \in DataEdges(node) |-> its'[i]]
      BY <1>3
    <2> QED
      BY <1>1, <2>1, <2>2, <2>3, <2>4 DEF WorkspaceOK
  <1> QED
    BY <1>1, <1>3, <1>5, <1>6, <1>7 DEF TInv

(* The scenario of the current permutation and its inputs.                  *)
CurrentRefs == [i \in DataEdges(node) |-> srcs[i][its[i]]]
InputTags(heap, refs, n) == [i \in DataEdges(n) |-> At(heap, refs[i])]

(* They refer to tags of the inputs of the node.                            *)
LEMMA CurrentRefsAre ==
    ASSUME TInv, phase = "eval"
    PROVE  /\ node \in Node \ visited /\ CurrentRefs \in ScenarioRefs(tags, node)
           /\ CurrentRefs \in AnyScenario
           /\ InputTags(tags, CurrentRefs, node) \in [DataEdges(node) -> TagType]
  <1>1. /\ HeapOK /\ node \in Node \ visited
        /\ \A i \in DataEdges(node) : /\ srcs[i] \in Seq(RefsAt(tags, Fanin[node][i]))
                                      /\ its[i] \in 1..Len(srcs[i])
    BY DEF TInv, WorkspaceOK
  <1>2. ASSUME NEW i \in DataEdges(node)
        PROVE  /\ CurrentRefs[i] \in RefsAt(tags, Fanin[node][i]) /\ CurrentRefs[i] \in Reference
               /\ At(tags, CurrentRefs[i]) \in TagType
    <2>1. CurrentRefs[i] \in RefsAt(tags, Fanin[node][i])
      <3>1. srcs[i] \in Seq(RefsAt(tags, Fanin[node][i])) /\ its[i] \in 1..Len(srcs[i])
        BY <1>1
      <3>2. srcs[i][its[i]] \in RefsAt(tags, Fanin[node][i])
        BY <3>1
      <3> QED
        BY <3>2 DEF CurrentRefs
    <2>2. Fanin[node][i] \in Node
      BY <1>1, DataNetFacts, NetFacts
    <2>3. At(tags, CurrentRefs[i]) \in TagType
      BY <1>1, <2>1, <2>2, TagsOfHeap DEF RefsAt, At, HeapOK
    <2> QED
      BY <2>1, <2>3 DEF RefsAt
  <1>3. CurrentRefs = [i \in DataEdges(node) |-> CurrentRefs[i]]
    BY DEF CurrentRefs
  <1>4. CurrentRefs \in [DataEdges(node) -> Reference] /\ CurrentRefs \in ScenarioRefs(tags, node)
    BY <1>2, <1>3 DEF ScenarioRefs
  <1>5. CurrentRefs \in AnyScenario
    BY <1>1, <1>4 DEF AnyScenario
  <1>6. InputTags(tags, CurrentRefs, node) \in [DataEdges(node) -> TagType]
    BY <1>2 DEF InputTags
  <1> QED
    BY <1>1, <1>4, <1>5, <1>6

(* A passed permutation has its scenario added to the node's tags.          *)
LEMMA EvaluateStep ==
    ASSUME TInv, EvaluatePermutation
    PROVE  /\ TInv' /\ phase = "eval" /\ phase' = "eval" /\ ~done /\ node \in Node \ visited
           /\ UNCHANGED <<dataTags, visited, node, srcs, opts, delay, sta>>
           /\ its' = Generator!Advanced(Sizes(srcs), its)
           /\ done' = Generator!Overflows(Sizes(srcs), its)
           /\ Larger(tags, tags') /\ \A m \in Node : m # node => tags'[m] = tags[m]
           /\ \E i \in DOMAIN tags'[node] : CurrentRefs \in tags'[node][i].scen
           /\ \E response \in Responses(node, InputTags(tags, CurrentRefs, node)) :
                 \A i \in DOMAIN tags'[node] :
                    AddedTag(tags[node], response, CurrentRefs, tags'[node][i], i)
           /\ \E k \in DOMAIN tags'[node] : \A i \in DOMAIN tags'[node] :
                 i # k => i \in DOMAIN tags[node] /\ tags'[node][i] = tags[node][i]
  <1>1. /\ HeapOK /\ VisitsOK /\ WorkspaceOK /\ phase = "eval" /\ ~done
        /\ UNCHANGED <<dataTags, clocked, visited, node, phase, srcs, delay, opts, sta>>
        /\ its' = Generator!Advanced(Sizes(srcs), its)
        /\ done' = Generator!Overflows(Sizes(srcs), its)
    BY DEF TInv, EvaluatePermutation, Configuration
  <1>2. PICK response \in Responses(node, InputTags(tags, CurrentRefs, node)) :
           tags' = [tags EXCEPT ![node] = AddScenario(@, response, CurrentRefs)]
    BY DEF EvaluatePermutation, InputTags, CurrentRefs
  <1>3. /\ node \in Node \ visited /\ CurrentRefs \in ScenarioRefs(tags, node)
        /\ CurrentRefs \in AnyScenario
        /\ InputTags(tags, CurrentRefs, node) \in [DataEdges(node) -> TagType]
    BY <1>1, CurrentRefsAre
  <1> DEFINE new == AddScenario(tags[node], response, CurrentRefs)
  <1>4. tags \in [Node -> Seq(TagType)] /\ tags[node] \in Seq(TagType)
    BY <1>1, <1>3 DEF HeapOK, Heap
  <1>5. response \in [trans : Transitions, arr : Nat]
    BY <1>1, <1>3, ResponseFacts DEF WorkspaceOK
  <1>6. /\ new \in Seq(TagType) /\ DOMAIN tags[node] \subseteq DOMAIN new
        /\ \E i \in DOMAIN new : CurrentRefs \in new[i].scen
        /\ \A i \in DOMAIN new : AddedTag(tags[node], response, CurrentRefs, new[i], i)
        /\ \E k \in DOMAIN new : \A i \in DOMAIN new :
              i # k => i \in DOMAIN tags[node] /\ new[i] = tags[node][i]
    BY <1>3, <1>4, <1>5, AddScenarioEffect
  <1>7. tags' = [tags EXCEPT ![node] = new]
    BY <1>2
  <1> HIDE DEF new
  <1>8. /\ tags' \in Heap /\ tags'[node] = new /\ Larger(tags, tags')
        /\ \A m \in Node : m # node => tags'[m] = tags[m]
    BY <1>3, <1>4, <1>6, <1>7 DEF Heap, Larger
  <1>9. ASSUME NEW i \in DOMAIN tags'[node] PROVE tags'[node][i].scen \subseteq ScenarioRefs(tags', node)
    <2> SUFFICES ASSUME NEW s \in tags'[node][i].scen PROVE s \in ScenarioRefs(tags', node)
      OBVIOUS
    <2>1. AddedTag(tags[node], response, CurrentRefs, new[i], i)
      BY <1>6, <1>8
    <2>2. (i \in DOMAIN tags[node] /\ s \in tags[node][i].scen) \/ s = CurrentRefs
      BY <1>8, <2>1 DEF AddedTag
    <2>3. s \in ScenarioRefs(tags, node)
      BY <1>1, <1>3, <2>2 DEF HeapOK
    <2> QED
      BY <1>3, <1>8, <2>3, LargerKeepsRefs
  <1>10. HeapOK'
    <2>1. /\ dataTags' \in [Node -> Seq(Reference)] /\ dataTags'[node] \in Seq(RefsAt(tags, node))
          /\ \A m \in Node : m # node => dataTags'[m] = dataTags[m]
      BY <1>1, <1>3 DEF HeapOK
    <2>2. RefsAt(tags, node) \subseteq RefsAt(tags', node)
      BY <1>3, <1>8, LargerKeepsRefs
    <2>3. dataTags'[node] \in Seq(RefsAt(tags', node))
      BY <2>1, <2>2
    <2> QED
      BY <1>1, <1>3, <1>8, <1>9, <2>1, <2>3, HeapStep
  <1>11. VisitsOK'
    BY <1>1, <1>3, <1>8 DEF VisitsOK
  <1>12. /\ srcs = [i \in DataEdges(node) |-> srcs[i]] /\ its = [i \in DataEdges(node) |-> its[i]]
         /\ \A i \in DataEdges(node) : its[i] \in 1..Len(srcs[i])
         /\ \A i \in DataEdges(node) : srcs[i] \in Seq(RefsAt(tags, Fanin[node][i]))
    BY <1>1 DEF WorkspaceOK
  <1>13. /\ its' = [i \in DataEdges(node) |-> its'[i]]
         /\ \A i \in DataEdges(node) : its'[i] \in 1..Len(srcs[i])
         /\ done' \in BOOLEAN
    <2>1. DOMAIN Sizes(srcs) = DataEdges(node) /\ \A i \in DataEdges(node) : Sizes(srcs)[i] = Len(srcs[i])
      BY <1>12 DEF Sizes
    <2>2. its' = [i \in DataEdges(node) |-> its'[i]]
      BY <1>1, <2>1 DEF Generator!Advanced
    <2>3. ASSUME NEW i \in DataEdges(node) PROVE its'[i] \in 1..Len(srcs[i])
      <3>1. its'[i] \in {its[i], 1} \/ (its[i] # Len(srcs[i]) /\ its'[i] = its[i] + 1)
        BY <1>1, <2>1 DEF Generator!Advanced
      <3>2. its[i] \in 1..Len(srcs[i]) /\ Len(srcs[i]) \in Nat
        BY <1>12
      <3> QED
        BY <3>1, <3>2
    <2>4. done' \in BOOLEAN
      BY <1>1 DEF Generator!Overflows, Generator!CarryInto
    <2> QED
      BY <2>2, <2>3, <2>4
  <1>14. WorkspaceOK'
    <2>1. ASSUME NEW i \in DataEdges(node) PROVE srcs[i] \in Seq(RefsAt(tags', Fanin[node][i]))
      <3>1. Fanin[node][i] \in Node /\ Fanin[node][i] # node
        BY <1>3, DataNetFacts, NetFacts
      <3>2. RefsAt(tags', Fanin[node][i]) = RefsAt(tags, Fanin[node][i])
        BY <1>8, <3>1 DEF RefsAt
      <3> QED
        BY <1>12, <3>2
    <2>2. tags'[node] # <<>>
      BY <1>6, <1>8
    <2> QED
      BY <1>1, <1>13, <2>1, <2>2 DEF WorkspaceOK
  <1>15. TInv'
    BY <1>10, <1>11, <1>14 DEF TInv
  <1>16. \E i \in DOMAIN tags'[node] : CurrentRefs \in tags'[node][i].scen
    BY <1>6, <1>8
  <1>17. \A i \in DOMAIN tags'[node] : AddedTag(tags[node], response, CurrentRefs, tags'[node][i], i)
    BY <1>6, <1>8
  <1>18. \E k \in DOMAIN tags'[node] : \A i \in DOMAIN tags'[node] :
            i # k => i \in DOMAIN tags[node] /\ tags'[node][i] = tags[node][i]
    BY <1>6, <1>8
  <1> QED
    BY <1>1, <1>2, <1>3, <1>8, <1>15, <1>16, <1>17, <1>18

(* The end of a handler merges the tags of its node and no others.          *)
LEMMA FinishStep ==
    ASSUME TInv, FinishNode
    PROVE  /\ TInv' /\ phase = "eval" /\ done /\ phase' = "idle" /\ UNCHANGED <<opts, delay, sta>>
           /\ node \in Node \ visited /\ visited' = visited \cup {node}
           /\ Grown(tags, tags', node)
           /\ \A m \in Node : m # node => dataTags'[m] = dataTags[m]
           /\ \A i \in DOMAIN tags[node] : LivesOn(tags, <<node, i>>, tags', dataTags'[node])
  <1> DEFINE set == References(node, tags[node])
             res == MergeTags(tags, set, Bin(opts.coarse), Bin(opts.fine), Threshold(node))
  <1>1. /\ HeapOK /\ VisitsOK /\ WorkspaceOK /\ phase = "eval" /\ done
        /\ tags' = res.heap /\ dataTags' = [dataTags EXCEPT ![node] = res.merged]
        /\ visited' = visited \cup {node}
        /\ node' = NoNode /\ phase' = "idle" /\ srcs' = <<>> /\ done' = FALSE
        /\ UNCHANGED <<clocked, delay, opts, sta>>
    BY DEF TInv, FinishNode, Configuration
  <1>2. node \in Node \ visited /\ node \notin ClockNet /\ tags[node] # <<>> /\ tags \in Heap
    BY <1>1 DEF WorkspaceOK, HeapOK
  <1>3. tags[node] \in Seq(TagType) /\ DOMAIN tags[node] = 1..Len(tags[node]) /\ Len(tags[node]) \in Nat
    BY <1>2 DEF Heap
  <1>4. /\ set \in Seq(RefsAt(tags, node)) /\ DOMAIN set = DOMAIN tags[node]
        /\ \A i \in DOMAIN tags[node] : set[i] = <<node, i>>
    <2>1. \A i \in DOMAIN tags[node] : <<node, i>> \in RefsAt(tags, node)
      BY <1>2, <1>3 DEF RefsAt, Reference
    <2>2. set = [i \in 1..Len(tags[node]) |-> <<node, i>>]
      BY <1>3 DEF References
    <2> QED
      BY <1>3, <2>1, <2>2
  <1> HIDE DEF set
  <1>5. Collected(tags, node, set, DOMAIN set, res)
    BY <1>2, <1>4, MergeOutcome
  <1> HIDE DEF res
  <1>6. /\ Grown(tags, tags', node) /\ res.merged \in Seq(RefsAt(tags, node))
        /\ \A i \in DOMAIN tags[node] : LivesOn(tags, <<node, i>>, tags', res.merged)
    BY <1>1, <1>4, <1>5 DEF Collected, MergeState
  <1>7. /\ dataTags' \in [Node -> Seq(Reference)] /\ dataTags'[node] = res.merged
        /\ \A m \in Node : m # node => dataTags'[m] = dataTags[m]
    <2>1. dataTags \in [Node -> Seq(Reference)]
      BY <1>1 DEF HeapOK
    <2>2. res.merged \in Seq(Reference)
      <3>1. RefsAt(tags, node) \in SUBSET Reference
        BY DEF RefsAt
      <3> QED
        BY <1>6, <3>1
    <2> QED
      BY <1>1, <1>2, <2>1, <2>2
  <1>8. HeapOK'
    BY <1>1, <1>2, <1>6, <1>7, GrownHeap
  <1>9. dataTags'[node] # <<>>
    <2>1. DOMAIN tags[node] # {}
      BY <1>2, <1>3, EmptySequence
    <2>2. DOMAIN res.merged # {}
      BY <1>6, <2>1 DEF LivesOn
    <2>3. res.merged # <<>>
      BY <2>2
    <2> QED
      BY <1>7, <2>3
  <1>10. VisitsOK'
    <2>1. \A m \in Node : m # node => dataTags'[m] = dataTags[m] /\ tags'[m] = tags[m]
      BY <1>6, <1>7 DEF Grown
    <2>2. visited' \in SUBSET Node /\ clocked' = visited' \cap ClockNet
      BY <1>1, <1>2 DEF VisitsOK
    <2>3. \A m \in visited' : dataTags'[m] = <<>> <=> m \in ClockNet
      BY <1>1, <1>2, <1>9, <2>1 DEF VisitsOK
    <2>4. \A m \in Node \ visited' : dataTags'[m] = <<>> /\ tags'[m] = <<>>
      BY <1>1, <1>2, <2>1 DEF VisitsOK
    <2> QED
      BY <2>2, <2>3, <2>4 DEF VisitsOK
  <1>11. WorkspaceOK'
    BY <1>1 DEF WorkspaceOK
  <1> QED
    BY <1>1, <1>2, <1>6, <1>7, <1>8, <1>10, <1>11 DEF TInv
-------------------------------------------------------------------------------
(* Every step keeps the invariant.                                          *)
LEMMA TInvStep == TInv /\ [Next]_vars => TInv'
  <1> SUFFICES ASSUME TInv, [Next]_vars PROVE TInv'
    OBVIOUS
  <1>1. ASSUME NEW n \in Node, PreTraverse(n) PROVE TInv'
    BY <1>1, PreTraverseStep
  <1>2. ASSUME NEW n \in Node, TraverseClockNode(n) PROVE TInv'
    BY <1>2, TraverseClockStep
  <1>3. ASSUME NEW n \in Node, BeginNode(n) PROVE TInv'
    BY <1>3, BeginStep
  <1>4. CASE ReduceInput
    BY <1>4, ReduceStep
  <1>5. CASE StartEvaluation
    BY <1>5, StartStep
  <1>6. CASE EvaluatePermutation
    BY <1>6, EvaluateStep
  <1>7. CASE FinishNode
    BY <1>7, FinishStep
  <1>8. CASE UNCHANGED vars
    <2>1. /\ UNCHANGED <<delay, opts, tags, dataTags, clocked, visited, node, phase, srcs, its, done>>
      BY <1>8 DEF vars
    <2>2. HeapOK'
      BY <2>1 DEF TInv, HeapOK, RefsAt, ScenarioRefs
    <2>3. VisitsOK'
      BY <2>1 DEF TInv, VisitsOK
    <2>4. WorkspaceOK'
      <3>1. \A m : RefsAt(tags', m) = RefsAt(tags, m)
        BY <2>1
      <3> QED
        BY <2>1, <3>1 DEF TInv, WorkspaceOK
    <2> QED
      BY <2>2, <2>3, <2>4 DEF TInv
  <1> QED
    BY <1>1, <1>2, <1>3, <1>4, <1>5, <1>6, <1>7, <1>8 DEF Next

(* The invariant holds of every circuit, all delays and settings.           *)
THEOREM TagInvariant == Spec => []TInv
  BY TInvInitially, TInvStep, PTL DEF Spec

(* For any circuit and any settings: references are never dangling.         *)
THEOREM TagTypes == Spec => []TypeOK
  BY TagInvariant, TInvImpliesTypeOK, PTL

(* Without a permutation limit no handler touches another node: not even    *)
(* the reducer, which only the limit calls upon input tags.                 *)
THEOREM HandlersAreLocal ==
    (\A o \in Options : o.maxPerm = 0) /\ Spec => OnlyCurrentNode
  <1> SUFFICES ASSUME \A o \in Options : o.maxPerm = 0 PROVE Spec => OnlyCurrentNode
    OBVIOUS
  <1>1. ASSUME TInv, [Next]_vars
        PROVE  [\A n \in Node : n \in visited => tags'[n] = tags[n] /\ dataTags'[n] = dataTags[n]]_vars
    <2> SUFFICES ASSUME Next, NEW n \in Node, n \in visited
                 PROVE  tags'[n] = tags[n] /\ dataTags'[n] = dataTags[n]
      BY <1>1
    <2>1. ASSUME NEW m \in Node, PreTraverse(m) \/ TraverseClockNode(m) \/ BeginNode(m)
          PROVE  tags'[n] = tags[n] /\ dataTags'[n] = dataTags[n]
      BY <1>1, <2>1, PreTraverseStep, TraverseClockStep, BeginStep
    <2>2. CASE ReduceInput
      <3>1. opts.maxPerm = 0
        BY <1>1 DEF TInv, WorkspaceOK
      <3> QED
        BY <2>2, <3>1 DEF ReduceInput, TooMany
    <2>3. CASE StartEvaluation
      BY <1>1, <2>3, StartStep
    <2>4. CASE EvaluatePermutation
      BY <1>1, <2>4, EvaluateStep
    <2>5. CASE FinishNode
      <3>1. n # node /\ Grown(tags, tags', node) /\ \A m \in Node : m # node => dataTags'[m] = dataTags[m]
        BY <1>1, <2>5, FinishStep
      <3> QED
        BY <3>1 DEF Grown
    <2> QED
      BY <2>1, <2>2, <2>3, <2>4, <2>5 DEF Next
  <1> QED
    BY <1>1, TagInvariant, PTL DEF Spec, OnlyCurrentNode
===============================================================================
