--------------------------- MODULE StaPipelineProofs ---------------------------
(***************************************************************************)
(* Proofs about the standard analysis, for every number of clock domains.  *)
(*                                                                         *)
(* First, TimingGraph alone: every graph that calls of add_node, add_edge  *)
(* and levelize() can build, of any size, with loops, parallel edges and   *)
(* repeated levelizations: the counters of levelize() are exact and the    *)
(* levels are a topological order.                                         *)
(*                                                                         *)
(* Then what the levels are in the pipeline: for every set of netlists,    *)
(* loops included, the level of a node placed is the length of its longest *)
(* path from the sources, and the nodes not placed are those on a loop or  *)
(* beyond one.                                                             *)
(*                                                                         *)
(* Last, the layout step and what follows it: both optimizations permute   *)
(* the ids, the graph stays sound under them, a walk of the levels follows *)
(* the storage afterwards, and, in every mix of serial and parallel        *)
(* analyses, no two handlers that may run at the same time meet at a       *)
(* node's tags.                                                            *)
(***************************************************************************)
EXTENDS StaPaths, FoldInduction, SequenceTheorems, FiniteSetTheorems, TLAPS

(* Every edge stands once in the list of its end, and nowhere else.        *)
Listing(ids, edges, lists, ends) ==
    /\ \A n \in ids : \A i \in DOMAIN lists[n] :
          lists[n][i] \in edges /\ ends[lists[n][i]] = n
    /\ \A e \in edges : \E i \in DOMAIN lists[ends[e]] : lists[ends[e]][i] = e
    /\ \A n \in ids : \A i, j \in DOMAIN lists[n] : lists[n][i] = lists[n][j] => i = j

GraphOK ==
    /\ nodes \in Seq(NodeData)
    /\ outEdges \in Seq(Seq(Nat)) /\ Len(outEdges) = Len(nodes)
    /\ inEdges \in Seq(Seq(Nat)) /\ Len(inEdges) = Len(nodes)
    /\ srcOf \in Seq(NodeIds) /\ sinkOf \in Seq(NodeIds) /\ Len(sinkOf) = Len(srcOf)
    /\ Listing(NodeIds, EdgeIds, outEdges, srcOf)
    /\ Listing(NodeIds, EdgeIds, inEdges, sinkOf)

Stages == {"modified", "counting", "levelizing", "levelized"}

CountingOK ==
    stage = "counting" =>
        /\ Len(levels) = 1 /\ level = 1 /\ edge = 1
        /\ pos \in 1..(Len(nodes) + 1)
        /\ fanin \in [NodeIds -> Nat]
        /\ \A n \in 1..(pos - 1) : /\ fanin[n] = Len(inEdges[n])
                                   /\ OnLevel(n, 1) <=> inEdges[n] = <<>>
        /\ \A p \in DOMAIN levels[1] : levels[1][p] < pos

WalkOK ==
    stage = "levelizing" =>
        /\ level \in 1..Len(levels) /\ Len(levels) <= level + 1
        /\ pos \in 1..(Len(levels[level]) + 1)
        /\ edge \in Nat \ {0}
        /\ pos <= Len(levels[level]) => edge <= Len(outEdges[Current]) + 1
        /\ pos > Len(levels[level]) => edge = 1
        /\ fanin \in [NodeIds -> Nat]

(* The inductive invariant: a counter is exact only because each edge is   *)
(* listed once at either end and each node is placed once.                 *)
IInv ==
    /\ GraphOK
    /\ stage \in Stages
    /\ stage # "modified" => levels \in Seq(Seq(NodeIds))
    /\ CountingOK /\ WalkOK
    /\ FaninIsExact /\ LevelsAreTopological
-------------------------------------------------------------------------------
LEMMA Appended ==
    ASSUME NEW S, NEW seq \in Seq(S), NEW x \in S
    PROVE  /\ Len(seq) \in Nat /\ DOMAIN seq = 1..Len(seq)
           /\ Append(seq, x) \in Seq(S) /\ Len(Append(seq, x)) = Len(seq) + 1
           /\ DOMAIN Append(seq, x) = 1..(Len(seq) + 1)
           /\ \A i \in 1..Len(seq) : Append(seq, x)[i] = seq[i]
           /\ Append(seq, x)[Len(seq) + 1] = x
  BY AppendProperties, LenProperties

(* Appending a new edge to the list of its end keeps the listing.          *)
LEMMA ListingAppend ==
    ASSUME NEW lists \in Seq(Seq(Nat)), NEW ends \in Seq(DOMAIN lists),
           NEW x \in DOMAIN lists, Listing(DOMAIN lists, DOMAIN ends, lists, ends)
    PROVE  LET new == Len(ends) + 1
               l2  == [lists EXCEPT ![x] = Append(@, new)]
           IN /\ l2 \in Seq(Seq(Nat)) /\ Len(l2) = Len(lists)
              /\ Listing(DOMAIN lists, DOMAIN Append(ends, x), l2, Append(ends, x))
  <1> DEFINE new == Len(ends) + 1
             l2 == [lists EXCEPT ![x] = Append(@, new)]
             e2 == Append(ends, x)
  <1>1. /\ Len(ends) \in Nat /\ DOMAIN ends = 1..Len(ends)
        /\ DOMAIN lists = 1..Len(lists) /\ Len(lists) \in Nat
    BY LenProperties
  <1>2. \A n \in DOMAIN lists : /\ lists[n] \in Seq(Nat) /\ Len(lists[n]) \in Nat
                                /\ DOMAIN lists[n] = 1..Len(lists[n])
    BY <1>1, ElementOfSeq, LenProperties
  <1>3. /\ Append(lists[x], new) \in Seq(Nat)
        /\ Len(Append(lists[x], new)) = Len(lists[x]) + 1
        /\ \A i \in 1..Len(lists[x]) : Append(lists[x], new)[i] = lists[x][i]
        /\ Append(lists[x], new)[Len(lists[x]) + 1] = new
    BY <1>1, <1>2, AppendProperties
  <1>4. DOMAIN Append(lists[x], new) = 1..(Len(lists[x]) + 1)
    BY <1>3, LenProperties
  <1>5. l2 \in Seq(Seq(Nat)) /\ Len(l2) = Len(lists) /\ DOMAIN l2 = DOMAIN lists
    BY <1>1, <1>3, ExceptSeq
  <1>6. l2[x] = Append(lists[x], new) /\ \A n \in DOMAIN lists : n # x => l2[n] = lists[n]
    OBVIOUS
  <1>7. /\ DOMAIN e2 = 1..new /\ e2[new] = x
        /\ \A e \in DOMAIN ends : e2[e] = ends[e] /\ e \in DOMAIN e2
    BY <1>1, AppendProperties, LenProperties
  <1>8. new \notin DOMAIN ends
    BY <1>1
  <1> HIDE DEF new, l2, e2
  <1>9. \A n \in DOMAIN lists : \A i \in DOMAIN l2[n] : l2[n][i] \in DOMAIN e2 /\ e2[l2[n][i]] = n
    <2> SUFFICES ASSUME NEW n \in DOMAIN lists, NEW i \in DOMAIN l2[n]
                 PROVE  l2[n][i] \in DOMAIN e2 /\ e2[l2[n][i]] = n
      OBVIOUS
    <2>1. CASE n # x
      BY <2>1, <1>6, <1>7 DEF Listing
    <2>2. CASE n = x /\ i = Len(lists[x]) + 1
      BY <2>2, <1>1, <1>3, <1>6, <1>7 DEF new
    <2>3. CASE n = x /\ i # Len(lists[x]) + 1
      <3>1. i \in DOMAIN lists[x]
        BY <2>3, <1>2, <1>4, <1>6
      <3> QED
        BY <2>3, <3>1, <1>2, <1>3, <1>6, <1>7 DEF Listing
    <2> QED
      BY <2>1, <2>2, <2>3
  <1>10. \A e \in DOMAIN e2 : \E i \in DOMAIN l2[e2[e]] : l2[e2[e]][i] = e
    <2> SUFFICES ASSUME NEW e \in DOMAIN e2
                 PROVE  \E i \in DOMAIN l2[e2[e]] : l2[e2[e]][i] = e
      OBVIOUS
    <2>1. CASE e = new
      <3>1. Len(lists[x]) + 1 \in DOMAIN l2[x]
        BY <1>2, <1>4, <1>6
      <3> QED
        BY <2>1, <3>1, <1>3, <1>6, <1>7
    <2>2. CASE e # new
      <3>1. e \in DOMAIN ends /\ e2[e] = ends[e] /\ ends[e] \in DOMAIN lists
        BY <2>2, <1>1, <1>7, ElementOfSeq DEF new
      <3>2. PICK i \in DOMAIN lists[ends[e]] : lists[ends[e]][i] = e
        BY <3>1 DEF Listing
      <3>3. i \in DOMAIN l2[ends[e]] /\ l2[ends[e]][i] = e
        <4>1. CASE ends[e] # x
          BY <4>1, <3>1, <3>2, <1>6
        <4>2. CASE ends[e] = x
          <5>1. i \in 1..Len(lists[x]) /\ Append(lists[x], new)[i] = e
            BY <4>2, <3>2, <1>2, <1>3
          <5>2. i \in DOMAIN Append(lists[x], new)
            BY <5>1, <1>2, <1>4
          <5> QED
            BY <4>2, <5>1, <5>2, <1>6
        <4> QED
          BY <4>1, <4>2
      <3> QED
        BY <3>1, <3>3
    <2> QED
      BY <2>1, <2>2
  <1>11. \A n \in DOMAIN lists : \A i, j \in DOMAIN l2[n] : l2[n][i] = l2[n][j] => i = j
    <2> SUFFICES ASSUME NEW n \in DOMAIN lists, NEW i \in DOMAIN l2[n], NEW j \in DOMAIN l2[n],
                        l2[n][i] = l2[n][j]
                 PROVE  i = j
      OBVIOUS
    <2>1. CASE n # x
      BY <2>1, <1>6 DEF Listing
    <2>2. CASE n = x
      <3>1. \A k \in DOMAIN lists[x] : l2[x][k] = lists[x][k] /\ l2[x][k] # new
        <4> SUFFICES ASSUME NEW k \in DOMAIN lists[x]
                     PROVE  l2[x][k] = lists[x][k] /\ l2[x][k] # new
          OBVIOUS
        <4>1. l2[x][k] = lists[x][k]
          BY <1>2, <1>3, <1>6
        <4>2. lists[x][k] \in DOMAIN ends
          BY DEF Listing
        <4> QED
          BY <4>1, <4>2, <1>8
      <3>2. \A k \in DOMAIN l2[x] : k \in DOMAIN lists[x] \/ (k = Len(lists[x]) + 1 /\ l2[x][k] = new)
        BY <1>2, <1>3, <1>4, <1>6
      <3>3. CASE i \in DOMAIN lists[x] /\ j \in DOMAIN lists[x]
        BY <2>2, <3>1, <3>3 DEF Listing
      <3>4. CASE i \notin DOMAIN lists[x] \/ j \notin DOMAIN lists[x]
        BY <2>2, <3>1, <3>2, <3>4
      <3> QED
        BY <3>3, <3>4
    <2> QED
      BY <2>1, <2>2
  <1>12. Listing(DOMAIN lists, DOMAIN e2, l2, e2)
    BY <1>9, <1>10, <1>11 DEF Listing
  <1> QED
    BY <1>5, <1>12 DEF new, l2, e2

(* What an invariant graph's sequences are.                                *)
LEMMA GraphFacts ==
    ASSUME GraphOK
    PROVE  /\ NodeIds = 1..Len(nodes) /\ Len(nodes) \in Nat
           /\ EdgeIds = 1..Len(srcOf) /\ Len(srcOf) \in Nat
           /\ DOMAIN outEdges = NodeIds /\ DOMAIN inEdges = NodeIds
           /\ DOMAIN sinkOf = EdgeIds
           /\ \A e \in EdgeIds : srcOf[e] \in NodeIds /\ sinkOf[e] \in NodeIds
           /\ \A n \in NodeIds :
                 /\ outEdges[n] \in Seq(Nat) /\ Len(outEdges[n]) \in Nat
                 /\ DOMAIN outEdges[n] = 1..Len(outEdges[n])
                 /\ inEdges[n] \in Seq(Nat) /\ Len(inEdges[n]) \in Nat
                 /\ DOMAIN inEdges[n] = 1..Len(inEdges[n])
                 /\ inEdges[n] = <<>> <=> Len(inEdges[n]) = 0
  <1>1. /\ NodeIds = 1..Len(nodes) /\ Len(nodes) \in Nat
        /\ EdgeIds = 1..Len(srcOf) /\ Len(srcOf) \in Nat
        /\ DOMAIN outEdges = 1..Len(outEdges) /\ DOMAIN inEdges = 1..Len(inEdges)
        /\ DOMAIN sinkOf = 1..Len(sinkOf)
    BY LenProperties DEF GraphOK, NodeIds, EdgeIds
  <1>2. DOMAIN outEdges = NodeIds /\ DOMAIN inEdges = NodeIds /\ DOMAIN sinkOf = EdgeIds
    BY <1>1 DEF GraphOK
  <1>3. \A e \in EdgeIds : srcOf[e] \in NodeIds /\ sinkOf[e] \in NodeIds
    BY <1>1, <1>2, ElementOfSeq DEF GraphOK
  <1>4. \A n \in NodeIds : outEdges[n] \in Seq(Nat) /\ inEdges[n] \in Seq(Nat)
    BY <1>1, <1>2, ElementOfSeq DEF GraphOK
  <1>5. \A n \in NodeIds : inEdges[n] = <<>> <=> Len(inEdges[n]) = 0
    BY <1>4, EmptySeq
  <1> QED
    BY <1>1, <1>2, <1>3, <1>4, <1>5, LenProperties

(* And what the levels are, and who is on them.                            *)
LEMMA LevelFacts ==
    ASSUME levels \in Seq(Seq(NodeIds))
    PROVE  /\ DOMAIN levels = 1..Len(levels) /\ Len(levels) \in Nat
           /\ \A l \in DOMAIN levels :
                 /\ levels[l] \in Seq(NodeIds) /\ Len(levels[l]) \in Nat
                 /\ DOMAIN levels[l] = 1..Len(levels[l])
                 /\ \A p \in DOMAIN levels[l] : levels[l][p] \in NodeIds
  <1>1. DOMAIN levels = 1..Len(levels) /\ Len(levels) \in Nat
    BY LenProperties
  <1>2. \A l \in DOMAIN levels : levels[l] \in Seq(NodeIds)
    BY <1>1, ElementOfSeq
  <1>3. \A l \in DOMAIN levels : Len(levels[l]) \in Nat /\ DOMAIN levels[l] = 1..Len(levels[l])
    BY <1>2, LenProperties
  <1>4. \A l \in DOMAIN levels : \A p \in DOMAIN levels[l] : levels[l][p] \in NodeIds
    BY <1>2, <1>3, ElementOfSeq
  <1> QED
    BY <1>1, <1>2, <1>3, <1>4

(* So does a new node, of which no edge is known.                          *)
LEMMA ListingNewNode ==
    ASSUME NEW ids, NEW edges, NEW lists, NEW ends, NEW l2, NEW x,
           Listing(ids, edges, lists, ends), \A e \in edges : ends[e] \in ids,
           \A n \in ids : l2[n] = lists[n], l2[x] = <<>>
    PROVE  Listing(ids \cup {x}, edges, l2, ends)
  <1>1. DOMAIN l2[x] = {}
    OBVIOUS
  <1>2. \A n \in ids \cup {x} : DOMAIN l2[n] # {} => n \in ids /\ l2[n] = lists[n]
    BY <1>1
  <1>3. \A n \in ids \cup {x} : \A i \in DOMAIN l2[n] :
           l2[n][i] \in edges /\ ends[l2[n][i]] = n
    BY <1>2 DEF Listing
  <1>4. \A e \in edges : \E i \in DOMAIN l2[ends[e]] : l2[ends[e]][i] = e
    BY DEF Listing
  <1>5. \A n \in ids \cup {x} : \A i, j \in DOMAIN l2[n] : l2[n][i] = l2[n][j] => i = j
    BY <1>2 DEF Listing
  <1> QED
    BY <1>3, <1>4, <1>5 DEF Listing

(* A node has as many edges as its list of in-edges is long.               *)
LEMMA FaninCount ==
    ASSUME GraphOK, NEW n \in NodeIds
    PROVE  /\ IsFiniteSet({e \in EdgeIds : sinkOf[e] = n})
           /\ Cardinality({e \in EdgeIds : sinkOf[e] = n}) = Len(inEdges[n])
  <1> DEFINE into == {e \in EdgeIds : sinkOf[e] = n}
             f == [i \in 1..Len(inEdges[n]) |-> inEdges[n][i]]
  <1>1. Len(inEdges[n]) \in Nat /\ DOMAIN inEdges[n] = 1..Len(inEdges[n])
    BY GraphFacts
  <1>2. f \in [1..Len(inEdges[n]) -> into]
    BY <1>1 DEF GraphOK, Listing
  <1>3. f \in Injection(1..Len(inEdges[n]), into)
    <2>1. \A i, j \in 1..Len(inEdges[n]) : inEdges[n][i] = inEdges[n][j] => i = j
      BY <1>1 DEF GraphOK, Listing
    <2>2. IsInjective(f)
      BY <2>1 DEF IsInjective
    <2> QED
      BY <1>2, <2>2 DEF Injection
  <1>4. f \in Surjection(1..Len(inEdges[n]), into)
    BY <1>1, <1>2 DEF GraphOK, Listing, Surjection
  <1>5. ExistsBijection(1..Len(inEdges[n]), into)
    BY <1>3, <1>4 DEF ExistsBijection, Bijection
  <1>6. IsFiniteSet(1..Len(inEdges[n])) /\ Cardinality(1..Len(inEdges[n])) = Len(inEdges[n])
    <2>1. /\ IsFiniteSet(1..Len(inEdges[n]))
          /\ Cardinality(1..Len(inEdges[n])) =
                IF 1 > Len(inEdges[n]) THEN 0 ELSE Len(inEdges[n]) - 1 + 1
      BY <1>1, FS_Interval, 1 \in Int, Len(inEdges[n]) \in Int
    <2> QED
      BY <1>1, <2>1
  <1> QED
    BY <1>5, <1>6, FS_Bijection

LEMMA WaitingIsFinite ==
    ASSUME GraphOK, NEW n \in NodeIds
    PROVE  IsFiniteSet(Waiting(n))
  <1>1. Waiting(n) \subseteq {e \in EdgeIds : sinkOf[e] = n}
    BY DEF Waiting
  <1> QED
    BY <1>1, FaninCount, FS_Subset

(* The levels after a node was put on the level after the current one.     *)
LEMMA PlaceNode ==
    ASSUME levels \in Seq(Seq(NodeIds)), level \in 1..Len(levels), Len(levels) <= level + 1,
           NEW x \in NodeIds
    PROVE  LET l2  == IF Len(levels) = level THEN Append(levels, <<x>>)
                      ELSE [levels EXCEPT ![level + 1] = Append(@, x)]
               old == IF Len(levels) = level THEN 0 ELSE Len(levels[level + 1])
           IN /\ l2 \in Seq(Seq(NodeIds)) /\ DOMAIN l2 = 1..(level + 1) /\ Len(l2) = level + 1
              /\ \A l \in 1..level : l2[l] = levels[l]
              /\ old \in Nat /\ DOMAIN l2[level + 1] = 1..(old + 1)
              /\ l2[level + 1][old + 1] = x
              /\ \A p \in 1..old : level + 1 \in DOMAIN levels /\ p \in DOMAIN levels[level + 1]
                                     /\ l2[level + 1][p] = levels[level + 1][p]
              /\ level + 1 \in DOMAIN levels => DOMAIN levels[level + 1] = 1..old
  <1>1. /\ DOMAIN levels = 1..Len(levels) /\ Len(levels) \in Nat
        /\ \A l \in DOMAIN levels : levels[l] \in Seq(NodeIds)
    BY LevelFacts
  <1>2. CASE Len(levels) = level
    <2>1. <<x>> \in Seq(NodeIds) /\ DOMAIN <<x>> = 1..1 /\ <<x>>[1] = x
      OBVIOUS
    <2>2. /\ Append(levels, <<x>>) \in Seq(Seq(NodeIds))
          /\ Len(Append(levels, <<x>>)) = Len(levels) + 1
          /\ \A l \in 1..Len(levels) : Append(levels, <<x>>)[l] = levels[l]
          /\ Append(levels, <<x>>)[Len(levels) + 1] = <<x>>
      BY <2>1, AppendProperties
    <2>3. DOMAIN Append(levels, <<x>>) = 1..(level + 1)
      BY <1>2, <2>2, LenProperties
    <2> QED
      BY <1>1, <1>2, <2>1, <2>2, <2>3
  <1>3. CASE Len(levels) = level + 1
    <2> DEFINE top == levels[level + 1]
    <2>1. top \in Seq(NodeIds) /\ Len(top) \in Nat /\ DOMAIN top = 1..Len(top)
      BY <1>1, <1>3, LenProperties
    <2>2. /\ Append(top, x) \in Seq(NodeIds) /\ Len(Append(top, x)) = Len(top) + 1
          /\ \A p \in 1..Len(top) : Append(top, x)[p] = top[p]
          /\ Append(top, x)[Len(top) + 1] = x
      BY <2>1, AppendProperties
    <2>3. DOMAIN Append(top, x) = 1..(Len(top) + 1)
      BY <2>2, LenProperties
    <2> DEFINE l2 == [levels EXCEPT ![level + 1] = Append(top, x)]
    <2>4. l2 \in Seq(Seq(NodeIds)) /\ Len(l2) = Len(levels)
      BY <1>1, <1>3, <2>2, ExceptSeq
    <2>5. /\ DOMAIN l2 = DOMAIN levels /\ l2[level + 1] = Append(top, x)
          /\ \A l \in 1..level : l2[l] = levels[l]
      BY <1>1, <1>3
    <2> HIDE DEF top, l2
    <2>6. /\ l2 \in Seq(Seq(NodeIds)) /\ DOMAIN l2 = 1..(level + 1) /\ Len(l2) = level + 1
          /\ \A l \in 1..level : l2[l] = levels[l]
          /\ DOMAIN l2[level + 1] = 1..(Len(top) + 1)
          /\ l2[level + 1][Len(top) + 1] = x
          /\ \A p \in 1..Len(top) : p \in DOMAIN top /\ l2[level + 1][p] = top[p]
      BY <1>1, <1>3, <2>1, <2>2, <2>3, <2>4, <2>5
    <2>7. Len(levels) # level /\ level + 1 \in DOMAIN levels
      BY <1>1, <1>3
    <2> QED
      BY <2>1, <2>6, <2>7 DEF top, l2
  <1>4. Len(levels) = level \/ Len(levels) = level + 1
    <2>1. Len(levels) \in Nat
      BY <1>1
    <2>2. level \in Nat /\ level <= Len(levels) /\ Len(levels) <= level + 1
      BY <2>1
    <2> QED
      BY <2>1, <2>2
  <1> QED
    BY <1>2, <1>3, <1>4
-------------------------------------------------------------------------------
(* Building: the graph stays well-formed.                                  *)
LEMMA AddNodeStep ==
    ASSUME IInv, NEW data \in NodeData, add_node(data)
    PROVE  IInv'
  <1>1. /\ NodeIds = 1..Len(nodes) /\ Len(nodes) \in Nat
        /\ DOMAIN outEdges = NodeIds /\ DOMAIN inEdges = NodeIds
        /\ \A e \in EdgeIds : srcOf[e] \in NodeIds /\ sinkOf[e] \in NodeIds
    BY GraphFacts DEF IInv
  <1>2. /\ nodes' \in Seq(NodeData) /\ Len(nodes') = Len(nodes) + 1
        /\ outEdges' \in Seq(Seq(Nat)) /\ Len(outEdges') = Len(nodes')
        /\ inEdges' \in Seq(Seq(Nat)) /\ Len(inEdges') = Len(nodes')
        /\ \A n \in NodeIds : outEdges'[n] = outEdges[n] /\ inEdges'[n] = inEdges[n]
        /\ outEdges'[Len(nodes) + 1] = <<>> /\ inEdges'[Len(nodes) + 1] = <<>>
    BY <1>1, AppendProperties, EmptySeq DEF add_node, IInv, GraphOK
  <1>3. UNCHANGED <<srcOf, sinkOf>> /\ EdgeIds' = EdgeIds /\ stage' = "modified"
    BY DEF add_node, EdgeIds
  <1>4. NodeIds' = 1..(Len(nodes) + 1) /\ NodeIds' = NodeIds \cup {Len(nodes) + 1}
    <2>1. NodeIds' = 1..Len(nodes')
      BY <1>2, LenProperties DEF NodeIds
    <2> QED
      BY <1>1, <1>2, <2>1
  <1>5. srcOf' \in Seq(NodeIds') /\ sinkOf' \in Seq(NodeIds')
    BY <1>3, <1>4, SeqMonotonic DEF IInv, GraphOK
  <1>6. Listing(NodeIds \cup {Len(nodes) + 1}, EdgeIds, outEdges', srcOf)
    <2>1. Listing(NodeIds, EdgeIds, outEdges, srcOf)
      BY DEF IInv, GraphOK
    <2>2. \A e \in EdgeIds : srcOf[e] \in NodeIds
      BY <1>1
    <2>3. (\A n \in NodeIds : outEdges'[n] = outEdges[n]) /\ outEdges'[Len(nodes) + 1] = <<>>
      BY <1>2
    <2> QED
      BY <2>1, <2>2, <2>3, ListingNewNode
  <1>7. Listing(NodeIds \cup {Len(nodes) + 1}, EdgeIds, inEdges', sinkOf)
    <2>1. Listing(NodeIds, EdgeIds, inEdges, sinkOf)
      BY DEF IInv, GraphOK
    <2> QED
      BY <1>1, <1>2, <2>1, ListingNewNode
  <1>8. GraphOK'
    BY <1>2, <1>3, <1>4, <1>5, <1>6, <1>7 DEF GraphOK, IInv
  <1> QED
    BY <1>3, <1>8 DEF IInv, Stages, CountingOK, WalkOK, FaninIsExact, LevelsAreTopological

LEMMA AddEdgeStep ==
    ASSUME IInv, NEW src \in NodeIds, NEW sink \in NodeIds, add_edge(src, sink)
    PROVE  IInv'
  <1>1. /\ DOMAIN outEdges = NodeIds /\ DOMAIN inEdges = NodeIds
        /\ DOMAIN sinkOf = EdgeIds /\ DOMAIN srcOf = EdgeIds
        /\ Len(srcOf) \in Nat
    BY GraphFacts DEF IInv, EdgeIds
  <1>2. UNCHANGED nodes /\ NodeIds' = NodeIds /\ stage' = "modified"
    BY DEF add_edge, NodeIds
  <1>3. /\ srcOf' \in Seq(NodeIds) /\ Len(srcOf') = Len(srcOf) + 1
        /\ sinkOf' \in Seq(NodeIds) /\ Len(sinkOf') = Len(srcOf) + 1
    BY AppendProperties DEF add_edge, IInv, GraphOK
  <1>4. DOMAIN srcOf' = DOMAIN sinkOf'
    BY <1>3, LenProperties
  <1>5. /\ outEdges' \in Seq(Seq(Nat)) /\ Len(outEdges') = Len(outEdges)
        /\ Listing(NodeIds, EdgeIds', outEdges', srcOf')
    BY <1>1, ListingAppend DEF add_edge, IInv, GraphOK, EdgeIds
  <1>6. /\ inEdges' \in Seq(Seq(Nat)) /\ Len(inEdges') = Len(inEdges)
        /\ Listing(NodeIds, DOMAIN sinkOf', inEdges', sinkOf')
    <2>1. /\ inEdges \in Seq(Seq(Nat)) /\ sinkOf \in Seq(DOMAIN inEdges)
          /\ sink \in DOMAIN inEdges
          /\ Listing(DOMAIN inEdges, DOMAIN sinkOf, inEdges, sinkOf)
      BY <1>1 DEF IInv, GraphOK
    <2>2. /\ Len(srcOf) = Len(sinkOf) /\ sinkOf' = Append(sinkOf, sink)
          /\ inEdges' = [inEdges EXCEPT ![sink] = Append(@, Len(sinkOf) + 1)]
      BY DEF add_edge, IInv, GraphOK
    <2>3. /\ inEdges' \in Seq(Seq(Nat)) /\ Len(inEdges') = Len(inEdges)
          /\ Listing(DOMAIN inEdges, DOMAIN Append(sinkOf, sink), inEdges', Append(sinkOf, sink))
      BY <2>1, <2>2, ListingAppend
    <2> QED
      BY <1>1, <2>2, <2>3
  <1>7. GraphOK'
    BY <1>2, <1>3, <1>4, <1>5, <1>6 DEF GraphOK, IInv, EdgeIds
  <1> QED
    BY <1>2, <1>7 DEF IInv, Stages, CountingOK, WalkOK, FaninIsExact, LevelsAreTopological
-------------------------------------------------------------------------------
(* The first loop of levelize(): counting in-edges, finding level 0.       *)
LEMMA BeginStep ==
    ASSUME IInv, BeginLevelize
    PROVE  IInv'
  <1>1. GraphOK' /\ NodeIds' = NodeIds /\ EdgeIds' = EdgeIds
    BY DEF IInv, GraphOK, BeginLevelize, graphData, NodeIds, EdgeIds, Listing
  <1>2. levels' = << <<>> >> /\ stage' = "counting" /\ pos' = 1 /\ level' = 1 /\ edge' = 1
    BY DEF BeginLevelize
  <1>3. /\ levels' \in Seq(Seq(NodeIds)) /\ Len(levels') = 1 /\ DOMAIN levels' = {1}
        /\ DOMAIN levels'[1] = {}
    BY <1>2
  <1>4. fanin' \in [NodeIds -> Nat]
    BY DEF BeginLevelize
  <1>5. Len(nodes') \in Nat
    BY <1>1, GraphFacts DEF IInv, BeginLevelize, graphData
  <1>6. CountingOK'
    BY <1>1, <1>2, <1>3, <1>4, <1>5 DEF CountingOK
  <1>7. LevelsAreTopological'
    BY <1>3 DEF LevelsAreTopological, OnLevel
  <1> QED
    BY <1>1, <1>2, <1>3, <1>6, <1>7 DEF IInv, Stages, WalkOK, FaninIsExact

LEMMA CountStep ==
    ASSUME IInv, CountFanin
    PROVE  IInv'
  <1>1. GraphOK' /\ NodeIds' = NodeIds /\ EdgeIds' = EdgeIds /\ UNCHANGED <<nodes, inEdges, sinkOf>>
    BY DEF IInv, GraphOK, CountFanin, graphData, NodeIds, EdgeIds, Listing
  <1>2. /\ stage = "counting" /\ stage' = "counting" /\ pos' = pos + 1
        /\ level' = 1 /\ edge' = 1 /\ pos \in 1..Len(nodes) /\ pos \in NodeIds
        /\ Len(nodes) \in Nat /\ NodeIds = 1..Len(nodes)
    <2>1. /\ stage = "counting" /\ stage' = "counting" /\ pos' = pos + 1
          /\ level = 1 /\ edge = 1 /\ UNCHANGED <<level, edge>>
          /\ pos \in 1..(Len(nodes) + 1) /\ pos <= Len(nodes)
      BY DEF IInv, CountingOK, CountFanin
    <2>2. Len(nodes) \in Nat /\ NodeIds = 1..Len(nodes)
      BY GraphFacts DEF IInv
    <2> QED
      BY <2>1, <2>2
  <1>3. /\ levels \in Seq(Seq(NodeIds)) /\ Len(levels) = 1 /\ DOMAIN levels = {1}
        /\ levels[1] \in Seq(NodeIds) /\ Len(levels[1]) \in Nat
        /\ DOMAIN levels[1] = 1..Len(levels[1])
    BY <1>2, LevelFacts DEF IInv, CountingOK
  <1> DEFINE first == AppendIf(inEdges[pos] = <<>>, levels[1], pos)
  <1>4. /\ first \in Seq(NodeIds)
        /\ \A p \in DOMAIN levels[1] : p \in DOMAIN first /\ first[p] = levels[1][p]
        /\ \A p \in DOMAIN first : p \in DOMAIN levels[1] \/
              (inEdges[pos] = <<>> /\ p = Len(levels[1]) + 1 /\ first[p] = pos)
        /\ inEdges[pos] = <<>> => \E p \in DOMAIN first : first[p] = pos
    <2>1. CASE inEdges[pos] # <<>>
      BY <2>1, <1>3 DEF AppendIf
    <2>2. CASE inEdges[pos] = <<>>
      <3>1. first = Append(levels[1], pos)
        BY <2>2 DEF AppendIf
      <3> HIDE DEF first
      <3>2. /\ first \in Seq(NodeIds) /\ DOMAIN first = 1..(Len(levels[1]) + 1)
            /\ \A p \in 1..Len(levels[1]) : first[p] = levels[1][p]
            /\ first[Len(levels[1]) + 1] = pos
        BY <1>2, <1>3, <3>1, Appended
      <3>3. \A p \in DOMAIN first : p \in DOMAIN levels[1] \/ p = Len(levels[1]) + 1
        BY <1>3, <3>2
      <3>4. \A p \in DOMAIN levels[1] : p \in DOMAIN first
        BY <1>3, <3>2
      <3>5. Len(levels[1]) + 1 \in DOMAIN first
        BY <1>3, <3>2
      <3> QED
        BY <2>2, <1>3, <3>2, <3>3, <3>4, <3>5
    <2> QED
      BY <2>1, <2>2
  <1>5. levels' = [levels EXCEPT ![1] = first]
    BY DEF CountFanin
  <1> HIDE DEF first
  <1>6. /\ levels' \in Seq(Seq(NodeIds)) /\ Len(levels') = 1 /\ DOMAIN levels' = {1}
        /\ levels'[1] = first
    <2>1. /\ levels' \in Seq(Seq(NodeIds)) /\ Len(levels') = Len(levels)
      <3>1. 1 \in 1..Len(levels)
        BY <1>3
      <3>2. first \in Seq(NodeIds) /\ levels \in Seq(Seq(NodeIds))
        BY <1>3, <1>4
      <3> QED
        BY <3>1, <3>2, <1>5, ExceptSeq
    <2> QED
      BY <1>3, <1>5, <2>1
  <1>7. fanin' \in [NodeIds -> Nat] /\ fanin'[pos] = Len(inEdges[pos])
        /\ \A n \in NodeIds : n # pos => fanin'[n] = fanin[n]
    BY <1>2, GraphFacts DEF CountFanin, IInv, CountingOK
  <1>8. /\ \A p \in DOMAIN levels[1] : levels[1][p] < pos
        /\ \A n \in 1..(pos - 1) : /\ fanin[n] = Len(inEdges[n])
                                    /\ OnLevel(n, 1) <=> inEdges[n] = <<>>
    BY <1>2 DEF IInv, CountingOK
  <1>9. \A p \in DOMAIN first : first[p] \in NodeIds
    BY <1>4, ElementOfSeq, LenProperties
  <1>10. \A p \in DOMAIN first : first[p] < pos + 1
    BY <1>2, <1>4, <1>8, <1>9
  <1>11. \A n \in NodeIds : OnLevel(n, 1)' <=> \E p \in DOMAIN first : first[p] = n
    BY <1>6 DEF OnLevel
  <1>12. \A n \in 1..pos : /\ fanin'[n] = Len(inEdges[n])
                           /\ OnLevel(n, 1)' <=> inEdges[n] = <<>>
    <2> SUFFICES ASSUME NEW n \in 1..pos
                 PROVE  /\ fanin'[n] = Len(inEdges[n])
                        /\ OnLevel(n, 1)' <=> inEdges[n] = <<>>
      OBVIOUS
    <2>1. n \in NodeIds
      BY <1>2
    <2>2. CASE n = pos
      <3>1. \A p \in DOMAIN levels[1] : first[p] # pos
        BY <1>2, <1>4, <1>8
      <3> QED
        BY <2>1, <2>2, <3>1, <1>4, <1>7, <1>11
    <2>3. CASE n # pos
      <3>1. n \in 1..(pos - 1)
        BY <2>3, <1>2
      <3>2. OnLevel(n, 1)' <=> OnLevel(n, 1)
        BY <2>1, <2>3, <1>4, <1>11 DEF OnLevel
      <3> QED
        <4>1. fanin'[n] = fanin[n]
          BY <2>1, <2>3, <1>7
        <4>2. fanin[n] = Len(inEdges[n]) /\ (OnLevel(n, 1) <=> inEdges[n] = <<>>)
          <5>1. stage = "counting"
            BY <1>2
          <5> QED
            BY <3>1, <5>1 DEF IInv, CountingOK
        <4> QED
          BY <3>2, <4>1, <4>2
    <2> QED
      BY <2>2, <2>3
  <1>13. CountingOK'
    BY <1>1, <1>2, <1>6, <1>7, <1>10, <1>12 DEF CountingOK
  <1>14. \A p, q \in DOMAIN first : first[p] = first[q] => p = q
    <2> SUFFICES ASSUME NEW p \in DOMAIN first, NEW q \in DOMAIN first, first[p] = first[q]
                 PROVE  p = q
      OBVIOUS
    <2>1. CASE p \in DOMAIN levels[1] /\ q \in DOMAIN levels[1]
      <3>1. \A i, j \in DOMAIN levels[1] : levels[1][i] = levels[1][j] => i = j
        BY <1>2, <1>3 DEF IInv, LevelsAreTopological
      <3> QED
        BY <2>1, <3>1, <1>4
    <2>2. CASE p \notin DOMAIN levels[1] /\ q \in DOMAIN levels[1]
      BY <2>2, <1>2, <1>4, <1>8
    <2>3. CASE p \in DOMAIN levels[1] /\ q \notin DOMAIN levels[1]
      BY <2>3, <1>2, <1>4, <1>8
    <2>4. CASE p \notin DOMAIN levels[1] /\ q \notin DOMAIN levels[1]
      BY <2>4, <1>4
    <2> QED
      BY <2>1, <2>2, <2>3, <2>4
  <1>15. \A e \in EdgeIds : ~OnLevel(sinkOf[e], 1)'
    <2> SUFFICES ASSUME NEW e \in EdgeIds, OnLevel(sinkOf[e], 1)'
                 PROVE  FALSE
      OBVIOUS
    <2>1. PICK p \in DOMAIN first : first[p] = sinkOf[e]
      BY <1>1, <1>6 DEF OnLevel
    <2>2. inEdges[sinkOf[e]] = <<>>
      <3>1. sinkOf[e] \in 1..pos
        BY <1>2, <1>9, <1>10, <2>1
      <3>2. OnLevel(sinkOf[e], 1)' <=> \E i \in DOMAIN first : first[i] = sinkOf[e]
        BY <1>9, <1>11, <2>1
      <3> QED
        BY <3>1, <3>2, <2>1, <1>1, <1>6, <1>12 DEF OnLevel
    <2>3. \E i \in DOMAIN inEdges[sinkOf[e]] : inEdges[sinkOf[e]][i] = e
      BY DEF IInv, GraphOK, Listing
    <2> QED
      BY <2>2, <2>3
  <1>16. LevelsAreTopological'
    BY <1>1, <1>6, <1>14, <1>15 DEF LevelsAreTopological
  <1> QED
    BY <1>1, <1>2, <1>6, <1>13, <1>16 DEF IInv, Stages, WalkOK, FaninIsExact
-------------------------------------------------------------------------------
(* The second loop: level by level, each node's out-edges.                 *)
LEMMA GraphUnchanged ==
    ASSUME GraphOK, UNCHANGED graphData
    PROVE  /\ GraphOK' /\ NodeIds' = NodeIds /\ EdgeIds' = EdgeIds
           /\ UNCHANGED nodes /\ UNCHANGED outEdges /\ UNCHANGED inEdges
           /\ UNCHANGED srcOf /\ UNCHANGED sinkOf
  BY DEF GraphOK, graphData, NodeIds, EdgeIds, Listing

LEMMA StartWalkStep ==
    ASSUME IInv, StartWalk
    PROVE  IInv'
  <1>1. /\ GraphOK' /\ NodeIds' = NodeIds /\ EdgeIds' = EdgeIds
        /\ UNCHANGED outEdges /\ UNCHANGED srcOf /\ UNCHANGED sinkOf
    BY GraphUnchanged DEF IInv, StartWalk
  <1>2. /\ stage = "counting" /\ stage' = "levelizing" /\ pos' = 1
        /\ UNCHANGED levels /\ UNCHANGED fanin /\ UNCHANGED level /\ UNCHANGED edge
        /\ level = 1 /\ edge = 1 /\ Len(levels) = 1 /\ fanin \in [NodeIds -> Nat]
    BY DEF IInv, CountingOK, StartWalk, levelData
  <1>3. /\ levels \in Seq(Seq(NodeIds)) /\ DOMAIN levels = {1} /\ levels[1] \in Seq(NodeIds)
        /\ Len(levels[1]) \in Nat /\ DOMAIN levels[1] = 1..Len(levels[1])
        /\ \A p \in DOMAIN levels[1] : levels[1][p] \in NodeIds
    BY <1>2, LevelFacts DEF IInv
  <1>4. \A n \in NodeIds : fanin[n] = Len(inEdges[n]) /\ (OnLevel(n, 1) <=> inEdges[n] = <<>>)
    <2>1. pos \in 1..(Len(nodes) + 1) /\ pos > Len(nodes)
      BY <1>2 DEF IInv, CountingOK, StartWalk
    <2>2. Len(nodes) \in Nat /\ NodeIds = 1..Len(nodes)
      BY GraphFacts DEF IInv
    <2>3. NodeIds = 1..(pos - 1)
      BY <2>1, <2>2
    <2> QED
      BY <1>2, <2>3 DEF IInv, CountingOK
  <1>5. \A e \in EdgeIds : ~Traversed(e)'
    <2>1. 1..(level' - 1) = {}
      BY <1>2
    <2>2. \A p \in DOMAIN levels'[level'] : ~(p < pos')
      BY <1>2, <1>3
    <2>3. 1..(edge' - 1) = {}
      BY <1>2
    <2> QED
      BY <2>1, <2>2, <2>3 DEF Traversed
  <1>6. \A n \in NodeIds : Waiting(n)' = {e \in EdgeIds : sinkOf[e] = n}
    BY <1>1, <1>5 DEF Waiting
  <1>7. \A n \in NodeIds : Placed(n)' <=> OnLevel(n, 1)
    BY <1>2, <1>3 DEF Placed, OnLevel
  <1>8. FaninIsExact'
    <2> SUFFICES ASSUME NEW n \in NodeIds
                 PROVE  fanin'[n] = Cardinality(Waiting(n)') /\ (fanin'[n] = 0 <=> Placed(n)')
      BY <1>1 DEF FaninIsExact
    <2>1. Cardinality(Waiting(n)') = Len(inEdges[n])
      BY <1>6, FaninCount DEF IInv
    <2>2. inEdges[n] = <<>> <=> Len(inEdges[n]) = 0
      BY GraphFacts DEF IInv
    <2> QED
      BY <2>1, <2>2, <1>2, <1>4, <1>7
  <1>9. WalkOK'
    <2>1. 1 <= Len(levels[1]) => levels[1][1] \in NodeIds
      BY <1>3
    <2>2. 1 <= Len(levels[1]) => Len(outEdges[levels[1][1]]) \in Nat
      BY <2>1, GraphFacts DEF IInv
    <2>3. Current' = levels[1][1]
      BY <1>2 DEF Current
    <2>4. pos' <= Len(levels'[level']) => edge' <= Len(outEdges'[Current']) + 1
      BY <1>1, <1>2, <2>2, <2>3
    <2> QED
      BY <1>1, <1>2, <1>3, <2>4 DEF WalkOK
  <1>10. LevelsAreTopological'
    BY <1>1, <1>2 DEF IInv, LevelsAreTopological, OnLevel
  <1> QED
    BY <1>1, <1>2, <1>3, <1>8, <1>9, <1>10 DEF IInv, Stages, CountingOK

(* Leaving a node or a level follows no edge.                              *)
LEMMA LeaveNodeStep ==
    ASSUME IInv, LeaveNode
    PROVE  IInv'
  <1>1. /\ GraphOK' /\ NodeIds' = NodeIds /\ EdgeIds' = EdgeIds
        /\ UNCHANGED outEdges /\ UNCHANGED srcOf /\ UNCHANGED sinkOf
    BY GraphUnchanged DEF IInv, LeaveNode
  <1>2. /\ stage = "levelizing" /\ pos <= Len(levels[level]) /\ edge > Len(outEdges[Current])
        /\ pos' = pos + 1 /\ edge' = 1 /\ UNCHANGED levels /\ UNCHANGED stage
        /\ UNCHANGED fanin /\ UNCHANGED level
    BY DEF LeaveNode, AtNode
  <1>3. /\ level \in 1..Len(levels) /\ Len(levels) <= level + 1
        /\ pos \in 1..(Len(levels[level]) + 1) /\ edge \in Nat \ {0}
        /\ edge <= Len(outEdges[Current]) + 1 /\ fanin \in [NodeIds -> Nat]
    BY <1>2 DEF IInv, WalkOK
  <1>4. /\ levels \in Seq(Seq(NodeIds)) /\ Len(levels[level]) \in Nat
        /\ DOMAIN levels[level] = 1..Len(levels[level])
        /\ \A p \in DOMAIN levels[level] : levels[level][p] \in NodeIds
    BY <1>2, <1>3, LevelFacts DEF IInv
  <1>5. /\ pos \in DOMAIN levels[level] /\ Current \in NodeIds
        /\ Len(outEdges[Current]) \in Nat /\ DOMAIN outEdges[Current] = 1..Len(outEdges[Current])
        /\ edge - 1 = Len(outEdges[Current])
    <2>1. pos \in DOMAIN levels[level]
      BY <1>2, <1>3, <1>4
    <2>2. Current \in NodeIds
      BY <2>1, <1>4 DEF Current
    <2>3. Len(outEdges[Current]) \in Nat /\ DOMAIN outEdges[Current] = 1..Len(outEdges[Current])
      BY <2>2, GraphFacts DEF IInv
    <2> QED
      BY <2>1, <2>2, <2>3, <1>2, <1>3
  <1>6. \A e \in EdgeIds : srcOf[e] = Current => \E i \in 1..(edge - 1) : outEdges[srcOf[e]][i] = e
    BY <1>5 DEF IInv, GraphOK, Listing
  <1>7. \A p \in DOMAIN levels[level] : p < pos' <=> (p < pos \/ p = pos)
    BY <1>2, <1>3, <1>4
  <1>8. 1..(edge' - 1) = {}
    BY <1>2
  <1>9. \A e \in EdgeIds : Traversed(e)' <=> Traversed(e)
    BY <1>1, <1>2, <1>5, <1>6, <1>7, <1>8 DEF Traversed, Current
  <1>10. FaninIsExact'
    <2>1. \A n \in NodeIds : Waiting(n)' = Waiting(n)
      BY <1>1, <1>9 DEF Waiting
    <2>2. \A n \in NodeIds : Placed(n)' <=> Placed(n)
      BY <1>2 DEF Placed, OnLevel
    <2> QED
      BY <2>1, <2>2, <1>1, <1>2 DEF IInv, FaninIsExact
  <1>11. WalkOK'
    <2>1. pos' \in 1..(Len(levels[level]) + 1)
      BY <1>2, <1>3, <1>4
    <2>2. pos' <= Len(levels[level]) => 1 <= Len(outEdges[levels[level][pos']]) + 1
      <3> SUFFICES ASSUME pos' <= Len(levels[level])
                   PROVE  1 <= Len(outEdges[levels[level][pos']]) + 1
        OBVIOUS
      <3>1. pos' \in DOMAIN levels[level]
        BY <2>1, <1>4
      <3>2. levels[level][pos'] \in NodeIds
        BY <3>1, <1>4
      <3>3. Len(outEdges[levels[level][pos']]) \in Nat
        BY <3>2, GraphFacts DEF IInv
      <3> QED
        BY <3>3
    <2>3. Current' = levels[level][pos']
      BY <1>2 DEF Current
    <2> QED
      BY <1>1, <1>2, <1>3, <2>1, <2>2, <2>3 DEF WalkOK
  <1>12. LevelsAreTopological'
    BY <1>1, <1>2 DEF IInv, LevelsAreTopological, OnLevel
  <1> QED
    BY <1>1, <1>2, <1>4, <1>10, <1>11, <1>12 DEF IInv, Stages, CountingOK

LEMMA LeaveLevelStep ==
    ASSUME IInv, LeaveLevel
    PROVE  IInv'
  <1>1. /\ GraphOK' /\ NodeIds' = NodeIds /\ EdgeIds' = EdgeIds
        /\ UNCHANGED outEdges /\ UNCHANGED srcOf /\ UNCHANGED sinkOf
    BY GraphUnchanged DEF IInv, LeaveLevel
  <1>2. /\ stage = "levelizing" /\ pos > Len(levels[level])
        /\ pos' = 1 /\ UNCHANGED levels /\ UNCHANGED fanin /\ UNCHANGED edge
    BY DEF LeaveLevel, levelData
  <1>3. /\ level \in 1..Len(levels) /\ Len(levels) <= level + 1 /\ edge = 1
        /\ fanin \in [NodeIds -> Nat]
        /\ pos \in 1..(Len(levels[level]) + 1)
    BY <1>2 DEF IInv, WalkOK
  <1>4. /\ levels \in Seq(Seq(NodeIds)) /\ DOMAIN levels = 1..Len(levels) /\ Len(levels) \in Nat
        /\ \A l \in DOMAIN levels : /\ Len(levels[l]) \in Nat
                                    /\ DOMAIN levels[l] = 1..Len(levels[l])
                                    /\ \A p \in DOMAIN levels[l] : levels[l][p] \in NodeIds
    BY <1>2, LevelFacts DEF IInv
  <1>5. LevelsAreTopological'
    BY <1>1, <1>2 DEF IInv, LevelsAreTopological, OnLevel, LeaveLevel
  <1>6. CASE Len(levels) > level
    <2>1. level' = level + 1 /\ stage' = "levelizing" /\ level' \in DOMAIN levels
          /\ level' - 1 = level /\ level \in DOMAIN levels
      BY <1>2, <1>3, <1>4, <1>6 DEF LeaveLevel
    <2>2. \A p \in DOMAIN levels[level] : p < pos
      <3>1. Len(levels[level]) \in Nat /\ DOMAIN levels[level] = 1..Len(levels[level])
        BY <1>4, <2>1
      <3> QED
        BY <1>2, <1>3, <3>1
    <2>3. \A p \in DOMAIN levels[level'] : ~(p < pos')
      BY <1>2, <1>4, <2>1
    <2>4. 1..(edge' - 1) = {}
      BY <1>2, <1>3
    <2>5. \A l : l \in 1..(level' - 1) <=> (l \in 1..(level - 1) \/ l = level)
      BY <1>3, <1>4, <2>1
    <2>6. \A e \in EdgeIds : Traversed(e)' <=> Traversed(e)
      <3> SUFFICES ASSUME NEW e \in EdgeIds
                   PROVE  Traversed(e)' <=> Traversed(e)
        OBVIOUS
      <3>1. Traversed(e)' <=> \E l \in 1..(level' - 1) : \E p \in DOMAIN levels[l] : levels[l][p] = srcOf[e]
        BY <1>1, <1>2, <2>3, <2>4 DEF Traversed
      <3>2. Traversed(e) <=> \/ \E l \in 1..(level - 1) : \E p \in DOMAIN levels[l] : levels[l][p] = srcOf[e]
                             \/ \E p \in DOMAIN levels[level] : levels[level][p] = srcOf[e]
        BY <2>2 DEF Traversed
      <3> QED
        BY <3>1, <3>2, <2>5
    <2>7. \A n \in NodeIds : Waiting(n)' = Waiting(n) /\ (Placed(n)' <=> Placed(n))
      BY <1>1, <1>2, <2>6 DEF Waiting, Placed, OnLevel
    <2>8. FaninIsExact'
      BY <2>1, <2>7, <1>1, <1>2 DEF IInv, FaninIsExact
    <2>9. 1 <= Len(levels[level']) => edge' <= Len(outEdges[levels[level'][1]]) + 1
      <3> SUFFICES ASSUME 1 <= Len(levels[level'])
                   PROVE  edge' <= Len(outEdges[levels[level'][1]]) + 1
        OBVIOUS
      <3>1. 1 \in DOMAIN levels[level']
        BY <1>4, <2>1
      <3>2. levels[level'][1] \in NodeIds
        BY <3>1, <1>4, <2>1
      <3>3. Len(outEdges[levels[level'][1]]) \in Nat
        BY <3>2, GraphFacts DEF IInv
      <3> QED
        BY <3>3, <1>2, <1>3
    <2>10. Current' = levels[level'][1]
      BY <1>2 DEF Current
    <2>11. WalkOK'
      <3>1. level' \in 1..Len(levels') /\ Len(levels') <= level' + 1
        BY <1>2, <1>3, <1>4, <2>1
      <3>2. pos' \in 1..(Len(levels'[level']) + 1)
        BY <1>2, <1>4, <2>1
      <3> QED
        BY <3>1, <3>2, <1>1, <1>2, <1>3, <2>9, <2>10 DEF WalkOK
    <2> QED
      BY <1>1, <1>2, <1>4, <1>5, <2>1, <2>8, <2>11 DEF IInv, Stages, CountingOK
  <1>7. CASE ~(Len(levels) > level)
    <2>1. stage' = "levelized"
      BY <1>7 DEF LeaveLevel
    <2> QED
      BY <1>1, <1>2, <1>4, <1>5, <2>1 DEF IInv, Stages, CountingOK, WalkOK, FaninIsExact
  <1> QED
    BY <1>6, <1>7

(* The edge the walk has come to, its sink, and what it changes.           *)
LEMMA TraverseFacts ==
    ASSUME IInv, TraverseEdge
    PROVE  LET e0 == outEdges[Current][edge]
               s  == sinkOf[e0]
           IN /\ stage = "levelizing" /\ stage' = "levelizing" /\ edge \in Nat \ {0}
              /\ UNCHANGED level /\ UNCHANGED pos /\ edge' = edge + 1
              /\ level \in 1..Len(levels) /\ Len(levels) <= level + 1
              /\ pos \in DOMAIN levels[level] /\ Current \in NodeIds
              /\ edge \in DOMAIN outEdges[Current]
              /\ Len(outEdges[Current]) \in Nat /\ edge + 1 <= Len(outEdges[Current]) + 1
              /\ e0 \in EdgeIds /\ srcOf[e0] = Current /\ s \in NodeIds
              /\ ~Traversed(e0) /\ ~Placed(s)
              /\ fanin \in [NodeIds -> Nat] /\ fanin[s] # 0
              /\ fanin' = [fanin EXCEPT ![s] = @ - 1]
  <1> DEFINE e0 == outEdges[Current][edge]
             s == sinkOf[e0]
  <1>1. /\ stage = "levelizing" /\ stage' = "levelizing" /\ edge' = edge + 1
        /\ UNCHANGED level /\ UNCHANGED pos
        /\ pos <= Len(levels[level]) /\ edge <= Len(outEdges[Current])
        /\ fanin' = [fanin EXCEPT ![s] = @ - 1]
    BY DEF TraverseEdge, AtNode
  <1>2. /\ level \in 1..Len(levels) /\ Len(levels) <= level + 1
        /\ pos \in 1..(Len(levels[level]) + 1) /\ edge \in Nat \ {0}
        /\ fanin \in [NodeIds -> Nat]
    BY <1>1 DEF IInv, WalkOK
  <1>3. /\ levels \in Seq(Seq(NodeIds)) /\ DOMAIN levels = 1..Len(levels) /\ Len(levels) \in Nat
        /\ Len(levels[level]) \in Nat /\ DOMAIN levels[level] = 1..Len(levels[level])
        /\ \A p \in DOMAIN levels[level] : levels[level][p] \in NodeIds
    BY <1>1, <1>2, LevelFacts DEF IInv
  <1>4. pos \in DOMAIN levels[level] /\ level \in DOMAIN levels
    BY <1>1, <1>2, <1>3
  <1>5. Current \in NodeIds
    BY <1>3, <1>4 DEF Current
  <1>6. Len(outEdges[Current]) \in Nat /\ DOMAIN outEdges[Current] = 1..Len(outEdges[Current])
    BY <1>5, GraphFacts DEF IInv
  <1>7. edge \in DOMAIN outEdges[Current] /\ edge + 1 <= Len(outEdges[Current]) + 1
    BY <1>1, <1>2, <1>6
  <1>8. e0 \in EdgeIds /\ srcOf[e0] = Current
    BY <1>5, <1>7 DEF IInv, GraphOK, Listing
  <1>9. s \in NodeIds
    BY <1>8, GraphFacts DEF IInv
  <1> HIDE DEF e0, s
  <1>10. ~Traversed(e0)
    <2>1. \A l \in DOMAIN levels : \A p \in DOMAIN levels[l] :
             levels[l][p] = Current => l = level /\ p = pos
      BY <1>1, <1>4 DEF IInv, LevelsAreTopological, Current
    <2>2. ~\E l \in 1..(level - 1) : \E p \in DOMAIN levels[l] : levels[l][p] = Current
      <3>1. \A l \in 1..(level - 1) : l \in DOMAIN levels /\ l # level
        BY <1>2, <1>3
      <3> QED
        BY <2>1, <3>1
    <2>3. ~\E i \in 1..(edge - 1) : outEdges[Current][i] = e0
      <3>1. \A i \in 1..(edge - 1) : i \in DOMAIN outEdges[Current] /\ i # edge
        BY <1>2, <1>6, <1>7
      <3>2. \A i \in DOMAIN outEdges[Current] : outEdges[Current][i] = e0 => i = edge
        BY <1>5, <1>7 DEF IInv, GraphOK, Listing, e0
      <3> QED
        BY <3>1, <3>2
    <2>4. \A p \in DOMAIN levels[level] : levels[level][p] = Current => ~(p < pos)
      BY <2>1, <1>2, <1>4
    <2> QED
      BY <1>8, <2>2, <2>3, <2>4 DEF Traversed
  <1>11. fanin[s] = Cardinality(Waiting(s)) /\ (fanin[s] = 0 <=> Placed(s))
    BY <1>1, <1>9 DEF IInv, FaninIsExact
  <1>12. e0 \in Waiting(s)
    BY <1>8, <1>10 DEF Waiting, s
  <1>13. Cardinality(Waiting(s)) # 0
    BY <1>9, <1>12, WaitingIsFinite, FS_EmptySet DEF IInv
  <1> QED
    BY <1>1, <1>2, <1>4, <1>5, <1>6, <1>7, <1>8, <1>9, <1>10, <1>11, <1>13 DEF e0, s

(* A followed edge's source is on the current level or a lower one.        *)
LEMMA TraversedPlaced ==
    ASSUME levels \in Seq(Seq(NodeIds)), level \in 1..Len(levels),
           NEW e \in EdgeIds, Traversed(e)
    PROVE  \E l \in 1..level : l \in DOMAIN levels /\ OnLevel(srcOf[e], l)
  <1>1. DOMAIN levels = 1..Len(levels) /\ Len(levels) \in Nat
    BY LevelFacts
  <1>2. level \in DOMAIN levels /\ level \in 1..level
    BY <1>1
  <1>3. \A l \in 1..(level - 1) : l \in 1..level /\ l \in DOMAIN levels
    BY <1>1
  <1> QED
    BY <1>2, <1>3 DEF Traversed, OnLevel

LEMMA TraverseStep ==
    ASSUME IInv, TraverseEdge
    PROVE  IInv'
  <1> DEFINE old == IF Len(levels) = level THEN 0 ELSE Len(levels[level + 1])
  <1>1. PICK e0, s : e0 = outEdges[Current][edge] /\ s = sinkOf[e0]
    OBVIOUS
  <1>2. /\ GraphOK' /\ NodeIds' = NodeIds /\ EdgeIds' = EdgeIds
        /\ UNCHANGED outEdges /\ UNCHANGED srcOf /\ UNCHANGED sinkOf
    BY GraphUnchanged DEF IInv, TraverseEdge
  <1>3. /\ stage = "levelizing" /\ stage' = "levelizing" /\ edge \in Nat \ {0}
        /\ UNCHANGED level /\ UNCHANGED pos /\ edge' = edge + 1
        /\ level \in 1..Len(levels) /\ Len(levels) <= level + 1
        /\ pos \in DOMAIN levels[level] /\ Current \in NodeIds
        /\ edge \in DOMAIN outEdges[Current]
        /\ Len(outEdges[Current]) \in Nat /\ edge + 1 <= Len(outEdges[Current]) + 1
        /\ e0 \in EdgeIds /\ srcOf[e0] = Current /\ s \in NodeIds
        /\ ~Traversed(e0) /\ ~Placed(s)
        /\ fanin \in [NodeIds -> Nat] /\ fanin[s] # 0
        /\ fanin' = [fanin EXCEPT ![s] = @ - 1]
    BY <1>1, TraverseFacts
  <1>4. /\ fanin[s] = 1 => levels' = IF Len(levels) = level THEN Append(levels, <<s>>)
                                     ELSE [levels EXCEPT ![level + 1] = Append(@, s)]
        /\ fanin[s] # 1 => UNCHANGED levels
    BY <1>1 DEF TraverseEdge
  <1> HIDE DEF old
  <1>5. /\ levels \in Seq(Seq(NodeIds)) /\ DOMAIN levels = 1..Len(levels) /\ Len(levels) \in Nat
        /\ \A l \in DOMAIN levels : /\ Len(levels[l]) \in Nat
                                    /\ DOMAIN levels[l] = 1..Len(levels[l])
        /\ level \in Nat /\ level \in DOMAIN levels /\ level \in 1..level
        /\ level + 1 \in 1..(level + 1) /\ pos \in 1..Len(levels[level])
    <2>1. /\ levels \in Seq(Seq(NodeIds)) /\ DOMAIN levels = 1..Len(levels) /\ Len(levels) \in Nat
          /\ \A l \in DOMAIN levels : /\ Len(levels[l]) \in Nat
                                      /\ DOMAIN levels[l] = 1..Len(levels[l])
      BY <1>3, LevelFacts DEF IInv
    <2>2. level \in Nat /\ level \in DOMAIN levels /\ level \in 1..level
          /\ level + 1 \in 1..(level + 1)
      BY <1>3, <2>1
    <2> QED
      BY <1>3, <2>1, <2>2
  <1>6. /\ levels' \in Seq(Seq(NodeIds)) /\ Len(levels') \in Nat /\ DOMAIN levels' = 1..Len(levels')
        /\ level \in 1..Len(levels') /\ Len(levels') <= level + 1
        /\ \A l \in 1..level : levels'[l] = levels[l]
    <2>1. CASE fanin[s] = 1
      <3>1. /\ levels' \in Seq(Seq(NodeIds)) /\ DOMAIN levels' = 1..(level + 1)
            /\ Len(levels') = level + 1 /\ \A l \in 1..level : levels'[l] = levels[l]
        <4>1. levels' = IF Len(levels) = level THEN Append(levels, <<s>>)
                        ELSE [levels EXCEPT ![level + 1] = Append(@, s)]
          BY <2>1, <1>4
        <4>2. levels \in Seq(Seq(NodeIds)) /\ level \in 1..Len(levels) /\ Len(levels) <= level + 1
              /\ s \in NodeIds
          BY <1>3, <1>5
        <4> QED
          BY <4>1, <4>2, PlaceNode
      <3>2. level \in 1..(level + 1) /\ level + 1 \in Nat /\ level + 1 <= level + 1
        BY <1>3, <1>5
      <3> QED
        BY <3>1, <3>2
    <2>2. CASE fanin[s] # 1
      BY <2>2, <1>3, <1>4, <1>5
    <2> QED
      BY <2>1, <2>2
  (* The level s is put on.                                                 *)
  <1>7. ASSUME fanin[s] = 1
         PROVE  /\ DOMAIN levels' = 1..(level + 1) /\ old \in Nat
                /\ DOMAIN levels'[level + 1] = 1..(old + 1) /\ levels'[level + 1][old + 1] = s
                /\ \A p \in 1..old : level + 1 \in DOMAIN levels /\ p \in DOMAIN levels[level + 1]
                                      /\ levels'[level + 1][p] = levels[level + 1][p]
                /\ level + 1 \in DOMAIN levels => DOMAIN levels[level + 1] = 1..old
    <2>1. levels' = IF Len(levels) = level THEN Append(levels, <<s>>)
                    ELSE [levels EXCEPT ![level + 1] = Append(@, s)]
      BY <1>4, <1>7
    <2>2. levels \in Seq(Seq(NodeIds)) /\ level \in 1..Len(levels) /\ Len(levels) <= level + 1
          /\ s \in NodeIds
      BY <1>3, <1>5
    <2> QED
      BY <2>1, <2>2, PlaceNode DEF old
  (* What is on the levels now: what was there, and s once it waits no more. *)
  <1>8. \A l \in DOMAIN levels : l \in DOMAIN levels' /\ \A p \in DOMAIN levels[l] :
           p \in DOMAIN levels'[l] /\ levels'[l][p] = levels[l][p]
    <2>1. CASE fanin[s] = 1
      <3> SUFFICES ASSUME NEW l \in DOMAIN levels
                   PROVE  l \in DOMAIN levels' /\ \A p \in DOMAIN levels[l] :
                             p \in DOMAIN levels'[l] /\ levels'[l][p] = levels[l][p]
        OBVIOUS
      <3>1. l \in 1..level \/ l = level + 1
        BY <1>3, <1>5
      <3>2. CASE l \in 1..level
        <4>1. l \in DOMAIN levels'
          BY <3>2, <1>6
        <4> QED
          BY <3>2, <4>1, <1>6
      <3>3. CASE l = level + 1
        <4>1. /\ DOMAIN levels' = 1..(level + 1) /\ old \in Nat
              /\ DOMAIN levels'[level + 1] = 1..(old + 1)
              /\ \A p \in 1..old : levels'[level + 1][p] = levels[level + 1][p]
              /\ DOMAIN levels[level + 1] = 1..old
          BY <2>1, <3>3, <1>7
        <4>2. level + 1 \in 1..(level + 1) /\ \A p \in 1..old : p \in 1..(old + 1)
          BY <4>1, <1>5
        <4> QED
          BY <3>3, <4>1, <4>2
      <3> QED
        BY <3>1, <3>2, <3>3
    <2>2. CASE fanin[s] # 1
      BY <2>2, <1>4
    <2> QED
      BY <2>1, <2>2
  <1>9. \A l \in DOMAIN levels' : \A p \in DOMAIN levels'[l] :
           \/ l \in DOMAIN levels /\ p \in DOMAIN levels[l] /\ levels'[l][p] = levels[l][p]
           \/ fanin[s] = 1 /\ l = level + 1 /\ p = old + 1 /\ levels'[l][p] = s
    <2>1. CASE fanin[s] = 1
      <3>1. /\ DOMAIN levels' = 1..(level + 1) /\ old \in Nat
            /\ DOMAIN levels'[level + 1] = 1..(old + 1) /\ levels'[level + 1][old + 1] = s
            /\ \A p \in 1..old : level + 1 \in DOMAIN levels /\ p \in DOMAIN levels[level + 1]
                                  /\ levels'[level + 1][p] = levels[level + 1][p]
        BY <2>1, <1>7
      <3> SUFFICES ASSUME NEW l \in DOMAIN levels', NEW p \in DOMAIN levels'[l]
                   PROVE  \/ l \in DOMAIN levels /\ p \in DOMAIN levels[l] /\ levels'[l][p] = levels[l][p]
                          \/ l = level + 1 /\ p = old + 1 /\ levels'[l][p] = s
        BY <2>1
      <3>2. (l \in 1..level /\ l \in DOMAIN levels) \/ l = level + 1
        <4>1. l \in 1..(level + 1)
          BY <3>1
        <4>2. l \in 1..level \/ l = level + 1
          BY <4>1, <1>5
        <4>3. l \in 1..level => l \in DOMAIN levels
          BY <1>3, <1>5
        <4> QED
          BY <4>2, <4>3
      <3>3. CASE l \in 1..level /\ l \in DOMAIN levels
        BY <3>3, <1>6
      <3>4. CASE l = level + 1
        <4>1. p \in 1..old \/ p = old + 1
          BY <3>1, <3>4
        <4> QED
          BY <3>1, <3>4, <4>1
      <3> QED
        BY <3>2, <3>3, <3>4
    <2>2. CASE fanin[s] # 1
      BY <2>2, <1>4
    <2> QED
      BY <2>1, <2>2
  <1>10. fanin[s] = 1 => Placed(s)'
    <2> SUFFICES ASSUME fanin[s] = 1
                 PROVE  Placed(s)'
      OBVIOUS
    <2>1. /\ DOMAIN levels' = 1..(level + 1) /\ old \in Nat
          /\ DOMAIN levels'[level + 1] = 1..(old + 1) /\ levels'[level + 1][old + 1] = s
      BY <1>7
    <2>2. level + 1 \in DOMAIN levels' /\ old + 1 \in DOMAIN levels'[level + 1]
      BY <2>1, <1>5
    <2> QED
      BY <2>1, <2>2 DEF Placed, OnLevel
  <1>11. \A n \in NodeIds : Placed(n)' <=> (Placed(n) \/ (n = s /\ fanin[s] = 1))
    <2>1. \A n \in NodeIds : Placed(n) => Placed(n)'
      BY <1>8 DEF Placed, OnLevel
    <2>2. \A n \in NodeIds : Placed(n)' => Placed(n) \/ (n = s /\ fanin[s] = 1)
      BY <1>9 DEF Placed, OnLevel
    <2> QED
      BY <2>1, <2>2, <1>10
  <1>12. \A e \in EdgeIds : Traversed(e)' <=> (Traversed(e) \/ e = e0)
    <2> SUFFICES ASSUME NEW e \in EdgeIds
                 PROVE  Traversed(e)' <=> (Traversed(e) \/ e = e0)
      OBVIOUS
    <2> DEFINE Below == \E l \in 1..(level - 1) : \E p \in DOMAIN levels[l] : levels[l][p] = srcOf[e]
               Before == \E p \in DOMAIN levels[level] : levels[level][p] = srcOf[e] /\ p < pos
               Here == srcOf[e] = Current
               Upto(k) == \E i \in 1..k : outEdges[srcOf[e]][i] = e
    <2>1. Traversed(e) <=> (Below \/ Before \/ (Here /\ Upto(edge - 1)))
      BY <1>3 DEF Traversed, Current
    <2>2. Traversed(e)' <=> (Below \/ Before \/ (Here /\ Upto(edge' - 1)))
      <3>1. level' = level /\ pos' = pos /\ srcOf' = srcOf /\ outEdges' = outEdges
        BY <1>2, <1>3
      <3>2. \A l \in 1..(level - 1) : levels'[l] = levels[l]
        <4>1. \A l \in 1..(level - 1) : l \in 1..level
          BY <1>3, <1>5
        <4> QED
          BY <4>1, <1>6
      <3>3. levels'[level] = levels[level]
        <4>1. level \in 1..level
          BY <1>3, <1>5
        <4> QED
          BY <4>1, <1>6
      <3>4. (\E l \in 1..(level - 1) : \E p \in DOMAIN levels'[l] : levels'[l][p] = srcOf[e]) <=> Below
        BY <3>2
      <3> QED
        BY <3>1, <3>3, <3>4, <1>3 DEF Traversed, Current
    <2>3. Here => (Upto(edge' - 1) <=> (Upto(edge - 1) \/ e = e0))
      <3>1. \A i : i \in 1..(edge' - 1) <=> (i \in 1..(edge - 1) \/ i = edge)
        BY <1>3
      <3> QED
        BY <1>1, <3>1
    <2>4. e = e0 => Here
      BY <1>3
    <2> HIDE DEF Below, Before, Here, Upto
    <2> QED
      BY <2>1, <2>2, <2>3, <2>4
  <1>13. \A n \in NodeIds : Waiting(n)' = Waiting(n) \ {e0}
    BY <1>2, <1>12 DEF Waiting
  <1>14. \A n \in NodeIds : fanin'[n] = Cardinality(Waiting(n)')
    <2> SUFFICES ASSUME NEW n \in NodeIds
                 PROVE  fanin'[n] = Cardinality(Waiting(n)')
      OBVIOUS
    <2>1. fanin[n] = Cardinality(Waiting(n))
      BY <1>3 DEF IInv, FaninIsExact
    <2>2. CASE n = s
      <3>1. e0 \in Waiting(n)
        BY <1>1, <2>2, <1>3 DEF Waiting
      <3>2. Cardinality(Waiting(n) \ {e0}) = Cardinality(Waiting(n)) - 1
        BY <3>1, WaitingIsFinite, FS_RemoveElement DEF IInv
      <3>3. fanin'[n] = fanin[n] - 1
        BY <2>2, <1>3
      <3> QED
        BY <2>1, <3>2, <3>3, <1>13
    <2>3. CASE n # s
      <3>1. e0 \notin Waiting(n)
        BY <1>1, <2>3 DEF Waiting
      <3>2. Waiting(n)' = Waiting(n)
        BY <3>1, <1>13
      <3>3. fanin'[n] = fanin[n]
        BY <2>3, <1>3
      <3> QED
        BY <2>1, <3>2, <3>3
    <2> QED
      BY <2>2, <2>3
  <1>15. \A n \in NodeIds : fanin'[n] = 0 <=> Placed(n)'
    <2> SUFFICES ASSUME NEW n \in NodeIds
                 PROVE  fanin'[n] = 0 <=> Placed(n)'
      OBVIOUS
    <2>1. fanin[n] = 0 <=> Placed(n)
      BY <1>3 DEF IInv, FaninIsExact
    <2>2. CASE n = s
      <3>1. fanin'[s] = fanin[s] - 1 /\ fanin[s] \in Nat
        BY <1>3
      <3>2. fanin'[s] = 0 <=> fanin[s] = 1
        BY <3>1
      <3> QED
        BY <2>2, <3>2, <1>3, <1>11
    <2>3. CASE n # s
      <3>1. fanin'[n] = fanin[n]
        BY <2>3, <1>3
      <3> QED
        BY <2>1, <2>3, <3>1, <1>11
    <2> QED
      BY <2>2, <2>3
  <1>16. FaninIsExact'
    BY <1>2, <1>14, <1>15 DEF FaninIsExact
  <1>17. WalkOK'
    <2>1. level \in 1..level /\ levels'[level] = levels[level]
      BY <1>3, <1>5, <1>6
    <2>2. Current' = Current
      BY <2>1, <1>3 DEF Current
    <2>3. fanin' \in [NodeIds -> Nat]
      <3>1. fanin[s] - 1 \in Nat
        BY <1>3
      <3> QED
        BY <3>1, <1>3
    <2>4. pos \in 1..(Len(levels[level]) + 1) /\ ~(pos > Len(levels[level])) /\ edge' \in Nat \ {0}
      BY <1>3, <1>5
    <2> QED
      BY <1>2, <1>3, <1>6, <2>1, <2>2, <2>3, <2>4 DEF WalkOK
  (* No node twice: s was on no level.                                       *)
  <1>18. \A l, k \in DOMAIN levels' : \A p \in DOMAIN levels'[l], q \in DOMAIN levels'[k] :
            levels'[l][p] = levels'[k][q] => l = k /\ p = q
    <2> SUFFICES ASSUME NEW l \in DOMAIN levels', NEW k \in DOMAIN levels',
                        NEW p \in DOMAIN levels'[l], NEW q \in DOMAIN levels'[k],
                        levels'[l][p] = levels'[k][q]
                 PROVE  l = k /\ p = q
      OBVIOUS
    <2>1. \A i \in DOMAIN levels : \A j \in DOMAIN levels[i] : levels[i][j] # s
      BY <1>3 DEF Placed, OnLevel
    <2>2. \A i, h \in DOMAIN levels : \A j \in DOMAIN levels[i], m \in DOMAIN levels[h] :
             levels[i][j] = levels[h][m] => i = h /\ j = m
      BY <1>3 DEF IInv, LevelsAreTopological
    <2>3. \/ l \in DOMAIN levels /\ p \in DOMAIN levels[l] /\ levels'[l][p] = levels[l][p]
          \/ l = level + 1 /\ p = old + 1 /\ levels'[l][p] = s
      BY <1>9
    <2>4. \/ k \in DOMAIN levels /\ q \in DOMAIN levels[k] /\ levels'[k][q] = levels[k][q]
          \/ k = level + 1 /\ q = old + 1 /\ levels'[k][q] = s
      BY <1>9
    <2> QED
      BY <2>1, <2>2, <2>3, <2>4
  (* Whoever is placed waits for nothing: its in-edges' sources are placed,  *)
  (* on the current level or a lower one.                                    *)
  <1>19. \A e \in EdgeIds : Placed(sinkOf[e])' => Traversed(e)'
    <2> SUFFICES ASSUME NEW e \in EdgeIds, Placed(sinkOf[e])', ~Traversed(e)'
                 PROVE  FALSE
      OBVIOUS
    <2>1. sinkOf[e] \in NodeIds
      BY GraphFacts DEF IInv
    <2>2. IsFiniteSet(Waiting(sinkOf[e])')
      <3>1. Waiting(sinkOf[e])' \subseteq Waiting(sinkOf[e])
        BY <1>13, <2>1, <1>2
      <3> QED
        BY <3>1, <2>1, WaitingIsFinite, FS_Subset DEF IInv
    <2>3. e \in Waiting(sinkOf[e])'
      BY <1>2 DEF Waiting
    <2>4. Cardinality(Waiting(sinkOf[e])') = 0
      BY <2>1, <1>2, <1>14, <1>15
    <2> QED
      BY <2>2, <2>3, <2>4, FS_EmptySet
  <1>20. \A e \in EdgeIds : Traversed(e)' =>
            \E l \in 1..level : l \in DOMAIN levels /\ OnLevel(srcOf[e], l)
    <2> SUFFICES ASSUME NEW e \in EdgeIds, Traversed(e)'
                 PROVE  \E l \in 1..level : l \in DOMAIN levels /\ OnLevel(srcOf[e], l)
      OBVIOUS
    <2>1. CASE Traversed(e)
      BY <2>1, <1>3, <1>5, TraversedPlaced
    <2>2. CASE e = e0
      <3>1. OnLevel(srcOf[e], level)
        BY <2>2, <1>3 DEF OnLevel, Current
      <3>2. level \in 1..level /\ level \in DOMAIN levels
        BY <1>3, <1>5
      <3> QED
        BY <3>1, <3>2
    <2> QED
      BY <2>1, <2>2, <1>12
  <1>21. \A e \in EdgeIds : \A l, k \in DOMAIN levels' :
            (OnLevel(srcOf[e], l)' /\ OnLevel(sinkOf[e], k)') => l < k
    <2> SUFFICES ASSUME NEW e \in EdgeIds, NEW l \in DOMAIN levels', NEW k \in DOMAIN levels',
                        OnLevel(srcOf[e], l)', OnLevel(sinkOf[e], k)'
                 PROVE  l < k
      OBVIOUS
    <2>1. PICK j \in 1..level : j \in DOMAIN levels /\ OnLevel(srcOf[e], j)
      BY <1>19, <1>20 DEF Placed
    <2>2. PICK p \in DOMAIN levels[j] : levels[j][p] = srcOf[e]
      BY <2>1 DEF OnLevel
    <2>3. j \in DOMAIN levels' /\ p \in DOMAIN levels'[j] /\ levels'[j][p] = srcOf[e]
      BY <2>1, <2>2, <1>8
    <2>4. PICK q \in DOMAIN levels'[l] : levels'[l][q] = srcOf[e]
      BY <1>2 DEF OnLevel
    <2>5. l = j
      BY <2>3, <2>4, <1>18
    <2>6. PICK r \in DOMAIN levels'[k] : levels'[k][r] = sinkOf[e]
      BY <1>2 DEF OnLevel
    <2>7. CASE k = level + 1
      BY <2>1, <2>5, <2>7, <1>3, <1>5
    <2>8. CASE k # level + 1
      <3>1. k \in DOMAIN levels /\ r \in DOMAIN levels[k] /\ levels[k][r] = sinkOf[e]
        BY <2>6, <2>8, <1>9
      <3>2. OnLevel(sinkOf[e], k)
        BY <3>1 DEF OnLevel
      <3> QED
        BY <2>1, <2>5, <3>1, <3>2, <1>3 DEF IInv, LevelsAreTopological
    <2> QED
      BY <2>7, <2>8
  <1>22. LevelsAreTopological'
    BY <1>2, <1>18, <1>21 DEF LevelsAreTopological
  <1> QED
    BY <1>2, <1>3, <1>6, <1>16, <1>17, <1>22 DEF IInv, Stages, CountingOK
-------------------------------------------------------------------------------
LEMMA GraphStart == GraphInit => IInv
  <1> SUFFICES ASSUME GraphInit
               PROVE  IInv
    OBVIOUS
  <1>1. NodeIds = {} /\ EdgeIds = {}
    BY DEF GraphInit, NodeIds, EdgeIds
  <1>2. GraphOK
    BY <1>1 DEF GraphInit, GraphOK, Listing
  <1> QED
    BY <1>2 DEF GraphInit, IInv, Stages, CountingOK, WalkOK, FaninIsExact, LevelsAreTopological

LEMMA GraphStep == IInv /\ [GraphNext]_graphVars => IInv'
  <1> SUFFICES ASSUME IInv, [GraphNext]_graphVars
               PROVE  IInv'
    OBVIOUS
  <1>1. CASE \E data \in NodeData : add_node(data)
    BY <1>1, AddNodeStep
  <1>2. CASE \E src, sink \in NodeIds : add_edge(src, sink)
    BY <1>2, AddEdgeStep
  <1>3. CASE BeginLevelize
    BY <1>3, BeginStep
  <1>4. CASE CountFanin
    BY <1>4, CountStep
  <1>5. CASE StartWalk
    BY <1>5, StartWalkStep
  <1>6. CASE TraverseEdge
    BY <1>6, TraverseStep
  <1>7. CASE LeaveNode
    BY <1>7, LeaveNodeStep
  <1>8. CASE LeaveLevel
    BY <1>8, LeaveLevelStep
  <1>9. CASE UNCHANGED graphVars
    <2>1. GraphOK' /\ NodeIds' = NodeIds /\ EdgeIds' = EdgeIds
      BY <1>9, GraphUnchanged DEF IInv, graphVars
    <2>2. UNCHANGED <<nodes, outEdges, inEdges, srcOf, sinkOf, levels, stage,
                      fanin, level, pos, edge>>
      BY <1>9 DEF graphVars, graphData, levelData, loopState
    <2>3. stage' \in Stages /\ (stage' # "modified" => levels' \in Seq(Seq(NodeIds')))
      BY <2>1, <2>2 DEF IInv
    <2>4. CountingOK' /\ WalkOK'
      BY <2>1, <2>2 DEF IInv, CountingOK, WalkOK, OnLevel, Current
    <2>5. \A e : Traversed(e)' <=> Traversed(e)
      BY <2>2 DEF Traversed
    <2>6. \A n : Waiting(n)' = Waiting(n) /\ (Placed(n)' <=> Placed(n))
      BY <2>1, <2>2, <2>5 DEF Waiting, Placed, OnLevel
    <2>7. FaninIsExact'
      BY <2>1, <2>2, <2>6 DEF IInv, FaninIsExact
    <2>8. LevelsAreTopological'
      BY <2>1, <2>2 DEF IInv, LevelsAreTopological, OnLevel
    <2> QED
      BY <2>1, <2>3, <2>4, <2>7, <2>8 DEF IInv
  <1> QED
    BY <1>1, <1>2, <1>3, <1>4, <1>5, <1>6, <1>7, <1>8, <1>9 DEF GraphNext, LevelizeStep

(* The invariant holds of every behaviour of the graph.                    *)
THEOREM GraphInvariant == GraphSpec => []IInv
  BY GraphStart, GraphStep, PTL DEF GraphSpec

(* levelize()'s counters: in every graph, while the second loop runs, a     *)
(* node's counter is the number of its in-edges not followed yet, and it is *)
(* on a level exactly when that number is zero.                             *)
THEOREM CountersAreExact == GraphSpec => []FaninIsExact
  <1>1. IInv => FaninIsExact
    BY DEF IInv
  <1> QED
    BY <1>1, GraphInvariant, PTL

(* The levels of every graph, with loops or without, go up along each edge  *)
(* between two placed nodes, and hold no node twice.                        *)
THEOREM LevelsGoUp == GraphSpec => []LevelsAreTopological
  <1>1. IInv => LevelsAreTopological
    BY DEF IInv
  <1> QED
    BY <1>1, GraphInvariant, PTL
-------------------------------------------------------------------------------
(* The pipeline.                                                            *)

(* A levelized graph has a level, if only an empty one.                     *)
LEMMA LevelsExist ==
    ASSUME IInv, LevelizeStep, stage' = "levelized"
    PROVE  Len(levels') >= 1
  <1>1. stage # "levelized"
    BY DEF LevelizeStep, CountFanin, StartWalk, TraverseEdge, LeaveNode, LeaveLevel, AtNode
  <1>2. LeaveLevel
    <2>1. CASE CountFanin
      BY <2>1, <1>1 DEF CountFanin
    <2>2. CASE StartWalk
      BY <2>2 DEF StartWalk
    <2>3. CASE TraverseEdge
      BY <2>3, <1>1 DEF TraverseEdge
    <2>4. CASE LeaveNode
      BY <2>4, <1>1 DEF LeaveNode
    <2> QED
      BY <2>1, <2>2, <2>3, <2>4 DEF LevelizeStep
  <1>3. level \in 1..Len(levels) /\ levels' = levels
    BY <1>2 DEF LeaveLevel, IInv, WalkOK, levelData
  <1>4. Len(levels) \in Nat
    BY <1>2, LevelFacts DEF IInv, LeaveLevel
  <1> QED
    BY <1>3, <1>4

(* A node's handler changes no tags but the node's.                         *)
LEMMA HandlerFacts ==
    ASSUME NEW k \in NodeIds, Handler(k)
    PROVE  /\ k \in Running /\ phase \in {"pre", "fwd", "bck"} /\ phase' # "idle"
           /\ UNCHANGED graphVars /\ UNCHANGED lev /\ UNCHANGED run
           /\ DOMAIN dataTags' = DOMAIN dataTags /\ DOMAIN clockTags' = DOMAIN clockTags
           /\ \A n \in DOMAIN dataTags : n # k => dataTags'[n] = dataTags[n]
           /\ \A n \in DOMAIN clockTags : n # k => clockTags'[n] = clockTags[n]
  <1>1. CASE pre_traverse_node(k)
    BY <1>1 DEF pre_traverse_node, Return, Abort, tagVars
  <1>2. CASE forward_traverse_edge(k)
    BY <1>2 DEF forward_traverse_edge, Step, Abort, tagVars
  <1>3. CASE forward_traverse_finalize_node(k)
    BY <1>3 DEF forward_traverse_finalize_node, Return
  <1>4. CASE backward_traverse_edge(k)
    BY <1>4 DEF backward_traverse_edge, Step
  <1>5. CASE backward_traverse_return(k)
    BY <1>5 DEF backward_traverse_return, Return, tagVars
  <1> QED
    BY <1>1, <1>2, <1>3, <1>4, <1>5 DEF Handler

LEMMA NextLevelFacts ==
    ASSUME NextLevel, lev \in DOMAIN levels, levels \in Seq(Seq(NodeIds))
    PROVE  /\ UNCHANGED graphVars /\ UNCHANGED tagVars
           /\ lev' \in DOMAIN levels /\ phase' # "idle" /\ phase \in {"pre", "fwd", "bck"}
  <1>1. DOMAIN levels = 1..Len(levels) /\ Len(levels) \in Nat
    BY LevelFacts
  <1>2. UNCHANGED graphVars /\ UNCHANGED tagVars /\ phase \in {"pre", "fwd", "bck"}
    BY DEF NextLevel, LevelDone
  <1>3. \/ lev < Len(levels) /\ Walk("fwd", lev + 1)
        \/ lev > 1 /\ Walk("bck", lev - 1)
        \/ Walk("done", 1)
    BY DEF NextLevel
  <1> QED
    BY <1>1, <1>2, <1>3 DEF Walk
-------------------------------------------------------------------------------
(* The walk has left node n; the walk is over and n was placed.             *)
Passed(n) == \E l \in 1..level : \E p \in DOMAIN levels[l] : levels[l][p] = n /\ (l < level \/ p < pos)
Done(n) == (stage = "levelizing" /\ Passed(n)) \/ (stage = "levelized" /\ Placed(n))

(* A node's level is one more than that of one of its sources, or the first *)
(* if it has none, and is recorded in node_levels_.                         *)
DepthOK ==
    /\ DOMAIN nodeLevels = NodeIds
    /\ stage = "counting" => \A n \in NodeIds : nodeLevels[n] = 0
    /\ \A l \in DOMAIN levels : \A n \in NodeIds : OnLevel(n, l) =>
          /\ nodeLevels[n] = l - 1
          /\ l = 1 => inEdges[n] = <<>>
          /\ l # 1 => \E e \in EdgeIds : sinkOf[e] = n /\ OnLevel(srcOf[e], l - 1)

(* The primary outputs are the sinks without out-edges the walk has left.   *)
OutputsOK ==
    /\ primaryOutputs \in Seq(NodeIds)
    /\ \A i, j \in DOMAIN primaryOutputs : primaryOutputs[i] = primaryOutputs[j] => i = j
    /\ \A n \in NodeIds : (\E i \in DOMAIN primaryOutputs : primaryOutputs[i] = n)
          <=> (outEdges[n] = <<>> /\ is_sink(nodes[n].type) /\ Done(n))

(* In the end a node is placed exactly if all its sources are.              *)
EndOK ==
    stage = "levelized" => \A n \in NodeIds :
        Placed(n) <=> \A e \in EdgeIds : sinkOf[e] = n => Placed(srcOf[e])

DInv == stage # "modified" => DepthOK /\ OutputsOK /\ EndOK

(* levelize() starts anew.                                                  *)
LEMMA DepthBegin ==
    ASSUME IInv, IInv', BeginLevelize
    PROVE  DInv'
  <1>1. /\ NodeIds' = NodeIds /\ EdgeIds' = EdgeIds /\ levels' = << <<>> >> /\ stage' = "counting"
        /\ primaryOutputs' = <<>> /\ nodeLevels' = [n \in NodeIds |-> 0]
    BY DEF BeginLevelize, graphData, NodeIds, EdgeIds
  <1>2. DOMAIN levels' = {1} /\ DOMAIN levels'[1] = {}
    BY <1>1
  <1>3. \A n : \A l \in DOMAIN levels' : ~OnLevel(n, l)'
    BY <1>2 DEF OnLevel
  <1>4. DepthOK'
    BY <1>1, <1>3 DEF DepthOK
  <1>5. DOMAIN primaryOutputs' = {} /\ primaryOutputs' \in Seq(NodeIds')
    BY <1>1
  <1>6. \A n : ~Done(n)'
    BY <1>1 DEF Done
  <1>7. OutputsOK'
    BY <1>5, <1>6 DEF OutputsOK
  <1> QED
    BY <1>1, <1>4, <1>7 DEF DInv, EndOK

(* Counting places nodes without in-edges only.                             *)
LEMMA DepthCount ==
    ASSUME IInv, IInv', DInv, CountFanin
    PROVE  DInv'
  <1>1. /\ GraphOK' /\ NodeIds' = NodeIds /\ EdgeIds' = EdgeIds
        /\ UNCHANGED nodes /\ UNCHANGED outEdges /\ UNCHANGED inEdges
        /\ UNCHANGED nodeLevels /\ UNCHANGED primaryOutputs /\ stage = "counting" /\ stage' = "counting"
    BY GraphUnchanged DEF IInv, CountFanin
  <1>2. DepthOK /\ OutputsOK
    BY <1>1 DEF DInv
  <1>3. Len(levels') = 1 /\ levels' \in Seq(Seq(NodeIds'))
    BY <1>1 DEF IInv, CountingOK
  <1>4. DOMAIN levels' = {1}
    BY <1>3
  <1>5. ASSUME NEW n \in NodeIds, OnLevel(n, 1)' PROVE inEdges[n] = <<>>
    <2>1. PICK p \in DOMAIN levels'[1] : levels'[1][p] = n
      BY <1>5 DEF OnLevel
    <2>2. pos' \in Nat /\ n < pos'
      <3>1. pos' \in 1..(Len(nodes') + 1) /\ levels'[1][p] < pos'
        BY <1>1 DEF IInv, CountingOK
      <3>2. Len(nodes') \in Nat
        BY <1>1, GraphFacts DEF IInv
      <3> QED
        BY <2>1, <3>1, <3>2
    <2>3. n \in 1..(pos' - 1)
      <3>1. NodeIds = 1..Len(nodes) /\ Len(nodes) \in Nat
        BY GraphFacts DEF IInv
      <3>2. n \in Nat /\ n >= 1
        BY <3>1
      <3> DEFINE q == pos'
      <3>3. q \in Nat /\ n < q
        BY <2>2
      <3> HIDE DEF q
      <3>4. n \in 1..(q - 1)
        BY <3>2, <3>3
      <3> QED
        BY <3>4 DEF q
    <2> QED
      BY <1>1, <1>5, <2>3 DEF IInv, CountingOK
  <1>6. DepthOK'
    BY <1>1, <1>2, <1>4, <1>5 DEF DepthOK
  <1>7. \A n : ~Done(n) /\ ~Done(n)'
    BY <1>1 DEF Done
  <1>8. OutputsOK'
    BY <1>1, <1>2, <1>7 DEF OutputsOK
  <1> QED
    BY <1>1, <1>6, <1>8 DEF DInv, EndOK

(* No node has been left when the walk starts.                              *)
LEMMA DepthStart ==
    ASSUME IInv, DInv, StartWalk
    PROVE  DInv'
  <1>1. /\ GraphOK' /\ NodeIds' = NodeIds /\ EdgeIds' = EdgeIds
        /\ UNCHANGED nodes /\ UNCHANGED outEdges /\ UNCHANGED inEdges /\ UNCHANGED srcOf /\ UNCHANGED sinkOf
        /\ UNCHANGED nodeLevels /\ UNCHANGED primaryOutputs /\ UNCHANGED levels /\ UNCHANGED level
        /\ stage = "counting" /\ stage' = "levelizing" /\ pos' = 1
    BY GraphUnchanged DEF IInv, StartWalk, levelData
  <1>2. DepthOK /\ OutputsOK /\ level = 1
    BY <1>1 DEF DInv, IInv, CountingOK
  <1>3. levels \in Seq(Seq(NodeIds)) /\ Len(levels) = 1
    BY <1>1 DEF IInv, CountingOK
  <1>4. \A p \in DOMAIN levels[1] : ~(p < 1)
    <2>1. DOMAIN levels[1] = 1..Len(levels[1])
      BY <1>3, LevelFacts
    <2> QED
      BY <2>1
  <1>5. \A n : ~Done(n) /\ ~Done(n)'
    <2>1. \A n : ~Passed(n)'
      <3>1. level' = 1
        BY <1>1, <1>2
      <3>2. \A l \in 1..1 : l = 1 /\ ~(l < 1)
        OBVIOUS
      <3> QED
        BY <1>1, <1>4, <3>1, <3>2 DEF Passed
    <2> QED
      BY <1>1, <2>1 DEF Done
  <1>6. OutputsOK'
    BY <1>1, <1>2, <1>5 DEF OutputsOK
  <1>7. DepthOK'
    BY <1>1, <1>2 DEF DepthOK, OnLevel
  <1> QED
    BY <1>1, <1>6, <1>7 DEF DInv, EndOK

(* The sink that is placed has its source on the level before.              *)
LEMMA DepthTraverse ==
    ASSUME IInv, IInv', DInv, TraverseEdge
    PROVE  DInv'
  <1>1. PICK e0, s : e0 = outEdges[Current][edge] /\ s = sinkOf[e0]
    OBVIOUS
  <1>2. /\ GraphOK' /\ NodeIds' = NodeIds /\ EdgeIds' = EdgeIds
        /\ UNCHANGED nodes /\ UNCHANGED outEdges /\ UNCHANGED inEdges /\ UNCHANGED srcOf /\ UNCHANGED sinkOf
        /\ UNCHANGED primaryOutputs
    BY GraphUnchanged DEF IInv, TraverseEdge
  <1>3. /\ stage = "levelizing" /\ stage' = "levelizing"
        /\ UNCHANGED level /\ UNCHANGED pos
        /\ level \in 1..Len(levels) /\ Len(levels) <= level + 1
        /\ pos \in DOMAIN levels[level] /\ Current \in NodeIds
        /\ e0 \in EdgeIds /\ srcOf[e0] = Current /\ s \in NodeIds /\ ~Placed(s)
    BY <1>1, TraverseFacts
  <1>4. DepthOK /\ OutputsOK /\ levels \in Seq(Seq(NodeIds))
    BY <1>3 DEF DInv, IInv
  <1>5. DOMAIN levels = 1..Len(levels) /\ Len(levels) \in Nat /\ level \in Nat /\ level \in DOMAIN levels
        /\ level >= 1
    BY <1>3, <1>4, LevelFacts
  <1>6. CASE fanin[s] = 1
    <2> DEFINE old == IF Len(levels) = level THEN 0 ELSE Len(levels[level + 1])
    <2>1. /\ levels' = IF Len(levels) = level THEN Append(levels, <<s>>)
                       ELSE [levels EXCEPT ![level + 1] = Append(@, s)]
          /\ nodeLevels' = [nodeLevels EXCEPT ![s] = level]
      BY <1>1, <1>6 DEF TraverseEdge
    <2>2. /\ DOMAIN levels' = 1..(level + 1) /\ \A l \in 1..level : levels'[l] = levels[l]
          /\ old \in Nat /\ DOMAIN levels'[level + 1] = 1..(old + 1) /\ levels'[level + 1][old + 1] = s
          /\ \A p \in 1..old : level + 1 \in DOMAIN levels /\ p \in DOMAIN levels[level + 1]
                                      /\ levels'[level + 1][p] = levels[level + 1][p]
      BY <1>3, <1>4, <2>1, PlaceNode
    <2> HIDE DEF old
    <2>3. \A n : \A l \in 1..level : OnLevel(n, l)' <=> OnLevel(n, l)
      BY <2>2 DEF OnLevel
    <2>4. ASSUME NEW p \in DOMAIN levels'[level + 1], levels'[level + 1][p] # s
          PROVE  level + 1 \in DOMAIN levels /\ OnLevel(levels'[level + 1][p], level + 1)
      <3>1. p \in 1..old
        BY <2>2, <2>4
      <3> QED
        BY <2>2, <3>1 DEF OnLevel
    <2>5. \A n, l : OnLevel(n, l) /\ l \in DOMAIN levels => n # s
      BY <1>3 DEF Placed
    <2>6. OnLevel(Current, level)
      BY <1>3 DEF OnLevel, Current
    <2>7. ASSUME NEW l \in DOMAIN levels', NEW n \in NodeIds, OnLevel(n, l)'
          PROVE  /\ nodeLevels'[n] = l - 1
                 /\ l = 1 => inEdges[n] = <<>>
                 /\ l # 1 => \E e \in EdgeIds : sinkOf[e] = n /\ OnLevel(srcOf[e], l - 1)'
      <3>1. l \in 1..level \/ l = level + 1
        BY <1>5, <2>2
      <3>2. ASSUME l \in DOMAIN levels, OnLevel(n, l)
            PROVE  /\ nodeLevels'[n] = l - 1
                   /\ l = 1 => inEdges[n] = <<>>
                   /\ l # 1 => \E e \in EdgeIds : sinkOf[e] = n /\ OnLevel(srcOf[e], l - 1)'
        <4>1. n # s
          BY <2>5, <3>2
        <4>2. /\ nodeLevels[n] = l - 1
              /\ l = 1 => inEdges[n] = <<>>
              /\ l # 1 => \E e \in EdgeIds : sinkOf[e] = n /\ OnLevel(srcOf[e], l - 1)
          BY <1>4, <3>2 DEF DepthOK
        <4>3. nodeLevels'[n] = nodeLevels[n]
          BY <1>4, <2>1, <4>1 DEF DepthOK
        <4>4. l # 1 => l - 1 \in 1..level
          BY <1>5, <2>2, <3>1
        <4>5. l # 1 => \A e : OnLevel(srcOf[e], l - 1)' <=> OnLevel(srcOf[e], l - 1)
          BY <1>2, <2>2, <4>4 DEF OnLevel
        <4> QED
          BY <4>2, <4>3, <4>5
      <3>3. CASE n = s
        <4>1. l = level + 1
          BY <1>5, <2>3, <2>5, <2>7, <3>1, <3>3, <1>3
        <4>2. nodeLevels'[n] = l - 1
          <5>1. nodeLevels'[s] = level
            BY <1>3, <1>4, <2>1 DEF DepthOK
          <5> QED
            BY <1>5, <3>3, <4>1, <5>1
        <4>3. l # 1 /\ l - 1 = level /\ level \in 1..level
          BY <1>5, <4>1
        <4>4. sinkOf[e0] = n /\ OnLevel(srcOf[e0], l - 1)'
          <5>1. OnLevel(srcOf[e0], level)'
            <6>1. \A m : OnLevel(m, level)' <=> OnLevel(m, level)
              BY <1>3, <2>2, <4>3 DEF OnLevel
            <6> QED
              BY <1>2, <1>3, <2>6, <6>1
          <5>2. \E q \in DOMAIN levels'[l - 1] : levels'[l - 1][q] = srcOf'[e0]
            BY <1>3, <4>3, <5>1 DEF OnLevel
          <5> QED
            BY <1>1, <3>3, <5>2 DEF OnLevel
        <4>5. \E e \in EdgeIds : sinkOf[e] = n /\ OnLevel(srcOf[e], l - 1)'
          BY <1>3, <4>4
        <4> QED
          BY <4>2, <4>3, <4>5
      <3>4. CASE n # s
        <4>1. l \in DOMAIN levels /\ OnLevel(n, l)
          <5>1. CASE l \in 1..level
            <6>1. l \in DOMAIN levels
              BY <1>3, <1>5, <5>1
            <6> QED
              BY <2>3, <2>7, <5>1, <6>1
          <5>2. CASE l = level + 1
            <6>1. PICK p \in DOMAIN levels'[level + 1] : levels'[level + 1][p] = n
              BY <2>7, <5>2 DEF OnLevel
            <6> QED
              BY <2>4, <3>4, <5>2, <6>1
          <5> QED
            BY <3>1, <5>1, <5>2
        <4> QED
          BY <3>2, <4>1
      <3> QED
        BY <3>3, <3>4
    <2>8. DOMAIN nodeLevels' = NodeIds
      BY <1>4, <2>1 DEF DepthOK
    <2>9. DepthOK'
      BY <1>2, <1>3, <2>7, <2>8 DEF DepthOK
    <2>10. \A n : Done(n)' <=> Done(n)
      <3>1. \A n : Passed(n)' <=> Passed(n)
        BY <1>3, <2>2 DEF Passed
      <3> QED
        BY <1>3, <3>1 DEF Done
    <2>11. OutputsOK'
      BY <1>2, <1>4, <2>10 DEF OutputsOK
    <2> QED
      BY <1>3, <2>9, <2>11 DEF DInv, EndOK
  <1>7. CASE fanin[s] # 1
    <2>1. UNCHANGED <<levels, nodeLevels>>
      BY <1>1, <1>7 DEF TraverseEdge
    <2>2. DepthOK'
      BY <1>2, <1>3, <1>4, <2>1 DEF DepthOK, OnLevel
    <2>3. \A n : Done(n)' <=> Done(n)
      BY <1>3, <2>1 DEF Done, Passed
    <2>4. OutputsOK'
      BY <1>2, <1>4, <2>3 DEF OutputsOK
    <2> QED
      BY <1>3, <2>2, <2>4 DEF DInv, EndOK
  <1> QED
    BY <1>6, <1>7

(* A sink without out-edges is listed when it is left.                      *)
LEMMA DepthLeaveNode ==
    ASSUME IInv, DInv, LeaveNode
    PROVE  DInv'
  <1>1. /\ GraphOK' /\ NodeIds' = NodeIds /\ EdgeIds' = EdgeIds
        /\ UNCHANGED nodes /\ UNCHANGED outEdges /\ UNCHANGED inEdges /\ UNCHANGED srcOf /\ UNCHANGED sinkOf
    BY GraphUnchanged DEF IInv, LeaveNode
  <1>2. /\ stage = "levelizing" /\ stage' = "levelizing" /\ pos <= Len(levels[level]) /\ pos' = pos + 1
        /\ UNCHANGED levels /\ UNCHANGED nodeLevels /\ UNCHANGED level
        /\ primaryOutputs' = AppendIf(outEdges[Current] = <<>> /\ is_sink(nodes[Current].type),
                                      primaryOutputs, Current)
    BY DEF LeaveNode, AtNode
  <1>3. DepthOK /\ OutputsOK /\ levels \in Seq(Seq(NodeIds))
    BY <1>2 DEF DInv, IInv
  <1>4. /\ level \in 1..Len(levels) /\ pos \in 1..(Len(levels[level]) + 1)
    BY <1>2 DEF IInv, WalkOK
  <1>5. /\ DOMAIN levels = 1..Len(levels) /\ Len(levels) \in Nat /\ level \in DOMAIN levels
        /\ \A l \in DOMAIN levels : DOMAIN levels[l] = 1..Len(levels[l]) /\ Len(levels[l]) \in Nat
    BY <1>3, <1>4, LevelFacts
  <1>6. pos \in DOMAIN levels[level] /\ pos \in Nat /\ level \in 1..level
    BY <1>2, <1>4, <1>5
  <1>7. Current \in NodeIds /\ levels[level][pos] = Current
    BY <1>3, <1>5, <1>6, LevelFacts DEF Current
  <1>8. DepthOK'
    BY <1>1, <1>2, <1>3 DEF DepthOK, OnLevel
  <1>9. \A n : Passed(n)' <=> (Passed(n) \/ n = Current)
    <2>1. \A p \in DOMAIN levels[level] : p < pos' <=> (p < pos \/ p = pos)
      BY <1>2, <1>5, <1>6
    <2>2. \A l \in 1..level : l < level \/ l = level
      BY <1>4
    <2> QED
      BY <1>2, <1>6, <1>7, <2>1, <2>2 DEF Passed
  <1>10. ~Passed(Current)
    <2> SUFFICES ASSUME NEW l \in 1..level, NEW p \in DOMAIN levels[l], levels[l][p] = Current,
                        l < level \/ p < pos
                 PROVE  FALSE
      BY DEF Passed
    <2>1. l \in DOMAIN levels
      BY <1>4, <1>5
    <2>2. l = level /\ p = pos
      BY <1>2, <1>5, <1>6, <1>7, <2>1 DEF IInv, LevelsAreTopological
    <2> QED
      BY <1>4, <1>6, <2>2
  <1>11. \A n : Done(n)' <=> (Done(n) \/ n = Current)
    BY <1>2, <1>9 DEF Done
  <1>12. ~Done(Current)
    BY <1>2, <1>10 DEF Done
  <1>13. OutputsOK'
    <2>1. CASE outEdges[Current] = <<>> /\ is_sink(nodes[Current].type)
      <3> DEFINE seq == primaryOutputs
                 new == primaryOutputs'
                 len == Len(seq)
      <3>1. new = Append(seq, Current) /\ seq \in Seq(NodeIds)
        BY <1>2, <1>3, <2>1 DEF AppendIf, OutputsOK
      <3>2. /\ len \in Nat /\ DOMAIN seq = 1..len /\ new \in Seq(NodeIds) /\ DOMAIN new = 1..(len + 1)
            /\ \A i \in 1..len : new[i] = seq[i]
            /\ new[len + 1] = Current
        BY <1>7, <3>1, Appended
      <3>3. \A i \in 1..len : seq[i] # Current
        <4>1. ~\E i \in DOMAIN seq : seq[i] = Current
          BY <1>3, <1>7, <1>12 DEF OutputsOK
        <4> QED
          BY <3>2, <4>1
      <3>4. \A i, j \in DOMAIN seq : seq[i] = seq[j] => i = j
        BY <1>3 DEF OutputsOK
      <3>5. \A n \in NodeIds : (\E i \in DOMAIN seq : seq[i] = n)
          <=> (outEdges[n] = <<>> /\ is_sink(nodes[n].type) /\ Done(n))
        BY <1>3 DEF OutputsOK
      <3> HIDE DEF seq, new, len
      <3>6. \A i \in DOMAIN new : i \in 1..len \/ i = len + 1
        BY <3>2
      <3>7. \A i, j \in DOMAIN new : new[i] = new[j] => i = j
        BY <3>2, <3>3, <3>4, <3>6
      <3>8. len + 1 \in DOMAIN new /\ \A i \in 1..len : i \in DOMAIN new
        BY <3>2
      <3>9. \A n : (\E i \in DOMAIN new : new[i] = n) <=> (n = Current \/ \E i \in DOMAIN seq : seq[i] = n)
        BY <3>2, <3>6, <3>8
      <3>10. \A n \in NodeIds : (\E i \in DOMAIN new : new[i] = n)
          <=> (outEdges[n] = <<>> /\ is_sink(nodes[n].type) /\ Done(n)')
        BY <1>11, <2>1, <3>5, <3>9
      <3> QED
        BY <1>1, <3>2, <3>7, <3>10 DEF OutputsOK, new
    <2>2. CASE ~(outEdges[Current] = <<>> /\ is_sink(nodes[Current].type))
      <3>1. primaryOutputs' = primaryOutputs
        BY <1>2, <2>2 DEF AppendIf
      <3>2. \A n \in NodeIds : outEdges[n] = <<>> /\ is_sink(nodes[n].type) => (Done(n)' <=> Done(n))
        BY <1>11, <2>2
      <3> QED
        BY <1>1, <1>3, <3>1, <3>2 DEF OutputsOK
    <2> QED
      BY <2>1, <2>2
  <1> QED
    BY <1>2, <1>8, <1>13 DEF DInv, EndOK

(* After the last level every placed node has been left, and whoever waits  *)
(* for nothing is placed.                                                   *)
LEMMA DepthLeaveLevel ==
    ASSUME IInv, DInv, LeaveLevel
    PROVE  DInv'
  <1>1. /\ GraphOK' /\ NodeIds' = NodeIds /\ EdgeIds' = EdgeIds
        /\ UNCHANGED nodes /\ UNCHANGED outEdges /\ UNCHANGED inEdges /\ UNCHANGED srcOf /\ UNCHANGED sinkOf
    BY GraphUnchanged DEF IInv, LeaveLevel
  <1>2. /\ stage = "levelizing" /\ pos > Len(levels[level]) /\ pos' = 1
        /\ UNCHANGED levels /\ UNCHANGED nodeLevels /\ UNCHANGED primaryOutputs
        /\ IF Len(levels) > level THEN level' = level + 1 /\ stage' = stage
           ELSE stage' = "levelized" /\ level' = level
    BY DEF LeaveLevel, levelData
  <1>3. DepthOK /\ OutputsOK /\ levels \in Seq(Seq(NodeIds))
    BY <1>2 DEF DInv, IInv
  <1>4. level \in 1..Len(levels) /\ edge = 1 /\ Len(levels) <= level + 1 /\ pos \in 1..(Len(levels[level]) + 1)
    BY <1>2 DEF IInv, WalkOK
  <1>5. /\ DOMAIN levels = 1..Len(levels) /\ Len(levels) \in Nat /\ level \in DOMAIN levels
        /\ \A l \in DOMAIN levels : DOMAIN levels[l] = 1..Len(levels[l]) /\ Len(levels[l]) \in Nat
        /\ level \in 1..level
    BY <1>3, <1>4, LevelFacts
  <1>6. \A p \in DOMAIN levels[level] : p < pos
    BY <1>2, <1>4, <1>5
  <1>7. \A n : Passed(n) <=> \E l \in 1..level : OnLevel(n, l)
    <2>1. \A l \in 1..level : l < level \/ l = level
      BY <1>4
    <2> QED
      BY <1>6, <2>1 DEF Passed, OnLevel
  <1>8. DepthOK'
    <2>1. stage' # "counting"
      BY <1>2
    <2> QED
      BY <1>1, <1>2, <1>3, <2>1 DEF DepthOK, OnLevel
  <1>9. CASE Len(levels) > level
    <2>1. level' = level + 1 /\ stage' = "levelizing"
      BY <1>2, <1>9
    <2>2. \A n : Passed(n)' <=> \E l \in 1..level : OnLevel(n, l)
      <3>1. \A l \in 1..(level + 1) : l \in DOMAIN levels
        BY <1>4, <1>5, <1>9
      <3>2. \A l \in 1..(level + 1) : \A p \in DOMAIN levels[l] : (l < level + 1 \/ p < 1) <=> l \in 1..level
        BY <1>4, <1>5, <3>1
      <3>3. \A l \in 1..level : l \in 1..(level + 1)
        BY <1>4
      <3> QED
        BY <1>2, <2>1, <3>2, <3>3 DEF Passed, OnLevel
    <2>3. \A n : Done(n)' <=> Done(n)
      BY <1>2, <1>7, <2>1, <2>2 DEF Done
    <2>4. OutputsOK'
      BY <1>1, <1>2, <1>3, <2>3 DEF OutputsOK
    <2> QED
      BY <1>8, <2>1, <2>4 DEF DInv, EndOK
  <1>10. CASE ~(Len(levels) > level)
    <2>1. stage' = "levelized" /\ level = Len(levels)
      BY <1>2, <1>4, <1>5, <1>10
    <2>2. \A n : Placed(n) <=> Passed(n)
      BY <1>5, <1>7, <2>1 DEF Placed
    <2>3. \A n : Placed(n)' <=> Placed(n)
      BY <1>2 DEF Placed, OnLevel
    <2>4. \A n : Done(n)' <=> Done(n)
      BY <1>2, <2>1, <2>2, <2>3 DEF Done
    <2>5. OutputsOK'
      BY <1>1, <1>2, <1>3, <2>4 DEF OutputsOK
    <2>6. ASSUME NEW e \in EdgeIds PROVE Traversed(e) <=> Placed(srcOf[e])
      <3>1. Traversed(e) => Placed(srcOf[e])
        BY <1>3, <1>4, TraversedPlaced DEF Placed
      <3>2. Passed(srcOf[e]) => Traversed(e)
        <4>1. \A l \in 1..level : l \in 1..(level - 1) \/ l = level
          BY <1>4
        <4> QED
          BY <1>6, <4>1 DEF Passed, Traversed
      <3> QED
        BY <2>2, <3>1, <3>2
    <2>7. ASSUME NEW n \in NodeIds
          PROVE  Placed(n) <=> \A e \in EdgeIds : sinkOf[e] = n => Placed(srcOf[e])
      <3>1. Placed(n) <=> Cardinality(Waiting(n)) = 0
        BY <1>2 DEF IInv, FaninIsExact
      <3>2. Cardinality(Waiting(n)) = 0 <=> Waiting(n) = {}
        BY WaitingIsFinite, FS_EmptySet DEF IInv
      <3>3. Waiting(n) = {} <=> \A e \in EdgeIds : sinkOf[e] = n => Traversed(e)
        BY DEF Waiting
      <3> QED
        BY <2>6, <3>1, <3>2, <3>3
    <2>8. EndOK'
      BY <1>1, <2>3, <2>7 DEF EndOK
    <2> QED
      BY <1>8, <2>5, <2>8 DEF DInv
  <1> QED
    BY <1>9, <1>10

(* The invariant of the walk.                                               *)
LEMMA DepthInitially == GraphInit => DInv
  BY DEF GraphInit, DInv

(* Every step of levelize() keeps it.                                       *)
LEMMA DepthStep == IInv /\ IInv' /\ DInv /\ [GraphNext]_graphVars => DInv'
  <1> SUFFICES ASSUME IInv, IInv', DInv, [GraphNext]_graphVars
               PROVE  DInv'
    OBVIOUS
  <1>1. CASE \E data \in NodeData : add_node(data)
    BY <1>1 DEF add_node, DInv
  <1>2. CASE \E src, sink \in NodeIds : add_edge(src, sink)
    BY <1>2 DEF add_edge, DInv
  <1>3. CASE BeginLevelize
    BY <1>3, DepthBegin
  <1>4. CASE CountFanin
    BY <1>4, DepthCount
  <1>5. CASE StartWalk
    BY <1>5, DepthStart
  <1>6. CASE TraverseEdge
    BY <1>6, DepthTraverse
  <1>7. CASE LeaveNode
    BY <1>7, DepthLeaveNode
  <1>8. CASE LeaveLevel
    BY <1>8, DepthLeaveLevel
  <1>9. CASE UNCHANGED graphVars
    <2>1. UNCHANGED <<nodes, outEdges, inEdges, srcOf, sinkOf, levels, nodeLevels, primaryOutputs,
                      stage, level, pos>>
      BY <1>9 DEF graphVars, graphData, levelData, loopState
    <2>2. NodeIds' = NodeIds /\ EdgeIds' = EdgeIds
      BY <2>1 DEF NodeIds, EdgeIds
    <2>3. DepthOK => DepthOK'
      BY <2>1, <2>2 DEF DepthOK, OnLevel
    <2>4. \A n : Placed(n)' <=> Placed(n)
      BY <2>1 DEF Placed, OnLevel
    <2>5. \A n : Done(n)' <=> Done(n)
      BY <2>1, <2>4 DEF Done, Passed
    <2>6. OutputsOK => OutputsOK'
      BY <2>1, <2>2, <2>5 DEF OutputsOK
    <2>7. EndOK => EndOK'
      BY <2>1, <2>2, <2>4 DEF EndOK
    <2> QED
      BY <2>1, <2>3, <2>6, <2>7 DEF DInv
  <1> QED
    BY <1>1, <1>2, <1>3, <1>4, <1>5, <1>6, <1>7, <1>8, <1>9 DEF GraphNext, LevelizeStep

(* The first n numbers are n numbers.                                       *)
LEMMA Counted ==
    ASSUME NEW n \in Nat
    PROVE  IsFiniteSet(1..n) /\ Cardinality(1..n) = n
  <1>1. 1 \in Int /\ n \in Int
    OBVIOUS
  <1>2. IsFiniteSet(1..n) /\ Cardinality(1..n) = IF 1 > n THEN 0 ELSE n - 1 + 1
    BY <1>1, FS_Interval
  <1> QED
    BY <1>2

(* The list of a set of numbers in order holds each of them: the number of  *)
(* smaller members differs from member to member.                           *)
LEMMA AscendingListsAll ==
    ASSUME NEW S \in SUBSET Int, IsFiniteSet(S)
    PROVE  /\ Ascending(S) \in Seq(S) /\ DOMAIN Ascending(S) = 1..Cardinality(S)
           /\ ToSet(Ascending(S)) = S
           /\ \A i, j \in DOMAIN Ascending(S) : Ascending(S)[i] = Ascending(S)[j] => i = j
  <1> DEFINE c == Cardinality(S)
             D == 1..c
             Below(x) == {m \in S : m < x}
             rank == [x \in S |-> Cardinality(Below(x)) + 1]
             pick == Ascending(S)
  <1>1. c \in Nat /\ IsFiniteSet(D) /\ Cardinality(D) = c
    BY FS_CardinalityType, Counted
  <1>2. ASSUME NEW x \in S
        PROVE  Cardinality(Below(x)) \in Nat /\ IsFiniteSet(Below(x)) /\ Cardinality(Below(x)) < c
    <2> DEFINE s == Below(x)
    <2>1. s \in SUBSET S /\ x \notin s /\ s \cup {x} \in SUBSET S
      OBVIOUS
    <2> HIDE DEF s
    <2>2. IsFiniteSet(s) /\ Cardinality(s) \in Nat /\ Cardinality(s \cup {x}) <= c
      BY <2>1, FS_Subset, FS_CardinalityType
    <2>3. Cardinality(s \cup {x}) = Cardinality(s) + 1
      BY <2>1, <2>2, FS_AddElement
    <2> HIDE DEF c
    <2>4. Cardinality(s) < c
      BY <1>1, <2>2, <2>3
    <2> QED
      BY <2>2, <2>4 DEF s
  <1>3. ASSUME NEW x \in S, NEW y \in S, x < y
        PROVE  Cardinality(Below(x)) < Cardinality(Below(y))
    <2> DEFINE s == Below(x)
               u == Below(y)
    <2>1. s \cup {x} \subseteq u /\ x \notin s
      <3>1. \A m \in S : m < x => m < y
        <4> TAKE m \in S
        <4>1. m \in Int /\ x \in Int /\ y \in Int
          OBVIOUS
        <4> QED
          BY <1>3, <4>1
      <3>2. x \in Int /\ ~(x < x)
        OBVIOUS
      <3> QED
        BY <1>3, <3>1, <3>2
    <2>2. IsFiniteSet(s) /\ IsFiniteSet(u) /\ Cardinality(s) \in Nat /\ Cardinality(u) \in Nat
      BY <1>2
    <2> HIDE DEF s, u
    <2>3. Cardinality(s \cup {x}) <= Cardinality(u)
      BY <2>1, <2>2, FS_Subset
    <2>4. Cardinality(s \cup {x}) = Cardinality(s) + 1
      BY <2>1, <2>2, FS_AddElement
    <2>5. Cardinality(s) < Cardinality(u)
      BY <2>2, <2>3, <2>4
    <2> QED
      BY <2>5 DEF s, u
  <1>4. pick = [i \in D |-> CHOOSE x \in S : Cardinality(Below(x)) = i - 1]
    BY DEF Ascending
  <1> HIDE DEF Below, c, pick
  <1>5. ASSUME NEW x \in S, NEW y \in S, Cardinality(Below(x)) = Cardinality(Below(y)) PROVE x = y
    <2>1. x \in Int /\ y \in Int
      OBVIOUS
    <2>2. Cardinality(Below(x)) \in Nat /\ Cardinality(Below(y)) \in Nat
      BY <1>2
    <2>3. ~(x < y) /\ ~(y < x)
      BY <1>3, <1>5, <2>2
    <2> QED
      BY <2>1, <2>3
  <1>6. \A x \in S : Cardinality(Below(x)) + 1 \in D
    BY <1>1, <1>2
  <1>7. rank \in [S -> D] /\ \A x \in S : rank[x] = Cardinality(Below(x)) + 1
    BY <1>6
  <1> HIDE DEF rank, D
  <1>8. \A x, y \in S : rank[x] = rank[y] => x = y
    <2> TAKE x, y \in S
    <2> HAVE rank[x] = rank[y]
    <2> DEFINE a == Cardinality(Below(x))
               b == Cardinality(Below(y))
    <2>1. a + 1 = b + 1 /\ a \in Nat /\ b \in Nat
      BY <1>2, <1>7
    <2>2. a = b
      <3> HIDE DEF a, b
      <3> QED
        BY <2>1
    <2> QED
      BY <1>5, <2>2
  <1>9. \A i \in D : \E x \in S : rank[x] = i
    <2>1. rank \in Injection(S, D)
      BY <1>7, <1>8, Zenon DEF Injection, IsInjective
    <2>2. rank \in Surjection(S, D)
      BY <1>1, <2>1, FS_Injection DEF c
    <2> QED
      BY <2>2 DEF Surjection
  <1>10. ASSUME NEW i \in D PROVE pick[i] \in S /\ Cardinality(Below(pick[i])) = i - 1
    <2>1. PICK x \in S : rank[x] = i
      BY <1>9
    <2>2. Cardinality(Below(x)) = i - 1
      <3> DEFINE a == Cardinality(Below(x))
      <3>1. a \in Nat /\ a + 1 = i
        BY <1>2, <1>7, <2>1
      <3> HIDE DEF a
      <3>2. a = i - 1
        BY <3>1
      <3> QED
        BY <3>2 DEF a
    <2> QED
      BY <1>4, <2>2
  <1>11. \A x \in S : \E i \in D : pick[i] = x
    <2> TAKE x \in S
    <2> DEFINE i == rank[x]
               a == Cardinality(Below(x))
    <2>1. i \in D /\ i = a + 1 /\ a \in Nat
      BY <1>2, <1>7
    <2>2. Cardinality(Below(pick[i])) = i - 1 /\ pick[i] \in S
      BY <1>10, <2>1
    <2>3. i - 1 = a
      <3> HIDE DEF i, a
      <3> QED
        BY <2>1
    <2>4. pick[i] = x
      BY <1>5, <2>2, <2>3
    <2> QED
      BY <2>1, <2>4
  <1>12. DOMAIN pick = D
    BY <1>4
  <1>13. pick \in Seq(S)
    <2>1. pick \in [1..c -> S]
      BY <1>4, <1>10 DEF D
    <2> QED
      BY <1>1, <2>1
  <1>14. ToSet(pick) = S
    BY <1>10, <1>11, <1>12 DEF ToSet
  <1>15. \A i, j \in D : pick[i] = pick[j] => i = j
    <2> TAKE i, j \in D
    <2> HAVE pick[i] = pick[j]
    <2>1. i - 1 = j - 1
      BY <1>10
    <2>2. i \in Int /\ j \in Int
      BY <1>1 DEF D
    <2> QED
      BY <2>1, <2>2
  <1> QED
    BY <1>12, <1>13, <1>14, <1>15 DEF pick, c, D
-------------------------------------------------------------------------------
(* The sets of nodes with no path up of more than k - 1 edges, by k.        *)
Above(sources, above) ==
    /\ above \in [Nat -> SUBSET DOMAIN sources] /\ above[0] = {}
    /\ \A k \in Nat : above[k + 1] = {n \in DOMAIN sources : sources[n] \subseteq above[k]}

(* The fold of NodesUpTo goes through them.                                 *)
LEMMA UpToAre ==
    ASSUME NEW sources, NEW above, Above(sources, above), NEW k \in Nat
    PROVE  NodesUpTo(sources, k) = above[k]
  <1> DEFINE V == SUBSET DOMAIN sources
             Op(v) == {n \in DOMAIN sources : sources[n] \subseteq v}
             seq == [i \in 1..k |-> i]
             turn == [p \in V \X (1..k) |-> Op(p[1])]
             fold(iter) == [s \in SUBSET DOMAIN seq |->
                             IF s = {} THEN {} ELSE Op(iter[s \ {Max(s)}])]
             latest == CHOOSE iter : iter = fold(iter)
  <1>1. NodesUpTo(sources, k) = latest[DOMAIN seq] /\ DOMAIN seq = 1..k
    BY DEF NodesUpTo, FoldLeft, MapThenFoldSet
  <1>2. {} \in V /\ \A v : Op(v) \in V
    OBVIOUS
  <1>3. above[0] = {} /\ \A j \in Nat : above[j + 1] = Op(above[j])
    BY DEF Above
  <1> HIDE DEF V, Op
  <1>4. turn \in [V \X (1..k) -> V] /\ \A v \in V, i \in 1..k : turn[<<v, i>>] = Op(v)
    BY <1>2
  <1> HIDE DEF turn, seq
  <1>5. StepsWithin(V, k, {}, turn)
    BY <1>2, <1>4 DEF StepsWithin
  <1>6. PICK iter : FoldsOver(iter, V, k, {}, turn)
    BY <1>5, FoldExists
  <1>7. latest = fold(latest)
    <2>1. /\ iter \in [SUBSET (1..k) -> V]
          /\ \A s \in SUBSET (1..k) :
               iter[s] = IF s = {} THEN {} ELSE turn[<<iter[s \ {Max(s)}], Max(s)>>]
      BY <1>6 DEF FoldsOver
    <2>2. ASSUME NEW s \in SUBSET (1..k), s # {}
          PROVE  turn[<<iter[s \ {Max(s)}], Max(s)>>] = Op(iter[s \ {Max(s)}])
      <3>1. Max(s) \in 1..k
        BY <2>2, MaxOfInterval
      <3>2. iter[s \ {Max(s)}] \in V
        BY <2>1
      <3> QED
        BY <1>4, <3>1, <3>2
    <2>3. iter = [s \in SUBSET (1..k) |-> IF s = {} THEN {} ELSE Op(iter[s \ {Max(s)}])]
      <3>1. \A s \in SUBSET (1..k) :
               iter[s] = IF s = {} THEN {} ELSE Op(iter[s \ {Max(s)}])
        BY <2>1, <2>2
      <3>2. iter = [s \in SUBSET (1..k) |-> iter[s]]
        BY <2>1
      <3> QED
        BY <3>1, <3>2
    <2>4. iter = fold(iter)
      BY <1>1, <2>3
    <2> HIDE DEF fold
    <2> QED
      BY <2>4
  <1> HIDE DEF latest
  <1>8. FoldsOver(latest, V, k, {}, turn)
    <2>1. latest = [s \in SUBSET (1..k) |-> latest[s]] /\ latest[{}] = {}
      BY <1>1, <1>7
    <2>2. ASSUME NEW s \in SUBSET (1..k), s # {}, latest[s \ {Max(s)}] \in V
          PROVE  latest[s] = turn[<<latest[s \ {Max(s)}], Max(s)>>]
      <3>1. Max(s) \in 1..k
        BY <2>2, MaxOfInterval
      <3>2. latest[s] = Op(latest[s \ {Max(s)}])
        BY <1>1, <1>7, <2>2
      <3> QED
        BY <1>4, <2>2, <3>1, <3>2
    <2>3. FoldEquation(latest, V, k, {}, turn)
      BY <2>1, <2>2 DEF FoldEquation
    <2> QED
      BY <1>5, <2>3, FoldsByEquation
  <1>9. /\ latest[1..0] = {} /\ \A j \in 0..k : latest[1..j] \in V
        /\ \A j \in Nat : j + 1 <= k => latest[1..(j + 1)] = turn[<<latest[1..j], j + 1>>]
    BY <1>5, <1>8, FoldPrefix
  <1> DEFINE Q == {j \in Nat : j <= k => latest[1..j] = above[j]}
  <1>10. 0 \in Q
    BY <1>3, <1>9
  <1>11. ASSUME NEW j \in Nat, j \in Q PROVE j + 1 \in Q
    <2> SUFFICES ASSUME j + 1 <= k PROVE latest[1..(j + 1)] = above[j + 1]
      OBVIOUS
    <2>1. j \in 0..k /\ j + 1 \in 1..k /\ j <= k
      OBVIOUS
    <2>2. latest[1..(j + 1)] = turn[<<latest[1..j], j + 1>>] /\ latest[1..j] \in V
      BY <1>9, <2>1
    <2>3. latest[1..j] = above[j]
      BY <1>11, <2>1
    <2> QED
      BY <1>3, <1>4, <2>1, <2>2, <2>3
  <1> HIDE DEF Q
  <1>12. k \in Q
    BY <1>10, <1>11, NaturalInduction
  <1>13. latest[1..k] = above[k]
    BY <1>12 DEF Q
  <1> QED
    BY <1>1, <1>13
-------------------------------------------------------------------------------
(* The nodes on the first k levels are those with no longer path up: the    *)
(* levels solve the equation of NodesUpTo, since a node is placed if its    *)
(* sources are, above all of them and right above one.                      *)
LEMMA LevelsAreUpTo ==
    ASSUME IInv, DInv, stage = "levelized", NEW sources, DOMAIN sources = NodeIds,
           \A n \in NodeIds : sources[n] = {srcOf[e] : e \in {x \in EdgeIds : sinkOf[x] = n}},
           NEW k \in Nat
    PROVE  NodesUpTo(sources, k) = {n \in NodeIds : \E l \in DOMAIN levels : l <= k /\ OnLevel(n, l)}
  <1> DEFINE above == [j \in Nat |-> {n \in NodeIds : \E l \in DOMAIN levels : l <= j /\ OnLevel(n, l)}]
  <1>1. DepthOK /\ EndOK /\ levels \in Seq(Seq(NodeIds)) /\ LevelsAreTopological /\ GraphOK
    BY DEF DInv, IInv
  <1>2. DOMAIN levels = 1..Len(levels) /\ Len(levels) \in Nat /\ DOMAIN levels \subseteq Nat \ {0}
    BY <1>1, LevelFacts
  <1>3. \A e \in EdgeIds : srcOf[e] \in NodeIds /\ sinkOf[e] \in NodeIds
    BY <1>1, GraphFacts
  <1>4. \A n \in NodeIds : \A l, j \in DOMAIN levels : OnLevel(n, l) /\ OnLevel(n, j) => l = j
    BY <1>1 DEF LevelsAreTopological, OnLevel
  <1>5. above \in [Nat -> SUBSET NodeIds]
    OBVIOUS
  <1>6. above[0] = {}
    BY <1>2
  <1>7. ASSUME NEW j \in Nat, NEW n \in NodeIds
        PROVE  n \in above[j + 1] <=> sources[n] \subseteq above[j]
    <2>1. ASSUME n \in above[j + 1], NEW e \in EdgeIds, sinkOf[e] = n PROVE srcOf[e] \in above[j]
      <3>1. PICK l \in DOMAIN levels : l <= j + 1 /\ OnLevel(n, l)
        BY <2>1
      <3>2. Placed(srcOf[e])
        BY <1>1, <2>1, <3>1 DEF EndOK, Placed
      <3>3. PICK i \in DOMAIN levels : OnLevel(srcOf[e], i)
        BY <3>2 DEF Placed
      <3>4. i < l
        BY <1>1, <2>1, <3>1, <3>3 DEF LevelsAreTopological
      <3>5. i <= j
        BY <1>2, <3>1, <3>4
      <3> QED
        BY <1>3, <3>3, <3>5
    <2>2. ASSUME \A e \in EdgeIds : sinkOf[e] = n => srcOf[e] \in above[j] PROVE n \in above[j + 1]
      <3>1. \A e \in EdgeIds : sinkOf[e] = n => Placed(srcOf[e])
        BY <2>2 DEF Placed
      <3>2. PICK l \in DOMAIN levels : OnLevel(n, l)
        BY <1>1, <3>1 DEF EndOK, Placed
      <3>3. l <= j + 1
        <4>1. CASE l = 1
          BY <4>1
        <4>2. CASE l # 1
          <5>1. PICK e \in EdgeIds : sinkOf[e] = n /\ OnLevel(srcOf[e], l - 1)
            BY <1>1, <3>2, <4>2 DEF DepthOK
          <5>2. PICK i \in DOMAIN levels : i <= j /\ OnLevel(srcOf[e], i)
            BY <2>2, <5>1
          <5>3. l - 1 \in DOMAIN levels
            BY <1>2, <4>2
          <5>4. i = l - 1
            BY <1>3, <1>4, <5>1, <5>2, <5>3
          <5> QED
            BY <1>2, <5>2, <5>4
        <4> QED
          BY <4>1, <4>2
      <3> QED
        BY <3>2, <3>3
    <2> HIDE DEF above
    <2>3. sources[n] \subseteq above[j] <=> \A e \in EdgeIds : sinkOf[e] = n => srcOf[e] \in above[j]
      OBVIOUS
    <2> QED
      BY <2>1, <2>2, <2>3
  <1> HIDE DEF above
  <1>8. \A j \in Nat : above[j + 1] = {n \in NodeIds : sources[n] \subseteq above[j]}
    <2> TAKE j \in Nat
    <2>1. above[j + 1] \subseteq NodeIds
      BY <1>5
    <2> QED
      BY <1>7, <2>1
  <1>9. NodesUpTo(sources, k) = above[k]
    <2>1. Above(sources, above)
      BY <1>5, <1>6, <1>8 DEF Above
    <2> QED
      BY <2>1, UpToAre
  <1> QED
    BY <1>9 DEF above

(* There are no more levels up to a placed node than nodes: each of them    *)
(* holds one.                                                               *)
LEMMA LevelsWithinNodes ==
    ASSUME IInv, DInv, stage = "levelized", NEW l \in DOMAIN levels, NEW n \in NodeIds, OnLevel(n, l)
    PROVE  l \in 1..Len(nodes)
  <1>1. DepthOK /\ levels \in Seq(Seq(NodeIds)) /\ LevelsAreTopological /\ GraphOK
    BY DEF DInv, IInv
  <1>2. DOMAIN levels = 1..Len(levels) /\ Len(levels) \in Nat
    BY <1>1, LevelFacts
  <1>3. NodeIds = 1..Len(nodes) /\ Len(nodes) \in Nat
        /\ \A e \in EdgeIds : srcOf[e] \in NodeIds
    BY <1>1, GraphFacts
  <1> DEFINE Q == {m \in Nat : m < l => \E x \in NodeIds : OnLevel(x, l - m)}
  <1>4. l \in Nat /\ l >= 1 /\ l <= Len(levels)
    BY <1>2
  <1>5. 0 \in Q
    BY <1>4
  <1>6. ASSUME NEW m \in Nat, m \in Q PROVE m + 1 \in Q
    <2> SUFFICES ASSUME m + 1 < l PROVE \E x \in NodeIds : OnLevel(x, l - (m + 1))
      OBVIOUS
    <2>1. m < l
      BY <1>4
    <2>2. PICK x \in NodeIds : OnLevel(x, l - m)
      BY <1>6, <2>1
    <2>3. l - m \in DOMAIN levels /\ l - m # 1 /\ (l - m) - 1 = l - (m + 1)
      BY <1>2, <1>4
    <2>4. PICK e \in EdgeIds : OnLevel(srcOf[e], (l - m) - 1)
      BY <1>1, <2>2, <2>3 DEF DepthOK
    <2> QED
      BY <1>3, <2>3, <2>4
  <1> HIDE DEF Q
  <1>7. \A m \in Nat : m \in Q
    BY <1>5, <1>6, NaturalInduction
  <1>8. \A j \in 1..l : \E x \in NodeIds : OnLevel(x, j)
    <2> TAKE j \in 1..l
    <2>1. l - j \in Nat /\ l - j < l /\ l - (l - j) = j
      BY <1>4
    <2>2. \E x \in NodeIds : OnLevel(x, l - (l - j))
      BY <1>7, <2>1 DEF Q
    <2> QED
      BY <2>1, <2>2
  <1> DEFINE f == [j \in 1..l |-> CHOOSE x \in NodeIds : OnLevel(x, j)]
  <1>9. f \in [1..l -> NodeIds] /\ \A j \in 1..l : OnLevel(f[j], j)
    BY <1>8
  <1> HIDE DEF f
  <1>10. \A i, j \in 1..l : f[i] = f[j] => i = j
    <2> TAKE i, j \in 1..l
    <2> HAVE f[i] = f[j]
    <2>1. i \in DOMAIN levels /\ j \in DOMAIN levels
      BY <1>2, <1>4
    <2> QED
      BY <1>1, <1>9, <2>1 DEF LevelsAreTopological, OnLevel
  <1>11. f \in Injection(1..l, 1..Len(nodes))
    BY <1>3, <1>9, <1>10, Zenon DEF Injection, IsInjective
  <1>12. Cardinality(1..l) <= Cardinality(1..Len(nodes))
    BY <1>3, <1>11, Counted, FS_Injection
  <1>13. l <= Len(nodes)
    BY <1>3, <1>4, <1>12, Counted
  <1> QED
    BY <1>3, <1>4, <1>13
-------------------------------------------------------------------------------
(* The pipeline until the layout is settled.                                *)
Pending == [src : Nat, sink : Nat, delay : Nat]

Joins(edges, m, n) == \E k \in DOMAIN edges : edges[k].src = m /\ edges[k].sink = n
Stored(m, n) == \E e \in EdgeIds : srcOf[e] = m /\ sinkOf[e] = n

FanoutLink(nl, m, n) ==
    m \in DOMAIN nl.nodes /\ \E k \in DOMAIN nl.fanouts[m] : nl.fanouts[m][k].sink = n
BlockLink(nl, m, n) ==
    /\ m \in DOMAIN nl.nodes /\ n \in DOMAIN nl.nodes /\ nl.blocks[m] = nl.blocks[n]
    /\ nl.nodes[m].type = "FF_CLOCK" /\ nl.nodes[n].type \in {"FF_SOURCE", "FF_SINK"}

(* What is known of a netlist.                                              *)
LEMMA NetlistFacts ==
    ASSUME NEW nl \in Netlists
    PROVE  /\ nl.nodes \in Seq(NodeData) /\ Len(nl.nodes) \in Nat
           /\ DOMAIN nl.nodes = 1..Len(nl.nodes)
           /\ \A n \in DOMAIN nl.nodes : /\ nl.nodes[n] \in NodeData /\ nl.blocks[n] \in Int
                                         /\ DOMAIN nl.fanouts[n] = 1..Len(nl.fanouts[n])
                                         /\ Len(nl.fanouts[n]) \in Nat
                                         /\ \A k \in DOMAIN nl.fanouts[n] :
                                               nl.fanouts[n][k].sink \in Nat /\ nl.fanouts[n][k].delay \in Nat
  <1>1. /\ nl.nodes \in Seq(NodeData) /\ nl.blocks \in [DOMAIN nl.nodes -> Int]
        /\ nl.fanouts \in [DOMAIN nl.nodes -> Seq([sink : Nat, delay : Nat])]
    BY NetlistsAssumption
  <1>2. Len(nl.nodes) \in Nat /\ DOMAIN nl.nodes = 1..Len(nl.nodes)
        /\ \A n \in DOMAIN nl.nodes : nl.nodes[n] \in NodeData
    BY <1>1, LenProperties, ElementOfSeq
  <1>3. ASSUME NEW n \in DOMAIN nl.nodes
        PROVE  /\ nl.blocks[n] \in Int
               /\ DOMAIN nl.fanouts[n] = 1..Len(nl.fanouts[n]) /\ Len(nl.fanouts[n]) \in Nat
               /\ \A k \in DOMAIN nl.fanouts[n] :
                     nl.fanouts[n][k].sink \in Nat /\ nl.fanouts[n][k].delay \in Nat
    <2>1. nl.blocks[n] \in Int /\ nl.fanouts[n] \in Seq([sink : Nat, delay : Nat])
      BY <1>1
    <2>2. DOMAIN nl.fanouts[n] = 1..Len(nl.fanouts[n]) /\ Len(nl.fanouts[n]) \in Nat
          /\ \A k \in DOMAIN nl.fanouts[n] : nl.fanouts[n][k] \in [sink : Nat, delay : Nat]
      BY <2>1, LenProperties, ElementOfSeq
    <2> QED
      BY <2>1, <2>2
  <1> QED
    BY <1>1, <1>2, <1>3

(* The edges of a netlist, listed.                                          *)
LEMMA LoadedEdges ==
    ASSUME NEW nl \in Netlists
    PROVE  /\ Loaded(nl) \in Seq(Pending)
           /\ \A m, n : Joins(Loaded(nl), m, n) <=> FanoutLink(nl, m, n)
  <1> DEFINE row(m) == [k \in DOMAIN nl.fanouts[m] |->
                           [src |-> m, sink |-> nl.fanouts[m][k].sink, delay |-> nl.fanouts[m][k].delay]]
             rows == [m \in DOMAIN nl.nodes |-> row(m)]
             flat == FlattenSeq(rows)
  <1>1. \A m \in DOMAIN nl.nodes : row(m) \in Seq(Pending)
    <2> TAKE m \in DOMAIN nl.nodes
    <2>1. m \in Nat /\ DOMAIN nl.fanouts[m] = 1..Len(nl.fanouts[m]) /\ Len(nl.fanouts[m]) \in Nat
          /\ \A k \in DOMAIN nl.fanouts[m] : nl.fanouts[m][k].sink \in Nat /\ nl.fanouts[m][k].delay \in Nat
      BY NetlistFacts
    <2>2. row(m) \in [1..Len(nl.fanouts[m]) -> Pending]
      BY <2>1 DEF Pending
    <2> QED
      BY <2>1, <2>2
  <1>2. rows \in Seq(Seq(Pending)) /\ DOMAIN rows = DOMAIN nl.nodes
    <2>1. DOMAIN nl.nodes = 1..Len(nl.nodes) /\ Len(nl.nodes) \in Nat
      BY NetlistFacts
    <2> HIDE DEF row
    <2>2. rows \in [1..Len(nl.nodes) -> Seq(Pending)]
      BY <1>1, <2>1
    <2> QED
      BY <2>1, <2>2
  <1>3. Loaded(nl) = flat
    BY DEF Loaded
  <1>4. flat \in Seq(Pending) /\ ToSet(flat) = UNION {ToSet(rows[m]) : m \in DOMAIN nl.nodes}
    <2> HIDE DEF rows
    <2> QED
      BY <1>2, Flattened
  <1>5. \A m \in DOMAIN nl.nodes : rows[m] = row(m)
    OBVIOUS
  <1> HIDE DEF flat, rows
  <1>6. ASSUME NEW m, NEW n PROVE Joins(flat, m, n) <=> FanoutLink(nl, m, n)
    <2>1. ASSUME Joins(flat, m, n) PROVE FanoutLink(nl, m, n)
      <3>1. PICK k \in DOMAIN flat : flat[k].src = m /\ flat[k].sink = n
        BY <2>1 DEF Joins
      <3>2. flat[k] \in ToSet(flat)
        BY DEF ToSet
      <3>3. PICK i \in DOMAIN nl.nodes : flat[k] \in ToSet(row(i))
        <4> HIDE DEF row
        <4>1. \E i \in DOMAIN nl.nodes : flat[k] \in ToSet(rows[i])
          BY <1>4, <3>2
        <4> QED
          BY <1>5, <4>1
      <3>4. PICK j \in DOMAIN nl.fanouts[i] : flat[k] = row(i)[j]
        BY <3>3 DEF ToSet
      <3>5. row(i)[j].src = i /\ row(i)[j].sink = nl.fanouts[i][j].sink
        OBVIOUS
      <3> QED
        BY <3>1, <3>4, <3>5 DEF FanoutLink
    <2>2. ASSUME FanoutLink(nl, m, n) PROVE Joins(flat, m, n)
      <3>1. PICK k \in DOMAIN nl.fanouts[m] : m \in DOMAIN nl.nodes /\ nl.fanouts[m][k].sink = n
        BY <2>2 DEF FanoutLink
      <3>2. k \in DOMAIN row(m) /\ row(m)[k].src = m /\ row(m)[k].sink = n
        BY <3>1
      <3> HIDE DEF row
      <3>3. row(m)[k] \in ToSet(flat)
        BY <1>4, <1>5, <3>1, <3>2 DEF ToSet
      <3>4. PICK i \in DOMAIN flat : flat[i] = row(m)[k]
        BY <3>3 DEF ToSet
      <3> QED
        BY <3>2, <3>4 DEF Joins
    <2> QED
      BY <2>1, <2>2
  <1> QED
    BY <1>3, <1>4, <1>6
(* The edges of the clock pins, listed once the nodes are read.             *)
LEMMA ClockEdgesListed ==
    ASSUME netlist \in Netlists, nodes = netlist.nodes
    PROVE  /\ ClockEdges \in Seq(Pending)
           /\ \A m, n : Joins(ClockEdges, m, n) <=> BlockLink(netlist, m, n)
           /\ \A k \in DOMAIN ClockEdges : ClockEdges[k].delay = 0
           /\ \A k, l \in DOMAIN ClockEdges : ClockEdges[k] = ClockEdges[l] => k = l
  <1> DEFINE ofType(type) == {n \in NodeIds : nodes[n].type = type}
             ofBlock(b, type) == Ascending({n \in ofType(type) : netlist.blocks[n] = b})
             pins(b) == ofBlock(b, "FF_SOURCE") \o ofBlock(b, "FF_SINK")
             row(b) == [k \in DOMAIN pins(b) |->
                           [src |-> ofBlock(b, "FF_CLOCK")[1], sink |-> pins(b)[k], delay |-> 0]]
             clocked == {netlist.blocks[n] : n \in ofType("FF_CLOCK")}
             blocks == Ascending(clocked)
             rows == [k \in DOMAIN blocks |-> row(blocks[k])]
             flat == FlattenSeq(rows)
             Members(b, type) == {n \in ofType(type) : netlist.blocks[n] = b}
  <1>1. ClockEdges = flat
    BY DEF ClockEdges
  <1>2. /\ NodeIds = 1..Len(nodes) /\ Len(nodes) \in Nat /\ IsFiniteSet(NodeIds)
        /\ \A n \in NodeIds : netlist.blocks[n] \in Int
    BY NetlistFacts, Counted DEF NodeIds
  <1>3. \A b, type : /\ Members(b, type) \in SUBSET NodeIds /\ Members(b, type) \in SUBSET Int
                     /\ IsFiniteSet(Members(b, type)) /\ ofBlock(b, type) = Ascending(Members(b, type))
    <2> TAKE b, type
    <2>1. Members(b, type) \in SUBSET NodeIds /\ NodeIds \subseteq Int
      BY <1>2
    <2> HIDE DEF Members
    <2>2. IsFiniteSet(Members(b, type)) /\ Members(b, type) \in SUBSET Int
      BY <1>2, <2>1, FS_Subset
    <2> QED
      BY <2>1, <2>2 DEF Members
  <1>4. \A n \in NodeIds : \A b, type : n \in Members(b, type) <=> (nodes[n].type = type /\ netlist.blocks[n] = b)
    OBVIOUS
  <1>5. clocked = {netlist.blocks[n] : n \in {m \in NodeIds : nodes[m].type = "FF_CLOCK"}}
    OBVIOUS
  <1> HIDE DEF ofBlock, Members
  <1>6. \A b, type : /\ ofBlock(b, type) \in Seq(NodeIds) /\ ToSet(ofBlock(b, type)) = Members(b, type)
                     /\ DOMAIN ofBlock(b, type) = 1..Cardinality(Members(b, type))
                     /\ \A i, j \in DOMAIN ofBlock(b, type) :
                           ofBlock(b, type)[i] = ofBlock(b, type)[j] => i = j
    <2> TAKE b, type
    <2>1. Members(b, type) \in SUBSET Int /\ IsFiniteSet(Members(b, type))
      BY <1>3
    <2>2. /\ Ascending(Members(b, type)) \in Seq(Members(b, type))
          /\ DOMAIN Ascending(Members(b, type)) = 1..Cardinality(Members(b, type))
          /\ ToSet(Ascending(Members(b, type))) = Members(b, type)
          /\ \A i, j \in DOMAIN Ascending(Members(b, type)) :
                Ascending(Members(b, type))[i] = Ascending(Members(b, type))[j] => i = j
      BY <2>1, AscendingListsAll
    <2>3. Seq(Members(b, type)) \subseteq Seq(NodeIds)
      BY <1>3
    <2> QED
      BY <1>3, <2>2, <2>3
  <1>7. \A b : /\ pins(b) \in Seq(NodeIds) /\ DOMAIN pins(b) = 1..Len(pins(b)) /\ Len(pins(b)) \in Nat
               /\ ToSet(pins(b)) = Members(b, "FF_SOURCE") \cup Members(b, "FF_SINK")
               /\ \A i, j \in DOMAIN pins(b) : pins(b)[i] = pins(b)[j] => i = j
    <2> TAKE b
    <2> DEFINE s == ofBlock(b, "FF_SOURCE")
               t == ofBlock(b, "FF_SINK")
    <2>1. s \in Seq(NodeIds) /\ t \in Seq(NodeIds)
      BY <1>6
    <2>2. pins(b) = s \o t
      OBVIOUS
    <2> HIDE DEF s, t, pins
    <2>3. pins(b) \in Seq(NodeIds) /\ ToSet(pins(b)) = ToSet(s) \cup ToSet(t)
      BY <2>1, <2>2, ConcatProperties, ToSetOfConcat
    <2>4. ToSet(s) = Members(b, "FF_SOURCE") /\ ToSet(t) = Members(b, "FF_SINK")
      BY <1>6 DEF s, t
    <2>5. /\ \A i, j \in DOMAIN s : s[i] = s[j] => i = j
          /\ \A i, j \in DOMAIN t : t[i] = t[j] => i = j
      BY <1>6 DEF s, t
    <2>6. \A i \in DOMAIN s, j \in DOMAIN t : s[i] # t[j]
      <3> TAKE i \in DOMAIN s, j \in DOMAIN t
      <3>1. s[i] \in Members(b, "FF_SOURCE") /\ t[j] \in Members(b, "FF_SINK")
        BY <2>4 DEF ToSet
      <3>2. s[i] \in NodeIds /\ t[j] \in NodeIds
        BY <1>3, <3>1
      <3>3. nodes[s[i]].type = "FF_SOURCE" /\ nodes[t[j]].type = "FF_SINK"
        BY <1>4, <3>1, <3>2
      <3> QED
        BY <3>3
    <2>7. \A i, j \in DOMAIN pins(b) : pins(b)[i] = pins(b)[j] => i = j
      BY <2>1, <2>2, <2>5, <2>6, DistinctConcat
    <2> QED
      BY <2>3, <2>4, <2>7, LenProperties
  <1> HIDE DEF pins
  (* The pin of a block with a clock pin is that clock pin.                  *)
  <1>8. ASSUME NEW c \in NodeIds, nodes[c].type = "FF_CLOCK"
        PROVE  ofBlock(netlist.blocks[c], "FF_CLOCK")[1] = c
    <2> DEFINE b == netlist.blocks[c]
               q == ofBlock(b, "FF_CLOCK")
    <2>1. c \in ToSet(q)
      BY <1>4, <1>6, <1>8
    <2>2. PICK k \in DOMAIN q : q[k] = c
      BY <2>1 DEF ToSet
    <2>3. 1 \in DOMAIN q
      <3>1. IsFiniteSet(Members(b, "FF_CLOCK")) /\ Cardinality(Members(b, "FF_CLOCK")) \in Nat
        BY <1>3, FS_CardinalityType
      <3>2. k \in 1..Cardinality(Members(b, "FF_CLOCK")) /\ DOMAIN q = 1..Cardinality(Members(b, "FF_CLOCK"))
        BY <1>6, <2>2
      <3> QED
        BY <3>1, <3>2
    <2>4. q[1] \in Members(b, "FF_CLOCK")
      BY <1>6, <2>3 DEF ToSet
    <2>5. q[1] \in NodeIds /\ nodes[q[1]].type = "FF_CLOCK" /\ netlist.blocks[q[1]] = b
      BY <1>3, <1>4, <2>4
    <2> HIDE DEF q
    <2>6. q[1] = c
      BY <1>8, <2>5, NetlistsAssumption DEF NodeIds
    <2> QED
      BY <2>6 DEF q
  <1>9. blocks \in Seq(clocked) /\ ToSet(blocks) = clocked /\ DOMAIN blocks = 1..Cardinality(clocked)
        /\ Cardinality(clocked) \in Nat
        /\ \A i, j \in DOMAIN blocks : blocks[i] = blocks[j] => i = j
    <2> DEFINE pinned == {m \in NodeIds : nodes[m].type = "FF_CLOCK"}
               blockOf == netlist.blocks
    <2>1. IsFiniteSet(pinned) /\ clocked = {blockOf[n] : n \in pinned}
      BY <1>2, <1>5, FS_Subset
    <2>2. IsFiniteSet({blockOf[n] : n \in pinned})
      <3> HIDE DEF pinned, blockOf
      <3> QED
        BY <2>1, FiniteImage
    <2>3. clocked \in SUBSET Int
      BY <1>2, <1>5
    <2> HIDE DEF clocked
    <2> QED
      BY <2>1, <2>2, <2>3, AscendingListsAll, FS_CardinalityType
  <1>10. ASSUME NEW b \in clocked PROVE row(b) \in Seq(Pending)
    <2>1. PICK c \in NodeIds : nodes[c].type = "FF_CLOCK" /\ netlist.blocks[c] = b
      BY <1>5
    <2>2. ofBlock(b, "FF_CLOCK")[1] = c /\ c \in Nat
      BY <1>2, <1>8, <2>1
    <2>3. DOMAIN pins(b) = 1..Len(pins(b)) /\ Len(pins(b)) \in Nat
          /\ \A k \in DOMAIN pins(b) : pins(b)[k] \in Nat
      <3>1. pins(b) \in Seq(NodeIds)
        BY <1>7
      <3>2. \A k \in 1..Len(pins(b)) : pins(b)[k] \in NodeIds
        BY <3>1, ElementOfSeq
      <3> QED
        BY <1>2, <1>7, <3>2
    <2>4. row(b) \in [1..Len(pins(b)) -> Pending]
      BY <2>2, <2>3 DEF Pending
    <2> QED
      BY <2>3, <2>4
  <1> HIDE DEF clocked, blocks, row
  <1>11. rows \in Seq(Seq(Pending)) /\ DOMAIN rows = DOMAIN blocks
    <2>1. \A k \in DOMAIN blocks : blocks[k] \in clocked
      BY <1>9 DEF ToSet
    <2>2. rows \in [1..Cardinality(clocked) -> Seq(Pending)]
      BY <1>9, <1>10, <2>1
    <2> QED
      BY <1>9, <2>2
  <1>12. \A k \in DOMAIN blocks : rows[k] = row(blocks[k])
    OBVIOUS
  <1> HIDE DEF rows
  <1>13. flat \in Seq(Pending) /\ ToSet(flat) = UNION {ToSet(rows[k]) : k \in DOMAIN blocks}
    BY <1>11, Flattened
  (* An entry names its block by the pin, and its place in it by the sink.   *)
  <1>14. \A i \in DOMAIN blocks : \E c \in NodeIds :
            /\ nodes[c].type = "FF_CLOCK" /\ netlist.blocks[c] = blocks[i]
            /\ DOMAIN rows[i] = DOMAIN pins(blocks[i])
            /\ \A k \in DOMAIN rows[i] : rows[i][k] = [src |-> c, sink |-> pins(blocks[i])[k], delay |-> 0]
    <2> TAKE i \in DOMAIN blocks
    <2>1. blocks[i] \in {netlist.blocks[n] : n \in {m \in NodeIds : nodes[m].type = "FF_CLOCK"}}
      BY <1>5, <1>9 DEF ToSet, clocked
    <2>2. PICK c \in NodeIds : nodes[c].type = "FF_CLOCK" /\ netlist.blocks[c] = blocks[i]
      BY <2>1
    <2>3. ofBlock(blocks[i], "FF_CLOCK")[1] = c
      BY <1>8, <2>2
    <2>4. rows[i] = [k \in DOMAIN pins(blocks[i]) |-> [src |-> c, sink |-> pins(blocks[i])[k], delay |-> 0]]
      BY <1>12, <2>3 DEF row
    <2> QED
      BY <2>2, <2>4
  <1>15. \A i, j \in DOMAIN rows : \A k \in DOMAIN rows[i] : \A l \in DOMAIN rows[j] :
            rows[i][k] = rows[j][l] => i = j /\ k = l
    <2> TAKE i, j \in DOMAIN rows
    <2> TAKE k \in DOMAIN rows[i]
    <2> TAKE l \in DOMAIN rows[j]
    <2> HAVE rows[i][k] = rows[j][l]
    <2>1. i \in DOMAIN blocks /\ j \in DOMAIN blocks
      BY <1>11
    <2>2. PICK c \in NodeIds : /\ netlist.blocks[c] = blocks[i] /\ DOMAIN rows[i] = DOMAIN pins(blocks[i])
                               /\ rows[i][k] = [src |-> c, sink |-> pins(blocks[i])[k], delay |-> 0]
      BY <1>14, <2>1
    <2>3. PICK d \in NodeIds : /\ netlist.blocks[d] = blocks[j] /\ DOMAIN rows[j] = DOMAIN pins(blocks[j])
                               /\ rows[j][l] = [src |-> d, sink |-> pins(blocks[j])[l], delay |-> 0]
      BY <1>14, <2>1
    <2>4. c = d /\ pins(blocks[i])[k] = pins(blocks[j])[l]
      <3>1. rows[i][k].src = c /\ rows[i][k].sink = pins(blocks[i])[k]
        BY <2>2
      <3>2. rows[j][l].src = d /\ rows[j][l].sink = pins(blocks[j])[l]
        BY <2>3
      <3> QED
        BY <3>1, <3>2
    <2>5. i = j
      BY <1>9, <2>1, <2>2, <2>3, <2>4
    <2> QED
      BY <1>7, <2>2, <2>4, <2>5
  <1>16. \A k, l \in DOMAIN flat : flat[k] = flat[l] => k = l
    BY <1>11, <1>15, FlattenedPermutes
  <1>17. ToSet(flat) = UNION {ToSet(row(b)) : b \in clocked}
    <2>1. ToSet(flat) = UNION {ToSet(row(blocks[k])) : k \in DOMAIN blocks}
      BY <1>12, <1>13
    <2>2. clocked = {blocks[k] : k \in DOMAIN blocks}
      BY <1>9 DEF ToSet
    <2> QED
      BY <2>1, <2>2
  <1> HIDE DEF flat
  <1>18. ASSUME NEW m, NEW n PROVE Joins(flat, m, n) <=> BlockLink(netlist, m, n)
    <2>1. ASSUME Joins(flat, m, n) PROVE BlockLink(netlist, m, n)
      <3>1. PICK k \in DOMAIN flat : flat[k].src = m /\ flat[k].sink = n
        BY <2>1 DEF Joins
      <3>2. flat[k] \in ToSet(flat)
        BY DEF ToSet
      <3>3. PICK b \in clocked : flat[k] \in ToSet(row(b))
        BY <1>17, <3>2
      <3>4. PICK i \in DOMAIN pins(b) :
               flat[k] = [src |-> ofBlock(b, "FF_CLOCK")[1], sink |-> pins(b)[i], delay |-> 0]
        BY <3>3 DEF ToSet, row
      <3>5. PICK c \in NodeIds : nodes[c].type = "FF_CLOCK" /\ netlist.blocks[c] = b
        BY <1>5, <3>3 DEF clocked
      <3>6. m = c /\ n = pins(b)[i]
        BY <1>8, <3>1, <3>4, <3>5
      <3>7. n \in Members(b, "FF_SOURCE") \/ n \in Members(b, "FF_SINK")
        BY <1>7, <3>6 DEF ToSet
      <3>8. n \in NodeIds
        BY <1>3, <3>7
      <3>9. nodes[n].type \in {"FF_SOURCE", "FF_SINK"} /\ netlist.blocks[n] = b
        BY <1>4, <3>7, <3>8
      <3> QED
        BY <3>5, <3>6, <3>8, <3>9 DEF BlockLink, NodeIds
    <2>2. ASSUME BlockLink(netlist, m, n) PROVE Joins(flat, m, n)
      <3> DEFINE b == netlist.blocks[m]
      <3>1. /\ m \in NodeIds /\ n \in NodeIds /\ netlist.blocks[n] = b
            /\ nodes[m].type = "FF_CLOCK" /\ nodes[n].type \in {"FF_SOURCE", "FF_SINK"}
        BY <2>2 DEF BlockLink, NodeIds
      <3>2. b \in clocked
        BY <1>5, <3>1 DEF clocked
      <3>3. n \in ToSet(pins(b))
        BY <1>4, <1>7, <3>1
      <3>4. PICK i \in DOMAIN pins(b) : pins(b)[i] = n
        BY <3>3 DEF ToSet
      <3>5. ofBlock(b, "FF_CLOCK")[1] = m
        BY <1>8, <3>1
      <3> HIDE DEF b
      <3>6. i \in DOMAIN row(b) /\ row(b)[i].src = m /\ row(b)[i].sink = n
        BY <3>4, <3>5 DEF row
      <3>7. row(b)[i] \in ToSet(flat)
        BY <1>17, <3>2, <3>6 DEF ToSet
      <3>8. PICK k \in DOMAIN flat : flat[k] = row(b)[i]
        BY <3>7 DEF ToSet
      <3> QED
        BY <3>6, <3>8 DEF Joins
    <2> QED
      BY <2>1, <2>2
  <1>19. \A k \in DOMAIN flat : flat[k].delay = 0
    <2> TAKE k \in DOMAIN flat
    <2>1. flat[k] \in UNION {ToSet(rows[i]) : i \in DOMAIN blocks}
      BY <1>13 DEF ToSet
    <2>2. PICK i \in DOMAIN blocks : \E l \in DOMAIN rows[i] : rows[i][l] = flat[k]
      BY <2>1 DEF ToSet
    <2>3. PICK l \in DOMAIN rows[i] : rows[i][l] = flat[k]
      BY <2>2
    <2>4. PICK c \in NodeIds : rows[i][l] = [src |-> c, sink |-> pins(blocks[i])[l], delay |-> 0]
      BY <1>14, <2>3
    <2>5. rows[i][l].delay = 0
      BY <2>4
    <2> QED
      BY <2>3, <2>5
  <1> QED
    BY <1>1, <1>13, <1>18, <1>16, <1>19
-------------------------------------------------------------------------------
(* The nodes read so far are the first of the netlist, and the edges stored *)
(* and those still to be added together are its edges.                      *)
LoadedOK ==
    /\ Len(nodes) <= Len(netlist.nodes) /\ \A n \in NodeIds : nodes[n] = netlist.nodes[n]
    /\ step # "load" => Len(nodes) = Len(netlist.nodes)
    /\ todo \in Seq(Pending)
    /\ step = "levelize" => todo = <<>>
    /\ \A m, n : Stored(m, n) \/ Joins(todo, m, n) <=>
          FanoutLink(netlist, m, n) \/ (step # "load" /\ BlockLink(netlist, m, n))

Building == step \in {"load", "fixup", "levelize"}

(* Until the layout is settled, the graph is the netlist's and its levels   *)
(* are as deep as its paths; from then on it is levelized.                  *)
BInv ==
    /\ netlist \in Netlists
    /\ step \in {"load", "fixup", "levelize", "edges", "analyze"}
    /\ ~Building => stage = "levelized"
    /\ Building => IInv /\ DInv /\ LoadedOK

(* Steps that leave the graph and the netlist alone keep the reading.       *)
LEMMA LoadedUnchanged ==
    ASSUME LoadedOK, UNCHANGED <<nodes, srcOf, sinkOf, netlist, todo, step>>
    PROVE  LoadedOK'
  <1>1. NodeIds' = NodeIds /\ EdgeIds' = EdgeIds
    BY DEF NodeIds, EdgeIds
  <1>2. \A m, n : Stored(m, n)' <=> Stored(m, n)
    BY <1>1 DEF Stored
  <1> QED
    BY <1>1, <1>2 DEF LoadedOK

(* The nodes once all are read.                                             *)
LEMMA AllRead ==
    ASSUME netlist \in Netlists, GraphOK, LoadedOK, Len(nodes) = Len(netlist.nodes)
    PROVE  nodes = netlist.nodes
  <1>1. nodes \in Seq(NodeData) /\ netlist.nodes \in Seq(NodeData)
    BY NetlistFacts DEF GraphOK
  <1>2. \A n \in 1..Len(nodes) : nodes[n] = netlist.nodes[n]
    BY GraphFacts DEF LoadedOK
  <1> QED
    BY <1>1, <1>2, SeqEqual

(* Before the first node is read nothing is stored.                         *)
LEMMA BuildStart == Init => BInv
  <1> SUFFICES ASSUME Init PROVE BInv
    OBVIOUS
  <1>1. IInv /\ DInv
    BY GraphStart, DepthInitially DEF Init
  <1>2. nodes = <<>> /\ NodeIds = {} /\ EdgeIds = {} /\ step = "load" /\ netlist \in Netlists
    BY DEF Init, GraphInit, NodeIds, EdgeIds
  <1>3. Len(nodes) <= Len(netlist.nodes)
    BY <1>2, NetlistFacts
  <1>4. todo \in Seq(Pending) /\ \A m, n : Joins(todo, m, n) <=> FanoutLink(netlist, m, n)
    BY <1>2, LoadedEdges DEF Init
  <1>5. \A m, n : ~Stored(m, n)
    BY <1>2 DEF Stored
  <1>6. LoadedOK
    BY <1>2, <1>3, <1>4, <1>5 DEF LoadedOK
  <1> QED
    BY <1>1, <1>2, <1>6 DEF BInv, Building

(* Reading a node.                                                          *)
LEMMA BuildLoadNode ==
    ASSUME BInv, LoadNode
    PROVE  BInv'
  <1>1. /\ step = "load" /\ Len(nodes) < Len(netlist.nodes) /\ IInv /\ LoadedOK
        /\ UNCHANGED <<netlist, todo, step>> /\ netlist \in Netlists
    BY DEF LoadNode, BInv, Building, input
  <1> DEFINE len == Len(nodes)
             x == netlist.nodes[len + 1]
  <1>2. /\ nodes \in Seq(NodeData) /\ len \in Nat /\ NodeIds = 1..len
        /\ Len(netlist.nodes) \in Nat /\ DOMAIN netlist.nodes = 1..Len(netlist.nodes)
    BY <1>1, GraphFacts, NetlistFacts DEF IInv, GraphOK
  <1>3. len + 1 \in DOMAIN netlist.nodes /\ x \in NodeData
    <2> HIDE DEF len
    <2>1. len + 1 \in DOMAIN netlist.nodes
      BY <1>1, <1>2 DEF len
    <2> QED
      BY <1>1, <2>1, NetlistFacts
  <1>4. nodes' = Append(nodes, x) /\ UNCHANGED <<srcOf, sinkOf>> /\ stage' = "modified"
    BY DEF LoadNode, add_node
  <1>5. IInv'
    BY <1>1, <1>3, AddNodeStep DEF LoadNode
  <1> HIDE DEF x, len
  <1>6. /\ Len(nodes') = len + 1 /\ NodeIds' = 1..(len + 1)
        /\ \A i \in 1..len : nodes'[i] = nodes[i]
        /\ nodes'[len + 1] = x
    BY <1>2, <1>3, <1>4, Appended DEF len, NodeIds
  <1>7. \A n \in NodeIds' : nodes'[n] = netlist.nodes[n]
    <2> TAKE n \in NodeIds'
    <2>1. CASE n \in 1..len
      BY <1>1, <1>2, <1>6, <2>1 DEF LoadedOK
    <2>2. CASE n \notin 1..len
      <3>1. n = len + 1
        BY <1>2, <1>6, <2>2
      <3> QED
        BY <1>6, <3>1 DEF x
    <2> QED
      BY <2>1, <2>2
  <1>8. Len(nodes') <= Len(netlist.nodes)
    BY <1>1, <1>2, <1>6 DEF len
  <1>9. \A m, n : Stored(m, n)' <=> Stored(m, n)
    BY <1>4 DEF Stored, EdgeIds
  <1>10. LoadedOK'
    BY <1>1, <1>7, <1>8, <1>9 DEF LoadedOK
  <1> QED
    BY <1>1, <1>4, <1>5, <1>10 DEF BInv, Building, DInv

(* Adding the next pending edge, of the fanouts or of the clocks.           *)
LEMMA BuildLoadEdge ==
    ASSUME BInv, LoadEdge
    PROVE  BInv'
  <1>1. /\ step \in {"load", "fixup"} /\ IInv /\ LoadedOK /\ netlist \in Netlists
        /\ UNCHANGED <<netlist, step>>
        /\ todo # <<>> /\ todo' = Tail(todo) /\ add_edge(Head(todo).src, Head(todo).sink)
    BY DEF LoadEdge, BInv, Building, input
  <1> DEFINE a == Head(todo).src
             b == Head(todo).sink
  <1>2. /\ a \in NodeIds /\ b \in NodeIds /\ srcOf' = Append(srcOf, a) /\ sinkOf' = Append(sinkOf, b)
        /\ UNCHANGED nodes /\ stage' = "modified"
    BY <1>1 DEF add_edge
  <1>3. IInv'
    BY <1>1, <1>2, AddEdgeStep
  <1>4. /\ srcOf \in Seq(NodeIds) /\ sinkOf \in Seq(NodeIds) /\ Len(sinkOf) = Len(srcOf)
        /\ EdgeIds = 1..Len(srcOf) /\ Len(srcOf) \in Nat
    BY <1>1, GraphFacts DEF IInv, GraphOK
  <1>5. /\ EdgeIds' = 1..(Len(srcOf) + 1)
        /\ \A e \in EdgeIds : srcOf'[e] = srcOf[e] /\ sinkOf'[e] = sinkOf[e]
        /\ srcOf'[Len(srcOf) + 1] = a /\ sinkOf'[Len(srcOf) + 1] = b
    <2> HIDE DEF a, b
    <2> QED
      BY <1>2, <1>4, Appended DEF EdgeIds
  <1> DEFINE new == Len(srcOf) + 1
  <1>6. new \in EdgeIds' /\ \A e \in EdgeIds' : e \in EdgeIds \/ e = new
    BY <1>4, <1>5
  <1>7. EdgeIds \subseteq EdgeIds'
    BY <1>4, <1>5
  <1>8. \A m, n : Stored(m, n)' <=> Stored(m, n) \/ (m = a /\ n = b)
    <2> HIDE DEF a, b, new
    <2>1. srcOf'[new] = a /\ sinkOf'[new] = b
      BY <1>5 DEF new
    <2> QED
      BY <1>5, <1>6, <1>7, <2>1 DEF Stored
  <1>9. todo \in Seq(Pending) /\ Len(todo) \in Nat /\ Len(todo) >= 1 /\ DOMAIN todo = 1..Len(todo)
    <2>1. todo \in Seq(Pending)
      BY <1>1 DEF LoadedOK
    <2> QED
      BY <1>1, <2>1, LenProperties, EmptySeq
  <1>10. /\ todo' \in Seq(Pending) /\ DOMAIN todo' = 1..(Len(todo) - 1)
         /\ \A k \in 1..(Len(todo) - 1) : todo'[k] = todo[k + 1]
    <2>1. todo' \in Seq(Pending) /\ Len(todo') = Len(todo) - 1
          /\ \A k \in 1..Len(todo') : todo'[k] = todo[k + 1]
      BY <1>1, <1>9, HeadTailProperties
    <2> QED
      BY <2>1, LenProperties
  <1>11. \A m, n : Joins(todo, m, n) <=> Joins(todo', m, n) \/ (m = a /\ n = b)
    <2>1. todo[1].src = a /\ todo[1].sink = b /\ 1 \in DOMAIN todo
      BY <1>9
    <2> HIDE DEF a, b
    <2>2. \A k \in DOMAIN todo : k = 1 \/ (k - 1 \in DOMAIN todo' /\ todo'[k - 1] = todo[k])
      <3> TAKE k \in DOMAIN todo
      <3>1. k # 1 => k - 1 \in 1..(Len(todo) - 1) /\ (k - 1) + 1 = k
        BY <1>9
      <3> QED
        BY <1>10, <3>1
    <2>3. \A k \in DOMAIN todo' : k + 1 \in DOMAIN todo /\ todo'[k] = todo[k + 1]
      BY <1>9, <1>10
    <2> QED
      BY <2>1, <2>2, <2>3 DEF Joins
  <1>12. LoadedOK'
    <2> HIDE DEF a, b
    <2>1. NodeIds' = NodeIds
      BY <1>2 DEF NodeIds
    <2>2. \A m, n : Stored(m, n)' \/ Joins(todo', m, n) <=> Stored(m, n) \/ Joins(todo, m, n)
      BY <1>8, <1>11
    <2>3. \A m, n : Joins(todo, m, n)' <=> Joins(todo', m, n)
      BY DEF Joins
    <2> QED
      BY <1>1, <1>2, <1>10, <2>1, <2>2, <2>3 DEF LoadedOK
  <1> QED
    BY <1>1, <1>2, <1>3, <1>12 DEF BInv, Building, DInv

(* Listing the clock edges of the blocks.                                   *)
LEMMA BuildClockEdges ==
    ASSUME BInv, add_ff_clock_to_source_sink_edges
    PROVE  BInv'
  <1>1. /\ step = "load" /\ Len(nodes) = Len(netlist.nodes) /\ todo = <<>>
        /\ todo' = ClockEdges /\ step' = "fixup" /\ UNCHANGED graphVars /\ UNCHANGED netlist
        /\ IInv /\ DInv /\ LoadedOK /\ netlist \in Netlists
    BY DEF add_ff_clock_to_source_sink_edges, BInv, Building, input
  <1>2. IInv' /\ DInv'
    BY <1>1, GraphStep, DepthStep
  <1>3. UNCHANGED <<nodes, srcOf, sinkOf>> /\ NodeIds' = NodeIds /\ EdgeIds' = EdgeIds
    BY <1>1 DEF graphVars, graphData, NodeIds, EdgeIds
  <1>4. nodes = netlist.nodes
    BY <1>1, AllRead DEF IInv
  <1>5. ClockEdges \in Seq(Pending) /\ \A m, n : Joins(ClockEdges, m, n) <=> BlockLink(netlist, m, n)
    BY <1>1, <1>4, ClockEdgesListed
  <1>6. \A m, n : ~Joins(todo, m, n)
    BY <1>1 DEF Joins
  <1>7. \A m, n : Stored(m, n)' \/ Joins(todo', m, n) <=> FanoutLink(netlist, m, n) \/ BlockLink(netlist, m, n)
    <2>1. \A m, n : Stored(m, n)' <=> Stored(m, n)
      BY <1>3 DEF Stored
    <2>2. \A m, n : Stored(m, n) <=> FanoutLink(netlist, m, n)
      BY <1>1, <1>6 DEF LoadedOK
    <2> QED
      BY <1>1, <1>5, <2>1, <2>2
  <1>8. LoadedOK'
    <2>1. \A m, n : Joins(todo, m, n)' <=> Joins(todo', m, n)
      BY DEF Joins
    <2> QED
      BY <1>1, <1>3, <1>5, <1>7, <2>1 DEF LoadedOK
  <1> QED
    BY <1>1, <1>2, <1>8 DEF BInv, Building

(* Starting levelize(), early or in its turn.                               *)
LEMMA BuildLevelize ==
    ASSUME BInv, LevelizeEarly \/ Levelize
    PROVE  BInv'
  <1>1. /\ BeginLevelize /\ UNCHANGED netlist /\ UNCHANGED todo /\ netlist \in Netlists
        /\ step \in {"load", "fixup"} /\ IInv /\ LoadedOK
        /\ step' = step \/ (step = "fixup" /\ step' = "levelize" /\ todo = <<>>)
    BY DEF LevelizeEarly, Levelize, BInv, Building, input
  <1>2. IInv' /\ DInv'
    BY <1>1, BeginStep, DepthBegin
  <1>3. UNCHANGED <<nodes, srcOf, sinkOf>> /\ NodeIds' = NodeIds /\ EdgeIds' = EdgeIds
    BY <1>1 DEF BeginLevelize, graphData, NodeIds, EdgeIds
  <1>4. LoadedOK'
    <2>1. \A m, n : (Stored(m, n)' <=> Stored(m, n)) /\ (Joins(todo, m, n)' <=> Joins(todo, m, n))
      BY <1>1, <1>3 DEF Stored, Joins
    <2>2. (step' # "load" <=> step # "load") /\ (step' = "levelize" => todo = <<>>)
      BY <1>1
    <2> QED
      BY <1>1, <1>3, <2>1, <2>2 DEF LoadedOK
  <1> QED
    BY <1>1, <1>2, <1>4 DEF BInv, Building

(* A levelized graph is not walked again before it is changed.              *)
LEMMA NoWalkOnceLevelized ==
    ASSUME stage = "levelized"
    PROVE  ~LevelizeStep
  BY DEF LevelizeStep, CountFanin, StartWalk, TraverseEdge, LeaveNode, LeaveLevel, AtNode

(* A step of the walk.                                                      *)
LEMMA BuildWalk ==
    ASSUME BInv, WalkGraph
    PROVE  BInv'
  <1>1. LevelizeStep /\ UNCHANGED <<netlist, todo, step>>
    BY DEF WalkGraph, input
  <1>2. Building /\ IInv /\ DInv /\ LoadedOK /\ netlist \in Netlists
    BY <1>1, NoWalkOnceLevelized DEF BInv
  <1>3. IInv' /\ DInv'
    BY <1>1, <1>2, GraphStep, DepthStep DEF GraphNext
  <1>4. UNCHANGED <<nodes, srcOf, sinkOf>>
    BY <1>1 DEF LevelizeStep, CountFanin, StartWalk, TraverseEdge, LeaveNode, LeaveLevel, graphData
  <1>5. LoadedOK'
    BY <1>1, <1>2, <1>4, LoadedUnchanged
  <1> QED
    BY <1>1, <1>2, <1>3, <1>5 DEF BInv, Building

(* The pipeline leaves this invariant alone.                                *)
LEMMA BuildStep == BInv /\ [Next]_vars => BInv'
  <1> SUFFICES ASSUME BInv, [Next]_vars
               PROVE  BInv'
    OBVIOUS
  <1>1. CASE LoadNode
    BY <1>1, BuildLoadNode
  <1>2. CASE LoadEdge
    BY <1>2, BuildLoadEdge
  <1>3. CASE LevelizeEarly \/ Levelize
    BY <1>3, BuildLevelize
  <1>4. CASE add_ff_clock_to_source_sink_edges
    BY <1>4, BuildClockEdges
  <1>5. CASE WalkGraph
    BY <1>5, BuildWalk
  <1>6. CASE OptimizeEdges
    <2>1. stage = "levelized" /\ stage' = stage /\ step' = "edges" /\ netlist' = netlist
      BY <1>6 DEF OptimizeEdges, optimize_edge_layout, input
    <2> QED
      BY <2>1 DEF BInv, Building
  <1>7. CASE OptimizeNodes
    <2>1. stage = "levelized" /\ stage' = stage /\ step' = "analyze" /\ netlist' = netlist
      BY <1>7 DEF OptimizeNodes, optimize_node_layout, input
    <2> QED
      BY <2>1 DEF BInv, Building
  <1>8. CASE KeepLayout
    <2>1. stage = "levelized" /\ stage' = stage /\ step' = "analyze" /\ netlist' = netlist
      BY <1>8 DEF KeepLayout, graphVars, input
    <2> QED
      BY <2>1 DEF BInv, Building
  <1>9. CASE Analyze
    <2>1. UNCHANGED <<netlist, step>> /\ step = "analyze"
      BY <1>9 DEF Analyze, input
    <2>2. UNCHANGED graphVars
      BY <1>9, HandlerFacts DEF Analyze, StartAnalysis, calculate_timing, NextLevel
    <2> QED
      BY <2>1, <2>2 DEF BInv, Building, graphVars
  <1>10. CASE UNCHANGED vars
    <2>1. UNCHANGED graphVars /\ UNCHANGED <<netlist, todo, step>>
      BY <1>10 DEF vars, input
    <2>2. Building => IInv' /\ DInv' /\ LoadedOK'
      <3>1. UNCHANGED <<nodes, srcOf, sinkOf>>
        BY <2>1 DEF graphVars, graphData
      <3> QED
        BY <2>1, <3>1, GraphStep, DepthStep, LoadedUnchanged DEF BInv
    <2> QED
      BY <2>1, <2>2 DEF BInv, Building, graphVars
  <1> QED
    BY <1>1, <1>2, <1>3, <1>4, <1>5, <1>6, <1>7, <1>8, <1>9, <1>10 DEF Next
-------------------------------------------------------------------------------
(* The edges of the netlist, by their ends.                                 *)
LEMMA EdgesJoin ==
    ASSUME netlist \in Netlists
    PROVE  \A m, n : (\E e \in Edges : e.src = m /\ e.sink = n) <=>
              FanoutLink(netlist, m, n) \/ BlockLink(netlist, m, n)
  <1> TAKE m, n
  <1>1. FanoutLink(netlist, m, n) => \E e \in Edges : e.src = m /\ e.sink = n
    <2> SUFFICES ASSUME m \in Orig, NEW k \in DOMAIN netlist.fanouts[m], netlist.fanouts[m][k].sink = n
                 PROVE  \E e \in Edges : e.src = m /\ e.sink = n
      BY DEF FanoutLink, Orig
    <2> DEFINE e == [src |-> m, sink |-> netlist.fanouts[m][k].sink,
                     delay |-> netlist.fanouts[m][k].delay, nth |-> k]
    <2>1. e \in FanoutEdges
      BY DEF FanoutEdges
    <2>2. e.src = m /\ e.sink = n
      OBVIOUS
    <2> HIDE DEF e
    <2> QED
      BY <2>1, <2>2 DEF Edges
  <1>2. BlockLink(netlist, m, n) => \E e \in Edges : e.src = m /\ e.sink = n
    <2> SUFFICES ASSUME BlockLink(netlist, m, n)
                 PROVE  \E e \in Edges : e.src = m /\ e.sink = n
      OBVIOUS
    <2> DEFINE e == [src |-> m, sink |-> n, delay |-> 0, nth |-> 0]
               p == <<m, n>>
    <2>1. /\ p \in Orig \X Orig /\ netlist.blocks[p[1]] = netlist.blocks[p[2]]
          /\ TypeOf(p[1]) = "FF_CLOCK" /\ TypeOf(p[2]) \in {"FF_SOURCE", "FF_SINK"}
      BY DEF BlockLink, Orig, TypeOf
    <2>2. e = [src |-> p[1], sink |-> p[2], delay |-> 0, nth |-> 0]
      OBVIOUS
    <2>3. e.src = m /\ e.sink = n
      OBVIOUS
    <2> HIDE DEF e, p
    <2>4. e \in BlockEdges
      BY <2>1, <2>2 DEF BlockEdges
    <2> QED
      BY <2>3, <2>4 DEF Edges
  <1>3. ASSUME NEW e \in FanoutEdges PROVE FanoutLink(netlist, e.src, e.sink)
    <2>1. PICK i \in Orig : \E k \in DOMAIN netlist.fanouts[i] :
             e = [src |-> i, sink |-> netlist.fanouts[i][k].sink,
                  delay |-> netlist.fanouts[i][k].delay, nth |-> k]
      BY <1>3 DEF FanoutEdges
    <2> QED
      BY <2>1 DEF FanoutLink, Orig
  <1>4. ASSUME NEW e \in BlockEdges PROVE BlockLink(netlist, e.src, e.sink)
    <2>1. PICK p \in Orig \X Orig :
             /\ netlist.blocks[p[1]] = netlist.blocks[p[2]] /\ TypeOf(p[1]) = "FF_CLOCK"
             /\ TypeOf(p[2]) \in {"FF_SOURCE", "FF_SINK"}
             /\ e = [src |-> p[1], sink |-> p[2], delay |-> 0, nth |-> 0]
      BY <1>4 DEF BlockEdges
    <2>2. e.src = p[1] /\ e.sink = p[2]
      BY <2>1
    <2> QED
      BY <2>1, <2>2 DEF BlockLink, Orig, TypeOf
  <1> QED
    BY <1>1, <1>2, <1>3, <1>4 DEF Edges

(* A sequence without positions is the empty one.                           *)
LEMMA NoPositions ==
    ASSUME NEW S, NEW s \in Seq(S)
    PROVE  s = <<>> <=> DOMAIN s = {}
  <1> DEFINE len == Len(s)
  <1>1. len \in Nat /\ DOMAIN s = 1..len
    BY LenProperties
  <1>2. s = <<>> <=> len = 0
    BY EmptySeq
  <1> HIDE DEF len
  <1>3. 1..len = {} <=> len = 0
    BY <1>1
  <1> QED
    BY <1>1, <1>2, <1>3

(* Where levelize() ends, the graph is the netlist's, and the nodes up to a *)
(* level are those with no longer path up.                                  *)
LEMMA BuiltGraph ==
    ASSUME BInv, step = "levelize", stage = "levelized"
    PROVE  /\ nodes = netlist.nodes /\ NodeIds = Orig /\ Len(nodes) = Len(netlist.nodes)
           /\ \A m, n : Stored(m, n) <=> \E e \in Edges : e.src = m /\ e.sink = n
           /\ \A k \in Nat : UpTo(k) = {n \in NodeIds : \E l \in DOMAIN levels : l <= k /\ OnLevel(n, l)}
           /\ \A n \in NodeIds : \A l \in DOMAIN levels : OnLevel(n, l) => l \in 1..Len(netlist.nodes)
           /\ Len(netlist.nodes) \in Nat /\ LoopFree = {n \in NodeIds : Placed(n)}
  <1>1. IInv /\ DInv /\ LoadedOK /\ GraphOK /\ netlist \in Netlists /\ LevelsAreTopological
    BY DEF BInv, Building, IInv
  <1>2. DepthOK /\ OutputsOK /\ EndOK /\ levels \in Seq(Seq(NodeIds))
    BY <1>1 DEF DInv, IInv
  <1>3. nodes = netlist.nodes /\ NodeIds = Orig /\ Len(nodes) = Len(netlist.nodes)
    <2>1. nodes = netlist.nodes
      BY <1>1, AllRead DEF LoadedOK
    <2> QED
      BY <2>1 DEF NodeIds, Orig
  <1>4. /\ NodeIds = 1..Len(nodes) /\ Len(nodes) \in Nat
        /\ \A e \in EdgeIds : srcOf[e] \in NodeIds /\ sinkOf[e] \in NodeIds
    BY <1>1, GraphFacts
  <1>5. \A m, n : Stored(m, n) <=> \E e \in Edges : e.src = m /\ e.sink = n
    <2>1. \A m, n : ~Joins(todo, m, n)
      BY <1>1 DEF LoadedOK, Joins
    <2>2. \A m, n : Stored(m, n) <=> FanoutLink(netlist, m, n) \/ BlockLink(netlist, m, n)
      BY <1>1, <2>1 DEF LoadedOK
    <2> QED
      BY <1>1, <2>2, EdgesJoin
  <1> DEFINE sources == [n \in Orig |-> {e.src : e \in EdgesInto(n)}]
             N == Len(netlist.nodes)
  <1>6. \A n \in NodeIds : sources[n] = {srcOf[e] : e \in {x \in EdgeIds : sinkOf[x] = n}}
    <2> TAKE n \in NodeIds
    <2>1. sources[n] = {e.src : e \in EdgesInto(n)}
      BY <1>3
    <2>2. \A m : (\E e \in EdgesInto(n) : e.src = m) <=> Stored(m, n)
      BY <1>5 DEF EdgesInto
    <2>3. \A m : m \in {srcOf[e] : e \in {x \in EdgeIds : sinkOf[x] = n}} <=> Stored(m, n)
      BY DEF Stored
    <2>4. \A m : m \in {e.src : e \in EdgesInto(n)} <=> Stored(m, n)
      BY <2>2
    <2> QED
      BY <2>1, <2>3, <2>4
  <1>7. \A k \in Nat : UpTo(k) = {n \in NodeIds : \E l \in DOMAIN levels : l <= k /\ OnLevel(n, l)}
    <2> TAKE k \in Nat
    <2>1. DOMAIN sources = NodeIds
      BY <1>3
    <2>2. UpTo(k) = NodesUpTo(sources, k)
      BY DEF UpTo
    <2> HIDE DEF sources
    <2> QED
      BY <1>1, <1>6, <2>1, <2>2, LevelsAreUpTo
  <1> HIDE DEF sources
  <1>8. /\ DOMAIN levels = 1..Len(levels) /\ Len(levels) \in Nat
        /\ \A n \in NodeIds : \A l, j \in DOMAIN levels : OnLevel(n, l) /\ OnLevel(n, j) => l = j
    BY <1>1, <1>2, LevelFacts DEF LevelsAreTopological, OnLevel
  <1>9. \A n \in NodeIds : \A l \in DOMAIN levels : OnLevel(n, l) => l \in 1..N
    BY <1>1, <1>3, LevelsWithinNodes
  <1>10. N \in Nat /\ LoopFree = {n \in NodeIds : Placed(n)}
    <2>1. N \in Nat /\ LoopFree = UpTo(N)
      BY <1>3, <1>4 DEF LoopFree
    <2>2. \A n \in NodeIds : \A l \in DOMAIN levels : OnLevel(n, l) => l <= N
      BY <1>9
    <2> QED
      BY <1>7, <2>1, <2>2 DEF Placed
  <1> QED
    BY <1>3, <1>5, <1>7, <1>9, <1>10

(* Where levelize() ends, a node is as deep as the netlist says.            *)
LEMMA BuiltLevelsAreDepths == BInv => LevelsAreDepths
  <1> SUFFICES ASSUME BInv, step = "levelize", stage = "levelized"
               PROVE  LevelsAreDepths
    BY DEF LevelsAreDepths
  <1>1. IInv /\ DInv /\ LoadedOK /\ GraphOK /\ LevelsAreTopological
    BY DEF BInv, Building, IInv
  <1>2. DepthOK /\ OutputsOK /\ EndOK /\ levels \in Seq(Seq(NodeIds))
    BY <1>1 DEF DInv, IInv
  <1> DEFINE N == Len(netlist.nodes)
  <1>3. nodes = netlist.nodes /\ NodeIds = Orig
    BY BuiltGraph
  <1>4. \A m, n : Stored(m, n) <=> \E e \in Edges : e.src = m /\ e.sink = n
    BY BuiltGraph
  <1>5. \A k \in Nat : UpTo(k) = {n \in NodeIds : \E l \in DOMAIN levels : l <= k /\ OnLevel(n, l)}
    BY BuiltGraph
  <1>6. /\ DOMAIN levels = 1..Len(levels) /\ Len(levels) \in Nat
        /\ \A n \in NodeIds : \A l, j \in DOMAIN levels : OnLevel(n, l) /\ OnLevel(n, j) => l = j
    BY <1>1, <1>2, LevelFacts DEF LevelsAreTopological, OnLevel
  <1>7. \A n \in NodeIds : \A l \in DOMAIN levels : OnLevel(n, l) => l \in 1..N
    BY BuiltGraph
  <1>8. N \in Nat /\ LoopFree = {n \in NodeIds : Placed(n)}
    BY BuiltGraph
  <1> DEFINE upTo == [k \in 0..N |-> UpTo(k)]
             least(n) == Min({k \in DOMAIN upTo : n \in upTo[k]})
  <1>9. Depths = [n \in LoopFree |-> least(n) - 1]
    BY DEF Depths
  <1>10. ASSUME NEW n \in NodeIds, NEW l \in DOMAIN levels, OnLevel(n, l) PROVE least(n) = l
    <2> DEFINE T == {k \in DOMAIN upTo : n \in upTo[k]}
    <2>1. \A k \in Nat : n \in UpTo(k) <=> l <= k
      BY <1>5, <1>6, <1>10
    <2>2. l \in 1..N
      BY <1>7, <1>10
    <2>3. T = {k \in 0..N : l <= k}
      BY <1>8, <2>1
    <2> HIDE DEF T
    <2>4. T \in SUBSET Nat /\ l \in T /\ T # {}
      BY <1>8, <2>2, <2>3
    <2>5. Min(T) \in T /\ Min(T) <= l
      BY <2>4, LeastMember
    <2>6. Min(T) = l
      BY <1>8, <2>2, <2>3, <2>5
    <2> QED
      BY <2>6 DEF T
  <1> HIDE DEF least, upTo, N
  <1>11. DOMAIN Depths = LoopFree /\ \A n \in LoopFree : Depths[n] = least(n) - 1
    BY <1>9
  <1>12. ASSUME NEW n \in NodeIds, NEW l \in DOMAIN levels
         PROVE  OnLevel(n, l) <=> n \in DOMAIN Depths /\ l = Depths[n] + 1
    <2>1. CASE Placed(n)
      <3>1. PICK j \in DOMAIN levels : OnLevel(n, j)
        BY <2>1 DEF Placed
      <3>2. n \in LoopFree /\ Depths[n] = j - 1
        BY <1>8, <1>10, <1>11, <2>1, <3>1
      <3>3. j = Depths[n] + 1
        BY <1>6, <3>2
      <3> QED
        BY <1>6, <1>11, <3>1, <3>2, <3>3
    <2>2. CASE ~Placed(n)
      BY <1>8, <1>11, <2>2 DEF Placed
    <2> QED
      BY <2>1, <2>2
  <1>13. ASSUME NEW n \in DOMAIN Depths PROVE nodeLevels[n] = Depths[n]
    <2>1. n \in NodeIds /\ Placed(n)
      BY <1>8, <1>11
    <2>2. PICK j \in DOMAIN levels : OnLevel(n, j)
      BY <2>1 DEF Placed
    <2> QED
      BY <1>2, <1>10, <1>11, <2>1, <2>2 DEF DepthOK
  <1> DEFINE ends == {n \in DOMAIN Depths : EdgesFrom(n) = {} /\ is_sink(TypeOf(n))}
  <1>14. ASSUME NEW n \in NodeIds PROVE EdgesFrom(n) = {} <=> outEdges[n] = <<>>
    <2>1. EdgesFrom(n) = {} <=> \A e \in EdgeIds : srcOf[e] # n
      <3>1. EdgesFrom(n) = {} <=> \A m : ~\E e \in Edges : e.src = n /\ e.sink = m
        BY DEF EdgesFrom
      <3>2. (\A m : ~Stored(n, m)) <=> \A e \in EdgeIds : srcOf[e] # n
        BY DEF Stored
      <3> QED
        BY <1>4, <3>1, <3>2
    <2>2. outEdges[n] = <<>> <=> DOMAIN outEdges[n] = {}
      <3>1. outEdges[n] \in Seq(Nat)
        BY <1>1, GraphFacts
      <3> QED
        BY <3>1, NoPositions
    <2>3. ASSUME DOMAIN outEdges[n] = {}, NEW e \in EdgeIds PROVE srcOf[e] # n
      BY <1>1, <2>3 DEF GraphOK, Listing
    <2>4. ASSUME NEW i \in DOMAIN outEdges[n] PROVE \E e \in EdgeIds : srcOf[e] = n
      <3>1. Listing(NodeIds, EdgeIds, outEdges, srcOf)
        BY <1>1 DEF GraphOK
      <3>2. outEdges[n][i] \in EdgeIds /\ srcOf[outEdges[n][i]] = n
        BY <3>1, Zenon DEF Listing
      <3> QED
        BY <3>2, Zenon
    <2> QED
      BY <2>1, <2>2, <2>3, <2>4
  <1>15. \A n : n \in ends <=> \E i \in DOMAIN primaryOutputs : primaryOutputs[i] = n
    <2> TAKE n
    <2>1. (\E i \in DOMAIN primaryOutputs : primaryOutputs[i] = n) => n \in NodeIds
      BY <1>2, LenProperties, ElementOfSeq DEF OutputsOK
    <2>2. n \in ends => n \in NodeIds
      BY <1>8, <1>11
    <2>3. ASSUME n \in NodeIds PROVE n \in ends <=> (outEdges[n] = <<>> /\ is_sink(nodes[n].type) /\ Done(n))
      BY <1>3, <1>8, <1>11, <1>14, <2>3 DEF TypeOf, Done
    <2> QED
      BY <1>2, <2>1, <2>2, <2>3 DEF OutputsOK
  <1>16. primaryOutputs \in SetToSeqs(ends)
    <2> DEFINE len == Len(primaryOutputs)
    <2>1. len \in Nat /\ DOMAIN primaryOutputs = 1..len /\ primaryOutputs \in Seq(NodeIds)
      BY <1>2, LenProperties DEF OutputsOK
    <2> HIDE DEF ends, len
    <2>2. primaryOutputs \in [1..len -> ends]
      <3>1. primaryOutputs = [i \in 1..len |-> primaryOutputs[i]]
        BY <2>1 DEF len
      <3>2. \A i \in 1..len : primaryOutputs[i] \in ends
        BY <1>15, <2>1
      <3> QED
        BY <3>1, <3>2
    <2>3. \A i, j \in 1..len : primaryOutputs[i] = primaryOutputs[j] => i = j
      BY <1>2, <2>1 DEF OutputsOK
    <2>4. \A n \in ends : \E i \in 1..len : primaryOutputs[i] = n
      BY <1>15, <2>1
    <2>5. primaryOutputs \in Bijection(1..len, ends)
      BY <2>2, <2>3, <2>4, Zenon DEF Bijection, Injection, Surjection, IsInjective
    <2>6. Cardinality(ends) = len
      BY <2>1, <2>5, Counted, FS_Bijection DEF ExistsBijection
    <2> QED
      BY <2>2, <2>3, <2>6 DEF SetToSeqs
  <1> QED
    BY <1>3, <1>12, <1>13, <1>16 DEF LevelsAreDepths

(* levelize() in the pipeline, for every netlist, with loops or without,    *)
(* levelized before its clock edges were added or not, laid out anew or     *)
(* not: exactly the nodes off the loops are placed, each as deep as its     *)
(* longest path has edges, and the sinks among them are found, once each.   *)
THEOREM DepthsAreExact == Spec => []LevelsAreDepths
  BY BuildStart, BuildStep, BuiltLevelsAreDepths, PTL DEF Spec

(* levelize()'s counters in the pipeline, with the layout or without, where *)
(* the graph may be levelized before and again after the clock edges were   *)
(* added.                                                                   *)
THEOREM PipelineCountersAreExact == Spec => []FaninIsExact
  <1>1. BInv => FaninIsExact
    BY DEF BInv, IInv, FaninIsExact
  <1> QED
    BY <1>1, BuildStart, BuildStep, PTL DEF Spec
-------------------------------------------------------------------------------
(* Renumbering by an order is its inverse.                                  *)
LEMMA RenumberingInverts ==
    ASSUME NEW S, NEW order, Permutes(order, S)
    PROVE  /\ Renumbering(S, order) \in [S -> DOMAIN order]
           /\ \A k \in DOMAIN order : order[k] \in S /\ Renumbering(S, order)[order[k]] = k
           /\ \A x \in S : order[Renumbering(S, order)[x]] = x
  <1> DEFINE Place(x) == CHOOSE k \in DOMAIN order : order[k] = x
  <1>1. \A k \in DOMAIN order : order[k] \in S
    BY LenProperties, ElementOfSeq DEF Permutes
  <1>2. \A x \in S : Place(x) \in DOMAIN order /\ order[Place(x)] = x
    BY DEF Permutes
  <1>3. \A k \in DOMAIN order : Place(order[k]) = k
    BY <1>1, <1>2 DEF Permutes
  <1>4. Renumbering(S, order) = [x \in S |-> Place(x)]
    BY DEF Permutes, Renumbering
  <1> HIDE DEF Place
  <1> QED
    BY <1>1, <1>2, <1>3, <1>4

(* Ids in another order are as many.                                        *)
LEMMA PermutedLength ==
    ASSUME NEW n \in Nat, NEW order, Permutes(order, 1..n)
    PROVE  Len(order) = n /\ DOMAIN order = 1..n
  <1> DEFINE len == Len(order)
  <1>1. len \in Nat /\ DOMAIN order = 1..len /\ \A k \in 1..len : order[k] \in 1..n
    BY LenProperties, ElementOfSeq DEF Permutes
  <1>2. order \in Bijection(1..len, 1..n)
    <2> DEFINE D == 1..len
               S == 1..n
    <2>1. order = [k \in D |-> order[k]]
      BY <1>1 DEF Permutes
    <2> HIDE DEF D, S
    <2>2. order \in [D -> S]
      BY <1>1, <2>1 DEF D, S
    <2>3. \A x \in S : \E k \in D : order[k] = x
      BY <1>1 DEF Permutes, D, S
    <2>4. \A k, l \in D : order[k] = order[l] => k = l
      BY <1>1 DEF Permutes, D, S
    <2>5. order \in Bijection(D, S)
      BY <2>2, <2>3, <2>4, Zenon DEF Bijection, Injection, Surjection, IsInjective
    <2> QED
      BY <2>5 DEF D, S
  <1>3. Cardinality(1..len) = Cardinality(1..n)
    BY <1>1, <1>2, Counted, FS_Bijection DEF ExistsBijection
  <1> HIDE DEF len
  <1>4. len = n
    BY <1>1, <1>3, Counted
  <1> QED
    BY <1>1, <1>4 DEF len

(* Flattening and renumbering may change places.                            *)
LEMMA FlattenRenumbered ==
    ASSUME NEW V, NEW seqs \in Seq(Seq(V)), NEW map
    PROVE  FlattenSeq(AllRenumbered(seqs, map)) = Renumbered(FlattenSeq(seqs), map)
  <1> DEFINE n == Len(seqs)
             lens == [i \in 1..n |-> Len(seqs[i])]
             new == AllRenumbered(seqs, map)
             flat == FlattenSeq(seqs)
             W == {map[x] : x \in V}
  <1>1. n \in Nat /\ DOMAIN seqs = 1..n
        /\ \A i \in 1..n : seqs[i] \in Seq(V) /\ Len(seqs[i]) \in Nat /\ DOMAIN seqs[i] = 1..Len(seqs[i])
    BY LenProperties, ElementOfSeq
  <1>2. lens \in [1..n -> Nat] /\ \A i \in 1..n : lens[i] = Len(seqs[i]) /\ DOMAIN seqs[i] = 1..lens[i]
    BY <1>1
  <1>3. \A i \in 1..n : /\ Renumbered(seqs[i], map) \in [1..lens[i] -> W]
                        /\ \A k \in 1..lens[i] : Renumbered(seqs[i], map)[k] = map[seqs[i][k]]
    <2> TAKE i \in 1..n
    <2>1. \A k \in 1..lens[i] : seqs[i][k] \in V
      BY <1>1, <1>2, ElementOfSeq
    <2> QED
      BY <1>2, <2>1 DEF Renumbered
  <1>4. /\ new = [i \in 1..n |-> Renumbered(seqs[i], map)]
        /\ \A i \in 1..n : new[i] \in Seq(W) /\ Len(new[i]) = lens[i]
    <2>1. new = [i \in 1..n |-> Renumbered(seqs[i], map)]
      BY <1>1 DEF AllRenumbered
    <2> HIDE DEF new, lens
    <2>2. ASSUME NEW i \in 1..n PROVE new[i] \in Seq(W) /\ Len(new[i]) = lens[i]
      <3>1. new[i] \in [1..lens[i] -> W] /\ lens[i] \in Nat
        BY <1>2, <1>3, <2>1
      <3> HIDE DEF n, W
      <3> DEFINE row == new[i]
                 m == lens[i]
      <3>10. row \in [1..m -> W] /\ m \in Nat
        BY <3>1
      <3> HIDE DEF row, m
      <3>11. row \in Seq(W)
        BY <3>10
      <3>2. new[i] \in Seq(W)
        BY <3>11 DEF row
      <3>3. DOMAIN new[i] = 1..lens[i] /\ DOMAIN new[i] = 1..Len(new[i]) /\ Len(new[i]) \in Nat
        BY <3>1, <3>2, LenProperties
      <3> QED
        BY <3>1, <3>2, <3>3
    <2> QED
      BY <2>1, <2>2
  <1>5. new \in Seq(Seq(W)) /\ Len(new) = n
    <2> HIDE DEF new, lens, n
    <2>1. new \in [1..n -> Seq(W)] /\ DOMAIN new = 1..n
      BY <1>4
    <2>2. new \in Seq(Seq(W))
      <3>1. n \in Nat
        BY <1>1
      <3> DEFINE S == Seq(W)
      <3>2. new \in [1..n -> S]
        BY <2>1
      <3> HIDE DEF S
      <3>3. new \in Seq(S)
        BY <3>1, <3>2
      <3> QED
        BY <3>3 DEF S
    <2>3. DOMAIN new = 1..Len(new) /\ Len(new) \in Nat
      BY <2>2, LenProperties
    <2> QED
      BY <1>1, <2>1, <2>2, <2>3
  <1>6. PICK at : Places(at, n, lens)
    BY <1>1, <1>2, PlacesExist
  <1>7. Len(flat) = at[n] /\ \A i \in 1..n : \A k \in 1..lens[i] : flat[at[i - 1] + k] = seqs[i][k]
    BY <1>2, <1>6, FlattenedPlaces
  <1>8. lens = [i \in 1..Len(new) |-> Len(new[i])]
    BY <1>2, <1>4, <1>5
  <1>9. /\ Len(FlattenSeq(new)) = at[n]
        /\ \A i \in 1..n : \A k \in 1..lens[i] : FlattenSeq(new)[at[i - 1] + k] = map[seqs[i][k]]
    <2> HIDE DEF new, lens, n
    <2>1. Places(at, Len(new), [i \in 1..Len(new) |-> Len(new[i])])
      BY <1>5, <1>6, <1>8
    <2>2. /\ Len(FlattenSeq(new)) = at[Len(new)]
          /\ \A i \in 1..Len(new) : \A k \in 1..Len(new[i]) : FlattenSeq(new)[at[i - 1] + k] = new[i][k]
      <3>1. new \in Seq(Seq(W))
        BY <1>5
      <3> QED
        BY <2>1, <3>1, FlattenedPlaces
    <2>3. \A i \in 1..n : \A k \in 1..lens[i] : new[i][k] = map[seqs[i][k]]
      BY <1>3, <1>4
    <2>4. Len(new) = n /\ \A i \in 1..n : Len(new[i]) = lens[i]
      BY <1>4, <1>5
    <2>5. \A i \in 1..n : \A k \in 1..lens[i] : FlattenSeq(new)[at[i - 1] + k] = new[i][k]
      BY <2>2, <2>4
    <2> QED
      BY <2>2, <2>3, <2>4, <2>5
  <1>10. flat \in Seq(V) /\ FlattenSeq(new) \in Seq(W)
    BY <1>5, Flattened
  <1>11. DOMAIN flat = 1..at[n] /\ DOMAIN FlattenSeq(new) = 1..at[n]
    BY <1>7, <1>9, <1>10, LenProperties
  <1> HIDE DEF flat, new, lens, n
  <1>12. \A p \in 1..at[n] : FlattenSeq(new)[p] = map[flat[p]]
    <2> TAKE p \in 1..at[n]
    <2>1. PICK i \in 1..n : \E k \in 1..lens[i] : p = at[i - 1] + k
      BY <1>6, PlaceOf
    <2> QED
      BY <1>7, <1>9, <2>1
  <1>13. FlattenSeq(new) = [p \in 1..at[n] |-> FlattenSeq(new)[p]]
    BY <1>10, <1>11
  <1>14. FlattenSeq(new) = Renumbered(flat, map)
    BY <1>11, <1>12, <1>13 DEF Renumbered
  <1> QED
    BY <1>14 DEF flat, new

(* Renumbering the edges keeps every edge listed once.                      *)
LEMMA ListingRenumbered ==
    ASSUME NEW lists \in Seq(Seq(Nat)), NEW ends \in Seq(DOMAIN lists),
           Listing(DOMAIN lists, DOMAIN ends, lists, ends),
           NEW order, Permutes(order, DOMAIN ends), NEW map, map = Renumbering(DOMAIN ends, order)
    PROVE  /\ AllRenumbered(lists, map) \in Seq(Seq(Nat))
           /\ DOMAIN AllRenumbered(lists, map) = DOMAIN lists
           /\ Len(AllRenumbered(lists, map)) = Len(lists)
           /\ \A n \in DOMAIN lists : /\ DOMAIN AllRenumbered(lists, map)[n] = DOMAIN lists[n]
                                      /\ \A i \in DOMAIN lists[n] :
                                            AllRenumbered(lists, map)[n][i] = map[lists[n][i]]
           /\ Permuted(ends, order) \in Seq(DOMAIN lists)
           /\ Len(Permuted(ends, order)) = Len(ends) /\ DOMAIN order = DOMAIN ends
           /\ \A k \in DOMAIN ends : Permuted(ends, order)[k] = ends[order[k]]
           /\ Listing(DOMAIN lists, DOMAIN ends, AllRenumbered(lists, map), Permuted(ends, order))
  <1> DEFINE m == Len(ends)
             n == Len(lists)
             new == AllRenumbered(lists, map)
             e2 == Permuted(ends, order)
             edges == DOMAIN ends
             ids == DOMAIN lists
  <1>1. /\ m \in Nat /\ edges = 1..m /\ n \in Nat /\ ids = 1..n
        /\ \A i \in ids : /\ lists[i] \in Seq(Nat) /\ Len(lists[i]) \in Nat
                          /\ DOMAIN lists[i] = 1..Len(lists[i])
        /\ \A e \in edges : ends[e] \in ids
    BY LenProperties, ElementOfSeq
  <1>2. DOMAIN order = edges
    BY <1>1, PermutedLength
  <1>3. /\ map \in [edges -> edges]
        /\ \A k \in edges : order[k] \in edges /\ map[order[k]] = k
        /\ \A e \in edges : order[map[e]] = e
    <2> HIDE DEF edges
    <2> QED
      BY <1>2, RenumberingInverts DEF edges
  <1>4. /\ \A i \in ids : \A k \in DOMAIN lists[i] : lists[i][k] \in edges /\ ends[lists[i][k]] = i
        /\ \A e \in edges : \E k \in DOMAIN lists[ends[e]] : lists[ends[e]][k] = e
        /\ \A i \in ids : \A k, l \in DOMAIN lists[i] : lists[i][k] = lists[i][l] => k = l
    BY DEF Listing
  <1>5. new = [i \in ids |-> Renumbered(lists[i], map)]
    BY DEF AllRenumbered
  <1>6. e2 = [k \in edges |-> ends[order[k]]]
    BY <1>2 DEF Permuted
  <1> HIDE DEF new, e2, edges, ids, m, n
  <1>7. \A i \in ids : /\ DOMAIN new[i] = DOMAIN lists[i]
                       /\ \A k \in DOMAIN lists[i] : new[i][k] = map[lists[i][k]]
    BY <1>5 DEF Renumbered
  <1>8. new \in Seq(Seq(Nat)) /\ Len(new) = n
    <2>1. ASSUME NEW i \in ids PROVE new[i] \in Seq(Nat)
      <3>1. new[i] = [k \in 1..Len(lists[i]) |-> map[lists[i][k]]]
        BY <1>1, <1>5 DEF Renumbered
      <3>2. \A k \in 1..Len(lists[i]) : map[lists[i][k]] \in Nat
        <4> TAKE k \in 1..Len(lists[i])
        <4>1. lists[i][k] \in edges
          BY <1>1, <1>4
        <4>2. map[lists[i][k]] \in edges
          BY <1>3, <4>1
        <4> QED
          BY <1>1, <4>2
      <3> QED
        BY <1>1, <3>1, <3>2
    <2> DEFINE S == Seq(Nat)
    <2>2. new \in [1..n -> S]
      BY <1>1, <1>5, <2>1
    <2>3. n \in Nat /\ DOMAIN new = 1..n
      BY <1>1, <1>5
    <2> HIDE DEF S
    <2>4. new \in Seq(S)
      BY <2>2, <2>3
    <2>5. DOMAIN new = 1..Len(new) /\ Len(new) \in Nat
      BY <2>4, LenProperties
    <2> QED
      BY <2>3, <2>4, <2>5 DEF S
  <1>9. e2 \in Seq(ids) /\ Len(e2) = m
    <2>1. e2 \in [1..m -> ids]
      BY <1>1, <1>3, <1>6
    <2>2. m \in Nat /\ DOMAIN e2 = 1..m
      BY <1>1, <1>6
    <2>3. e2 \in Seq(ids)
      BY <2>1, <2>2
    <2>4. DOMAIN e2 = 1..Len(e2) /\ Len(e2) \in Nat
      BY <2>3, LenProperties
    <2> QED
      BY <2>2, <2>3, <2>4
  <1>10. \A k \in edges : e2[k] = ends[order[k]]
    BY <1>6
  <1>11. Listing(ids, edges, new, e2)
    <2>1. ASSUME NEW i \in ids, NEW k \in DOMAIN new[i]
          PROVE  new[i][k] \in edges /\ e2[new[i][k]] = i
      <3> DEFINE e == lists[i][k]
      <3>1. new[i][k] = map[e] /\ e \in edges /\ ends[e] = i
        BY <1>4, <1>7
      <3>2. map[e] \in edges /\ order[map[e]] = e
        BY <1>3, <3>1
      <3> QED
        BY <1>10, <3>1, <3>2
    <2>2. ASSUME NEW k \in edges
          PROVE  \E i \in DOMAIN new[e2[k]] : new[e2[k]][i] = k
      <3> DEFINE e == order[k]
      <3>1. e \in edges /\ map[e] = k /\ e2[k] = ends[e] /\ ends[e] \in ids
        BY <1>1, <1>3, <1>10
      <3>2. PICK i \in DOMAIN lists[ends[e]] : lists[ends[e]][i] = e
        BY <1>4, <3>1
      <3>3. i \in DOMAIN new[ends[e]] /\ new[ends[e]][i] = map[e]
        BY <1>7, <3>1, <3>2
      <3> QED
        BY <3>1, <3>3
    <2>3. ASSUME NEW i \in ids, NEW k \in DOMAIN new[i], NEW l \in DOMAIN new[i], new[i][k] = new[i][l]
          PROVE  k = l
      <3>1. /\ k \in DOMAIN lists[i] /\ l \in DOMAIN lists[i]
            /\ map[lists[i][k]] = map[lists[i][l]]
        BY <1>7, <2>3
      <3>2. lists[i][k] \in edges /\ lists[i][l] \in edges
        BY <1>4, <3>1
      <3>3. lists[i][k] = lists[i][l]
        BY <1>3, <3>1, <3>2
      <3> QED
        BY <1>4, <3>1, <3>3
    <2> QED
      BY <2>1, <2>2, <2>3 DEF Listing
  <1>12. DOMAIN new = ids
    BY <1>5
  <1> QED
    BY <1>2, <1>7, <1>8, <1>9, <1>10, <1>11, <1>12 DEF new, e2, edges, ids, m, n

(* So does renumbering the nodes.                                           *)
LEMMA ListingPermuted ==
    ASSUME NEW lists \in Seq(Seq(Nat)), NEW ends \in Seq(DOMAIN lists),
           Listing(DOMAIN lists, DOMAIN ends, lists, ends),
           NEW order, Permutes(order, DOMAIN lists), NEW map, map = Renumbering(DOMAIN lists, order)
    PROVE  /\ Permuted(lists, order) \in Seq(Seq(Nat)) /\ Len(Permuted(lists, order)) = Len(lists)
           /\ DOMAIN order = DOMAIN lists
           /\ \A k \in DOMAIN lists : Permuted(lists, order)[k] = lists[order[k]]
           /\ Renumbered(ends, map) \in Seq(DOMAIN lists)
           /\ Len(Renumbered(ends, map)) = Len(ends) /\ DOMAIN Renumbered(ends, map) = DOMAIN ends
           /\ \A e \in DOMAIN ends : Renumbered(ends, map)[e] = map[ends[e]]
           /\ Listing(DOMAIN lists, DOMAIN ends, Permuted(lists, order), Renumbered(ends, map))
  <1> DEFINE m == Len(ends)
             n == Len(lists)
             new == Permuted(lists, order)
             e2 == Renumbered(ends, map)
             edges == DOMAIN ends
             ids == DOMAIN lists
  <1>1. /\ m \in Nat /\ edges = 1..m /\ n \in Nat /\ ids = 1..n
        /\ \A i \in ids : lists[i] \in Seq(Nat)
        /\ \A e \in edges : ends[e] \in ids
    BY LenProperties, ElementOfSeq
  <1>2. DOMAIN order = ids
    BY <1>1, PermutedLength
  <1>3. /\ map \in [ids -> ids]
        /\ \A k \in ids : order[k] \in ids /\ map[order[k]] = k
        /\ \A i \in ids : order[map[i]] = i
    <2> HIDE DEF ids
    <2> QED
      BY <1>2, RenumberingInverts DEF ids
  <1>4. /\ \A i \in ids : \A k \in DOMAIN lists[i] : lists[i][k] \in edges /\ ends[lists[i][k]] = i
        /\ \A e \in edges : \E k \in DOMAIN lists[ends[e]] : lists[ends[e]][k] = e
        /\ \A i \in ids : \A k, l \in DOMAIN lists[i] : lists[i][k] = lists[i][l] => k = l
    BY DEF Listing
  <1>5. new = [k \in ids |-> lists[order[k]]]
    BY <1>2 DEF Permuted
  <1>6. e2 = [e \in edges |-> map[ends[e]]]
    BY DEF Renumbered
  <1> HIDE DEF new, e2, edges, ids, m, n
  <1>7. new \in Seq(Seq(Nat)) /\ Len(new) = n
    <2> DEFINE S == Seq(Nat)
    <2>1. \A i \in ids : lists[i] \in S
      BY <1>1
    <2> HIDE DEF S
    <2>2. new \in [1..n -> S] /\ n \in Nat /\ DOMAIN new = 1..n
      BY <1>1, <1>3, <1>5, <2>1
    <2>4. new \in Seq(S)
      BY <2>2
    <2>5. DOMAIN new = 1..Len(new) /\ Len(new) \in Nat
      BY <2>4, LenProperties
    <2> QED
      BY <2>2, <2>4, <2>5 DEF S
  <1>8. e2 \in Seq(ids) /\ Len(e2) = m
    <2>1. e2 \in [1..m -> ids]
      BY <1>1, <1>3, <1>6
    <2>2. m \in Nat /\ DOMAIN e2 = 1..m
      BY <1>1, <1>6
    <2>3. e2 \in Seq(ids)
      BY <2>1, <2>2
    <2>4. DOMAIN e2 = 1..Len(e2) /\ Len(e2) \in Nat
      BY <2>3, LenProperties
    <2> QED
      BY <2>2, <2>3, <2>4
  <1>9. /\ \A k \in ids : new[k] = lists[order[k]]
        /\ \A e \in edges : e2[e] = map[ends[e]]
    BY <1>5, <1>6
  <1>10. Listing(ids, edges, new, e2)
    <2>1. ASSUME NEW i \in ids, NEW k \in DOMAIN new[i]
          PROVE  new[i][k] \in edges /\ e2[new[i][k]] = i
      <3>1. order[i] \in ids /\ map[order[i]] = i /\ new[i] = lists[order[i]]
        BY <1>3, <1>9
      <3>2. new[i][k] \in edges /\ ends[new[i][k]] = order[i]
        BY <1>4, <3>1
      <3> QED
        BY <1>9, <3>1, <3>2
    <2>2. ASSUME NEW e \in edges
          PROVE  \E i \in DOMAIN new[e2[e]] : new[e2[e]][i] = e
      <3>1. ends[e] \in ids /\ e2[e] = map[ends[e]]
        BY <1>1, <1>9
      <3>2. e2[e] \in ids /\ order[e2[e]] = ends[e]
        BY <1>3, <3>1
      <3>3. new[e2[e]] = lists[ends[e]]
        BY <1>9, <3>2
      <3> QED
        BY <1>4, <3>3
    <2>3. ASSUME NEW i \in ids, NEW k \in DOMAIN new[i], NEW l \in DOMAIN new[i], new[i][k] = new[i][l]
          PROVE  k = l
      <3>1. order[i] \in ids /\ new[i] = lists[order[i]]
        BY <1>3, <1>9
      <3> QED
        BY <1>4, <2>3, <3>1
    <2> QED
      BY <2>1, <2>2, <2>3 DEF Listing
  <1>11. DOMAIN e2 = edges
    BY <1>6
  <1> QED
    BY <1>2, <1>7, <1>8, <1>9, <1>10, <1>11 DEF new, e2, edges, ids, m, n

(* On a levelized graph without loops the walk of the levels meets every    *)
(* node once.                                                               *)
LEMMA LevelsPermuteNodes ==
    ASSUME stage # "modified", levels \in Seq(Seq(NodeIds)), LevelsAreTopological,
           \A n \in NodeIds : Placed(n)
    PROVE  Permutes(TraversalOrder, NodeIds)
  <1>1. \A l, k \in DOMAIN levels : \A p \in DOMAIN levels[l], q \in DOMAIN levels[k] :
           levels[l][p] = levels[k][q] => l = k /\ p = q
    BY DEF LevelsAreTopological
  <1>2. \A n \in NodeIds : \E l \in DOMAIN levels : \E p \in DOMAIN levels[l] : levels[l][p] = n
    BY DEF Placed, OnLevel
  <1> QED
    BY <1>1, <1>2, FlattenedPermutes DEF TraversalOrder

(* And the out-edges met are every edge once.                               *)
LEMMA OutEdgesPermuteEdges ==
    ASSUME GraphOK, Permutes(TraversalOrder, NodeIds)
    PROVE  Permutes(EdgeOrder, EdgeIds)
  <1> DEFINE T == TraversalOrder
             seqs == [k \in DOMAIN T |-> outEdges[T[k]]]
  <1>1. /\ T \in Seq(NodeIds) /\ Len(T) \in Nat /\ DOMAIN T = 1..Len(T)
        /\ \A k \in DOMAIN T : T[k] \in NodeIds
    BY LenProperties, ElementOfSeq DEF Permutes
  <1>2. /\ \A n \in NodeIds : \A i \in DOMAIN outEdges[n] : outEdges[n][i] \in EdgeIds /\ srcOf[outEdges[n][i]] = n
        /\ \A e \in EdgeIds : \E i \in DOMAIN outEdges[srcOf[e]] : outEdges[srcOf[e]][i] = e
        /\ \A n \in NodeIds : \A i, j \in DOMAIN outEdges[n] : outEdges[n][i] = outEdges[n][j] => i = j
    BY DEF GraphOK, Listing
  <1>3. \A n \in NodeIds : outEdges[n] \in Seq(EdgeIds)
    <2> TAKE n \in NodeIds
    <2>1. Len(outEdges[n]) \in Nat /\ outEdges[n] \in Seq(Nat) /\ DOMAIN outEdges[n] = 1..Len(outEdges[n])
      BY GraphFacts
    <2>2. outEdges[n] = [i \in 1..Len(outEdges[n]) |-> outEdges[n][i]]
      BY <2>1
    <2>3. \A i \in 1..Len(outEdges[n]) : outEdges[n][i] \in EdgeIds
      BY <1>2, <2>1
    <2> QED
      BY <2>1, <2>2, <2>3
  <1>4. \A k, l \in DOMAIN T : T[k] = T[l] => k = l
    BY DEF Permutes
  <1>5. \A n \in NodeIds : \E k \in DOMAIN T : T[k] = n
    BY DEF Permutes
  <1>6. EdgeOrder = FlattenSeq(seqs)
    BY DEF EdgeOrder
  <1> HIDE DEF T
  <1>7. seqs \in Seq(Seq(EdgeIds)) /\ DOMAIN seqs = DOMAIN T
    <2> DEFINE S == Seq(EdgeIds)
    <2>1. \A n \in NodeIds : outEdges[n] \in S
      BY <1>3
    <2> HIDE DEF S
    <2>2. seqs \in [1..Len(T) -> S] /\ Len(T) \in Nat
      BY <1>1, <2>1
    <2> HIDE DEF seqs
    <2>3. seqs \in Seq(S)
      BY <2>2
    <2> QED
      BY <1>1, <2>2, <2>3 DEF S
  <1>8. \A k \in DOMAIN T : seqs[k] = outEdges[T[k]]
    OBVIOUS
  <1> HIDE DEF seqs
  <1>9. ASSUME NEW i \in DOMAIN seqs, NEW j \in DOMAIN seqs, NEW k \in DOMAIN seqs[i],
               NEW l \in DOMAIN seqs[j], seqs[i][k] = seqs[j][l]
        PROVE  i = j /\ k = l
    <2>1. seqs[i] = outEdges[T[i]] /\ seqs[j] = outEdges[T[j]] /\ T[i] \in NodeIds /\ T[j] \in NodeIds
      BY <1>1, <1>7, <1>8
    <2>2. srcOf[seqs[i][k]] = T[i] /\ srcOf[seqs[j][l]] = T[j]
      BY <1>2, <2>1
    <2>3. i = j
      BY <1>4, <1>7, <1>9, <2>2
    <2>4. k = l
      BY <1>2, <1>9, <2>1, <2>3
    <2> QED
      BY <2>3, <2>4
  <1>10. ASSUME NEW e \in EdgeIds PROVE \E i \in DOMAIN seqs : \E k \in DOMAIN seqs[i] : seqs[i][k] = e
    <2>1. srcOf[e] \in NodeIds
      BY GraphFacts
    <2>2. PICK i \in DOMAIN T : T[i] = srcOf[e]
      BY <1>5, <2>1
    <2>3. seqs[i] = outEdges[srcOf[e]] /\ i \in DOMAIN seqs
      BY <1>7, <1>8, <2>2
    <2> QED
      BY <1>2, <2>3
  <1> QED
    BY <1>6, <1>7, <1>9, <1>10, FlattenedPermutes

(* The edge layout renumbers the edges and leaves all else.                 *)
LEMMA EdgesMoved ==
    ASSUME IInv, stage = "levelized", \A n \in NodeIds : Placed(n), optimize_edge_layout
    PROVE  /\ IInv' /\ Permutes(EdgeOrder, EdgeIds)
           /\ UNCHANGED <<nodes, levels, stage, nodeMap>> /\ NodeIds' = NodeIds /\ EdgeIds' = EdgeIds
           /\ edgeMap' \in [EdgeIds -> EdgeIds] /\ DOMAIN EdgeOrder = EdgeIds
           /\ \A k \in EdgeIds : /\ EdgeOrder[k] \in EdgeIds /\ edgeMap'[EdgeOrder[k]] = k
                                 /\ srcOf'[k] = srcOf[EdgeOrder[k]] /\ sinkOf'[k] = sinkOf[EdgeOrder[k]]
           /\ \A e \in EdgeIds : EdgeOrder[edgeMap'[e]] = e
           /\ \A n \in NodeIds :
                 /\ DOMAIN outEdges'[n] = DOMAIN outEdges[n] /\ DOMAIN inEdges'[n] = DOMAIN inEdges[n]
                 /\ \A i \in DOMAIN outEdges[n] : outEdges'[n][i] = edgeMap'[outEdges[n][i]]
           /\ EdgeOrder' = [k \in EdgeIds |-> k]
  <1> DEFINE order == EdgeOrder
             map == edgeMap'
  <1>1. GraphOK /\ levels \in Seq(Seq(NodeIds)) /\ LevelsAreTopological
    BY DEF IInv
  <1>2. /\ NodeIds = 1..Len(nodes) /\ Len(nodes) \in Nat /\ EdgeIds = 1..Len(srcOf) /\ Len(srcOf) \in Nat
        /\ DOMAIN outEdges = NodeIds /\ DOMAIN inEdges = NodeIds /\ DOMAIN sinkOf = EdgeIds
        /\ \A e \in EdgeIds : srcOf[e] \in NodeIds /\ sinkOf[e] \in NodeIds
    BY <1>1, GraphFacts
  <1>3. /\ outEdges \in Seq(Seq(Nat)) /\ Len(outEdges) = Len(nodes)
        /\ inEdges \in Seq(Seq(Nat)) /\ Len(inEdges) = Len(nodes) /\ nodes \in Seq(NodeData)
        /\ srcOf \in Seq(NodeIds) /\ sinkOf \in Seq(NodeIds) /\ Len(sinkOf) = Len(srcOf)
        /\ Listing(NodeIds, EdgeIds, outEdges, srcOf) /\ Listing(NodeIds, EdgeIds, inEdges, sinkOf)
    BY <1>1 DEF GraphOK
  <1>4. Permutes(TraversalOrder, NodeIds) /\ Permutes(order, EdgeIds)
    BY <1>1, LevelsPermuteNodes, OutEdgesPermuteEdges
  <1>5. /\ map = Renumbering(EdgeIds, order)
        /\ srcOf' = Permuted(srcOf, order) /\ sinkOf' = Permuted(sinkOf, order)
        /\ outEdges' = AllRenumbered(outEdges, map) /\ inEdges' = AllRenumbered(inEdges, map)
        /\ UNCHANGED <<nodes, levels, stage, nodeMap>>
    BY DEF optimize_edge_layout, levelData
  <1>6. DOMAIN order = EdgeIds
    BY <1>2, <1>4, PermutedLength
  <1>7. /\ map \in [EdgeIds -> EdgeIds]
        /\ \A k \in EdgeIds : order[k] \in EdgeIds /\ map[order[k]] = k
        /\ \A e \in EdgeIds : order[map[e]] = e
    BY <1>4, <1>5, <1>6, RenumberingInverts
  <1> HIDE DEF order, map
  <1>8. /\ outEdges' \in Seq(Seq(Nat)) /\ DOMAIN outEdges' = NodeIds /\ Len(outEdges') = Len(nodes)
        /\ \A n \in NodeIds : /\ DOMAIN outEdges'[n] = DOMAIN outEdges[n]
                              /\ \A i \in DOMAIN outEdges[n] : outEdges'[n][i] = map[outEdges[n][i]]
        /\ srcOf' \in Seq(NodeIds) /\ Len(srcOf') = Len(srcOf)
        /\ \A k \in EdgeIds : srcOf'[k] = srcOf[order[k]]
        /\ Listing(NodeIds, EdgeIds, outEdges', srcOf')
    <2> DEFINE edges == EdgeIds
    <2>1. DOMAIN srcOf = edges /\ Permutes(order, edges) /\ map = Renumbering(edges, order)
          /\ Listing(NodeIds, edges, outEdges, srcOf)
      BY <1>3, <1>4, <1>5 DEF EdgeIds
    <2> HIDE DEF edges
    <2>2. /\ outEdges \in Seq(Seq(Nat)) /\ srcOf \in Seq(DOMAIN outEdges)
          /\ Listing(DOMAIN outEdges, DOMAIN srcOf, outEdges, srcOf)
          /\ Permutes(order, DOMAIN srcOf) /\ map = Renumbering(DOMAIN srcOf, order)
      BY <1>2, <1>3, <2>1
    <2>3. /\ AllRenumbered(outEdges, map) \in Seq(Seq(Nat))
          /\ DOMAIN AllRenumbered(outEdges, map) = DOMAIN outEdges
          /\ Len(AllRenumbered(outEdges, map)) = Len(outEdges)
          /\ \A n \in DOMAIN outEdges :
                 /\ DOMAIN AllRenumbered(outEdges, map)[n] = DOMAIN outEdges[n]
                 /\ \A i \in DOMAIN outEdges[n] :
                       AllRenumbered(outEdges, map)[n][i] = map[outEdges[n][i]]
          /\ Permuted(srcOf, order) \in Seq(DOMAIN outEdges)
          /\ Len(Permuted(srcOf, order)) = Len(srcOf)
          /\ \A k \in DOMAIN srcOf : Permuted(srcOf, order)[k] = srcOf[order[k]]
          /\ Listing(DOMAIN outEdges, DOMAIN srcOf, AllRenumbered(outEdges, map), Permuted(srcOf, order))
      <3> DEFINE to == map
      <3>1. Listing(DOMAIN outEdges, DOMAIN srcOf, outEdges, srcOf) /\ to = Renumbering(DOMAIN srcOf, order)
        BY <2>2
      <3> HIDE DEF to
      <3>2. /\ AllRenumbered(outEdges, to) \in Seq(Seq(Nat))
            /\ DOMAIN AllRenumbered(outEdges, to) = DOMAIN outEdges
            /\ Len(AllRenumbered(outEdges, to)) = Len(outEdges)
            /\ Permuted(srcOf, order) \in Seq(DOMAIN outEdges)
            /\ Len(Permuted(srcOf, order)) = Len(srcOf)
            /\ \A k \in DOMAIN srcOf : Permuted(srcOf, order)[k] = srcOf[order[k]]
            /\ Listing(DOMAIN outEdges, DOMAIN srcOf, AllRenumbered(outEdges, to), Permuted(srcOf, order))
        BY <2>2, <3>1, ListingRenumbered
      <3>3. \A n \in DOMAIN outEdges : DOMAIN AllRenumbered(outEdges, to)[n] = DOMAIN outEdges[n]
        BY <2>2, <3>1, ListingRenumbered
      <3>4. \A n \in DOMAIN outEdges : \A i \in DOMAIN outEdges[n] :
               AllRenumbered(outEdges, to)[n][i] = to[outEdges[n][i]]
        BY <2>2, <3>1, ListingRenumbered
      <3> QED
        BY <3>2, <3>3, <3>4 DEF to
    <2>4. outEdges' = AllRenumbered(outEdges, map) /\ srcOf' = Permuted(srcOf, order)
      BY <1>5
    <2> QED
      BY <1>2, <1>3, <2>1, <2>3, <2>4 DEF edges
  <1>9. /\ inEdges' \in Seq(Seq(Nat)) /\ DOMAIN inEdges' = NodeIds /\ Len(inEdges') = Len(nodes)
        /\ \A n \in NodeIds : DOMAIN inEdges'[n] = DOMAIN inEdges[n]
        /\ sinkOf' \in Seq(NodeIds) /\ Len(sinkOf') = Len(sinkOf)
        /\ \A k \in EdgeIds : sinkOf'[k] = sinkOf[order[k]]
        /\ Listing(NodeIds, EdgeIds, inEdges', sinkOf')
    <2> DEFINE edges == EdgeIds
    <2>1. DOMAIN sinkOf = edges /\ Permutes(order, edges) /\ map = Renumbering(edges, order)
          /\ Listing(NodeIds, edges, inEdges, sinkOf)
      BY <1>2, <1>3, <1>4, <1>5
    <2> HIDE DEF edges
    <2>2. /\ inEdges \in Seq(Seq(Nat)) /\ sinkOf \in Seq(DOMAIN inEdges)
          /\ Listing(DOMAIN inEdges, DOMAIN sinkOf, inEdges, sinkOf)
          /\ Permutes(order, DOMAIN sinkOf) /\ map = Renumbering(DOMAIN sinkOf, order)
      BY <1>2, <1>3, <2>1
    <2>3. /\ AllRenumbered(inEdges, map) \in Seq(Seq(Nat))
          /\ DOMAIN AllRenumbered(inEdges, map) = DOMAIN inEdges
          /\ Len(AllRenumbered(inEdges, map)) = Len(inEdges)
          /\ \A n \in DOMAIN inEdges :
                 DOMAIN AllRenumbered(inEdges, map)[n] = DOMAIN inEdges[n]
          /\ Permuted(sinkOf, order) \in Seq(DOMAIN inEdges)
          /\ Len(Permuted(sinkOf, order)) = Len(sinkOf)
          /\ \A k \in DOMAIN sinkOf : Permuted(sinkOf, order)[k] = sinkOf[order[k]]
          /\ Listing(DOMAIN inEdges, DOMAIN sinkOf, AllRenumbered(inEdges, map), Permuted(sinkOf, order))
      BY <2>2, ListingRenumbered
    <2>4. inEdges' = AllRenumbered(inEdges, map) /\ sinkOf' = Permuted(sinkOf, order)
      BY <1>5
    <2> QED
      BY <1>2, <1>3, <2>1, <2>3, <2>4 DEF edges
  <1>10. NodeIds' = NodeIds /\ EdgeIds' = EdgeIds
    <2>1. DOMAIN srcOf' = 1..Len(srcOf)
      BY <1>8, LenProperties
    <2> QED
      BY <1>2, <1>5, <2>1 DEF NodeIds, EdgeIds
  <1>11. GraphOK'
    BY <1>3, <1>5, <1>8, <1>9, <1>10 DEF GraphOK
  <1>12. LevelsAreTopological'
    <2>1. \A n, l : OnLevel(n, l)' <=> OnLevel(n, l)
      BY <1>5 DEF OnLevel
    <2>2. ASSUME NEW e \in EdgeIds, NEW l \in DOMAIN levels, NEW k \in DOMAIN levels,
                 OnLevel(srcOf'[e], l), OnLevel(sinkOf'[e], k)
          PROVE  l < k
      <3>1. order[e] \in EdgeIds /\ srcOf'[e] = srcOf[order[e]] /\ sinkOf'[e] = sinkOf[order[e]]
        BY <1>7, <1>8, <1>9
      <3> QED
        BY <1>1, <2>2, <3>1 DEF LevelsAreTopological
    <2>3. \A l, k \in DOMAIN levels : \A p \in DOMAIN levels[l], q \in DOMAIN levels[k] :
             levels[l][p] = levels[k][q] => l = k /\ p = q
      BY <1>1 DEF LevelsAreTopological
    <2>4. \A n, l : (\E p \in DOMAIN levels'[l] : levels'[l][p] = n) <=> OnLevel(n, l)
      BY <1>5 DEF OnLevel
    <2>5. EdgeIds' = EdgeIds /\ levels' = levels
      BY <1>5, <1>10
    <2>6. \A e \in EdgeIds' : \A l, k \in DOMAIN levels' :
             ((\E p \in DOMAIN levels'[l] : levels'[l][p] = srcOf'[e])
                 /\ (\E p \in DOMAIN levels'[k] : levels'[k][p] = sinkOf'[e])) => l < k
      BY <2>2, <2>4, <2>5
    <2>7. (\A e \in EdgeIds : \A l, k \in DOMAIN levels :
              (OnLevel(srcOf[e], l) /\ OnLevel(sinkOf[e], k)) => l < k)'
      BY <2>6 DEF OnLevel
    <2>8. (\A l, k \in DOMAIN levels : \A p \in DOMAIN levels[l], q \in DOMAIN levels[k] :
              levels[l][p] = levels[k][q] => l = k /\ p = q)'
      BY <2>3, <2>5
    <2> QED
      BY <2>7, <2>8 DEF LevelsAreTopological
  <1>13. IInv'
    BY <1>1, <1>5, <1>10, <1>11, <1>12 DEF IInv, Stages, CountingOK, WalkOK, FaninIsExact
  <1>14. EdgeOrder' = [k \in EdgeIds |-> k]
    <2> DEFINE T == TraversalOrder
               seqs == [k \in DOMAIN T |-> outEdges[T[k]]]
               new == [k \in DOMAIN T |-> outEdges'[T[k]]]
    <2>1. T' = T
      BY <1>5 DEF TraversalOrder
    <2>2. EdgeOrder' = FlattenSeq(new) /\ order = FlattenSeq(seqs)
      BY <2>1 DEF EdgeOrder, order
    <2>3. T \in Seq(NodeIds) /\ Len(T) \in Nat /\ DOMAIN T = 1..Len(T) /\ \A k \in DOMAIN T : T[k] \in NodeIds
      BY <1>4, LenProperties, ElementOfSeq DEF Permutes
    <2>4. \A n \in NodeIds : outEdges[n] \in Seq(EdgeIds)
      <3> TAKE n \in NodeIds
      <3>1. Len(outEdges[n]) \in Nat /\ outEdges[n] \in Seq(Nat) /\ DOMAIN outEdges[n] = 1..Len(outEdges[n])
        BY <1>1, GraphFacts
      <3>2. outEdges[n] = [i \in 1..Len(outEdges[n]) |-> outEdges[n][i]]
        BY <3>1
      <3>3. \A i \in 1..Len(outEdges[n]) : outEdges[n][i] \in EdgeIds
        BY <1>3, <3>1 DEF Listing
      <3> QED
        BY <3>1, <3>2, <3>3
    <2> HIDE DEF T
    <2>5. seqs \in Seq(Seq(EdgeIds)) /\ DOMAIN seqs = DOMAIN T
      <3> DEFINE S == Seq(EdgeIds)
      <3>1. \A n \in NodeIds : outEdges[n] \in S
        BY <2>4
      <3> HIDE DEF S
      <3>2. seqs \in [1..Len(T) -> S] /\ Len(T) \in Nat
        BY <2>3, <3>1
      <3> HIDE DEF seqs
      <3>3. seqs \in Seq(S)
        BY <3>2
      <3> QED
        BY <2>3, <3>2, <3>3 DEF S
    <2>6. new = AllRenumbered(seqs, map)
      <3>1. \A k \in DOMAIN T : outEdges'[T[k]] = Renumbered(outEdges[T[k]], map)
        <4> TAKE k \in DOMAIN T
        <4>1. T[k] \in NodeIds
          BY <2>3
        <4> QED
          BY <1>2, <1>5, <4>1 DEF AllRenumbered
      <3>2. \A k \in DOMAIN T : seqs[k] = outEdges[T[k]]
        OBVIOUS
      <3>3. AllRenumbered(seqs, map) = [k \in DOMAIN T |-> Renumbered(seqs[k], map)]
        BY <2>5 DEF AllRenumbered
      <3> HIDE DEF seqs
      <3> QED
        BY <3>1, <3>2, <3>3
    <2> HIDE DEF seqs, new
    <2>7. EdgeOrder' = Renumbered(order, map)
      <3> DEFINE E == EdgeIds
      <3>1. seqs \in Seq(Seq(E)) /\ map \in [E -> E]
        BY <1>7, <2>5
      <3> HIDE DEF E
      <3>2. FlattenSeq(AllRenumbered(seqs, map)) = Renumbered(FlattenSeq(seqs), map)
        BY <3>1, FlattenRenumbered
      <3> QED
        BY <2>2, <2>6, <3>2
    <2> QED
      BY <1>6, <1>7, <2>7 DEF Renumbered
  <1> QED
    BY <1>4, <1>5, <1>6, <1>7, <1>8, <1>9, <1>10, <1>13, <1>14 DEF order, map

(* The node layout renumbers the nodes, and the edge layout stands.         *)
LEMMA NodesMoved ==
    ASSUME IInv, stage = "levelized", \A n \in NodeIds : Placed(n), optimize_node_layout
    PROVE  /\ IInv' /\ Permutes(TraversalOrder, NodeIds)
           /\ UNCHANGED <<stage, edgeMap>> /\ NodeIds' = NodeIds /\ EdgeIds' = EdgeIds
           /\ nodeMap' \in [NodeIds -> NodeIds] /\ DOMAIN TraversalOrder = NodeIds
           /\ \A k \in NodeIds : /\ TraversalOrder[k] \in NodeIds
                                 /\ nodeMap'[TraversalOrder[k]] = k
                                 /\ nodes'[k] = nodes[TraversalOrder[k]]
                                 /\ outEdges'[k] = outEdges[TraversalOrder[k]]
                                 /\ inEdges'[k] = inEdges[TraversalOrder[k]]
           /\ \A n \in NodeIds : TraversalOrder[nodeMap'[n]] = n
           /\ \A e \in EdgeIds : srcOf'[e] = nodeMap'[srcOf[e]] /\ sinkOf'[e] = nodeMap'[sinkOf[e]]
           /\ DOMAIN levels' = DOMAIN levels
           /\ \A l \in DOMAIN levels : /\ DOMAIN levels'[l] = DOMAIN levels[l]
                                       /\ \A p \in DOMAIN levels[l] : levels'[l][p] = nodeMap'[levels[l][p]]
           /\ TraversalOrder' = [k \in NodeIds |-> k]
           /\ EdgeOrder' = EdgeOrder
  <1> DEFINE order == TraversalOrder
             map == nodeMap'
  <1>1. GraphOK /\ levels \in Seq(Seq(NodeIds)) /\ LevelsAreTopological
    BY DEF IInv
  <1>2. /\ NodeIds = 1..Len(nodes) /\ Len(nodes) \in Nat /\ EdgeIds = 1..Len(srcOf) /\ Len(srcOf) \in Nat
        /\ DOMAIN outEdges = NodeIds /\ DOMAIN inEdges = NodeIds /\ DOMAIN sinkOf = EdgeIds
        /\ \A e \in EdgeIds : srcOf[e] \in NodeIds /\ sinkOf[e] \in NodeIds
    BY <1>1, GraphFacts
  <1>3. /\ outEdges \in Seq(Seq(Nat)) /\ Len(outEdges) = Len(nodes)
        /\ inEdges \in Seq(Seq(Nat)) /\ Len(inEdges) = Len(nodes) /\ nodes \in Seq(NodeData)
        /\ srcOf \in Seq(NodeIds) /\ sinkOf \in Seq(NodeIds) /\ Len(sinkOf) = Len(srcOf)
        /\ Listing(NodeIds, EdgeIds, outEdges, srcOf) /\ Listing(NodeIds, EdgeIds, inEdges, sinkOf)
    BY <1>1 DEF GraphOK
  <1>4. Permutes(order, NodeIds)
    BY <1>1, LevelsPermuteNodes
  <1>5. /\ map = Renumbering(NodeIds, order)
        /\ nodes' = Permuted(nodes, order)
        /\ outEdges' = Permuted(outEdges, order) /\ inEdges' = Permuted(inEdges, order)
        /\ levels' = AllRenumbered(levels, map)
        /\ srcOf' = Renumbered(srcOf, map) /\ sinkOf' = Renumbered(sinkOf, map)
        /\ UNCHANGED <<stage, edgeMap>>
    BY DEF optimize_node_layout
  <1>6. DOMAIN order = NodeIds
    BY <1>2, <1>4, PermutedLength
  <1>7. /\ map \in [NodeIds -> NodeIds]
        /\ \A k \in NodeIds : order[k] \in NodeIds /\ map[order[k]] = k
        /\ \A n \in NodeIds : order[map[n]] = n
    BY <1>4, <1>5, <1>6, RenumberingInverts
  <1> HIDE DEF order, map
  <1>8. /\ outEdges' \in Seq(Seq(Nat)) /\ Len(outEdges') = Len(nodes)
        /\ \A k \in NodeIds : outEdges'[k] = outEdges[order[k]]
        /\ srcOf' \in Seq(NodeIds) /\ Len(srcOf') = Len(srcOf) /\ DOMAIN srcOf' = EdgeIds
        /\ \A e \in EdgeIds : srcOf'[e] = map[srcOf[e]]
        /\ Listing(NodeIds, EdgeIds, outEdges', srcOf')
    <2> DEFINE ids == NodeIds
               edges == EdgeIds
    <2>1. DOMAIN outEdges = ids /\ DOMAIN srcOf = edges /\ Permutes(order, ids)
          /\ map = Renumbering(ids, order) /\ srcOf \in Seq(ids) /\ Listing(ids, edges, outEdges, srcOf)
          /\ Len(outEdges) = Len(nodes)
      BY <1>2, <1>3, <1>4, <1>5 DEF EdgeIds
    <2> HIDE DEF ids, edges
    <2>2. /\ outEdges \in Seq(Seq(Nat)) /\ srcOf \in Seq(DOMAIN outEdges)
          /\ Listing(DOMAIN outEdges, DOMAIN srcOf, outEdges, srcOf)
          /\ Permutes(order, DOMAIN outEdges) /\ map = Renumbering(DOMAIN outEdges, order)
      BY <1>3, <2>1
    <2>3. /\ Permuted(outEdges, order) \in Seq(Seq(Nat))
          /\ Len(Permuted(outEdges, order)) = Len(outEdges)
          /\ \A k \in DOMAIN outEdges : Permuted(outEdges, order)[k] = outEdges[order[k]]
          /\ Renumbered(srcOf, map) \in Seq(DOMAIN outEdges)
          /\ Len(Renumbered(srcOf, map)) = Len(srcOf) /\ DOMAIN Renumbered(srcOf, map) = DOMAIN srcOf
          /\ \A e \in DOMAIN srcOf : Renumbered(srcOf, map)[e] = map[srcOf[e]]
          /\ Listing(DOMAIN outEdges, DOMAIN srcOf, Permuted(outEdges, order), Renumbered(srcOf, map))
      <3> DEFINE to == map
      <3>1. /\ outEdges \in Seq(Seq(Nat)) /\ srcOf \in Seq(DOMAIN outEdges)
            /\ Listing(DOMAIN outEdges, DOMAIN srcOf, outEdges, srcOf)
            /\ Permutes(order, DOMAIN outEdges) /\ to = Renumbering(DOMAIN outEdges, order)
        BY <2>2
      <3> HIDE DEF to
      <3>2. /\ Permuted(outEdges, order) \in Seq(Seq(Nat))
            /\ Len(Permuted(outEdges, order)) = Len(outEdges)
            /\ \A k \in DOMAIN outEdges : Permuted(outEdges, order)[k] = outEdges[order[k]]
        BY <3>1, ListingPermuted
      <3>3. /\ Renumbered(srcOf, to) \in Seq(DOMAIN outEdges)
            /\ Len(Renumbered(srcOf, to)) = Len(srcOf) /\ DOMAIN Renumbered(srcOf, to) = DOMAIN srcOf
        BY <3>1, ListingPermuted
      <3>4. \A e \in DOMAIN srcOf : Renumbered(srcOf, to)[e] = to[srcOf[e]]
        BY DEF Renumbered
      <3>5. Listing(DOMAIN outEdges, DOMAIN srcOf, Permuted(outEdges, order), Renumbered(srcOf, to))
        BY <3>1, ListingPermuted
      <3> QED
        BY <3>2, <3>3, <3>4, <3>5 DEF to
    <2>4. outEdges' = Permuted(outEdges, order) /\ srcOf' = Renumbered(srcOf, map)
      BY <1>5
    <2> QED
      BY <2>1, <2>3, <2>4 DEF ids, edges
  <1>9. /\ inEdges' \in Seq(Seq(Nat)) /\ Len(inEdges') = Len(nodes)
        /\ \A k \in NodeIds : inEdges'[k] = inEdges[order[k]]
        /\ sinkOf' \in Seq(NodeIds) /\ Len(sinkOf') = Len(sinkOf)
        /\ \A e \in EdgeIds : sinkOf'[e] = map[sinkOf[e]]
        /\ Listing(NodeIds, EdgeIds, inEdges', sinkOf')
    <2> DEFINE ids == NodeIds
               edges == EdgeIds
    <2>1. DOMAIN inEdges = ids /\ DOMAIN sinkOf = edges /\ Permutes(order, ids)
          /\ map = Renumbering(ids, order) /\ sinkOf \in Seq(ids) /\ Listing(ids, edges, inEdges, sinkOf)
          /\ Len(inEdges) = Len(nodes)
      BY <1>2, <1>3, <1>4, <1>5
    <2> HIDE DEF ids, edges
    <2>2. /\ inEdges \in Seq(Seq(Nat)) /\ sinkOf \in Seq(DOMAIN inEdges)
          /\ Listing(DOMAIN inEdges, DOMAIN sinkOf, inEdges, sinkOf)
          /\ Permutes(order, DOMAIN inEdges) /\ map = Renumbering(DOMAIN inEdges, order)
      BY <1>3, <2>1
    <2>3. /\ Permuted(inEdges, order) \in Seq(Seq(Nat))
          /\ Len(Permuted(inEdges, order)) = Len(inEdges)
          /\ \A k \in DOMAIN inEdges : Permuted(inEdges, order)[k] = inEdges[order[k]]
          /\ Renumbered(sinkOf, map) \in Seq(DOMAIN inEdges)
          /\ Len(Renumbered(sinkOf, map)) = Len(sinkOf) /\ DOMAIN Renumbered(sinkOf, map) = DOMAIN sinkOf
          /\ \A e \in DOMAIN sinkOf : Renumbered(sinkOf, map)[e] = map[sinkOf[e]]
          /\ Listing(DOMAIN inEdges, DOMAIN sinkOf, Permuted(inEdges, order), Renumbered(sinkOf, map))
      <3> DEFINE to == map
      <3>1. /\ inEdges \in Seq(Seq(Nat)) /\ sinkOf \in Seq(DOMAIN inEdges)
            /\ Listing(DOMAIN inEdges, DOMAIN sinkOf, inEdges, sinkOf)
            /\ Permutes(order, DOMAIN inEdges) /\ to = Renumbering(DOMAIN inEdges, order)
        BY <2>2
      <3> HIDE DEF to
      <3>2. /\ Permuted(inEdges, order) \in Seq(Seq(Nat))
            /\ Len(Permuted(inEdges, order)) = Len(inEdges)
            /\ \A k \in DOMAIN inEdges : Permuted(inEdges, order)[k] = inEdges[order[k]]
        BY <3>1, ListingPermuted
      <3>3. /\ Renumbered(sinkOf, to) \in Seq(DOMAIN inEdges)
            /\ Len(Renumbered(sinkOf, to)) = Len(sinkOf) /\ DOMAIN Renumbered(sinkOf, to) = DOMAIN sinkOf
        BY <3>1, ListingPermuted
      <3>4. \A e \in DOMAIN sinkOf : Renumbered(sinkOf, to)[e] = to[sinkOf[e]]
        BY DEF Renumbered
      <3>5. Listing(DOMAIN inEdges, DOMAIN sinkOf, Permuted(inEdges, order), Renumbered(sinkOf, to))
        BY <3>1, ListingPermuted
      <3> QED
        BY <3>2, <3>3, <3>4, <3>5 DEF to
    <2>4. inEdges' = Permuted(inEdges, order) /\ sinkOf' = Renumbered(sinkOf, map)
      BY <1>5
    <2> QED
      BY <2>1, <2>3, <2>4 DEF ids, edges
  <1>10. nodes' \in Seq(NodeData) /\ Len(nodes') = Len(nodes) /\ \A k \in NodeIds : nodes'[k] = nodes[order[k]]
    <2>1. nodes' = [k \in NodeIds |-> nodes[order[k]]]
      BY <1>5, <1>6 DEF Permuted
    <2>2. \A k \in NodeIds : nodes[order[k]] \in NodeData
      BY <1>3, <1>7, ElementOfSeq DEF NodeIds
    <2> DEFINE D == NodeData
               m == Len(nodes)
               new == nodes'
    <2>3. new \in [1..m -> D] /\ m \in Nat
      BY <1>2, <2>1, <2>2
    <2> HIDE DEF D, m, new
    <2>4. new \in Seq(D) /\ DOMAIN new = 1..m
      BY <2>3
    <2>5. DOMAIN new = 1..Len(new) /\ Len(new) \in Nat
      BY <2>4, LenProperties
    <2>6. Len(new) = m
      BY <2>3, <2>4, <2>5
    <2> QED
      BY <2>1, <2>4, <2>6 DEF D, m, new
  <1>11. NodeIds' = NodeIds /\ EdgeIds' = EdgeIds
    <2>1. DOMAIN nodes' = 1..Len(nodes)
      BY <1>10, LenProperties
    <2> QED
      BY <1>2, <1>8, <2>1 DEF NodeIds, EdgeIds
  <1>12. GraphOK'
    BY <1>3, <1>8, <1>9, <1>10, <1>11 DEF GraphOK
  <1>13. /\ levels' \in Seq(Seq(NodeIds)) /\ DOMAIN levels' = DOMAIN levels /\ Len(levels') = Len(levels)
         /\ \A l \in DOMAIN levels : /\ DOMAIN levels'[l] = DOMAIN levels[l]
                                     /\ Len(levels'[l]) = Len(levels[l])
                                     /\ \A p \in DOMAIN levels[l] : levels'[l][p] = map[levels[l][p]]
    <2> DEFINE S == Seq(NodeIds)
               m == Len(levels)
               new == levels'
    <2>1. /\ m \in Nat /\ DOMAIN levels = 1..m
          /\ \A l \in 1..m : /\ levels[l] \in Seq(NodeIds) /\ Len(levels[l]) \in Nat
                             /\ DOMAIN levels[l] = 1..Len(levels[l])
      BY <1>1, LenProperties, ElementOfSeq
    <2>2. new = [l \in 1..m |-> Renumbered(levels[l], map)]
      BY <1>5, <2>1 DEF AllRenumbered
    <2> HIDE DEF new, m
    <2>3. ASSUME NEW l \in 1..m
          PROVE  /\ new[l] \in Seq(NodeIds) /\ DOMAIN new[l] = DOMAIN levels[l] /\ Len(new[l]) = Len(levels[l])
                 /\ \A p \in DOMAIN levels[l] : new[l][p] = map[levels[l][p]]
      <3> DEFINE row == new[l]
                 len == Len(levels[l])
                 ids == NodeIds
      <3>1. row = [p \in 1..len |-> map[levels[l][p]]] /\ len \in Nat
        BY <2>1, <2>2 DEF Renumbered
      <3>2. \A p \in 1..len : map[levels[l][p]] \in ids
        <4> TAKE p \in 1..len
        <4>1. levels[l][p] \in ids
          BY <2>1, ElementOfSeq
        <4> QED
          BY <1>7, <4>1
      <3> HIDE DEF row, len, ids
      <3>3. row \in [1..len -> ids]
        BY <3>1, <3>2
      <3>4. row \in Seq(ids) /\ DOMAIN row = 1..len
        BY <3>1, <3>3
      <3>5. DOMAIN row = 1..Len(row) /\ Len(row) \in Nat
        BY <3>4, LenProperties
      <3>6. Len(row) = len
        BY <3>1, <3>4, <3>5
      <3>7. DOMAIN levels[l] = 1..len
        BY <2>1 DEF len
      <3> QED
        BY <3>1, <3>4, <3>6, <3>7 DEF row, len, ids
    <2>4. \A l \in 1..m : new[l] \in S
      BY <2>3
    <2> HIDE DEF S
    <2>5. new \in [1..m -> S] /\ m \in Nat /\ DOMAIN new = 1..m
      BY <2>1, <2>2, <2>4
    <2>6. new \in Seq(S)
      BY <2>5
    <2>7. DOMAIN new = 1..Len(new) /\ Len(new) \in Nat
      BY <2>6, LenProperties
    <2>8. Len(new) = m
      BY <2>5, <2>7
    <2>9. \A l \in DOMAIN levels : /\ DOMAIN new[l] = DOMAIN levels[l] /\ Len(new[l]) = Len(levels[l])
                                   /\ \A p \in DOMAIN levels[l] : new[l][p] = map[levels[l][p]]
      BY <2>1, <2>3
    <2> QED
      BY <2>1, <2>5, <2>6, <2>8, <2>9 DEF S, new, m
  <1>14. \A n \in NodeIds : \A l \in DOMAIN levels :
            (\E p \in DOMAIN levels'[l] : levels'[l][p] = map[n]) <=> OnLevel(n, l)
    <2> TAKE n \in NodeIds
    <2> TAKE l \in DOMAIN levels
    <2>1. \A p \in DOMAIN levels[l] : levels[l][p] \in NodeIds
      BY <1>1, LevelFacts
    <2>2. (\E p \in DOMAIN levels'[l] : levels'[l][p] = map[n])
             <=> \E p \in DOMAIN levels[l] : levels[l][p] = n
      BY <1>7, <1>13, <2>1
    <2> QED
      BY <2>2 DEF OnLevel
  <1>15. LevelsAreTopological'
    <2>1. \A e \in EdgeIds : \A l, k \in DOMAIN levels :
             ((\E p \in DOMAIN levels'[l] : levels'[l][p] = srcOf'[e])
                 /\ (\E p \in DOMAIN levels'[k] : levels'[k][p] = sinkOf'[e])) => l < k
      <3> TAKE e \in EdgeIds
      <3> TAKE l, k \in DOMAIN levels
      <3>1. \A n \in NodeIds : \A j \in DOMAIN levels :
               (\E p \in DOMAIN levels'[j] : levels'[j][p] = map[n]) => OnLevel(n, j)
        BY <1>14
      <3>2. OnLevel(srcOf[e], l) /\ OnLevel(sinkOf[e], k) => l < k
        BY <1>1 DEF LevelsAreTopological
      <3> HAVE /\ \E p \in DOMAIN levels'[l] : levels'[l][p] = srcOf'[e]
               /\ \E p \in DOMAIN levels'[k] : levels'[k][p] = sinkOf'[e]
      <3>3. srcOf[e] \in NodeIds /\ sinkOf[e] \in NodeIds /\ srcOf'[e] = map[srcOf[e]] /\ sinkOf'[e] = map[sinkOf[e]]
        BY <1>2, <1>8, <1>9
      <3>4. OnLevel(srcOf[e], l)
        BY <3>1, <3>3
      <3>5. OnLevel(sinkOf[e], k)
        BY <3>1, <3>3
      <3> QED
        BY <3>2, <3>4, <3>5
    <2>2. \A l, k \in DOMAIN levels : \A p \in DOMAIN levels[l], q \in DOMAIN levels[k] :
             levels'[l][p] = levels'[k][q] => l = k /\ p = q
      <3> TAKE l, k \in DOMAIN levels
      <3> TAKE p \in DOMAIN levels[l], q \in DOMAIN levels[k]
      <3> HAVE levels'[l][p] = levels'[k][q]
      <3>1. levels[l][p] \in NodeIds /\ levels[k][q] \in NodeIds
        BY <1>1, LevelFacts
      <3>2. levels[l][p] = levels[k][q]
        BY <1>7, <1>13, <3>1
      <3> QED
        BY <1>1, <3>2 DEF LevelsAreTopological
    <2>3. (\A e \in EdgeIds : \A l, k \in DOMAIN levels :
              (OnLevel(srcOf[e], l) /\ OnLevel(sinkOf[e], k)) => l < k)'
      BY <1>11, <1>13, <2>1 DEF OnLevel
    <2>4. (\A l, k \in DOMAIN levels : \A p \in DOMAIN levels[l], q \in DOMAIN levels[k] :
              levels[l][p] = levels[k][q] => l = k /\ p = q)'
      BY <1>13, <2>2
    <2> QED
      BY <2>3, <2>4 DEF LevelsAreTopological
  <1>16. IInv'
    BY <1>1, <1>5, <1>11, <1>12, <1>13, <1>15 DEF IInv, Stages, CountingOK, WalkOK, FaninIsExact
  <1>17. TraversalOrder' = [k \in NodeIds |-> k]
    <2>1. TraversalOrder' = FlattenSeq(AllRenumbered(levels, map)) /\ order = FlattenSeq(levels)
      BY <1>5 DEF TraversalOrder, order
    <2> DEFINE ids == NodeIds
    <2>2. levels \in Seq(Seq(ids))
      BY <1>1
    <2> HIDE DEF ids
    <2>3. FlattenSeq(AllRenumbered(levels, map)) = Renumbered(FlattenSeq(levels), map)
      BY <2>2, FlattenRenumbered
    <2>4. TraversalOrder' = [k \in NodeIds |-> map[order[k]]]
      BY <1>6, <2>1, <2>3 DEF Renumbered
    <2> QED
      BY <1>7, <2>4
  <1>18. EdgeOrder' = EdgeOrder
    <2>1. EdgeOrder = FlattenSeq([k \in NodeIds |-> outEdges[order[k]]])
      BY <1>6 DEF EdgeOrder, order
    <2>2. EdgeOrder' = FlattenSeq([k \in NodeIds |-> outEdges'[k]])
      BY <1>17 DEF EdgeOrder
    <2> QED
      BY <1>8, <2>1, <2>2
  <1> QED
    BY <1>4, <1>5, <1>6, <1>7, <1>8, <1>9, <1>10, <1>11, <1>13, <1>16, <1>17, <1>18 DEF order, map

(* Without a loop every node of the levelized netlist is placed.            *)
LEMMA WithoutLoopPlaced ==
    ASSUME BInv, step = "levelize", stage = "levelized", ~HasLoop(netlist)
    PROVE  \A n \in NodeIds : Placed(n)
  <1> DEFINE ids == DOMAIN netlist.nodes
             fans(m, n) == \E k \in DOMAIN netlist.fanouts[m] : netlist.fanouts[m][k].sink = n
             clocks(m, n) == /\ netlist.blocks[m] = netlist.blocks[n] /\ netlist.nodes[m].type = "FF_CLOCK"
                             /\ netlist.nodes[n].type \in {"FF_SOURCE", "FF_SINK"}
             above == [n \in ids |-> {m \in ids : fans(m, n) \/ clocks(m, n)}]
             sources == [n \in Orig |-> {e.src : e \in EdgesInto(n)}]
  <1>1. NodesUpTo(above, Len(netlist.nodes)) = ids
    BY DEF HasLoop
  <1>2. \A m, n : (\E e \in Edges : e.src = m /\ e.sink = n) <=>
           FanoutLink(netlist, m, n) \/ BlockLink(netlist, m, n)
    BY EdgesJoin DEF BInv
  <1>3. ASSUME NEW n \in ids PROVE {e.src : e \in EdgesInto(n)} = {m \in ids : fans(m, n) \/ clocks(m, n)}
    <2>1. \A m : m \in {e.src : e \in EdgesInto(n)} <=> FanoutLink(netlist, m, n) \/ BlockLink(netlist, m, n)
      <3>1. \A m : m \in {e.src : e \in EdgesInto(n)} <=> \E e \in Edges : e.src = m /\ e.sink = n
        BY DEF EdgesInto
      <3> QED
        BY <1>2, <3>1
    <2>2. \A m : FanoutLink(netlist, m, n) <=> m \in ids /\ fans(m, n)
      BY DEF FanoutLink
    <2>3. \A m : BlockLink(netlist, m, n) <=> m \in ids /\ clocks(m, n)
      BY DEF BlockLink
    <2> HIDE DEF ids, fans, clocks
    <2> QED
      BY <2>1, <2>2, <2>3
  <1>4. sources = above
    BY <1>3 DEF Orig
  <1>5. UpTo(Len(netlist.nodes)) = NodesUpTo(sources, Len(netlist.nodes))
    BY DEF UpTo
  <1> HIDE DEF above, sources
  <1>6. LoopFree = Orig
    BY <1>1, <1>4, <1>5 DEF LoopFree, Orig
  <1>7. LoopFree = {n \in NodeIds : Placed(n)} /\ NodeIds = Orig
    BY BuiltGraph
  <1> QED
    BY <1>6, <1>7
-------------------------------------------------------------------------------
(* The pipeline, with the layout or without.                                *)

InPlace(order, ids) == order = [k \in ids |-> k]

(* The graph stays sound under the layout and does not change once it is    *)
(* analysed, and the level being walked is one of it.  All nodes are placed *)
(* when the layout begins, or it would not be a renumbering.                *)
PInv ==
    /\ BInv /\ IInv
    /\ flow.layout => ~HasLoop(netlist)
    /\ step = "edges" => flow.layout
    /\ ~Building /\ flow.layout => /\ \A n \in NodeIds : Placed(n)
                                   /\ InPlace(EdgeOrder, EdgeIds)
                                   /\ step = "analyze" => InPlace(TraversalOrder, NodeIds)
    /\ stage = "levelized" => 1 \in DOMAIN levels
    /\ phase # "idle" => /\ step = "analyze"
                         /\ lev \in DOMAIN levels
                         /\ DOMAIN dataTags = NodeIds /\ DOMAIN clockTags = NodeIds

(* Before anything is read.                                                 *)
LEMMA Start == Init => PInv
  <1> SUFFICES ASSUME Init
               PROVE  PInv
    OBVIOUS
  <1>1. IInv /\ BInv
    BY GraphStart, BuildStart DEF Init
  <1>2. /\ stage = "modified" /\ phase = "idle" /\ step = "load"
        /\ flow.layout => ~HasLoop(netlist)
    BY DEF Init, GraphInit, TraversalInit
  <1> QED
    BY <1>1, <1>2 DEF PInv, Building

(* What of the invariant depends on the graph alone.                        *)
LEMMA GraphStands ==
    ASSUME PInv, UNCHANGED <<graphVars, netlist, flow, step>>
    PROVE  /\ IInv' /\ UNCHANGED <<stage, levels>> /\ NodeIds' = NodeIds
           /\ flow.layout' => ~HasLoop(netlist')
           /\ step' = "edges" => flow.layout'
           /\ ~Building' /\ flow.layout' => /\ \A n \in NodeIds' : Placed(n)'
                                            /\ InPlace(EdgeOrder, EdgeIds)'
                                            /\ step' = "analyze" => InPlace(TraversalOrder, NodeIds)'
           /\ stage' = "levelized" => 1 \in DOMAIN levels'
  <1>1. UNCHANGED <<stage, levels, outEdges, srcOf, nodes>>
    BY DEF graphVars, graphData, levelData
  <1>2. IInv'
    BY GraphStep DEF PInv
  <1>3. NodeIds' = NodeIds /\ EdgeIds' = EdgeIds /\ TraversalOrder' = TraversalOrder /\ EdgeOrder' = EdgeOrder
    BY <1>1 DEF NodeIds, EdgeIds, TraversalOrder, EdgeOrder
  <1>4. \A n \in NodeIds : Placed(n)' <=> Placed(n)
    BY <1>1 DEF Placed, OnLevel
  <1> QED
    BY <1>1, <1>2, <1>3, <1>4 DEF PInv, Building, InPlace

(* The layout of the edges.                                                 *)
LEMMA LayOutEdges ==
    ASSUME PInv, OptimizeEdges
    PROVE  PInv'
  <1>1. /\ step = "levelize" /\ stage = "levelized" /\ flow.layout /\ ~HasLoop(netlist)
        /\ BInv /\ IInv /\ step' = "edges" /\ UNCHANGED <<netlist, flow, phase>> /\ phase = "idle"
        /\ optimize_edge_layout /\ 1 \in DOMAIN levels
    BY DEF OptimizeEdges, optimize_edge_layout, PInv, input, walkVars
  <1>2. \A n \in NodeIds : Placed(n)
    BY <1>1, WithoutLoopPlaced
  <1>3. /\ IInv' /\ UNCHANGED <<levels, stage>> /\ NodeIds' = NodeIds /\ EdgeIds' = EdgeIds
        /\ EdgeOrder' = [k \in EdgeIds |-> k]
    BY <1>1, <1>2, EdgesMoved
  <1>4. BInv'
    BY <1>1, BuildStep DEF Next
  <1>5. \A n \in NodeIds : Placed(n)'
    BY <1>2, <1>3 DEF Placed, OnLevel
  <1> QED
    BY <1>1, <1>3, <1>4, <1>5 DEF PInv, Building, InPlace

(* The layout of the nodes, which keeps that of the edges.                  *)
LEMMA LayOutNodes ==
    ASSUME PInv, OptimizeNodes
    PROVE  PInv'
  <1>1. /\ step = "edges" /\ stage = "levelized" /\ flow.layout /\ ~HasLoop(netlist)
        /\ BInv /\ IInv /\ step' = "analyze" /\ UNCHANGED <<netlist, flow, phase>> /\ phase = "idle"
        /\ optimize_node_layout /\ 1 \in DOMAIN levels
        /\ \A n \in NodeIds : Placed(n)
        /\ EdgeOrder = [k \in EdgeIds |-> k]
    BY DEF OptimizeNodes, optimize_node_layout, PInv, input, traversalVars, walkVars, Building, InPlace
  <1>2. /\ IInv' /\ UNCHANGED stage /\ NodeIds' = NodeIds /\ EdgeIds' = EdgeIds
        /\ DOMAIN levels' = DOMAIN levels
        /\ TraversalOrder' = [k \in NodeIds |-> k] /\ EdgeOrder' = EdgeOrder
        /\ \A k \in NodeIds : TraversalOrder[k] \in NodeIds /\ nodeMap'[TraversalOrder[k]] = k
        /\ \A l \in DOMAIN levels : /\ DOMAIN levels'[l] = DOMAIN levels[l]
                                    /\ \A p \in DOMAIN levels[l] : levels'[l][p] = nodeMap'[levels[l][p]]
    BY <1>1, NodesMoved
  <1>3. BInv'
    BY <1>1, BuildStep DEF Next
  <1>4. \A n \in NodeIds : Placed(n)'
    <2> TAKE n \in NodeIds
    <2>1. Placed(TraversalOrder[n]) /\ nodeMap'[TraversalOrder[n]] = n
      BY <1>1, <1>2
    <2>2. PICK l \in DOMAIN levels : \E p \in DOMAIN levels[l] : levels[l][p] = TraversalOrder[n]
      BY <2>1 DEF Placed, OnLevel
    <2>3. PICK p \in DOMAIN levels[l] : levels[l][p] = TraversalOrder[n]
      BY <2>2
    <2>4. l \in DOMAIN levels' /\ p \in DOMAIN levels'[l] /\ levels'[l][p] = n
      BY <1>2, <2>1, <2>3
    <2> QED
      BY <2>4 DEF Placed, OnLevel
  <1> QED
    BY <1>1, <1>2, <1>3, <1>4 DEF PInv, Building, InPlace

(* Every step of the pipeline is one of the graph, one of the layout or     *)
(* leaves the graph alone.                                                  *)
LEMMA Invariance == PInv /\ [Next]_vars => PInv'
  <1> SUFFICES ASSUME PInv, [Next]_vars
               PROVE  PInv'
    OBVIOUS
  <1>0. BInv' /\ (Building' => IInv')
    <2>1. BInv'
      BY BuildStep DEF PInv
    <2> QED
      BY <2>1 DEF BInv
  <1>1. CASE LoadNode
    BY <1>0, <1>1 DEF LoadNode, PInv, Building, add_node, input, traversalVars, walkVars, tagVars
  <1>2. CASE LoadEdge
    BY <1>0, <1>2 DEF LoadEdge, PInv, Building, add_edge, input, walkVars, tagVars
  <1>3. CASE LevelizeEarly
    BY <1>0, <1>3 DEF LevelizeEarly, PInv, Building, BeginLevelize, input, traversalVars, walkVars
  <1>4. CASE add_ff_clock_to_source_sink_edges
    BY <1>0, <1>4 DEF add_ff_clock_to_source_sink_edges, PInv, Building, input, traversalVars, walkVars,
                      graphVars, levelData
  <1>5. CASE Levelize
    BY <1>0, <1>5 DEF Levelize, PInv, Building, BeginLevelize, input, traversalVars, walkVars
  <1>6. CASE WalkGraph
    <2>1. stage \in {"counting", "levelizing"}
      BY <1>6 DEF WalkGraph, LevelizeStep, CountFanin, StartWalk, TraverseEdge, LeaveNode,
                  LeaveLevel, AtNode
    <2>2. Building /\ step' = step /\ UNCHANGED <<netlist, flow, phase>> /\ phase = "idle"
      BY <1>6, <2>1 DEF PInv, BInv, Building, WalkGraph, input, traversalVars, walkVars
    <2>3. stage' = "levelized" => 1 \in DOMAIN levels'
      <3> HAVE stage' = "levelized"
      <3>1. Len(levels') >= 1
        BY <1>6, LevelsExist DEF WalkGraph, PInv
      <3>2. DOMAIN levels' = 1..Len(levels') /\ Len(levels') \in Nat
        <4>1. levels' \in Seq(Seq(NodeIds'))
          BY <1>0, <2>2 DEF Building, IInv
        <4> QED
          BY <4>1, LenProperties
      <3> QED
        BY <3>1, <3>2
    <2> QED
      BY <1>0, <2>2, <2>3 DEF PInv, Building
  <1>7. CASE OptimizeEdges \/ OptimizeNodes
    BY <1>7, LayOutEdges, LayOutNodes
  <1>8. CASE KeepLayout
    <2>1. /\ step' = "analyze" /\ ~flow.layout /\ stage = "levelized"
          /\ UNCHANGED graphVars /\ UNCHANGED <<netlist, flow, phase>> /\ phase = "idle"
      BY <1>8 DEF KeepLayout, PInv, input, traversalVars, walkVars
    <2>2. IInv' /\ UNCHANGED <<stage, levels>>
      BY <2>1, GraphStep DEF PInv, graphVars, levelData
    <2> QED
      BY <1>0, <2>1, <2>2 DEF PInv
  <1>9. CASE Analyze /\ StartAnalysis
    <2>1. UNCHANGED graphVars /\ UNCHANGED <<netlist, flow, step>> /\ step = "analyze"
      BY <1>9 DEF Analyze, StartAnalysis, input
    <2>2. /\ lev' = 1 /\ DOMAIN dataTags' = NodeIds /\ DOMAIN clockTags' = NodeIds
      BY <1>9 DEF StartAnalysis, Walk
    <2>3. stage = "levelized" /\ 1 \in DOMAIN levels
      BY <1>9 DEF StartAnalysis, PInv
    <2>4. UNCHANGED <<stage, levels>> /\ NodeIds' = NodeIds
      BY <2>1, GraphStands
    <2> QED
      BY <1>0, <2>1, <2>2, <2>3, <2>4, GraphStands DEF PInv
  <1>10. CASE Analyze /\ calculate_timing
    <2>1. step = "analyze" /\ UNCHANGED <<netlist, flow, step>>
      BY <1>10 DEF Analyze, input
    <2>2. phase # "idle"
      BY <1>10, HandlerFacts DEF calculate_timing, NextLevel, LevelDone
    <2>3. /\ stage = "levelized" /\ levels \in Seq(Seq(NodeIds)) /\ lev \in DOMAIN levels
          /\ DOMAIN dataTags = NodeIds /\ DOMAIN clockTags = NodeIds
      BY <2>1, <2>2 DEF PInv, BInv, Building, IInv
    <2>4. /\ UNCHANGED graphVars /\ lev' \in DOMAIN levels
          /\ DOMAIN dataTags' = NodeIds /\ DOMAIN clockTags' = NodeIds
      <3>1. CASE NextLevel
        BY <3>1, <2>3, NextLevelFacts DEF tagVars
      <3>2. CASE \E n \in NodeIds : Handler(n)
        BY <3>2, <2>3, HandlerFacts
      <3> QED
        BY <1>10, <3>1, <3>2 DEF calculate_timing
    <2>5. UNCHANGED <<stage, levels>> /\ NodeIds' = NodeIds
      BY <2>1, <2>4, GraphStands
    <2> QED
      BY <1>0, <2>1, <2>4, <2>5, GraphStands DEF PInv
  <1>11. CASE UNCHANGED vars
    <2>1. UNCHANGED graphVars /\ UNCHANGED <<netlist, flow, step, phase, lev, dataTags, clockTags>>
      BY <1>11 DEF vars, traversalVars, walkVars, tagVars
    <2>2. UNCHANGED <<stage, levels>> /\ NodeIds' = NodeIds
      BY <2>1, GraphStands
    <2> QED
      BY <1>0, <2>1, <2>2, GraphStands DEF PInv
  <1> QED
    BY <1>1, <1>2, <1>3, <1>4, <1>5, <1>6, <1>7, <1>8, <1>9, <1>10, <1>11 DEF Next, Analyze
-------------------------------------------------------------------------------
(* The levels it leaves.                                                    *)
THEOREM PipelineLevelsGoUp == Spec => []LevelsAreTopological
  <1>1. PInv => LevelsAreTopological
    BY DEF PInv, IInv
  <1> QED
    BY <1>1, Start, Invariance, PTL DEF Spec

(* Nodes of one level have no edge between them.                            *)
LEMMA NoEdgeWithinLevel ==
    ASSUME PInv, phase \in {"fwd", "bck"}, NEW n \in Running, NEW m \in Running
    PROVE  n \notin ReadBy(m)
  <1>1. /\ stage = "levelized" /\ lev \in DOMAIN levels /\ m \in NodeIds
        /\ OnLevel(n, lev) /\ OnLevel(m, lev)
    BY DEF PInv, BInv, Building, Running, OnLevel
  <1>2. \A e \in EdgeIds : ~(OnLevel(srcOf[e], lev) /\ OnLevel(sinkOf[e], lev))
    <2>1. levels \in Seq(Seq(NodeIds))
      BY <1>1 DEF PInv, IInv
    <2>2. ~(lev < lev)
      BY <1>1, <2>1, LevelFacts
    <2> QED
      BY <1>1, <2>2 DEF PInv, IInv, LevelsAreTopological
  <1>3. CASE phase = "fwd"
    <2>1. \A i \in DOMAIN inEdges[m] : inEdges[m][i] \in EdgeIds /\ sinkOf[inEdges[m][i]] = m
      BY <1>1 DEF PInv, IInv, GraphOK, Listing
    <2> QED
      BY <1>1, <1>2, <1>3, <2>1 DEF ReadBy
  <1>4. CASE phase = "bck"
    <2>1. \A i \in DOMAIN outEdges[m] : outEdges[m][i] \in EdgeIds /\ srcOf[outEdges[m][i]] = m
      BY <1>1 DEF PInv, IInv, GraphOK, Listing
    <2> QED
      BY <1>1, <1>2, <1>4, <2>1 DEF ReadBy
  <1> QED
    BY <1>3, <1>4

(* SerialTimingAnalyzer's thread-safety note, for every graph: whatever the *)
(* handlers of a level do side by side, none writes tags another reads.     *)
THEOREM RaceFree == Spec => NoDataRaces
  <1> DEFINE Safe(n) == (phase = phase' /\ phase \in {"fwd", "bck"}
                           /\ <<dataTags[n], clockTags[n]>> # <<dataTags'[n], clockTags'[n]>>)
                          => \A m \in Running : n \notin ReadBy(m)
  <1>1. PInv /\ [Next]_vars => [\A n \in NodeIds : Safe(n)]_vars
    <2> SUFFICES ASSUME PInv, Next, NEW n \in NodeIds, phase = phase', phase \in {"fwd", "bck"},
                        <<dataTags[n], clockTags[n]>> # <<dataTags'[n], clockTags'[n]>>
                 PROVE  \A m \in Running : n \notin ReadBy(m)
      OBVIOUS
    <2>1. step = "analyze" /\ n \in DOMAIN dataTags /\ n \in DOMAIN clockTags
      BY DEF PInv
    <2>2. Analyze
      <3>1. stage = "levelized"
        BY <2>1 DEF PInv, BInv, Building
      <3>2. ~WalkGraph
        BY <3>1 DEF WalkGraph, LevelizeStep, CountFanin, StartWalk, TraverseEdge, LeaveNode,
                    LeaveLevel, AtNode
      <3> QED
        BY <2>1, <3>2 DEF Next, LoadNode, LoadEdge, LevelizeEarly, Levelize, OptimizeEdges,
                          OptimizeNodes, KeepLayout, add_ff_clock_to_source_sink_edges
    <2>3. calculate_timing
      BY <2>2 DEF Analyze, StartAnalysis
    <2>4. ~NextLevel
      BY DEF NextLevel, tagVars
    <2>5. PICK k \in NodeIds : Handler(k)
      BY <2>3, <2>4 DEF calculate_timing
    <2>6. n = k /\ k \in Running
      BY <2>1, <2>5, HandlerFacts
    <2> QED
      BY <2>6, NoEdgeWithinLevel
  <1> QED
    BY <1>1, Start, Invariance, PTL DEF Spec, NoDataRaces

(* What the two optimizations are for: afterwards a walk of the levels      *)
(* reads the nodes, and the out-edges of the nodes, in the order they are   *)
(* stored, for every netlist without a loop.                                *)
THEOREM WalkFollowsStorage == Spec => []StoredInTraversalOrder
  <1>1. PInv => StoredInTraversalOrder
    BY DEF PInv, Building, InPlace, StoredInTraversalOrder
  <1> QED
    BY <1>1, Start, Invariance, PTL DEF Spec
-------------------------------------------------------------------------------
(* The edges of the netlist in the order they are added.                    *)
Bare(e) == [src |-> e.src, sink |-> e.sink, delay |-> e.delay]
Fanout(n, k) == [src |-> n, sink |-> netlist.fanouts[n][k].sink,
                 delay |-> netlist.fanouts[n][k].delay, nth |-> k]

(* The fanouts of a node in their order, and before any clock edge.         *)
InOrder(edges) ==
    \A i, j \in DOMAIN edges : i < j =>
        \/ edges[j].nth = 0
        \/ /\ edges[i].nth # 0
           /\ edges[i].src = edges[j].src => edges[i].nth < edges[j].nth

(* The netlist's own edges, by their place in its fanouts.                  *)
LEMMA FanoutEdgesAre ==
    \A x : x \in FanoutEdges <=> \E n \in Orig : \E k \in DOMAIN netlist.fanouts[n] : x = Fanout(n, k)
  BY DEF FanoutEdges, Fanout

(* The parser's edges.                                                      *)
LEMMA LoadedInOrder ==
    ASSUME netlist \in Netlists
    PROVE  \E g : /\ Permutes(g, FanoutEdges) /\ InOrder(g) /\ Len(g) = Len(Loaded(netlist))
                  /\ \A k \in DOMAIN g : Loaded(netlist)[k] = Bare(g[k])
  <1> DEFINE n == Len(netlist.nodes)
             lens == [i \in 1..n |-> Len(netlist.fanouts[i])]
             row(i) == [k \in 1..lens[i] |-> Fanout(i, k)]
             bareRow(i) == [k \in 1..lens[i] |-> Bare(Fanout(i, k))]
             rows == [i \in 1..n |-> row(i)]
             bare == [i \in 1..n |-> bareRow(i)]
             g == FlattenSeq(rows)
  <1>1. /\ n \in Nat /\ Orig = 1..n
        /\ \A i \in 1..n : /\ Len(netlist.fanouts[i]) \in Nat
                           /\ DOMAIN netlist.fanouts[i] = 1..Len(netlist.fanouts[i])
                           /\ \A k \in DOMAIN netlist.fanouts[i] :
                                 netlist.fanouts[i][k].sink \in Nat /\ netlist.fanouts[i][k].delay \in Nat
    BY NetlistFacts DEF Orig
  <1>2. /\ lens \in [1..n -> Nat]
        /\ \A i \in 1..n : lens[i] = Len(netlist.fanouts[i]) /\ DOMAIN netlist.fanouts[i] = 1..lens[i]
    BY <1>1
  <1>3. Loaded(netlist) = FlattenSeq(bare)
    <2>1. DOMAIN netlist.nodes = 1..n
      BY <1>1 DEF Orig
    <2>2. \A i \in 1..n : [k \in DOMAIN netlist.fanouts[i] |->
             [src |-> i, sink |-> netlist.fanouts[i][k].sink, delay |-> netlist.fanouts[i][k].delay]] = bareRow(i)
      BY <1>2 DEF Bare, Fanout
    <2> HIDE DEF bareRow
    <2> QED
      BY <2>1, <2>2 DEF Loaded
  <1>4. \A i \in 1..n : \A k \in 1..lens[i] : Fanout(i, k) \in FanoutEdges /\ Bare(Fanout(i, k)) \in Pending
    <2> TAKE i \in 1..n
    <2> TAKE k \in 1..lens[i]
    <2>1. Fanout(i, k) \in FanoutEdges
      BY <1>1, <1>2, FanoutEdgesAre
    <2>2. Bare(Fanout(i, k)) \in Pending
      BY <1>1, <1>2 DEF Bare, Fanout, Pending
    <2> QED
      BY <2>1, <2>2
  <1> HIDE DEF lens
  <1>5. \A i \in 1..n : /\ row(i) \in Seq(FanoutEdges) /\ Len(row(i)) = lens[i]
                        /\ bareRow(i) \in Seq(Pending) /\ Len(bareRow(i)) = lens[i]
    <2> TAKE i \in 1..n
    <2> DEFINE a == row(i)
               b == bareRow(i)
               m == lens[i]
               F == FanoutEdges
               P == Pending
    <2>1. m \in Nat /\ a \in [1..m -> F] /\ b \in [1..m -> P]
      BY <1>2, <1>4
    <2> HIDE DEF a, b, m, F, P
    <2>2. a \in Seq(F) /\ b \in Seq(P) /\ DOMAIN a = 1..m /\ DOMAIN b = 1..m
      BY <2>1
    <2>3. Len(a) = m /\ Len(b) = m
      BY <2>1, <2>2, LenProperties
    <2> QED
      BY <2>2, <2>3 DEF a, b, m, F, P
  <1> HIDE DEF row, bareRow
  <1>6. /\ rows \in Seq(Seq(FanoutEdges)) /\ Len(rows) = n /\ DOMAIN rows = 1..n
        /\ bare \in Seq(Seq(Pending)) /\ Len(bare) = n /\ DOMAIN bare = 1..n
    <2> DEFINE F == Seq(FanoutEdges)
               P == Seq(Pending)
    <2>1. rows \in [1..n -> F] /\ bare \in [1..n -> P] /\ DOMAIN rows = 1..n /\ DOMAIN bare = 1..n
      BY <1>5
    <2> HIDE DEF F, P, rows, bare
    <2>2. rows \in Seq(F) /\ bare \in Seq(P)
      BY <1>1, <2>1
    <2>3. Len(rows) = n /\ Len(bare) = n
      BY <1>1, <2>1, <2>2, LenProperties
    <2> QED
      BY <2>1, <2>2, <2>3 DEF F, P
  <1>7. \A i \in 1..n : rows[i] = row(i) /\ bare[i] = bareRow(i)
    OBVIOUS
  <1>8. \A i \in 1..n : \A k \in 1..lens[i] : row(i)[k] = Fanout(i, k) /\ bareRow(i)[k] = Bare(Fanout(i, k))
    BY DEF row, bareRow
  <1> HIDE DEF rows, bare
  <1>9. PICK at : Places(at, n, lens)
    BY <1>1, <1>2, PlacesExist
  <1>10. /\ lens = [i \in 1..Len(rows) |-> Len(rows[i])]
         /\ lens = [i \in 1..Len(bare) |-> Len(bare[i])]
    BY <1>2, <1>5, <1>6, <1>7
  <1>11. /\ Len(g) = at[n]
         /\ \A i \in 1..n : \A k \in 1..lens[i] : g[at[i - 1] + k] = Fanout(i, k)
    <2>1. Places(at, Len(rows), [i \in 1..Len(rows) |-> Len(rows[i])])
      BY <1>6, <1>9, <1>10
    <2>2. /\ Len(FlattenSeq(rows)) = at[Len(rows)]
          /\ \A i \in 1..Len(rows) : \A k \in 1..Len(rows[i]) : FlattenSeq(rows)[at[i - 1] + k] = rows[i][k]
      <3> DEFINE F == FanoutEdges
      <3>1. rows \in Seq(Seq(F))
        BY <1>6
      <3> HIDE DEF F
      <3> QED
        BY <2>1, <3>1, FlattenedPlaces
    <2>3. \A i \in 1..n : \A k \in 1..lens[i] :
             rows[i] = row(i) /\ Len(rows[i]) = lens[i] /\ rows[i][k] = Fanout(i, k)
      BY <1>5, <1>7, <1>8
    <2>4. Len(FlattenSeq(rows)) = at[n]
      BY <1>6, <2>2
    <2>5. ASSUME NEW i \in 1..n, NEW k \in 1..lens[i]
          PROVE  FlattenSeq(rows)[at[i - 1] + k] = Fanout(i, k)
      <3>1. i \in 1..Len(rows) /\ k \in 1..Len(rows[i])
        BY <1>6, <2>3
      <3>2. FlattenSeq(rows)[at[i - 1] + k] = rows[i][k]
        BY <2>2, <3>1
      <3> QED
        BY <2>3, <3>2
    <2> QED
      BY <2>4, <2>5
  <1>12. /\ Len(Loaded(netlist)) = at[n]
         /\ \A i \in 1..n : \A k \in 1..lens[i] : Loaded(netlist)[at[i - 1] + k] = Bare(Fanout(i, k))
    <2>1. Places(at, Len(bare), [i \in 1..Len(bare) |-> Len(bare[i])])
      BY <1>6, <1>9, <1>10
    <2>2. /\ Len(FlattenSeq(bare)) = at[Len(bare)]
          /\ \A i \in 1..Len(bare) : \A k \in 1..Len(bare[i]) : FlattenSeq(bare)[at[i - 1] + k] = bare[i][k]
      <3> DEFINE P == Pending
      <3>1. bare \in Seq(Seq(P))
        BY <1>6
      <3> HIDE DEF P
      <3> QED
        BY <2>1, <3>1, FlattenedPlaces
    <2>3. \A i \in 1..n : \A k \in 1..lens[i] :
             bare[i] = bareRow(i) /\ Len(bare[i]) = lens[i] /\ bare[i][k] = Bare(Fanout(i, k))
      BY <1>5, <1>7, <1>8
    <2>4. Len(FlattenSeq(bare)) = at[n]
      BY <1>6, <2>2
    <2>5. ASSUME NEW i \in 1..n, NEW k \in 1..lens[i]
          PROVE  FlattenSeq(bare)[at[i - 1] + k] = Bare(Fanout(i, k))
      <3>1. i \in 1..Len(bare) /\ k \in 1..Len(bare[i])
        BY <1>6, <2>3
      <3>2. FlattenSeq(bare)[at[i - 1] + k] = bare[i][k]
        BY <2>2, <3>1
      <3> QED
        BY <2>3, <3>2
    <2> QED
      BY <1>3, <2>4, <2>5
  <1>13. Permutes(g, FanoutEdges)
    <2>1. \A i, j \in DOMAIN rows : \A k \in DOMAIN rows[i] : \A l \in DOMAIN rows[j] :
             rows[i][k] = rows[j][l] => i = j /\ k = l
      <3> TAKE i, j \in DOMAIN rows
      <3> TAKE k \in DOMAIN rows[i]
      <3> TAKE l \in DOMAIN rows[j]
      <3> HAVE rows[i][k] = rows[j][l]
      <3>1. /\ i \in 1..n /\ j \in 1..n /\ k \in 1..lens[i] /\ l \in 1..lens[j]
        BY <1>6, <1>7 DEF row
      <3>2. Fanout(i, k) = Fanout(j, l)
        BY <1>7, <1>8, <3>1
      <3>3. Fanout(i, k).src = i /\ Fanout(i, k).nth = k /\ Fanout(j, l).src = j /\ Fanout(j, l).nth = l
        BY DEF Fanout
      <3> QED
        BY <3>2, <3>3
    <2>2. \A x \in FanoutEdges : \E i \in DOMAIN rows : \E k \in DOMAIN rows[i] : rows[i][k] = x
      <3> TAKE x \in FanoutEdges
      <3>1. PICK i \in Orig : \E k \in DOMAIN netlist.fanouts[i] : x = Fanout(i, k)
        BY FanoutEdgesAre
      <3>2. PICK k \in DOMAIN netlist.fanouts[i] : x = Fanout(i, k)
        BY <3>1
      <3>3. i \in 1..n /\ k \in 1..lens[i]
        BY <1>1, <1>2
      <3>4. i \in DOMAIN rows /\ k \in DOMAIN rows[i] /\ rows[i][k] = x
        BY <1>6, <1>7, <1>8, <3>2, <3>3 DEF row
      <3> QED
        BY <3>4
    <2>3. rows \in Seq(Seq(FanoutEdges))
      BY <1>6
    <2> QED
      BY <2>1, <2>2, <2>3, FlattenedPermutes
  <1>14. DOMAIN g = 1..at[n]
    BY <1>11, <1>13, LenProperties DEF Permutes
  <1> HIDE DEF g
  <1>15. \A p \in DOMAIN g : Loaded(netlist)[p] = Bare(g[p])
    <2> TAKE p \in DOMAIN g
    <2>1. PICK i \in 1..n : \E k \in 1..lens[i] : p = at[i - 1] + k
      BY <1>9, <1>14, PlaceOf
    <2> QED
      BY <1>11, <1>12, <2>1
  <1>16. InOrder(g)
    <2> SUFFICES ASSUME NEW p \in DOMAIN g, NEW q \in DOMAIN g, p < q
                 PROVE  g[p].nth # 0 /\ (g[p].src = g[q].src => g[p].nth < g[q].nth)
      BY DEF InOrder
    <2>1. PICK i \in 1..n : \E k \in 1..lens[i] : p = at[i - 1] + k
      BY <1>9, <1>14, PlaceOf
    <2>2. PICK k \in 1..lens[i] : p = at[i - 1] + k
      BY <2>1
    <2>3. PICK j \in 1..n : \E l \in 1..lens[j] : q = at[j - 1] + l
      BY <1>9, <1>14, PlaceOf
    <2>4. PICK l \in 1..lens[j] : q = at[j - 1] + l
      BY <2>3
    <2>5. g[p].src = i /\ g[p].nth = k /\ g[q].src = j /\ g[q].nth = l
      <3>1. g[p] = Fanout(i, k) /\ g[q] = Fanout(j, l)
        BY <1>11, <2>2, <2>4
      <3> QED
        BY <3>1 DEF Fanout
    <2>6. k \in Nat /\ k # 0 /\ l \in Nat
      BY <1>2
    <2>7. ASSUME i = j PROVE k < l
      <3>1. at[i - 1] \in Nat
        <4>1. i - 1 \in 0..n
          BY <1>1
        <4> QED
          BY <1>9, <4>1 DEF Places
      <3> QED
        BY <2>2, <2>4, <2>6, <2>7, <3>1
    <2> QED
      BY <2>5, <2>6, <2>7
  <1> QED
    BY <1>11, <1>12, <1>13, <1>15, <1>16
-------------------------------------------------------------------------------
(* While the graph is built, the edges stored and after them those still to *)
(* be added are g, which holds the netlist's edges once each.               *)
TraceOK(g) ==
    /\ Permutes(g, IF step = "load" THEN FanoutEdges ELSE Edges) /\ InOrder(g)
    /\ Len(g) = Len(srcOf) + Len(todo)
    /\ \A e \in EdgeIds : srcOf[e] = g[e].src /\ sinkOf[e] = g[e].sink /\ delays[e] = g[e].delay
    /\ \A k \in DOMAIN todo : todo[k] = Bare(g[Len(srcOf) + k])

OutEdgesAscend ==
    \A n \in NodeIds : \A i, j \in DOMAIN outEdges[n] : i < j => outEdges[n][i] < outEdges[n][j]

TInv ==
    Building => /\ OutEdgesAscend /\ nodeMap = <<>>
                /\ delays \in Seq(Nat) /\ Len(delays) = Len(srcOf)
                /\ \E g : TraceOK(g)

(* The parser adds the fanouts in their order.                              *)
LEMMA TraceStart == Init => TInv
  <1> SUFFICES ASSUME Init PROVE TInv
    OBVIOUS
  <1>1. /\ netlist \in Netlists /\ todo = Loaded(netlist) /\ step = "load" /\ delays = <<>>
        /\ nodeMap = <<>> /\ srcOf = <<>> /\ EdgeIds = {} /\ NodeIds = {}
    BY DEF Init, GraphInit, LayoutInit, EdgeIds, NodeIds
  <1>2. PICK g : /\ Permutes(g, FanoutEdges) /\ InOrder(g) /\ Len(g) = Len(todo)
                 /\ \A k \in DOMAIN g : todo[k] = Bare(g[k])
    BY <1>1, LoadedInOrder
  <1>3. Len(todo) \in Nat /\ DOMAIN todo = 1..Len(todo) /\ DOMAIN g = 1..Len(g)
    <2>1. todo \in Seq(Pending)
      BY <1>1, LoadedEdges
    <2> QED
      BY <1>2, <2>1, LenProperties DEF Permutes
  <1>4. Len(srcOf) = 0 /\ Len(delays) = 0 /\ delays \in Seq(Nat)
    BY <1>1
  <1>5. \A k \in DOMAIN todo : Len(srcOf) + k = k
    BY <1>3, <1>4
  <1>6. TraceOK(g)
    BY <1>1, <1>2, <1>3, <1>4, <1>5 DEF TraceOK
  <1> QED
    BY <1>1, <1>4, <1>6 DEF TInv, OutEdgesAscend

(* Steps that leave the edges alone.                                        *)
LEMMA TraceUnchanged ==
    ASSUME TInv, Building,
           UNCHANGED <<nodes, outEdges, srcOf, sinkOf, delays, netlist, todo, nodeMap>>,
           step' = "load" <=> step = "load"
    PROVE  TInv'
  <1>1. PICK g : TraceOK(g)
    BY DEF TInv
  <1>2. FanoutEdges' = FanoutEdges /\ BlockEdges' = BlockEdges /\ Edges' = Edges
    BY DEF FanoutEdges, BlockEdges, Edges, Orig, TypeOf
  <1>3. EdgeIds' = EdgeIds /\ NodeIds' = NodeIds
    BY DEF EdgeIds, NodeIds
  <1>4. TraceOK(g)'
    BY <1>1, <1>2, <1>3 DEF TraceOK
  <1>5. OutEdgesAscend'
    BY <1>3 DEF TInv, OutEdgesAscend
  <1> QED
    BY <1>4, <1>5 DEF TInv

(* A new node has no edges yet.                                             *)
LEMMA TraceLoadNode ==
    ASSUME BInv, TInv, LoadNode
    PROVE  TInv'
  <1>1. /\ step = "load" /\ Building /\ GraphOK
        /\ UNCHANGED <<srcOf, sinkOf, delays, netlist, todo, nodeMap, step>>
        /\ outEdges' = Append(outEdges, <<>>)
        /\ nodes' = Append(nodes, netlist.nodes[Len(nodes) + 1])
    BY DEF LoadNode, add_node, BInv, Building, IInv, input, traversalVars, layoutVars
  <1>2. PICK g : TraceOK(g)
    BY <1>1 DEF TInv
  <1>3. FanoutEdges' = FanoutEdges /\ EdgeIds' = EdgeIds
    BY <1>1 DEF FanoutEdges, Orig, EdgeIds
  <1>4. TraceOK(g)'
    BY <1>1, <1>2, <1>3 DEF TraceOK
  <1>5. OutEdgesAscend'
    <2> DEFINE len == Len(nodes)
               none == <<>>
    <2>1. /\ outEdges \in Seq(Seq(Nat)) /\ Len(outEdges) = len /\ len \in Nat
          /\ none \in Seq(Nat) /\ nodes \in Seq(NodeData) /\ DOMAIN nodes = 1..len
          /\ DOMAIN none = {}
      BY <1>1, GraphFacts DEF GraphOK, NodeIds
    <2>2. NodeIds' = 1..(len + 1)
      BY <1>1, <2>1 DEF NodeIds
    <2> HIDE DEF none, len
    <2>3. /\ \A n \in 1..len : outEdges'[n] = outEdges[n]
          /\ outEdges'[len + 1] = none
      BY <1>1, <2>1, Appended DEF none
    <2>4. \A n \in 1..(len + 1) : n \in 1..len \/ n = len + 1
      BY <2>1
    <2>5. \A n \in 1..len : \A i, j \in DOMAIN outEdges[n] : i < j => outEdges[n][i] < outEdges[n][j]
      BY <1>1, <2>1 DEF TInv, OutEdgesAscend, NodeIds
    <2> QED
      BY <2>1, <2>2, <2>3, <2>4, <2>5 DEF OutEdgesAscend
  <1> QED
    BY <1>1, <1>4, <1>5 DEF TInv

(* The next edge is stored as the last of its source, with its delay.       *)
LEMMA TraceLoadEdge ==
    ASSUME BInv, TInv, LoadEdge
    PROVE  TInv'
  <1> DEFINE h == Head(todo)
             num == Len(srcOf)
             new == num + 1
             left == Len(todo)
  <1>1. /\ step \in {"load", "fixup"} /\ Building /\ GraphOK /\ todo # <<>> /\ todo \in Seq(Pending)
        /\ UNCHANGED <<nodes, netlist, nodeMap, step>>
        /\ todo' = Tail(todo) /\ h.src \in NodeIds
        /\ srcOf' = Append(srcOf, h.src) /\ sinkOf' = Append(sinkOf, h.sink)
        /\ delays' = Append(delays, h.delay)
        /\ outEdges' = [outEdges EXCEPT ![h.src] = Append(@, new)]
        /\ h.sink \in NodeIds
    BY DEF LoadEdge, add_edge, BInv, Building, IInv, LoadedOK, input, layoutVars
  <1>2. PICK g : TraceOK(g)
    BY <1>1 DEF TInv
  <1>3. /\ srcOf \in Seq(NodeIds) /\ sinkOf \in Seq(NodeIds) /\ Len(sinkOf) = num /\ num \in Nat
        /\ EdgeIds = 1..num /\ delays \in Seq(Nat) /\ Len(delays) = num
    BY <1>1, GraphFacts DEF GraphOK, TInv
  <1>4. /\ left \in Nat /\ left >= 1 /\ DOMAIN todo = 1..left /\ h = todo[1] /\ h \in Pending
        /\ todo' \in Seq(Pending) /\ Len(todo') = left - 1 /\ DOMAIN todo' = 1..(left - 1)
        /\ \A k \in 1..(left - 1) : todo'[k] = todo[k + 1]
    <2>1. left \in Nat /\ DOMAIN todo = 1..left /\ left >= 1
      BY <1>1, LenProperties, EmptySeq
    <2>2. /\ h \in Pending /\ todo' \in Seq(Pending) /\ Len(todo') = left - 1
          /\ \A k \in 1..Len(todo') : todo'[k] = todo[k + 1]
      BY <1>1, HeadTailProperties
    <2>3. h = todo[1]
      BY <1>1, <2>1
    <2> QED
      BY <2>1, <2>2, <2>3, LenProperties
  <1>5. h.src \in Nat /\ h.sink \in Nat /\ h.delay \in Nat
    BY <1>4 DEF Pending
  <1> HIDE DEF h, num, left
  <1>6. /\ Len(srcOf') = num + 1 /\ EdgeIds' = 1..(num + 1) /\ Len(delays') = num + 1 /\ delays' \in Seq(Nat)
        /\ \A e \in 1..num : srcOf'[e] = srcOf[e] /\ sinkOf'[e] = sinkOf[e] /\ delays'[e] = delays[e]
        /\ srcOf'[num + 1] = h.src /\ sinkOf'[num + 1] = h.sink /\ delays'[num + 1] = h.delay
    BY <1>1, <1>3, <1>5, Appended DEF num, EdgeIds
  <1>7. h = Bare(g[num + 1])
    BY <1>2, <1>4 DEF TraceOK, num
  <1>8. h.src = g[num + 1].src /\ h.sink = g[num + 1].sink /\ h.delay = g[num + 1].delay
    BY <1>7 DEF Bare
  <1>9. \A e \in EdgeIds' : srcOf'[e] = g[e].src /\ sinkOf'[e] = g[e].sink /\ delays'[e] = g[e].delay
    <2> TAKE e \in EdgeIds'
    <2>1. CASE e \in 1..num
      BY <1>2, <1>3, <1>6, <2>1 DEF TraceOK
    <2>2. CASE e = num + 1
      BY <1>6, <1>8, <2>2
    <2> QED
      BY <1>3, <1>6, <2>1, <2>2
  <1>10. \A k \in DOMAIN todo' : todo'[k] = Bare(g[Len(srcOf') + k])
    <2> TAKE k \in DOMAIN todo'
    <2>3. k \in 1..(left - 1) /\ Len(srcOf') = num + 1
      BY <1>4, <1>6
    <2>1. k + 1 \in 1..left /\ num + (k + 1) = (num + 1) + k
      <3>1. left \in Nat /\ num \in Nat /\ k \in 1..(left - 1)
        BY <1>3, <1>4, <2>3
      <3> QED
        BY <3>1
    <2>2. todo'[k] = todo[k + 1] /\ todo[k + 1] = Bare(g[num + (k + 1)])
      BY <1>2, <1>4, <2>3, <2>1 DEF TraceOK, num
    <2> QED
      BY <2>3, <2>1, <2>2
  <1>11. Len(g) = Len(srcOf') + Len(todo')
    <2>1. Len(g) = num + left
      BY <1>2 DEF TraceOK, num, left
    <2> QED
      BY <1>3, <1>4, <1>6, <2>1
  <1>12. FanoutEdges' = FanoutEdges /\ Edges' = Edges
    BY <1>1 DEF FanoutEdges, BlockEdges, Edges, Orig, TypeOf
  <1>13. TraceOK(g)'
    BY <1>1, <1>2, <1>9, <1>10, <1>11, <1>12 DEF TraceOK
  <1>14. OutEdgesAscend'
    <2>1. NodeIds' = NodeIds /\ DOMAIN outEdges = NodeIds
      BY <1>1, GraphFacts DEF NodeIds
    <2> SUFFICES ASSUME NEW n \in NodeIds, NEW i \in DOMAIN outEdges'[n], NEW j \in DOMAIN outEdges'[n], i < j
                 PROVE  outEdges'[n][i] < outEdges'[n][j]
      BY <2>1 DEF OutEdgesAscend
    <2>2. CASE n # h.src
      <3>1. outEdges'[n] = outEdges[n]
        BY <1>1, <2>1, <2>2
      <3> QED
        BY <1>1, <3>1 DEF TInv, OutEdgesAscend
    <2>3. CASE n = h.src
      <3> DEFINE list == outEdges[n]
                 len == Len(list)
      <3>1. outEdges'[n] = Append(list, new)
        BY <1>1, <2>1, <2>3
      <3>2. list \in Seq(Nat) /\ new \in Nat /\ len \in Nat
        BY <1>1, <1>3, GraphFacts
      <3>3. \A k \in 1..len : list[k] \in 1..num
        <4>1. Listing(NodeIds, EdgeIds, outEdges, srcOf) /\ DOMAIN list = 1..len
          BY <1>1, GraphFacts DEF GraphOK
        <4> QED
          BY <1>3, <4>1 DEF Listing
      <3>4. \A k, l \in 1..len : k < l => list[k] < list[l]
        <4>1. DOMAIN list = 1..len
          BY <1>1, GraphFacts
        <4> QED
          BY <1>1, <4>1 DEF TInv, OutEdgesAscend
      <3> HIDE DEF list, len, new
      <3>5. /\ DOMAIN outEdges'[n] = 1..(len + 1)
            /\ \A k \in 1..len : outEdges'[n][k] = list[k]
            /\ outEdges'[n][len + 1] = new
        BY <3>1, <3>2, Appended DEF len
      <3>6. i \in 1..len
        BY <3>2, <3>5
      <3>7. CASE j \in 1..len
        BY <3>4, <3>5, <3>6, <3>7
      <3>8. CASE j = len + 1
        <4>1. outEdges'[n][i] \in 1..num
          BY <3>3, <3>5, <3>6
        <4> QED
          BY <1>3, <3>5, <3>8, <4>1 DEF new
      <3> QED
        BY <3>2, <3>5, <3>7, <3>8
    <2> QED
      BY <2>2, <2>3
  <1> QED
    BY <1>1, <1>6, <1>13, <1>14 DEF TInv

(* A clock edge is one of the netlist's.                                    *)
Clocked(x) == [src |-> x.src, sink |-> x.sink, delay |-> 0, nth |-> 0]

LEMMA ClockEdgesAre ==
    ASSUME netlist \in Netlists, nodes = netlist.nodes
    PROVE  LET c == [k \in DOMAIN ClockEdges |-> Clocked(ClockEdges[k])]
           IN /\ Permutes(c, BlockEdges) /\ Len(c) = Len(ClockEdges)
              /\ \A k \in DOMAIN ClockEdges : ClockEdges[k] = Bare(c[k]) /\ c[k].nth = 0
  <1> DEFINE len == Len(ClockEdges)
             c == [k \in 1..len |-> Clocked(ClockEdges[k])]
             B == BlockEdges
  <1>1. /\ len \in Nat /\ DOMAIN ClockEdges = 1..len
        /\ \A k \in 1..len : ClockEdges[k] \in Pending /\ ClockEdges[k].delay = 0
        /\ \A m, n : Joins(ClockEdges, m, n) <=> BlockLink(netlist, m, n)
        /\ \A k, l \in 1..len : ClockEdges[k] = ClockEdges[l] => k = l
    BY ClockEdgesListed, LenProperties, ElementOfSeq
  <1>2. \A x : x \in B <=> \E m, n : BlockLink(netlist, m, n) /\ x = [src |-> m, sink |-> n, delay |-> 0, nth |-> 0]
    <2> TAKE x
    <2>1. ASSUME x \in B
          PROVE  \E m, n : BlockLink(netlist, m, n) /\ x = [src |-> m, sink |-> n, delay |-> 0, nth |-> 0]
      <3>1. PICK p \in {q \in Orig \X Orig : /\ netlist.blocks[q[1]] = netlist.blocks[q[2]]
                                            /\ TypeOf(q[1]) = "FF_CLOCK"
                                            /\ TypeOf(q[2]) \in {"FF_SOURCE", "FF_SINK"}} :
                   x = [src |-> p[1], sink |-> p[2], delay |-> 0, nth |-> 0]
        BY <2>1 DEF BlockEdges
      <3>2. BlockLink(netlist, p[1], p[2])
        BY <3>1 DEF BlockLink, Orig, TypeOf
      <3> QED
        BY <3>1, <3>2
    <2>2. ASSUME NEW m, NEW n, BlockLink(netlist, m, n), x = [src |-> m, sink |-> n, delay |-> 0, nth |-> 0]
          PROVE  x \in B
      <3>1. /\ <<m, n>> \in Orig \X Orig /\ <<m, n>>[1] = m /\ <<m, n>>[2] = n
            /\ netlist.blocks[m] = netlist.blocks[n]
            /\ TypeOf(m) = "FF_CLOCK" /\ TypeOf(n) \in {"FF_SOURCE", "FF_SINK"}
        BY <2>2 DEF BlockLink, Orig, TypeOf
      <3>2. \A p : /\ p \in Orig \X Orig /\ netlist.blocks[p[1]] = netlist.blocks[p[2]]
                   /\ TypeOf(p[1]) = "FF_CLOCK" /\ TypeOf(p[2]) \in {"FF_SOURCE", "FF_SINK"}
                   => [src |-> p[1], sink |-> p[2], delay |-> 0, nth |-> 0] \in BlockEdges
        BY DEF BlockEdges
      <3>3. [src |-> <<m, n>>[1], sink |-> <<m, n>>[2], delay |-> 0, nth |-> 0] \in BlockEdges
        BY <3>1, <3>2
      <3> QED
        BY <2>2, <3>1, <3>3
    <2> QED
      BY <2>1, <2>2
  <1> HIDE DEF B, len
  <1>3. \A k \in 1..len : c[k] = Clocked(ClockEdges[k])
    OBVIOUS
  <1>4. \A k \in 1..len : c[k] \in B
    <2> TAKE k \in 1..len
    <2>1. BlockLink(netlist, ClockEdges[k].src, ClockEdges[k].sink)
      BY <1>1 DEF Joins
    <2> QED
      BY <1>2, <1>3, <2>1 DEF Clocked
  <1>5. c \in Seq(B) /\ Len(c) = len /\ DOMAIN c = 1..len
    <2>1. c \in [1..len -> B]
      BY <1>4
    <2> HIDE DEF c
    <2>2. c \in Seq(B)
      BY <1>1, <2>1
    <2> QED
      BY <1>1, <2>1, <2>2, LenProperties
  <1> HIDE DEF c
  <1>6. \A x \in B : \E k \in 1..len : c[k] = x
    <2> TAKE x \in B
    <2>1. PICK m, n : BlockLink(netlist, m, n) /\ x = [src |-> m, sink |-> n, delay |-> 0, nth |-> 0]
      BY <1>2
    <2>2. PICK k \in 1..len : ClockEdges[k].src = m /\ ClockEdges[k].sink = n
      BY <1>1, <2>1 DEF Joins
    <2>3. c[k] = x
      BY <1>3, <2>1, <2>2 DEF Clocked
    <2> QED
      BY <2>3
  <1>7. \A k \in 1..len : c[k].src = ClockEdges[k].src /\ c[k].sink = ClockEdges[k].sink /\ c[k].nth = 0 /\ c[k].delay = 0
    <2> TAKE k \in 1..len
    <2> DEFINE x == ClockEdges[k]
    <2>1. c[k] = Clocked(x)
      BY <1>3
    <2> HIDE DEF x
    <2>2. c[k].src = x.src /\ c[k].sink = x.sink /\ c[k].nth = 0 /\ c[k].delay = 0
      BY <2>1 DEF Clocked
    <2> QED
      BY <2>2 DEF x
  <1>8. \A k \in 1..len : ClockEdges[k] = Bare(c[k])
    BY <1>1, <1>7 DEF Bare, Pending
  <1>9. ASSUME NEW k \in 1..len, NEW l \in 1..len, c[k] = c[l] PROVE k = l
    BY <1>1, <1>8, <1>9
  <1>10. Permutes(c, B)
    BY <1>5, <1>6, <1>9 DEF Permutes
  <1>11. c = [k \in DOMAIN ClockEdges |-> Clocked(ClockEdges[k])]
    BY <1>1 DEF c
  <1> QED
    BY <1>1, <1>5, <1>7, <1>8, <1>10, <1>11 DEF B, len

(* Then the clock edges come, after all the fanouts.                        *)
LEMMA TraceClockEdges ==
    ASSUME BInv, TInv, add_ff_clock_to_source_sink_edges
    PROVE  TInv'
  <1>1. /\ step = "load" /\ step' = "fixup" /\ Building /\ GraphOK /\ LoadedOK /\ netlist \in Netlists
        /\ Len(nodes) = Len(netlist.nodes) /\ todo = <<>> /\ todo' = ClockEdges
        /\ UNCHANGED <<nodes, outEdges, srcOf, sinkOf, delays, netlist, nodeMap>>
    BY DEF add_ff_clock_to_source_sink_edges, BInv, Building, IInv, input, graphVars, graphData,
           layoutVars, traversalVars
  <1>2. nodes = netlist.nodes
    BY <1>1, AllRead
  <1>3. PICK f : TraceOK(f)
    BY <1>1 DEF TInv
  <1> DEFINE c == [k \in DOMAIN ClockEdges |-> Clocked(ClockEdges[k])]
             g == f \o c
             m == Len(f)
             n == Len(c)
             F == FanoutEdges
             B == BlockEdges
             E == Edges
  <1>4. /\ Permutes(c, B) /\ n = Len(ClockEdges)
        /\ \A k \in DOMAIN ClockEdges : ClockEdges[k] = Bare(c[k]) /\ c[k].nth = 0
    BY <1>1, <1>2, ClockEdgesAre
  <1>5. Permutes(f, F) /\ InOrder(f) /\ m = Len(srcOf)
    <2>1. Len(srcOf) \in Nat /\ Len(todo) = 0
      BY <1>1, GraphFacts
    <2> QED
      BY <1>1, <1>3, <2>1 DEF TraceOK
  <1>6. E = F \cup B
    BY DEF Edges
  <1>7. \A x \in F : x.nth # 0
    <2> TAKE x \in F
    <2>1. PICK i \in Orig : \E k \in DOMAIN netlist.fanouts[i] : x = Fanout(i, k)
      BY FanoutEdgesAre
    <2>2. PICK k \in DOMAIN netlist.fanouts[i] : x = Fanout(i, k)
      BY <2>1
    <2>3. x.nth = k /\ k # 0
      BY <1>1, <2>2, NetlistFacts DEF Fanout, Orig
    <2> QED
      BY <2>3
  <1>8. DOMAIN ClockEdges = 1..n /\ n \in Nat /\ DOMAIN c = 1..n
    <2>1. ClockEdges \in Seq(Pending)
      BY <1>1, <1>2, ClockEdgesListed
    <2> QED
      BY <1>4, <2>1, LenProperties
  <1> HIDE DEF c, F, B, E
  <1>9. /\ m \in Nat /\ DOMAIN f = 1..m
        /\ f \in Seq(F) /\ c \in Seq(B) /\ f \in Seq(E) /\ c \in Seq(E)
    <2>1. f \in Seq(F) /\ c \in Seq(B)
      BY <1>4, <1>5 DEF Permutes
    <2> QED
      BY <1>6, <2>1, LenProperties
  <1>10. /\ g \in Seq(E) /\ Len(g) = m + n /\ DOMAIN g = 1..(m + n)
         /\ \A i \in 1..m : g[i] = f[i]
         /\ \A i \in 1..n : g[m + i] = c[i]
    <2>1. g \in Seq(E) /\ Len(g) = m + n
          /\ \A i \in 1..(m + n) : g[i] = IF i <= m THEN f[i] ELSE c[i - m]
      BY <1>9, ConcatProperties
    <2>2. DOMAIN g = 1..Len(g)
      BY <2>1, LenProperties
    <2> HIDE DEF g, m, n
    <2>3. \A i \in 1..n : m + i \in 1..(m + n) /\ ~(m + i <= m) /\ (m + i) - m = i
      BY <1>8, <1>9
    <2>4. \A i \in 1..m : i \in 1..(m + n) /\ i <= m
      BY <1>8, <1>9
    <2> QED
      BY <2>1, <2>2, <2>3, <2>4
  <1>11. Permutes(g, E)
    <2>1. \A i \in 1..m, j \in 1..n : f[i] # c[j]
      BY <1>4, <1>7, <1>8, <1>9, ElementOfSeq
    <2>2. \A i, j \in DOMAIN g : g[i] = g[j] => i = j
      BY <1>4, <1>5, <1>8, <1>9, <2>1, DistinctConcat DEF Permutes
    <2> HIDE DEF g, m, n
    <2>3. \A x \in E : \E k \in DOMAIN g : g[k] = x
      <3> TAKE x \in E
      <3>1. CASE x \in F
        <4>1. PICK k \in 1..m : f[k] = x
          BY <1>5, <1>9, <3>1 DEF Permutes
        <4>2. k \in 1..(m + n)
          BY <1>8, <1>9
        <4> QED
          BY <1>10, <4>1, <4>2
      <3>2. CASE x \in B
        <4>1. PICK k \in 1..n : c[k] = x
          BY <1>4, <1>8, <3>2 DEF Permutes
        <4>2. m + k \in 1..(m + n)
          BY <1>8, <1>9
        <4> QED
          BY <1>10, <4>1, <4>2
      <3> QED
        BY <1>6, <3>1, <3>2
    <2> QED
      BY <1>10, <2>2, <2>3 DEF Permutes
  <1> HIDE DEF g
  <1>12. InOrder(g)
    <2> HIDE DEF m, n
    <2> SUFFICES ASSUME NEW i \in DOMAIN g, NEW j \in DOMAIN g, i < j
                 PROVE  \/ g[j].nth = 0
                        \/ g[i].nth # 0 /\ (g[i].src = g[j].src => g[i].nth < g[j].nth)
      BY DEF InOrder
    <2>1. CASE j \in 1..m
      <3>1. i \in 1..m
        BY <1>8, <1>9, <1>10, <2>1
      <3>2. g[i] = f[i] /\ g[j] = f[j]
        BY <1>10, <2>1, <3>1
      <3> QED
        BY <1>5, <1>9, <2>1, <3>1, <3>2 DEF InOrder
    <2>2. CASE j \notin 1..m
      <3>1. j - m \in 1..n /\ m + (j - m) = j
        BY <1>8, <1>9, <1>10, <2>2
      <3> QED
        BY <1>4, <1>8, <1>10, <3>1
    <2> QED
      BY <2>1, <2>2
  <1>13. \A k \in DOMAIN ClockEdges : ClockEdges[k] = Bare(g[Len(srcOf) + k])
    BY <1>4, <1>5, <1>8, <1>10
  <1>14. \A e \in EdgeIds : srcOf[e] = g[e].src /\ sinkOf[e] = g[e].sink /\ delays[e] = g[e].delay
    <2> TAKE e \in EdgeIds
    <2>1. e \in 1..m
      BY <1>1, <1>5, GraphFacts
    <2> QED
      BY <1>3, <1>10, <2>1 DEF TraceOK
  <1>15. Len(g) = Len(srcOf) + Len(ClockEdges)
    BY <1>4, <1>5, <1>10
  <1>16. Edges' = E /\ EdgeIds' = EdgeIds /\ NodeIds' = NodeIds
    BY <1>1 DEF E, FanoutEdges, BlockEdges, Edges, Orig, TypeOf, EdgeIds, NodeIds
  <1>17. PICK h : h = g
    OBVIOUS
  <1>18. TraceOK(h)'
    <2>1. Permutes(h, IF step' = "load" THEN FanoutEdges' ELSE Edges')
      BY <1>1, <1>11, <1>16, <1>17
    <2> QED
      BY <1>1, <1>12, <1>13, <1>14, <1>15, <1>16, <1>17, <2>1 DEF TraceOK
  <1> QED
    BY <1>1, <1>16, <1>18 DEF TInv, OutEdgesAscend

(* No other step adds an edge.                                              *)
LEMMA TraceStep == BInv /\ TInv /\ [Next]_vars => TInv'
  <1> SUFFICES ASSUME BInv, TInv, [Next]_vars
               PROVE  TInv'
    OBVIOUS
  <1>1. CASE LoadNode \/ LoadEdge \/ add_ff_clock_to_source_sink_edges
    BY <1>1, TraceLoadNode, TraceLoadEdge, TraceClockEdges
  <1>2. CASE LevelizeEarly \/ Levelize
    <2>1. /\ UNCHANGED <<nodes, outEdges, srcOf, sinkOf, delays, netlist, todo, nodeMap>>
          /\ Building /\ (step' = "load" <=> step = "load")
      BY <1>2 DEF LevelizeEarly, Levelize, BeginLevelize, graphData, Building, input, traversalVars, layoutVars
    <2> QED
      BY <2>1, TraceUnchanged
  <1>3. CASE WalkGraph
    <2>1. LevelizeStep /\ UNCHANGED <<delays, netlist, todo, nodeMap, step>>
      BY <1>3 DEF WalkGraph, input, traversalVars, layoutVars
    <2>2. UNCHANGED <<nodes, outEdges, srcOf, sinkOf>>
      BY <2>1 DEF LevelizeStep, CountFanin, StartWalk, TraverseEdge, LeaveNode, LeaveLevel, graphData
    <2>3. Building
      BY <2>1, NoWalkOnceLevelized DEF BInv
    <2> QED
      BY <2>1, <2>2, <2>3, TraceUnchanged
  <1>4. CASE OptimizeEdges \/ OptimizeNodes \/ KeepLayout
    BY <1>4 DEF OptimizeEdges, OptimizeNodes, KeepLayout, TInv, Building
  <1>5. CASE Analyze
    BY <1>5 DEF Analyze, TInv, Building
  <1>6. CASE UNCHANGED vars
    <2>1. UNCHANGED <<nodes, outEdges, srcOf, sinkOf, delays, netlist, todo, nodeMap, step>>
      BY <1>6 DEF vars, graphVars, graphData, layoutVars, traversalVars
    <2> QED
      BY <2>1, TraceUnchanged DEF TInv, Building
  <1> QED
    BY <1>1, <1>2, <1>3, <1>4, <1>5, <1>6 DEF Next
-------------------------------------------------------------------------------
(* Places that hold 1 to len, the larger the later and zeros last, hold     *)
(* them at 1 to len.                                                        *)
Counting(f, num, len) ==
    /\ len \in Nat /\ num \in Nat
    /\ \A i \in 1..num : f[i] \in 0..len
    /\ \A k \in 1..len : \E i \in 1..num : f[i] = k
    /\ \A i, j \in 1..num : i < j /\ f[j] # 0 => f[i] # 0 /\ f[i] < f[j]

LEMMA CountsUp ==
    ASSUME NEW len, NEW num, NEW f, Counting(f, num, len)
    PROVE  \A k \in 1..len : k <= num /\ f[k] = k
  <1> DEFINE Q == {m \in Nat : m <= len => \A l \in 1..m : l <= num /\ f[l] = l}
  <1>1. 0 \in Q
    OBVIOUS
  <1>2. ASSUME NEW m \in Nat, m \in Q PROVE m + 1 \in Q
    <2> SUFFICES ASSUME m + 1 <= len PROVE \A l \in 1..(m + 1) : l <= num /\ f[l] = l
      OBVIOUS
    <2> DEFINE k == m + 1
    <2>1. \A l \in 1..m : l <= num /\ f[l] = l
      BY <1>2 DEF Counting
    <2>2. k \in 1..len /\ k \in Nat
      BY DEF Counting
    <2>3. PICK i \in 1..num : f[i] = k
      BY <2>2 DEF Counting
    <2>4. ~(i \in 1..m)
      BY <2>1, <2>3
    <2>5. ASSUME i # k PROVE FALSE
      <3>1. k \in 1..num /\ k < i /\ f[i] # 0
        BY <2>2, <2>3, <2>4, <2>5 DEF Counting
      <3>2. f[k] # 0 /\ f[k] < k /\ f[k] \in 0..len
        BY <2>3, <3>1 DEF Counting
      <3> DEFINE l == f[k]
      <3>3. l \in 1..m
        BY <3>2
      <3>4. l \in 1..num /\ l < k /\ f[l] = l
        BY <2>1, <3>1, <3>2, <3>3
      <3>5. f[l] < f[k]
        BY <3>1, <3>2, <3>4 DEF Counting
      <3> QED
        BY <3>2, <3>4, <3>5
    <2> QED
      BY <2>1, <2>3, <2>5
  <1> HIDE DEF Q
  <1>3. len \in Q
    BY <1>1, <1>2, NaturalInduction DEF Counting
  <1> QED
    BY <1>3 DEF Q

(* The fanouts of a node are its first out-edges, in their order.           *)
LEMMA FanoutsComeFirst ==
    ASSUME netlist \in Netlists, GraphOK, NodeIds = Orig, OutEdgesAscend,
           NEW g, Permutes(g, Edges), InOrder(g), DOMAIN g = EdgeIds,
           \A e \in EdgeIds : srcOf[e] = g[e].src,
           NEW n \in Orig
    PROVE  \A k \in DOMAIN netlist.fanouts[n] :
              k \in DOMAIN outEdges[n] /\ g[outEdges[n][k]] = Fanout(n, k)
  <1> DEFINE len == Len(netlist.fanouts[n])
             out == outEdges[n]
             num == Len(out)
             f == [i \in 1..num |-> g[out[i]].nth]
  <1>1. /\ len \in Nat /\ DOMAIN netlist.fanouts[n] = 1..len
        /\ num \in Nat /\ DOMAIN out = 1..num
    BY NetlistFacts, GraphFacts DEF Orig
  <1>2. /\ \A i \in 1..num : out[i] \in EdgeIds /\ srcOf[out[i]] = n
        /\ \A e \in EdgeIds : srcOf[e] = n => \E i \in 1..num : out[i] = e
        /\ \A i, j \in 1..num : i < j => out[i] < out[j]
    <2>1. Listing(NodeIds, EdgeIds, outEdges, srcOf)
      BY DEF GraphOK
    <2> QED
      BY <1>1, <2>1 DEF Listing, OutEdgesAscend
  <1>3. \A x \in Edges : x.nth = 0 \/ \E i \in Orig : \E k \in DOMAIN netlist.fanouts[i] : x = Fanout(i, k)
    <2>1. \A x \in BlockEdges : x.nth = 0
      BY DEF BlockEdges
    <2> QED
      BY <2>1, FanoutEdgesAre DEF Edges
  <1> HIDE DEF len, num, out
  <1>4. \A i \in 1..num : g[out[i]].nth = 0 \/ (g[out[i]].nth \in 1..len /\ g[out[i]] = Fanout(n, g[out[i]].nth))
    <2> TAKE i \in 1..num
    <2> DEFINE x == g[out[i]]
    <2>1. x \in Edges /\ x.src = n
      <3>1. \A e \in DOMAIN g : g[e] \in Edges
        BY LenProperties, ElementOfSeq DEF Permutes
      <3> QED
        BY <1>2, <3>1
    <2> HIDE DEF x
    <2>2. ASSUME x.nth # 0 PROVE x.nth \in 1..len /\ x = Fanout(n, x.nth)
      <3>1. PICK j \in Orig : \E k \in DOMAIN netlist.fanouts[j] : x = Fanout(j, k)
        BY <1>3, <2>1, <2>2
      <3>2. PICK k \in DOMAIN netlist.fanouts[j] : x = Fanout(j, k)
        BY <3>1
      <3>3. x.src = j /\ x.nth = k
        BY <3>2 DEF Fanout
      <3> QED
        BY <1>1, <2>1, <3>2, <3>3
    <2> QED
      BY <2>2 DEF x
  <1>5. \A k \in 1..len : \E i \in 1..num : g[out[i]] = Fanout(n, k)
    <2> TAKE k \in 1..len
    <2>1. Fanout(n, k) \in Edges
      BY <1>1, FanoutEdgesAre DEF Edges
    <2>2. PICK e \in EdgeIds : g[e] = Fanout(n, k)
      BY <2>1 DEF Permutes
    <2>3. srcOf[e] = n
      <3>1. Fanout(n, k).src = n
        BY DEF Fanout
      <3> QED
        BY <2>2, <3>1
    <2> QED
      BY <1>2, <2>2, <2>3
  <1>6. \A i, j \in 1..num : i < j /\ g[out[j]].nth # 0 => g[out[i]].nth # 0 /\ g[out[i]].nth < g[out[j]].nth
    <2> TAKE i, j \in 1..num
    <2> HAVE i < j /\ g[out[j]].nth # 0
    <2>1. out[i] < out[j] /\ out[i] \in DOMAIN g /\ out[j] \in DOMAIN g /\ g[out[i]].src = g[out[j]].src
      BY <1>2
    <2> QED
      BY <2>1 DEF InOrder
  <1>7. \A i \in 1..num : f[i] = g[out[i]].nth
    OBVIOUS
  <1> HIDE DEF f
  <1>8. \A i \in 1..num : f[i] \in 0..len
    BY <1>1, <1>4, <1>7
  <1>9. \A k \in 1..len : \E i \in 1..num : f[i] = k
    <2>1. \A k : Fanout(n, k).nth = k
      BY DEF Fanout
    <2> QED
      BY <1>5, <1>7, <2>1
  <1>10. \A k \in 1..len : k <= num /\ f[k] = k
    <2>1. \A i, j \in 1..num : i < j /\ f[j] # 0 => f[i] # 0 /\ f[i] < f[j]
      BY <1>6, <1>7
    <2>2. len \in Nat /\ num \in Nat
      BY <1>1
    <2> QED
      <3>1. Counting(f, num, len)
        BY <1>8, <1>9, <2>1, <2>2 DEF Counting
      <3> QED
        BY <3>1, CountsUp
  <1>11. \A k \in 1..len : k \in 1..num /\ g[out[k]] = Fanout(n, k)
    <2> TAKE k \in 1..len
    <2>1. k \in 1..num /\ k # 0
      BY <1>1, <1>10
    <2>2. g[out[k]].nth = k
      BY <1>7, <1>10, <2>1
    <2> QED
      BY <1>4, <2>1, <2>2
  <1> QED
    BY <1>1, <1>11 DEF out
-------------------------------------------------------------------------------
(* The graph is the netlist's under the new numbers of the nodes, its edges *)
(* in the order g, and the fanouts of a node its first out-edges in order.  *)
Settled == [n \in Orig |-> NewId(n)]

NodesRenamed(new) ==
    /\ \A n \in Orig : new[n] \in NodeIds /\ nodes[new[n]] = netlist.nodes[n]
    /\ \A m, n \in Orig : new[m] = new[n] => m = n
    /\ \A m \in NodeIds : \E n \in Orig : new[n] = m

LevelsRenamed(new) ==
    /\ LoopFree \subseteq Orig
    /\ \A n \in LoopFree : Depths[n] + 1 \in DOMAIN levels
    /\ \A n \in Orig : \A l \in DOMAIN levels :
          OnLevel(new[n], l) <=> n \in LoopFree /\ l = Depths[n] + 1

EdgesRenamed(new, g) ==
    /\ Permutes(g, Edges) /\ DOMAIN g = EdgeIds /\ DOMAIN delays = EdgeIds
    /\ \A e \in EdgeIds : /\ g[e].src \in Orig /\ g[e].sink \in Orig
                          /\ srcOf[e] = new[g[e].src] /\ sinkOf[e] = new[g[e].sink]
                          /\ delays[e] = g[e].delay

FanoutsRenamed(new, g) ==
    \A n \in Orig : \A k \in DOMAIN netlist.fanouts[n] :
        k \in DOMAIN outEdges[new[n]] /\ g[outEdges[new[n]][k]] = Fanout(n, k)

Renamed(new, g) ==
    NodesRenamed(new) /\ LevelsRenamed(new) /\ EdgesRenamed(new, g) /\ FanoutsRenamed(new, g)

RInv == /\ step = "edges" => nodeMap = <<>>
        /\ ~Building => \E g : Renamed(Settled, g)

(* Before the layout the numbers are the netlist's own.                     *)
LEMMA BuiltRenamed ==
    ASSUME BInv, TInv, step = "levelize", stage = "levelized"
    PROVE  \E g : Renamed(Settled, g)
  <1>1. /\ netlist \in Netlists /\ IInv /\ GraphOK /\ LoadedOK /\ Building /\ nodeMap = <<>> /\ OutEdgesAscend
        /\ delays \in Seq(Nat) /\ Len(delays) = Len(srcOf)
    BY DEF BInv, TInv, IInv, Building
  <1>2. /\ nodes = netlist.nodes /\ NodeIds = Orig /\ LoopFree = {n \in NodeIds : Placed(n)}
    BY BuiltGraph
  <1>3. PICK g : TraceOK(g)
    BY <1>1 DEF TInv
  <1>4. /\ EdgeIds = 1..Len(srcOf) /\ Len(srcOf) \in Nat
        /\ \A e \in EdgeIds : srcOf[e] \in NodeIds /\ sinkOf[e] \in NodeIds
    BY <1>1, GraphFacts
  <1>5. Permutes(g, Edges) /\ InOrder(g) /\ DOMAIN g = EdgeIds /\ DOMAIN delays = EdgeIds
    <2>1. Permutes(g, Edges) /\ InOrder(g) /\ Len(g) = Len(srcOf) + Len(todo) /\ todo = <<>>
      BY <1>1, <1>3 DEF TraceOK, LoadedOK
    <2>2. Len(todo) = 0
      BY <2>1
    <2>3. Len(g) = Len(srcOf)
      BY <1>4, <2>1, <2>2
    <2>4. DOMAIN g = 1..Len(g) /\ DOMAIN delays = 1..Len(delays)
      BY <1>1, <2>1, LenProperties DEF Permutes
    <2> QED
      BY <1>1, <1>4, <2>1, <2>3, <2>4
  <1>6. \A n \in Orig : Settled[n] = n
    BY <1>1 DEF Settled, NewId
  <1>7. NodesRenamed(Settled)
    BY <1>2, <1>6 DEF NodesRenamed, Orig
  <1>8. LevelsRenamed(Settled)
    <2>1. /\ \A n \in Orig : \A l \in DOMAIN levels :
                OnLevel(n, l) <=> n \in DOMAIN Depths /\ l = Depths[n] + 1
          /\ DOMAIN Depths = LoopFree
      BY BuiltLevelsAreDepths DEF LevelsAreDepths, Depths
    <2>2. \A n \in LoopFree : n \in Orig /\ \E l \in DOMAIN levels : OnLevel(n, l)
      BY <1>2 DEF Placed
    <2>3. \A n \in LoopFree : Depths[n] + 1 \in DOMAIN levels
      BY <2>1, <2>2
    <2> QED
      BY <1>6, <2>1, <2>2, <2>3 DEF LevelsRenamed
  <1>9. \A e \in EdgeIds : srcOf[e] = g[e].src /\ sinkOf[e] = g[e].sink /\ delays[e] = g[e].delay
    BY <1>3 DEF TraceOK
  <1>10. EdgesRenamed(Settled, g)
    BY <1>2, <1>4, <1>5, <1>6, <1>9 DEF EdgesRenamed
  <1>11. FanoutsRenamed(Settled, g)
    <2> SUFFICES ASSUME NEW n \in Orig
                 PROVE  \A k \in DOMAIN netlist.fanouts[n] :
                           k \in DOMAIN outEdges[n] /\ g[outEdges[n][k]] = Fanout(n, k)
      BY <1>6 DEF FanoutsRenamed
    <2> QED
      BY <1>1, <1>2, <1>5, <1>9, FanoutsComeFirst
  <1> QED
    BY <1>7, <1>8, <1>10, <1>11 DEF Renamed

(* What is said of the netlist alone stays.                                 *)
LEMMA NetlistStays ==
    ASSUME UNCHANGED netlist
    PROVE  /\ Orig' = Orig /\ Edges' = Edges /\ LoopFree' = LoopFree /\ Depths' = Depths
           /\ \A n, k : Fanout(n, k)' = Fanout(n, k)
  <1>1. Orig' = Orig /\ FanoutEdges' = FanoutEdges /\ BlockEdges' = BlockEdges
    BY DEF Orig, FanoutEdges, BlockEdges, TypeOf
  <1>2. Edges' = Edges
    BY <1>1 DEF Edges
  <1>3. \A n : EdgesInto(n)' = EdgesInto(n)
    BY <1>2 DEF EdgesInto
  <1>4. \A k : UpTo(k)' = UpTo(k)
    BY <1>1, <1>3 DEF UpTo
  <1>5. LoopFree' = LoopFree
    BY <1>4 DEF LoopFree
  <1>6. Depths' = Depths
    BY <1>4, <1>5 DEF Depths
  <1>7. \A n, k : Fanout(n, k)' = Fanout(n, k)
    BY DEF Fanout
  <1> QED
    BY <1>1, <1>2, <1>5, <1>6, <1>7

(* Steps that leave the graph and the delays alone.                         *)
LEMMA RenamedStays ==
    ASSUME UNCHANGED <<nodes, levels, srcOf, sinkOf, outEdges, delays, netlist, nodeMap>>,
           NEW g, Renamed(Settled, g)
    PROVE  Renamed(Settled, g)'
  <1>1. /\ Orig' = Orig /\ Edges' = Edges /\ LoopFree' = LoopFree /\ Depths' = Depths
        /\ \A n, k : Fanout(n, k)' = Fanout(n, k)
    BY NetlistStays
  <1>2. NodeIds' = NodeIds /\ EdgeIds' = EdgeIds
    BY DEF NodeIds, EdgeIds
  <1>3. Settled' = Settled
    BY <1>1 DEF Settled, NewId
  <1>4. \A n, l : OnLevel(n, l)' <=> OnLevel(n, l)
    BY DEF OnLevel
  <1>5. NodesRenamed(Settled)'
    BY <1>1, <1>2, <1>3 DEF NodesRenamed, Renamed
  <1>6. LevelsRenamed(Settled)'
    BY <1>1, <1>3, <1>4 DEF LevelsRenamed, Renamed
  <1>7. EdgesRenamed(Settled, g)'
    BY <1>1, <1>2, <1>3 DEF EdgesRenamed, Renamed
  <1>8. FanoutsRenamed(Settled, g)'
    BY <1>1, <1>3 DEF FanoutsRenamed, Renamed
  <1> QED
    BY <1>5, <1>6, <1>7, <1>8 DEF Renamed

(* The edge layout: g in the new order, and the delays moved along.         *)
LEMMA RenamedEdges ==
    ASSUME PInv, TInv, OptimizeEdges
    PROVE  \E h : Renamed(Settled, h)'
  <1>1. /\ step = "levelize" /\ stage = "levelized" /\ flow.layout /\ ~HasLoop(netlist)
        /\ BInv /\ IInv /\ UNCHANGED netlist /\ optimize_edge_layout
        /\ delays' = [new \in DOMAIN delays |->
                         delays[CHOOSE old \in DOMAIN delays : edgeMap'[old] = new]]
    BY DEF OptimizeEdges, optimize_edge_layout, PInv, input
  <1>2. \A n \in NodeIds : Placed(n)
    BY <1>1, WithoutLoopPlaced
  <1>3. PICK g : Renamed(Settled, g)
    BY <1>1, BuiltRenamed
  <1>4. /\ UNCHANGED <<nodes, levels, nodeMap>> /\ NodeIds' = NodeIds /\ EdgeIds' = EdgeIds
        /\ DOMAIN EdgeOrder = EdgeIds /\ edgeMap' \in [EdgeIds -> EdgeIds]
    BY <1>1, <1>2, EdgesMoved
  <1>5. /\ \A k \in EdgeIds : /\ EdgeOrder[k] \in EdgeIds /\ edgeMap'[EdgeOrder[k]] = k
                              /\ srcOf'[k] = srcOf[EdgeOrder[k]] /\ sinkOf'[k] = sinkOf[EdgeOrder[k]]
        /\ \A e \in EdgeIds : EdgeOrder[edgeMap'[e]] = e
    BY <1>1, <1>2, EdgesMoved
  <1>6. \A n \in NodeIds : /\ DOMAIN outEdges'[n] = DOMAIN outEdges[n]
                           /\ \A i \in DOMAIN outEdges[n] : outEdges'[n][i] = edgeMap'[outEdges[n][i]]
    BY <1>1, <1>2, EdgesMoved
  <1>7. /\ Orig' = Orig /\ Edges' = Edges /\ LoopFree' = LoopFree /\ Depths' = Depths
        /\ \A n, k : Fanout(n, k)' = Fanout(n, k)
    BY <1>1, NetlistStays
  <1>8. PICK order : order = EdgeOrder
    OBVIOUS
  <1>9. PICK h : h = [k \in EdgeIds |-> g[order[k]]]
    OBVIOUS
  <1>10. /\ DOMAIN h = EdgeIds /\ \A k \in EdgeIds : h[k] = g[order[k]] /\ order[k] \in EdgeIds
         /\ \A e \in EdgeIds : edgeMap'[e] \in EdgeIds /\ h[edgeMap'[e]] = g[e]
    BY <1>4, <1>5, <1>8, <1>9
  <1>11. Settled' = Settled
    BY <1>4, <1>7 DEF Settled, NewId
  <1>12. /\ Permutes(g, Edges) /\ DOMAIN g = EdgeIds /\ DOMAIN delays = EdgeIds
         /\ \A e \in EdgeIds : /\ g[e].src \in Orig /\ g[e].sink \in Orig
                               /\ srcOf[e] = Settled[g[e].src] /\ sinkOf[e] = Settled[g[e].sink]
                               /\ delays[e] = g[e].delay
    BY <1>3 DEF Renamed, EdgesRenamed
  <1>13. NodesRenamed(Settled)'
    BY <1>1, <1>3, <1>4, <1>7, <1>11 DEF NodesRenamed, Renamed
  <1>14. LevelsRenamed(Settled)'
    <2>1. \A n, l : OnLevel(n, l)' <=> OnLevel(n, l)
      BY <1>4 DEF OnLevel
    <2> QED
      BY <1>3, <1>4, <1>7, <1>11, <2>1 DEF LevelsRenamed, Renamed
  <1>15. Permutes(h, Edges)
    <2> DEFINE E == Edges
               num == Len(srcOf)
    <2>1. num \in Nat /\ EdgeIds = 1..num
      BY <1>1, GraphFacts DEF IInv
    <2>2. \A e \in EdgeIds : g[e] \in E
      BY <1>12, LenProperties, ElementOfSeq DEF Permutes
    <2>3. h \in [1..num -> E]
      <3>1. \A k \in EdgeIds : h[k] \in E
        BY <1>10, <2>2
      <3> HIDE DEF E, num
      <3> QED
        BY <1>9, <2>1, <3>1
    <2> HIDE DEF E, num
    <2>4. h \in Seq(E)
      BY <2>1, <2>3
    <2>5. \A x \in E : \E k \in DOMAIN h : h[k] = x
      <3> TAKE x \in E
      <3>1. PICK e \in EdgeIds : g[e] = x
        BY <1>12 DEF Permutes, E
      <3> QED
        BY <1>10, <3>1
    <2>6. ASSUME NEW k \in EdgeIds, NEW l \in EdgeIds, h[k] = h[l] PROVE k = l
      <3>1. order[k] = order[l]
        BY <1>10, <1>12, <2>6 DEF Permutes
      <3> QED
        BY <1>5, <1>8, <3>1
    <2> QED
      BY <1>10, <2>4, <2>5, <2>6 DEF Permutes, E
  <1>16. \A k \in EdgeIds : delays'[k] = delays[order[k]]
    <2> TAKE k \in EdgeIds
    <2>1. \A old \in EdgeIds : edgeMap'[old] = k <=> old = order[k]
      BY <1>5, <1>8
    <2>2. (CHOOSE old \in DOMAIN delays : edgeMap'[old] = k) = order[k]
      BY <1>10, <1>12, <2>1
    <2> QED
      BY <1>1, <1>12, <2>2
  <1>17. EdgesRenamed(Settled, h)'
    <2>1. DOMAIN delays' = EdgeIds
      BY <1>1, <1>12
    <2>2. \A k \in EdgeIds : /\ h[k].src \in Orig /\ h[k].sink \in Orig
                             /\ srcOf'[k] = Settled[h[k].src] /\ sinkOf'[k] = Settled[h[k].sink]
                             /\ delays'[k] = h[k].delay
      <3> TAKE k \in EdgeIds
      <3>1. order[k] \in EdgeIds /\ h[k] = g[order[k]]
        BY <1>10
      <3>2. srcOf'[k] = srcOf[order[k]] /\ sinkOf'[k] = sinkOf[order[k]]
        BY <1>5, <1>8
      <3> QED
        BY <1>12, <1>16, <3>1, <3>2
    <2> QED
      BY <1>4, <1>7, <1>10, <1>11, <1>15, <2>1, <2>2 DEF EdgesRenamed
  <1>18. FanoutsRenamed(Settled, h)'
    <2>1. \A n \in Orig : \A k \in DOMAIN netlist.fanouts[n] :
             k \in DOMAIN outEdges'[Settled[n]] /\ h[outEdges'[Settled[n]][k]] = Fanout(n, k)
      <3> TAKE n \in Orig
      <3> TAKE k \in DOMAIN netlist.fanouts[n]
      <3>1. Settled[n] \in NodeIds
        BY <1>3 DEF Renamed, NodesRenamed
      <3>2. k \in DOMAIN outEdges[Settled[n]] /\ g[outEdges[Settled[n]][k]] = Fanout(n, k)
        BY <1>3 DEF Renamed, FanoutsRenamed
      <3>3. outEdges[Settled[n]][k] \in EdgeIds
        BY <1>1, <3>1, <3>2 DEF IInv, GraphOK, Listing
      <3> QED
        BY <1>6, <1>10, <3>1, <3>2, <3>3
    <2> QED
      BY <1>1, <1>7, <1>11, <2>1 DEF FanoutsRenamed
  <1>19. Renamed(Settled, h)'
    BY <1>13, <1>14, <1>17, <1>18 DEF Renamed
  <1> QED
    BY <1>19

(* The node layout: the map it hands out, after the numbers before.         *)
LEMMA RenamedNodes ==
    ASSUME PInv, RInv, OptimizeNodes
    PROVE  \E g : Renamed(Settled, g)'
  <1>1. /\ step = "edges" /\ stage = "levelized" /\ flow.layout /\ netlist \in Netlists
        /\ BInv /\ IInv /\ UNCHANGED <<netlist, delays>> /\ optimize_node_layout
        /\ nodeMap = <<>> /\ ~Building /\ \A n \in NodeIds : Placed(n)
    BY DEF OptimizeNodes, optimize_node_layout, PInv, BInv, RInv, Building, input, traversalVars
  <1>2. PICK g : Renamed(Settled, g)
    BY <1>1 DEF RInv
  <1>3. /\ NodeIds' = NodeIds /\ EdgeIds' = EdgeIds
        /\ DOMAIN TraversalOrder = NodeIds /\ nodeMap' \in [NodeIds -> NodeIds]
        /\ DOMAIN levels' = DOMAIN levels
    BY <1>1, NodesMoved
  <1>4. \A k \in NodeIds : /\ TraversalOrder[k] \in NodeIds /\ nodeMap'[TraversalOrder[k]] = k
                           /\ nodes'[k] = nodes[TraversalOrder[k]]
                           /\ outEdges'[k] = outEdges[TraversalOrder[k]]
    BY <1>1, NodesMoved
  <1>5. \A n \in NodeIds : TraversalOrder[nodeMap'[n]] = n
    BY <1>1, NodesMoved
  <1>6. \A e \in EdgeIds : srcOf'[e] = nodeMap'[srcOf[e]] /\ sinkOf'[e] = nodeMap'[sinkOf[e]]
    BY <1>1, NodesMoved
  <1>7. \A l \in DOMAIN levels : /\ DOMAIN levels'[l] = DOMAIN levels[l]
                                 /\ \A p \in DOMAIN levels[l] : levels'[l][p] = nodeMap'[levels[l][p]]
    BY <1>1, NodesMoved
  <1>8. /\ Orig' = Orig /\ Edges' = Edges /\ LoopFree' = LoopFree /\ Depths' = Depths
        /\ \A n, k : Fanout(n, k)' = Fanout(n, k)
    BY <1>1, NetlistStays
  <1>9. \A n \in Orig : Settled[n] = n
    BY <1>1 DEF Settled, NewId
  <1>10. /\ \A n \in Orig : n \in NodeIds /\ nodes[n] = netlist.nodes[n]
         /\ \A m \in NodeIds : m \in Orig
    BY <1>2, <1>9 DEF Renamed, NodesRenamed
  <1>11. \A n \in Orig : /\ Settled'[n] = nodeMap'[n] /\ nodeMap'[n] \in NodeIds
                         /\ TraversalOrder[nodeMap'[n]] = n
    <2> SUFFICES ASSUME NEW n \in Orig PROVE Settled'[n] = nodeMap'[n]
      BY <1>3, <1>5, <1>10
    <2>1. n \in DOMAIN nodeMap'
      BY <1>3, <1>10
    <2>2. nodeMap' # <<>>
      BY <2>1
    <2> QED
      BY <1>8, <2>2 DEF Settled, NewId
  <1>12. NodesRenamed(Settled)'
    <2>1. \A n \in Orig : Settled'[n] \in NodeIds /\ nodes'[Settled'[n]] = netlist.nodes[n]
      BY <1>4, <1>10, <1>11
    <2>2. \A m, n \in Orig : Settled'[m] = Settled'[n] => m = n
      BY <1>11
    <2>3. \A m \in NodeIds : \E n \in Orig : Settled'[n] = m
      BY <1>4, <1>10, <1>11
    <2> QED
      <3>1. UNCHANGED netlist
        BY <1>1
      <3> QED
        BY <1>3, <1>8, <2>1, <2>2, <2>3, <3>1 DEF NodesRenamed
  <1>13. LevelsRenamed(Settled)'
    <2>1. levels \in Seq(Seq(NodeIds))
      BY <1>1 DEF IInv
    <2>2. \A l \in DOMAIN levels : \A p \in DOMAIN levels[l] : levels[l][p] \in NodeIds
      BY <2>1, LenProperties, ElementOfSeq
    <2>3. ASSUME NEW n \in Orig, NEW l \in DOMAIN levels
          PROVE  (\E p \in DOMAIN levels'[l] : levels'[l][p] = Settled'[n]) <=> OnLevel(n, l)
      <3>1. \A p \in DOMAIN levels[l] : nodeMap'[levels[l][p]] = nodeMap'[n] <=> levels[l][p] = n
        BY <1>5, <1>10, <2>2
      <3>2. (\E p \in DOMAIN levels'[l] : levels'[l][p] = Settled'[n])
               <=> \E p \in DOMAIN levels[l] : levels[l][p] = n
        BY <1>7, <1>11, <3>1
      <3> QED
        BY <3>2 DEF OnLevel
    <2>4. \A n \in Orig : \A l \in DOMAIN levels :
             OnLevel(n, l) <=> n \in LoopFree /\ l = Depths[n] + 1
      BY <1>2, <1>9 DEF Renamed, LevelsRenamed
    <2>5. LoopFree \subseteq Orig /\ \A n \in LoopFree : Depths[n] + 1 \in DOMAIN levels
      BY <1>2 DEF Renamed, LevelsRenamed
    <2>6. \A n \in Orig : \A l \in DOMAIN levels :
             (\E p \in DOMAIN levels'[l] : levels'[l][p] = Settled'[n]) <=> n \in LoopFree /\ l = Depths[n] + 1
      BY <2>3, <2>4
    <2> QED
      BY <1>3, <1>8, <2>5, <2>6 DEF LevelsRenamed, OnLevel
  <1>14. EdgesRenamed(Settled, g)'
    <2>1. /\ Permutes(g, Edges) /\ DOMAIN g = EdgeIds /\ DOMAIN delays = EdgeIds
          /\ \A e \in EdgeIds : /\ g[e].src \in Orig /\ g[e].sink \in Orig
                                /\ srcOf[e] = g[e].src /\ sinkOf[e] = g[e].sink
                                /\ delays[e] = g[e].delay
      BY <1>2, <1>9 DEF Renamed, EdgesRenamed
    <2>2. \A e \in EdgeIds : srcOf'[e] = Settled'[g[e].src] /\ sinkOf'[e] = Settled'[g[e].sink]
      BY <1>6, <1>11, <2>1
    <2> QED
      BY <1>1, <1>3, <1>8, <2>1, <2>2 DEF EdgesRenamed
  <1>15. FanoutsRenamed(Settled, g)'
    <2>1. \A n \in Orig : \A k \in DOMAIN netlist.fanouts[n] :
             k \in DOMAIN outEdges[n] /\ g[outEdges[n][k]] = Fanout(n, k)
      BY <1>2, <1>9 DEF Renamed, FanoutsRenamed
    <2>2. \A n \in Orig : outEdges'[Settled'[n]] = outEdges[n]
      BY <1>4, <1>11
    <2> QED
      BY <1>1, <1>8, <2>1, <2>2 DEF FanoutsRenamed
  <1>16. Renamed(Settled, g)'
    BY <1>12, <1>13, <1>14, <1>15 DEF Renamed
  <1> QED
    BY <1>16

(* The renaming is kept to the end.                                         *)
LEMMA RenamingStart == Init => TInv /\ RInv
  BY TraceStart DEF RInv, Building, Init

(* No handler changes the delays or the constraints.                        *)
LEMMA HandlersReadDelays ==
    ASSUME NEW n \in NodeIds, Handler(n)
    PROVE  UNCHANGED <<delays, constraints>>
  BY DEF Handler, pre_traverse_node, forward_traverse_edge, forward_traverse_finalize_node,
         backward_traverse_edge, backward_traverse_return, Return, Abort, Step

(* Nor does another step of an analysis touch the numbers.                  *)
LEMMA RenamingStep == PInv /\ TInv /\ RInv /\ [Next]_vars => TInv' /\ RInv'
  <1> SUFFICES ASSUME PInv, TInv, RInv, [Next]_vars
               PROVE  TInv' /\ RInv'
    OBVIOUS
  <1>1. TInv'
    BY TraceStep DEF PInv
  <1>2. CASE LoadNode \/ LoadEdge \/ LevelizeEarly \/ add_ff_clock_to_source_sink_edges \/ Levelize
    <2>1. Building' /\ step' # "edges"
      BY <1>2 DEF LoadNode, LoadEdge, LevelizeEarly, add_ff_clock_to_source_sink_edges, Levelize, Building
    <2> QED
      BY <1>1, <2>1 DEF RInv
  <1>3. CASE WalkGraph
    <2>1. LevelizeStep /\ step' = step
      BY <1>3 DEF WalkGraph
    <2>2. Building
      BY <2>1, NoWalkOnceLevelized DEF PInv, BInv
    <2> QED
      BY <1>1, <2>1, <2>2 DEF RInv, Building
  <1>4. CASE OptimizeEdges
    <2>1. nodeMap' = <<>> /\ step' = "edges"
      <3>1. Building /\ step = "levelize" /\ step' = "edges"
        BY <1>4 DEF OptimizeEdges, Building
      <3> QED
        BY <1>4, <3>1 DEF OptimizeEdges, optimize_edge_layout, TInv
    <2> QED
      BY <1>1, <1>4, <2>1, RenamedEdges DEF RInv
  <1>5. CASE OptimizeNodes
    <2>1. step' = "analyze"
      BY <1>5 DEF OptimizeNodes
    <2> QED
      BY <1>1, <1>5, <2>1, RenamedNodes DEF RInv
  <1>6. CASE KeepLayout
    <2>1. /\ step = "levelize" /\ stage = "levelized" /\ step' = "analyze"
          /\ UNCHANGED <<nodes, levels, srcOf, sinkOf, outEdges, delays, netlist, nodeMap>>
      BY <1>6 DEF KeepLayout, graphVars, graphData, levelData, layoutVars, traversalVars, input
    <2>2. PICK g : Renamed(Settled, g)
      BY <2>1, BuiltRenamed DEF PInv
    <2>3. Renamed(Settled, g)'
      BY <2>1, <2>2, RenamedStays
    <2> QED
      BY <1>1, <2>1, <2>3 DEF RInv
  <1>7. CASE Analyze
    <2>1. step = "analyze" /\ UNCHANGED <<netlist, step, nodeMap>>
      BY <1>7 DEF Analyze, input, layoutVars
    <2>2. UNCHANGED graphVars /\ UNCHANGED delays
      BY <1>7, HandlerFacts, HandlersReadDelays DEF Analyze, StartAnalysis, calculate_timing, NextLevel
    <2>3. PICK g : Renamed(Settled, g)
      BY <2>1 DEF RInv, Building
    <2>4. UNCHANGED <<nodes, levels, srcOf, sinkOf, outEdges>>
      BY <2>2 DEF graphVars, graphData, levelData
    <2>5. Renamed(Settled, g)'
      BY <2>1, <2>2, <2>3, <2>4, RenamedStays
    <2> QED
      BY <1>1, <2>1, <2>5 DEF RInv
  <1>8. CASE UNCHANGED vars
    <2>1. UNCHANGED <<nodes, levels, srcOf, sinkOf, outEdges, delays, netlist, nodeMap, step>>
      BY <1>8 DEF vars, graphVars, graphData, levelData, layoutVars, traversalVars, input
    <2>2. ASSUME ~Building' PROVE \E g : Renamed(Settled, g)'
      <3>1. PICK g : Renamed(Settled, g)
        BY <2>1, <2>2 DEF RInv, Building
      <3> QED
        BY <2>1, <3>1, RenamedStays
    <2> QED
      BY <1>1, <2>1, <2>2 DEF RInv
  <1> QED
    BY <1>2, <1>3, <1>4, <1>5, <1>6, <1>7, <1>8 DEF Next

(* The in-edges of a node are as many as the edges that end in it.          *)
LEMMA InEdgesCounted ==
    ASSUME GraphOK, NEW g, Renamed(Settled, g), NEW n \in Orig
    PROVE  Len(inEdges[Settled[n]]) = Cardinality(EdgesInto(n))
  <1> DEFINE m == Settled[n]
             list == inEdges[m]
             len == Len(list)
             f == [i \in 1..len |-> g[list[i]]]
             S == EdgesInto(n)
  <1>1. /\ Permutes(g, Edges) /\ DOMAIN g = EdgeIds
        /\ \A e \in EdgeIds : g[e].sink \in Orig /\ sinkOf[e] = Settled[g[e].sink]
        /\ \A k, l \in Orig : Settled[k] = Settled[l] => k = l
        /\ m \in NodeIds
    BY DEF Renamed, EdgesRenamed, NodesRenamed
  <1>2. /\ len \in Nat /\ DOMAIN list = 1..len
        /\ \A i \in 1..len : list[i] \in EdgeIds /\ sinkOf[list[i]] = m
        /\ \A e \in EdgeIds : sinkOf[e] = m => \E i \in 1..len : list[i] = e
        /\ \A i, j \in 1..len : list[i] = list[j] => i = j
    <2>1. len \in Nat /\ DOMAIN list = 1..len /\ Listing(NodeIds, EdgeIds, inEdges, sinkOf)
      BY <1>1, GraphFacts DEF GraphOK
    <2> QED
      BY <1>1, <2>1 DEF Listing
  <1>3. \A e \in EdgeIds : g[e] \in Edges
    BY <1>1, LenProperties, ElementOfSeq DEF Permutes
  <1>4. \A x : x \in S <=> x \in Edges /\ x.sink = n
    BY DEF EdgesInto
  <1> HIDE DEF len, list, S
  <1>5. \A i \in 1..len : f[i] = g[list[i]] /\ f[i] \in S
    <2> TAKE i \in 1..len
    <2>1. g[list[i]] \in Edges /\ g[list[i]].sink = n
      BY <1>1, <1>2, <1>3
    <2> QED
      BY <1>4, <2>1
  <1>6. f \in [1..len -> S]
    BY <1>5
  <1> HIDE DEF f
  <1>7. \A i, j \in 1..len : f[i] = f[j] => i = j
    BY <1>1, <1>2, <1>5 DEF Permutes
  <1>8. \A x \in S : \E i \in 1..len : f[i] = x
    <2> TAKE x \in S
    <2>1. PICK e \in EdgeIds : g[e] = x
      BY <1>1, <1>4 DEF Permutes
    <2>2. sinkOf[e] = m
      BY <1>1, <1>4, <2>1
    <2> QED
      BY <1>2, <1>5, <2>1, <2>2
  <1>9. f \in Bijection(1..len, S)
    BY <1>6, <1>7, <1>8, Zenon DEF Bijection, Injection, Surjection, IsInjective
  <1>10. Cardinality(S) = len
    BY <1>2, <1>9, Counted, FS_Bijection DEF ExistsBijection
  <1> QED
    BY <1>10 DEF S, len, list

(* The layout in the whole program, with the optimizations or without: an   *)
(* isomorphism between the netlist that was read and the graph analysed.    *)
THEOREM LayoutRenames == Spec => []LayoutIsRenaming
  <1>1. PInv /\ RInv => LayoutIsRenaming
    <2> SUFFICES ASSUME PInv, RInv, step = "analyze"
                 PROVE  LayoutIsRenaming
      BY DEF LayoutIsRenaming
    <2>1. netlist \in Netlists /\ IInv /\ GraphOK /\ ~Building
      BY DEF PInv, BInv, IInv, Building
    <2>2. PICK g : Renamed(Settled, g)
      BY <2>1 DEF RInv
    <2>3. \A n \in Orig : NewId(n) = Settled[n]
      BY DEF Settled
    <2>4. /\ \A n \in Orig : NewId(n) \in NodeIds /\ nodes[NewId(n)] = netlist.nodes[n]
          /\ \A m, n \in Orig : NewId(m) = NewId(n) => m = n
      BY <2>2, <2>3 DEF Renamed, NodesRenamed
    <2>5. {<<nodes[NewId(n)], n>> : n \in Orig} = {<<netlist.nodes[n], n>> : n \in Orig}
      BY <2>4
    <2>6. Cardinality({NewId(n) : n \in Orig}) = Len(netlist.nodes)
      <3> DEFINE len == Len(netlist.nodes)
                 S == {NewId(n) : n \in Orig}
                 f == [n \in 1..len |-> NewId(n)]
      <3>1. len \in Nat /\ Orig = 1..len
        BY <2>1, NetlistFacts DEF Orig
      <3>2. /\ \A x : x \in S <=> \E n \in 1..len : f[n] = x
            /\ \A m, n \in 1..len : f[m] = f[n] => m = n
        BY <2>4, <3>1
      <3>3. f \in [1..len -> S]
        BY <3>1
      <3> HIDE DEF f, S, len
      <3>4. f \in Bijection(1..len, S)
        BY <3>2, <3>3, Zenon DEF Bijection, Injection, Surjection, IsInjective
      <3>5. Cardinality(S) = len
        BY <3>1, <3>4, Counted, FS_Bijection DEF ExistsBijection
      <3> QED
        BY <3>5 DEF S, len
    <2>7. \A n \in DOMAIN Depths : OnLevel(NewId(n), Depths[n] + 1)
      <3>1. DOMAIN Depths = LoopFree /\ LoopFree \subseteq Orig
        BY <2>2 DEF Depths, Renamed, LevelsRenamed
      <3>2. \A n \in LoopFree : Depths[n] + 1 \in DOMAIN levels
        BY <2>2 DEF Renamed, LevelsRenamed
      <3>3. \A n \in Orig : \A l \in DOMAIN levels :
               OnLevel(Settled[n], l) <=> n \in LoopFree /\ l = Depths[n] + 1
        BY <2>2 DEF Renamed, LevelsRenamed
      <3> QED
        BY <2>3, <3>1, <3>2, <3>3
    <2>8. ASSUME NEW n \in Orig
          PROVE  /\ \A i \in DOMAIN outEdges[NewId(n)] : srcOf[outEdges[NewId(n)][i]] = NewId(n)
                 /\ \A i \in DOMAIN inEdges[NewId(n)] : sinkOf[inEdges[NewId(n)][i]] = NewId(n)
      BY <2>1, <2>4 DEF GraphOK, Listing
    <2>9. ASSUME NEW n \in Orig
          PROVE  Len(inEdges[NewId(n)]) = Cardinality(EdgesInto(n))
      BY <2>1, <2>2, <2>3, InEdgesCounted
    <2>10. ASSUME NEW n \in Orig, NEW k \in DOMAIN netlist.fanouts[n]
           PROVE  /\ sinkOf[outEdges[NewId(n)][k]] = NewId(netlist.fanouts[n][k].sink)
                  /\ delays[outEdges[NewId(n)][k]] = netlist.fanouts[n][k].delay
      <3> DEFINE e == outEdges[NewId(n)][k]
      <3>1. k \in DOMAIN outEdges[NewId(n)] /\ g[e] = Fanout(n, k)
        BY <2>2, <2>3 DEF Renamed, FanoutsRenamed
      <3>2. e \in EdgeIds
        BY <2>1, <2>4, <3>1 DEF GraphOK, Listing
      <3> HIDE DEF e
      <3>3. g[e].sink \in Orig /\ sinkOf[e] = Settled[g[e].sink] /\ delays[e] = g[e].delay
        BY <2>2, <3>2 DEF Renamed, EdgesRenamed
      <3>4. g[e].sink = netlist.fanouts[n][k].sink /\ g[e].delay = netlist.fanouts[n][k].delay
        BY <3>1 DEF Fanout
      <3> QED
        BY <2>3, <3>3, <3>4 DEF e
    <2> QED
      BY <2>5, <2>6, <2>7, <2>8, <2>9, <2>10 DEF LayoutIsRenaming
  <1> QED
    BY <1>1, Start, Invariance, RenamingStart, RenamingStep, PTL DEF Spec
===============================================================================
