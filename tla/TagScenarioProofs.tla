-------------------------- MODULE TagScenarioProofs ---------------------------
(***************************************************************************)
(* Proofs about the scenarios of the circuit that tags stand for, for any  *)
(* circuit, delays and settings: no tag is wrong about the transition of its*)
(* node in any of its scenarios, and no scenario is lost.                  *)
(*                                                                         *)
(* Last, about the delay of the whole circuit, for any circuit with an     *)
(* output: every scenario of the circuit is reported once, at the latest   *)
(* arrival of any output or less than a bin later.                         *)
(***************************************************************************)
EXTENDS TagProofs, MaxDelays

(* The value of a node is that of its function for the values of its inputs.*)
NodeValue(inputs, values, n) ==
    IF n \in LogicalInputs THEN inputs[n]
    ELSE IF Type[n] = "CONSTANT_GEN_SOURCE" THEN OnSet[n] # {}
    ELSE [i \in DataEdges(n) |-> values[Fanin[n][i]]] \in OnSet[n]

(* The fold over the nodes computes these values.                           *)
LEMMA LogicValuesEquation ==
    ASSUME NEW inputs \in [LogicalInputs -> BOOLEAN]
    PROVE  /\ LogicValues(inputs) \in [Node -> BOOLEAN]
           /\ \A n \in Node : LogicValues(inputs)[n] = NodeValue(inputs, LogicValues(inputs), n)
  <1> DEFINE V == BOOLEAN
             nodes == [n \in Node |-> n]
             g == [p \in Seq(V) \X (1..NumNodes) |-> NodeValue(inputs, p[1], p[2])]
             step == AppendsTo(V, NumNodes, g)
             Op(earlier, n) == Append(earlier, NodeValue(inputs, earlier, n))
             fold(iter) == [s \in SUBSET DOMAIN nodes |->
                             IF s = {} THEN <<>> ELSE Op(iter[s \ {Max(s)}], nodes[Max(s)])]
             latest == CHOOSE iter : iter = fold(iter)
  <1>1. NumNodes \in Nat /\ Node = 1..NumNodes /\ DOMAIN nodes = 1..NumNodes
        /\ \A k \in 1..NumNodes : nodes[k] = k
    BY NetFacts
  <1>2. LogicValues(inputs) = latest[DOMAIN nodes]
    BY DEF LogicValues, FoldLeft, MapThenFoldSet, NodeValue
  <1> HIDE DEF nodes
  <1>3. \A values, n : n \in 1..NumNodes => NodeValue(inputs, values, n) \in BOOLEAN
    <2> TAKE values, n
    <2>1. CASE n \in LogicalInputs
      BY <2>1 DEF NodeValue
    <2>2. CASE n \notin LogicalInputs /\ Type[n] = "CONSTANT_GEN_SOURCE"
      BY <2>2 DEF NodeValue
    <2>3. CASE n \notin LogicalInputs /\ Type[n] # "CONSTANT_GEN_SOURCE"
      BY <2>3 DEF NodeValue
    <2> QED
      BY <2>1, <2>2, <2>3
  <1>4. g \in [Seq(V) \X (1..NumNodes) -> V]
    BY <1>3
  <1>5. \A v \in Seq(V), k \in 1..NumNodes : step[<<v, k>>] = Op(v, k) /\ Op(v, k) \in Seq(V)
        /\ g[<<v, k>>] = NodeValue(inputs, v, k)
    <2> TAKE v \in Seq(V), k \in 1..NumNodes
    <2>1. g[<<v, k>>] = NodeValue(inputs, v, k) /\ NodeValue(inputs, v, k) \in V
      BY <1>3
    <2> HIDE DEF g, V
    <2>2. step[<<v, k>>] = Append(v, g[<<v, k>>])
      BY DEF AppendsTo
    <2> QED
      BY <2>1, <2>2
  <1>6. step \in [Seq(V) \X (1..NumNodes) -> Seq(V)]
    <2> HIDE DEF g, V
    <2> QED
      BY <1>4 DEF AppendsTo
  <1> HIDE DEF g, V, step, Op
  <1>7. PICK iter : FoldsOver(iter, Seq(V), NumNodes, <<>>, step)
    <2>1. StepsWithin(Seq(V), NumNodes, <<>>, step)
      BY <1>1, <1>6 DEF StepsWithin
    <2> QED
      BY <2>1, FoldExists
  <1>8. latest = fold(latest)
    <2>1. /\ iter \in [SUBSET (1..NumNodes) -> Seq(V)]
          /\ \A s \in SUBSET (1..NumNodes) :
               iter[s] = IF s = {} THEN <<>> ELSE step[<<iter[s \ {Max(s)}], Max(s)>>]
      BY <1>7 DEF FoldsOver
    <2>2. ASSUME NEW s \in SUBSET (1..NumNodes), s # {}
          PROVE  step[<<iter[s \ {Max(s)}], Max(s)>>] = Op(iter[s \ {Max(s)}], nodes[Max(s)])
      <3>1. Max(s) \in 1..NumNodes
        BY <1>1, <2>2, MaxOfInterval
      <3>2. iter[s \ {Max(s)}] \in Seq(V)
        BY <2>1
      <3> QED
        BY <1>1, <1>5, <3>1, <3>2
    <2>3. iter = fold(iter)
      BY <1>1, <2>1, <2>2
    <2> HIDE DEF fold
    <2> QED
      BY <2>3
  <1> HIDE DEF latest
  <1>9. FoldsOver(latest, Seq(V), NumNodes, <<>>, step)
    <2>1. StepsWithin(Seq(V), NumNodes, <<>>, step)
      BY <1>1, <1>6 DEF StepsWithin
    <2>2. latest = [s \in SUBSET (1..NumNodes) |-> latest[s]]
      BY <1>1, <1>8
    <2>3. latest[{}] = <<>>
      BY <1>1, <1>8
    <2>4. ASSUME NEW s \in SUBSET (1..NumNodes), s # {}, latest[s \ {Max(s)}] \in Seq(V)
          PROVE  latest[s] = step[<<latest[s \ {Max(s)}], Max(s)>>]
      <3>1. Max(s) \in 1..NumNodes
        BY <1>1, <2>4, MaxOfInterval
      <3>2. latest[s] = Op(latest[s \ {Max(s)}], nodes[Max(s)])
        BY <1>1, <1>8, <2>4
      <3>3. nodes[Max(s)] = Max(s)
        BY <1>1, <3>1
      <3>4. step[<<latest[s \ {Max(s)}], Max(s)>>] = Op(latest[s \ {Max(s)}], Max(s))
        BY <1>5, <2>4, <3>1
      <3> QED
        BY <3>2, <3>3, <3>4
    <2>5. FoldEquation(latest, Seq(V), NumNodes, <<>>, step)
      BY <2>2, <2>3, <2>4 DEF FoldEquation
    <2> QED
      BY <2>1, <2>5, FoldsByEquation
  <1>10. MadeOf(V, NumNodes, g, latest[1..NumNodes])
    BY <1>1, <1>4, <1>9, AppendingFold DEF step
  <1> DEFINE val == latest[1..NumNodes]
  <1>11. LogicValues(inputs) = val
    BY <1>1, <1>2
  <1>12. val \in [Node -> BOOLEAN]
    BY <1>1, <1>10 DEF MadeOf, V
  <1>13. ASSUME NEW n \in Node PROVE val[n] = NodeValue(inputs, val, n)
    <2>1. PICK earlier \in Seq(V) :
             /\ Len(earlier) = n - 1 /\ \A j \in 1..(n - 1) : earlier[j] = val[j]
             /\ val[n] = g[<<earlier, n>>]
      BY <1>1, <1>10 DEF MadeOf
    <2>2. val[n] = NodeValue(inputs, earlier, n)
      BY <1>1, <1>5, <2>1
    <2>3. \A i \in DataEdges(n) : earlier[Fanin[n][i]] = val[Fanin[n][i]]
      <3> TAKE i \in DataEdges(n)
      <3>1. Fanin[n][i] \in 1..(n - 1)
        BY NetFacts, DataNetFacts
      <3> QED
        BY <2>1, <3>1
    <2>4. [i \in DataEdges(n) |-> earlier[Fanin[n][i]]] = [i \in DataEdges(n) |-> val[Fanin[n][i]]]
      BY <2>3
    <2> HIDE DEF val
    <2> QED
      BY <2>2, <2>4 DEF NodeValue
  <1> QED
    BY <1>11, <1>12, <1>13
-------------------------------------------------------------------------------
(* Heaps whose scenarios refer to existing tags of the inputs.              *)
WellFormed(heap) ==
    /\ heap \in Heap
    /\ \A n \in Node : \A i \in DOMAIN heap[n] : heap[n][i].scen \subseteq ScenarioRefs(heap, n)

(* The circuit scenarios of a tag are made of those of its input tags.      *)
LEMMA CoveredEquation ==
    ASSUME NEW heap, WellFormed(heap)
    PROVE  /\ CoveredIn(heap) \in [Node -> Seq(SUBSET CircuitScenarios)]
           /\ \A n \in Node : DOMAIN CoveredIn(heap)[n] = DOMAIN heap[n]
           /\ \A n \in Node : \A i \in DOMAIN heap[n] :
                 CoveredIn(heap)[n][i] = TagScenarios(CoveredIn(heap), n, heap[n][i])
  <1> DEFINE V == Seq(SUBSET CircuitScenarios)
             nodes == [n \in Node |-> n]
             Tags(earlier, n) == [i \in DOMAIN heap[n] |-> TagScenarios(earlier, n, heap[n][i])]
             g == [p \in Seq(V) \X (1..NumNodes) |-> Tags(p[1], p[2])]
             step == AppendsTo(V, NumNodes, g)
             Op(earlier, n) == Append(earlier, Tags(earlier, n))
             fold(iter) == [s \in SUBSET DOMAIN nodes |->
                             IF s = {} THEN <<>> ELSE Op(iter[s \ {Max(s)}], nodes[Max(s)])]
             latest == CHOOSE iter : iter = fold(iter)
  <1>1. NumNodes \in Nat /\ Node = 1..NumNodes /\ DOMAIN nodes = 1..NumNodes
        /\ \A k \in 1..NumNodes : nodes[k] = k
    BY NetFacts
  <1>2. CoveredIn(heap) = latest[DOMAIN nodes]
    BY DEF CoveredIn, FoldLeft, MapThenFoldSet
  <1> HIDE DEF nodes
  <1>0. ASSUME NEW n \in Node
        PROVE  DOMAIN heap[n] = 1..Len(heap[n]) /\ Len(heap[n]) \in Nat
    <2>1. heap[n] \in Seq(TagType)
      BY DEF WellFormed, Heap
    <2> QED
      BY <2>1
  <1>3. ASSUME NEW earlier, NEW n \in 1..NumNodes PROVE Tags(earlier, n) \in V
    <2>1. \A tag : TagScenarios(earlier, n, tag) \in SUBSET CircuitScenarios
      BY DEF TagScenarios, Satisfying
    <2>2. DOMAIN heap[n] = 1..Len(heap[n]) /\ Len(heap[n]) \in Nat
      BY <1>0, <1>1
    <2>3. Tags(earlier, n) = [i \in 1..Len(heap[n]) |-> TagScenarios(earlier, n, heap[n][i])]
      BY <2>2
    <2> QED
      BY <2>1, <2>2, <2>3
  <1> HIDE DEF V, Tags
  <1>4. g \in [Seq(V) \X (1..NumNodes) -> V]
    BY <1>3
  <1>5. \A v \in Seq(V), k \in 1..NumNodes : step[<<v, k>>] = Op(v, k) /\ Op(v, k) \in Seq(V)
        /\ g[<<v, k>>] = Tags(v, k)
    <2> TAKE v \in Seq(V), k \in 1..NumNodes
    <2>1. g[<<v, k>>] = Tags(v, k) /\ Tags(v, k) \in V
      BY <1>3
    <2> HIDE DEF g
    <2>2. step[<<v, k>>] = Append(v, g[<<v, k>>])
      BY DEF AppendsTo
    <2> QED
      BY <2>1, <2>2
  <1>6. step \in [Seq(V) \X (1..NumNodes) -> Seq(V)]
    <2> HIDE DEF g
    <2> QED
      BY <1>4 DEF AppendsTo
  <1> HIDE DEF g, step, Op
  <1>7. StepsWithin(Seq(V), NumNodes, <<>>, step)
    BY <1>1, <1>6 DEF StepsWithin
  <1>8. latest = fold(latest)
    <2>0. PICK iter : FoldsOver(iter, Seq(V), NumNodes, <<>>, step)
      BY <1>7, FoldExists
    <2>1. /\ iter \in [SUBSET (1..NumNodes) -> Seq(V)]
          /\ \A s \in SUBSET (1..NumNodes) :
               iter[s] = IF s = {} THEN <<>> ELSE step[<<iter[s \ {Max(s)}], Max(s)>>]
      BY <2>0 DEF FoldsOver
    <2>2. ASSUME NEW s \in SUBSET (1..NumNodes), s # {}
          PROVE  step[<<iter[s \ {Max(s)}], Max(s)>>] = Op(iter[s \ {Max(s)}], nodes[Max(s)])
      <3>1. Max(s) \in 1..NumNodes
        BY <1>1, <2>2, MaxOfInterval
      <3>2. iter[s \ {Max(s)}] \in Seq(V)
        BY <2>1
      <3> QED
        BY <1>1, <1>5, <3>1, <3>2
    <2>3. iter = fold(iter)
      BY <1>1, <2>1, <2>2
    <2> HIDE DEF fold
    <2> QED
      BY <2>3
  <1> HIDE DEF latest
  <1>9. FoldsOver(latest, Seq(V), NumNodes, <<>>, step)
    <2>2. latest = [s \in SUBSET (1..NumNodes) |-> latest[s]]
      BY <1>1, <1>8
    <2>3. latest[{}] = <<>>
      BY <1>1, <1>8
    <2>4. ASSUME NEW s \in SUBSET (1..NumNodes), s # {}, latest[s \ {Max(s)}] \in Seq(V)
          PROVE  latest[s] = step[<<latest[s \ {Max(s)}], Max(s)>>]
      <3>1. Max(s) \in 1..NumNodes
        BY <1>1, <2>4, MaxOfInterval
      <3>2. latest[s] = Op(latest[s \ {Max(s)}], nodes[Max(s)])
        BY <1>1, <1>8, <2>4
      <3>3. nodes[Max(s)] = Max(s)
        BY <1>1, <3>1
      <3>4. step[<<latest[s \ {Max(s)}], Max(s)>>] = Op(latest[s \ {Max(s)}], Max(s))
        BY <1>5, <2>4, <3>1
      <3> QED
        BY <3>2, <3>3, <3>4
    <2>5. FoldEquation(latest, Seq(V), NumNodes, <<>>, step)
      BY <2>2, <2>3, <2>4 DEF FoldEquation
    <2> QED
      BY <1>7, <2>5, FoldsByEquation
  <1>10. MadeOf(V, NumNodes, g, latest[1..NumNodes])
    BY <1>1, <1>4, <1>9, AppendingFold DEF step
  <1> DEFINE cov == latest[1..NumNodes]
  <1>11. CoveredIn(heap) = cov
    BY <1>1, <1>2
  <1>12. cov \in [Node -> V]
    BY <1>1, <1>10 DEF MadeOf
  <1>13. ASSUME NEW n \in Node PROVE cov[n] = Tags(cov, n)
    <2>1. PICK earlier \in Seq(V) :
             /\ Len(earlier) = n - 1 /\ \A j \in 1..(n - 1) : earlier[j] = cov[j]
             /\ cov[n] = g[<<earlier, n>>]
      BY <1>1, <1>10 DEF MadeOf
    <2>2. cov[n] = Tags(earlier, n)
      BY <1>1, <1>5, <2>1
    <2> HIDE DEF cov
    <2>3. ASSUME NEW i \in DOMAIN heap[n]
          PROVE  TagScenarios(earlier, n, heap[n][i]) = TagScenarios(cov, n, heap[n][i])
      <3>1. ASSUME NEW s \in heap[n][i].scen, NEW e \in DOMAIN s
            PROVE  earlier[s[e][1]] = cov[s[e][1]]
        <4>1. s \in ScenarioRefs(heap, n)
          BY DEF WellFormed
        <4>2. e \in DataEdges(n) /\ s[e] \in RefsAt(heap, Fanin[n][e])
          BY <4>1 DEF ScenarioRefs
        <4>3. s[e][1] = Fanin[n][e] /\ Fanin[n][e] \in 1..(n - 1)
          BY <4>2, NetFacts, DataNetFacts DEF RefsAt
        <4> QED
          BY <2>1, <4>3
      <3>2. Satisfying(earlier, heap[n][i].scen) = Satisfying(cov, heap[n][i].scen)
        <4>1. \A a \in CircuitScenarios : \A s \in heap[n][i].scen :
                 (\A e \in DOMAIN s : a \in earlier[s[e][1]][s[e][2]])
                   <=> (\A e \in DOMAIN s : a \in cov[s[e][1]][s[e][2]])
          BY <3>1
        <4> QED
          BY <4>1 DEF Satisfying
      <3> QED
        BY <3>2 DEF TagScenarios
    <2> QED
      BY <2>2, <2>3 DEF Tags
  <1>14. ASSUME NEW n \in Node
         PROVE  /\ DOMAIN cov[n] = DOMAIN heap[n]
                /\ \A i \in DOMAIN heap[n] : cov[n][i] = TagScenarios(cov, n, heap[n][i])
    <2> HIDE DEF cov
    <2> QED
      BY <1>13 DEF Tags
  <1> HIDE DEF cov
  <1> QED
    BY <1>11, <1>12, <1>14 DEF V
-------------------------------------------------------------------------------
(* What a transition of node n says, given those of its inputs: it ends at  *)
(* the value of the node's function; when it is static, the function has    *)
(* that value wherever the static inputs keep theirs.                       *)
FinalValues(trans) == [i \in DOMAIN trans |-> FinalValue(trans[i])]

Agrees(x, trans) == \A i \in DOMAIN trans : trans[i] \in Static => x[i] = FinalValue(trans[i])

LocallySound(n, out, trans) ==
    /\ FinalValue(out) <=> FinalValues(trans) \in OnSet[n]
    /\ out \in Static =>
          \A x \in InputVectors(n) : Agrees(x, trans) =>
              (x \in OnSet[n] <=> FinalValues(trans) \in OnSet[n])

(* Each input is applied once.                                              *)
LEMMA OrderIsOnto ==
    ASSUME NEW n \in Node, NEW in \in [DataEdges(n) -> TagType], NEW o \in SortedOrders(in)
    PROVE  LET count == Cardinality(DataEdges(n)) IN
           /\ count \in Nat /\ o \in [1..count -> DataEdges(n)]
           /\ \A i \in DataEdges(n) : \E k \in 1..count : o[k] = i
  <1> DEFINE D == DataEdges(n)
             count == Cardinality(D)
  <1>1. IsFiniteSet(D)
    <2>1. DOMAIN Fanin[n] = 1..Len(Fanin[n]) /\ Len(Fanin[n]) \in Int /\ 1 \in Int
      BY NetFacts
    <2>2. IsFiniteSet(DOMAIN Fanin[n])
      BY <2>1, FS_Interval
    <2> QED
      BY <2>2, DataNetFacts, FS_Subset
  <1>2. count \in Nat
    BY <1>1, FS_CardinalityType
  <1>3. DOMAIN in = D
    OBVIOUS
  <1>4. o \in [1..count -> D] /\ \A j, k \in 1..count : j < k => o[j] # o[k]
    BY <1>3 DEF SortedOrders
  <1> HIDE DEF D, count
  <1>5. \A j, k \in 1..count : o[j] = o[k] => j = k
    BY <1>2, <1>4
  <1>6. o \in Injection(1..count, D)
    BY <1>4, <1>5, Zenon DEF Injection, IsInjective
  <1>7. Cardinality(1..count) = count
    <2>1. 1 \in Int /\ count \in Int
      BY <1>2
    <2>2. Cardinality(1..count) = IF 1 > count THEN 0 ELSE count - 1 + 1
      BY <2>1, FS_Interval
    <2> QED
      BY <1>2, <2>2
  <1>8. o \in Surjection(1..count, D)
    BY <1>1, <1>6, <1>7, FS_Injection DEF count
  <1>9. \A i \in D : \E k \in 1..count : o[k] = i
    BY <1>8 DEF Surjection
  <1> QED
    BY <1>2, <1>4, <1>9 DEF D, count

(* A response is sound, in whatever order inputs that arrive together are   *)
(* applied: where all inputs that matter are static, the others may take    *)
(* any value.                                                               *)
LEMMA ResponseSound ==
    ASSUME NEW n \in Node, delay \in DelayModels, NEW in \in [DataEdges(n) -> TagType],
           NEW response \in Responses(n, in)
    PROVE  LocallySound(n, response.trans, [i \in DataEdges(n) |-> in[i].trans])
  <1> DEFINE D == DataEdges(n)
             trans == [i \in D |-> in[i].trans]
             v == FinalValues(trans)
             count == Cardinality(D)
  <1>1. PICK o \in SortedOrders(in) : response = Response(n, in, Unfiltered(n, in, o))
    BY ResponseFacts
  <1> DEFINE u == Unfiltered(n, in, o)
             R(k) == Restricted(n, in, o, k)
             Apply(x, k) == [i \in DOMAIN x |-> IF \E j \in 1..k : o[j] = i
                                                THEN FinalValue(in[i].trans) ELSE x[i]]
  <1>2. /\ count \in Nat /\ o \in [1..count -> D]
        /\ \A i \in D : \E k \in 1..count : o[k] = i
    BY OrderIsOnto
  <1>3. v = [i \in D |-> FinalValue(in[i].trans)] /\ v \in InputVectors(n)
    BY DEF FinalValues, InputVectors, FinalValue
  <1>4. [i \in DOMAIN in |-> FinalValue(in[i].trans)] = v
    BY <1>3
  <1>5. /\ FinalValue(response.trans) <=> v \in OnSet[n]
        /\ response.trans \in Static => \A i \in u : in[i].trans \notin Dynamic
    <2> HIDE DEF v, u
    <2>1. response.trans = LET moves == \E i \in u : in[i].trans \in Dynamic
                           IN IF v \in OnSet[n]
                              THEN IF moves THEN "RISE" ELSE "HIGH"
                              ELSE IF moves THEN "FALL" ELSE "LOW"
      BY <1>1, <1>4 DEF Response, u
    <2> QED
      BY <2>1 DEF FinalValue, Static, Dynamic
  <1>6. ASSUME response.trans \in Static, NEW x \in InputVectors(n), Agrees(x, trans)
        PROVE  x \in OnSet[n] <=> v \in OnSet[n]
    <2>1. x = [i \in D |-> x[i]] /\ DOMAIN x = D /\ x \in [D -> BOOLEAN]
      BY DEF InputVectors
    <2> DEFINE Q == {k \in Nat : k <= count => (x \in R(k) <=> x \in OnSet[n])}
    <2>2. 0 \in Q
      <3>1. Apply(x, 0) = x
        BY <2>1
      <3>2. x \in R(0) <=> Apply(x, 0) \in OnSet[n]
        BY DEF Restricted
      <3> QED
        BY <3>1, <3>2
    <2>3. ASSUME NEW k \in Nat, k \in Q PROVE k + 1 \in Q
      <3> SUFFICES ASSUME k + 1 <= count PROVE x \in R(k + 1) <=> x \in OnSet[n]
        <4> HIDE DEF R
        <4> QED
          OBVIOUS
      <3>1. x \in R(k) <=> x \in OnSet[n]
        <4> HIDE DEF R
        <4>1. k <= count
          BY <1>2
        <4> QED
          BY <2>3, <4>1
      <3>2. CASE R(k + 1) = R(k)
        <4> HIDE DEF R
        <4> QED
          BY <3>1, <3>2
      <3>3. CASE R(k + 1) # R(k)
        <4>1. k + 1 \in 1..count /\ DOMAIN o = 1..count /\ (k + 1) - 1 = k
          BY <1>2
        <4>2. o[k + 1] \in u
          <5>1. Restricted(n, in, o, k + 1) # Restricted(n, in, o, (k + 1) - 1)
            <6> HIDE DEF R
            <6>1. R(k + 1) # R((k + 1) - 1)
              BY <3>3, <4>1
            <6> QED
              BY <6>1 DEF R
          <5> QED
            BY <4>1, <5>1 DEF Unfiltered
        <4>3. o[k + 1] \in D
          BY <1>2, <4>1
        <4>4. in[o[k + 1]].trans \in Static
          <5>1. in[o[k + 1]].trans \in Transitions
            BY <4>3 DEF TagType
          <5>2. in[o[k + 1]].trans \notin Dynamic
            <6> HIDE DEF u
            <6> QED
              BY <1>5, <1>6, <4>2
          <5> QED
            BY <5>1, <5>2 DEF Transitions
        <4>5. x[o[k + 1]] = FinalValue(in[o[k + 1]].trans)
          BY <1>6, <4>3, <4>4 DEF Agrees
        <4>6. Apply(x, k + 1) = Apply(x, k)
          <5>1. \A i \in D : (\E j \in 1..(k + 1) : o[j] = i)
                                <=> (\E j \in 1..k : o[j] = i) \/ i = o[k + 1]
            BY <4>1
          <5>2. /\ Apply(x, k + 1) = [i \in D |-> IF \E j \in 1..(k + 1) : o[j] = i
                                                  THEN FinalValue(in[i].trans) ELSE x[i]]
                /\ Apply(x, k) = [i \in D |-> IF \E j \in 1..k : o[j] = i
                                              THEN FinalValue(in[i].trans) ELSE x[i]]
            BY <2>1
          <5>3. \A i \in D : (IF \E j \in 1..(k + 1) : o[j] = i THEN FinalValue(in[i].trans) ELSE x[i])
                              = (IF \E j \in 1..k : o[j] = i THEN FinalValue(in[i].trans) ELSE x[i])
            BY <4>5, <5>1
          <5> HIDE DEF Apply
          <5> QED
            BY <5>2, <5>3
        <4>7. /\ x \in R(k + 1) <=> Apply(x, k + 1) \in OnSet[n]
              /\ x \in R(k) <=> Apply(x, k) \in OnSet[n]
          BY DEF Restricted
        <4> HIDE DEF R, Apply
        <4> QED
          BY <3>1, <4>6, <4>7
      <3> QED
        BY <3>2, <3>3
    <2> HIDE DEF Q
    <2>4. count \in Q
      BY <1>2, <2>2, <2>3, NaturalInduction
    <2>5. x \in R(count) <=> x \in OnSet[n]
      <3> HIDE DEF R
      <3>1. count <= count
        BY <1>2
      <3> QED
        BY <2>4, <3>1 DEF Q
    <2>6. Apply(x, count) = v
      <3> HIDE DEF v, count
      <3>1. \A i \in D : Apply(x, count)[i] = FinalValue(in[i].trans)
        BY <1>2, <2>1
      <3>2. Apply(x, count) = [i \in D |-> Apply(x, count)[i]]
        BY <2>1
      <3> HIDE DEF Apply
      <3> QED
        BY <1>3, <3>1, <3>2
    <2>7. x \in R(count) <=> Apply(x, count) \in OnSet[n]
      BY DEF Restricted
    <2> HIDE DEF R, Apply, v
    <2> QED
      BY <2>5, <2>6, <2>7
  <1> QED
    <2> HIDE DEF v, trans
    <2>1. LocallySound(n, response.trans, trans)
      BY <1>5, <1>6 DEF LocallySound, v
    <2> QED
      BY <2>1 DEF trans
-------------------------------------------------------------------------------
(* What every step leaves of the tags that are there: all but their arrival *)
(* times, and scenarios are only added.                                     *)
Kept(h1, h2) ==
    \A n \in Node : \A i \in DOMAIN h1[n] :
        /\ i \in DOMAIN h2[n] /\ h2[n][i].trans = h1[n][i].trans
        /\ h1[n][i].scen \subseteq h2[n][i].scen

(* The static value of a constant generator.                                *)
Constant(n) == IF OnSet[n] = {} THEN "LOW" ELSE "HIGH"

(* The transitions of the tags of a scenario of node n.                     *)
Before(heap, s, n) == [e \in DataEdges(n) |-> At(heap, s[e]).trans]

(* Every scenario of a tag answers for its transition.                      *)
SoundTag(heap, n, tag) ==
    /\ Type[n] = "CONSTANT_GEN_SOURCE" => tag.trans = Constant(n)
    /\ \A s \in tag.scen : LocallySound(n, tag.trans, Before(heap, s, n))

SoundHeap(heap) == \A n \in Node : \A i \in DOMAIN heap[n] : SoundTag(heap, n, heap[n][i])

(* Where the scenarios of a tag come from: a tag of the same transition, or *)
(* an evaluation of the node.                                               *)
Arisen(h1, h2, n, tag) ==
    /\ Type[n] = "CONSTANT_GEN_SOURCE" =>
          tag.trans = Constant(n) \/ \E j \in DOMAIN h1[n] : h1[n][j].trans = tag.trans
    /\ \A s \in tag.scen :
          \/ \E j \in DOMAIN h1[n] : h1[n][j].trans = tag.trans /\ s \in h1[n][j].scen
          \/ s \in ScenarioRefs(h1, n) /\ LocallySound(n, tag.trans, Before(h1, s, n))

(* A scenario means the same in every later heap.                           *)
LEMMA BeforeKept ==
    ASSUME NEW h1, NEW h2, Kept(h1, h2), NEW n \in Node, NEW s \in ScenarioRefs(h1, n)
    PROVE  Before(h2, s, n) = Before(h1, s, n)
  <1>1. ASSUME NEW e \in DataEdges(n) PROVE At(h2, s[e]).trans = At(h1, s[e]).trans
    <2>1. s[e] \in RefsAt(h1, Fanin[n][e]) /\ Fanin[n][e] \in Node
      BY NetFacts, DataNetFacts DEF ScenarioRefs
    <2>2. s[e][1] = Fanin[n][e] /\ s[e][2] \in DOMAIN h1[Fanin[n][e]]
      BY <2>1 DEF RefsAt
    <2> QED
      BY <2>1, <2>2 DEF Kept, At
  <1> QED
    BY <1>1 DEF Before

(* Sound tags stay sound, and make sound tags.                              *)
LEMMA SoundKept ==
    ASSUME NEW h1, NEW h2, WellFormed(h1), SoundHeap(h1), Kept(h1, h2),
           \A n \in Node : \A i \in DOMAIN h2[n] : Arisen(h1, h2, n, h2[n][i])
    PROVE  SoundHeap(h2)
  <1> SUFFICES ASSUME NEW n \in Node, NEW i \in DOMAIN h2[n] PROVE SoundTag(h2, n, h2[n][i])
    BY DEF SoundHeap
  <1> DEFINE tag == h2[n][i]
  <1>1. Arisen(h1, h2, n, tag)
    OBVIOUS
  <1> HIDE DEF tag
  <1>2. Type[n] = "CONSTANT_GEN_SOURCE" => tag.trans = Constant(n)
    BY <1>1 DEF Arisen, SoundHeap, SoundTag
  <1>3. ASSUME NEW s \in tag.scen PROVE LocallySound(n, tag.trans, Before(h2, s, n))
    <2>1. s \in ScenarioRefs(h1, n) /\ LocallySound(n, tag.trans, Before(h1, s, n))
      <3>1. CASE \E j \in DOMAIN h1[n] : h1[n][j].trans = tag.trans /\ s \in h1[n][j].scen
        <4>1. PICK j \in DOMAIN h1[n] : h1[n][j].trans = tag.trans /\ s \in h1[n][j].scen
          BY <3>1
        <4>2. s \in ScenarioRefs(h1, n)
          BY <4>1 DEF WellFormed
        <4>3. SoundTag(h1, n, h1[n][j])
          BY <4>1 DEF SoundHeap
        <4> QED
          BY <4>1, <4>2, <4>3 DEF SoundTag
      <3> QED
        BY <1>1, <3>1 DEF Arisen
    <2> QED
      BY <2>1, BeforeKept
  <1> QED
    BY <1>2, <1>3 DEF SoundTag, tag
-------------------------------------------------------------------------------
(* The tags a node without data inputs gets.                                *)
LEMMA LaunchEffect ==
    ASSUME TInv, NEW n \in Node, PreTraverse(n) \/ TraverseClockNode(n)
    PROVE  /\ tags[n] = <<>> /\ dataTags[n] = <<>> /\ n # node
           /\ \A m \in Node : m # n => tags'[m] = tags[m] /\ dataTags'[m] = dataTags[m]
           /\ visited' = visited \cup {n} /\ UNCHANGED <<NodeWorkspace, Configuration>>
           /\ \/ tags'[n] = <<>> /\ dataTags'[n] = <<>>
              \/ /\ n \in LogicalInputs /\ tags'[n] = LaunchTags
                 /\ dataTags'[n] = References(n, LaunchTags)
              \/ /\ Type[n] = "CONSTANT_GEN_SOURCE" /\ tags'[n] = <<Launch(Constant(n))>>
                 /\ dataTags'[n] = References(n, <<Launch(Constant(n))>>)
  <1>1. /\ HeapOK /\ VisitsOK /\ WorkspaceOK
        /\ n \notin visited /\ visited' = visited \cup {n} /\ UNCHANGED <<NodeWorkspace, Configuration>>
    BY DEF TInv, PreTraverse, TraverseClockNode, Ready
  <1>2. n # node
    <2>1. CASE PreTraverse(n)
      <3>1. Fanin[n] = <<>>
        BY <2>1, LevelFacts DEF PreTraverse
      <3>2. node # NoNode => DataEdges(node) # {}
        BY <1>1 DEF WorkspaceOK
      <3>3. DataEdges(n) = {}
        BY <3>1 DEF DataEdges
      <3>4. n # NoNode
        BY NetFacts DEF NoNode
      <3> QED
        BY <3>2, <3>3, <3>4
    <2>2. CASE TraverseClockNode(n)
      <3>1. n # NoNode
        BY NetFacts DEF NoNode
      <3> QED
        BY <2>2, <3>1 DEF TraverseClockNode, Ready
    <2> QED
      BY <2>1, <2>2
  <1>3. tags[n] = <<>> /\ dataTags[n] = <<>>
    BY <1>1, <1>2 DEF VisitsOK
  <1>4. tags = [m \in Node |-> tags[m]] /\ dataTags = [m \in Node |-> dataTags[m]]
    BY <1>1 DEF HeapOK, Heap
  <1>5. \/ UNCHANGED <<tags, dataTags>>
        \/ n \in LogicalInputs /\ SettleTags(n, LaunchTags)
        \/ Type[n] = "CONSTANT_GEN_SOURCE" /\ SettleTags(n, <<Launch(Constant(n))>>)
    <2>1. CASE PreTraverse(n)
      BY <2>1 DEF PreTraverse, LogicalInputs, Constant
    <2>2. CASE TraverseClockNode(n)
      BY <2>2 DEF TraverseClockNode, LogicalInputs
    <2> QED
      BY <2>1, <2>2
  <1>6. ASSUME NEW seq, SettleTags(n, seq)
        PROVE  /\ tags'[n] = seq /\ dataTags'[n] = References(n, seq)
               /\ \A m \in Node : m # n => tags'[m] = tags[m] /\ dataTags'[m] = dataTags[m]
    <2>1. tags' = [tags EXCEPT ![n] = seq] /\ dataTags' = [dataTags EXCEPT ![n] = References(n, seq)]
      BY <1>6 DEF SettleTags
    <2> HIDE DEF References
    <2> QED
      BY <1>4, <2>1
  <1>7. CASE UNCHANGED <<tags, dataTags>>
    BY <1>1, <1>2, <1>3, <1>7
  <1>8. CASE n \in LogicalInputs /\ SettleTags(n, LaunchTags)
    BY <1>1, <1>2, <1>3, <1>6, <1>8
  <1>9. CASE Type[n] = "CONSTANT_GEN_SOURCE" /\ SettleTags(n, <<Launch(Constant(n))>>)
    BY <1>1, <1>2, <1>3, <1>6, <1>9
  <1> QED
    BY <1>5, <1>7, <1>8, <1>9

(* A node evaluated from its inputs is neither a constant generator nor a   *)
(* logical input.                                                           *)
LEMMA EvaluatedNode ==
    ASSUME NEW n \in Node, DataEdges(n) # {}
    PROVE  Type[n] # "CONSTANT_GEN_SOURCE" /\ n \notin LogicalInputs
  <1>1. AsBuilt(n)
    BY NetAssumption
  <1>2. Fanin[n] # <<>>
    BY DEF DataEdges
  <1>3. Type[n] \notin PrimaryTypes
    BY <1>1, <1>2 DEF AsBuilt
  <1>4. Type[n] # "FF_SOURCE"
    <2>1. ASSUME Type[n] = "FF_SOURCE" PROVE FALSE
      <3>1. Len(Fanin[n]) = 1 /\ Type[Fanin[n][1]] = "FF_CLOCK"
        BY <1>1, <2>1 DEF AsBuilt
      <3>2. DOMAIN Fanin[n] = 1..1
        BY <3>1, NetFacts
      <3> QED
        BY <3>1, <3>2 DEF DataEdges
    <2> QED
      BY <2>1
  <1> QED
    BY <1>3, <1>4 DEF PrimaryTypes, LogicalInputs

(* Merging keeps all tags of a node and makes no scenarios of its own.      *)
LEMMA GrownKeeps ==
    ASSUME NEW h1 \in Heap, NEW h2, NEW m \in Node, Grown(h1, h2, m)
    PROVE  /\ Kept(h1, h2)
           /\ \A n \in Node : \A i \in DOMAIN h2[n] : Arisen(h1, h2, n, h2[n][i])
  <1>1. /\ \A n \in Node : n # m => h2[n] = h1[n]
        /\ DOMAIN h2[m] = DOMAIN h1[m]
        /\ \A i \in DOMAIN h1[m] : GrownTag(h1, m, h2[m][i], i)
    BY DEF Grown
  <1>2. Kept(h1, h2)
    BY <1>1 DEF Kept, GrownTag
  <1>3. ASSUME NEW i \in DOMAIN h2[m] PROVE Arisen(h1, h2, m, h2[m][i])
    BY <1>1 DEF Arisen, GrownTag
  <1>4. ASSUME NEW n \in Node, n # m, NEW i \in DOMAIN h2[n] PROVE Arisen(h1, h2, n, h2[n][i])
    BY <1>1, <1>4 DEF Arisen
  <1> QED
    BY <1>2, <1>3, <1>4

(* Every step keeps the tags, and makes none out of nothing.                *)
LEMMA TagsArise ==
    ASSUME TInv, Next
    PROVE  /\ Kept(tags, tags')
           /\ \A n \in Node : \A i \in DOMAIN tags'[n] : Arisen(tags, tags', n, tags'[n][i])
  <1>0. HeapOK /\ WorkspaceOK /\ tags \in Heap
    BY DEF TInv, HeapOK
  <1>1. ASSUME tags' = tags
        PROVE  /\ Kept(tags, tags')
               /\ \A n \in Node : \A i \in DOMAIN tags'[n] : Arisen(tags, tags', n, tags'[n][i])
    BY <1>1 DEF Kept, Arisen
  <1>2. ASSUME NEW n \in Node, PreTraverse(n) \/ TraverseClockNode(n)
        PROVE  /\ Kept(tags, tags')
               /\ \A m \in Node : \A i \in DOMAIN tags'[m] : Arisen(tags, tags', m, tags'[m][i])
    <2>1. /\ tags[n] = <<>> /\ \A m \in Node : m # n => tags'[m] = tags[m]
          /\ \/ tags'[n] = <<>>
             \/ n \in LogicalInputs /\ tags'[n] = LaunchTags
             \/ Type[n] = "CONSTANT_GEN_SOURCE" /\ tags'[n] = <<Launch(Constant(n))>>
      BY <1>2, LaunchEffect
    <2>2. Kept(tags, tags')
      BY <2>1 DEF Kept
    <2>3. ASSUME NEW m \in Node, m # n, NEW i \in DOMAIN tags'[m] PROVE Arisen(tags, tags', m, tags'[m][i])
      BY <2>1, <2>3 DEF Arisen
    <2>4. ASSUME NEW i \in DOMAIN tags'[n] PROVE Arisen(tags, tags', n, tags'[n][i])
      <3>1. CASE n \in LogicalInputs /\ tags'[n] = LaunchTags
        <4>1. tags'[n][i].scen = {} /\ Type[n] # "CONSTANT_GEN_SOURCE"
          BY <3>1, <2>4, LaunchFacts DEF LogicalInputs
        <4> QED
          BY <4>1 DEF Arisen
      <3>2. CASE Type[n] = "CONSTANT_GEN_SOURCE" /\ tags'[n] = <<Launch(Constant(n))>>
        <4>1. i = 1
          BY <3>2, <2>4
        <4>2. tags'[n][i] = Launch(Constant(n))
          BY <3>2, <4>1
        <4>3. tags'[n][i].scen = {} /\ tags'[n][i].trans = Constant(n)
          BY <4>2 DEF Launch
        <4> QED
          BY <4>3 DEF Arisen
      <3> QED
        BY <2>1, <2>4, <3>1, <3>2
    <2> QED
      BY <2>2, <2>3, <2>4
  <1>3. ASSUME NEW n \in Node, BeginNode(n) PROVE tags' = tags
    BY <1>3 DEF BeginNode
  <1>4. CASE ReduceInput
    <2>1. PICK i \in DataEdges(node) : Grown(tags, tags', Fanin[node][i])
      BY <1>4, ReduceStep
    <2>2. Fanin[node][i] \in Node
      <3>1. node \in Node
        BY <1>4, ReduceStep
      <3> QED
        BY <3>1, NetFacts, DataNetFacts
    <2> QED
      BY <1>0, <2>1, <2>2, GrownKeeps
  <1>5. CASE StartEvaluation
    <2>1. tags' = tags
      BY <1>5 DEF StartEvaluation
    <2> QED
      BY <1>1, <2>1
  <1>6. CASE EvaluatePermutation
    <2>1. /\ phase = "eval" /\ node \in Node /\ Larger(tags, tags')
          /\ \A m \in Node : m # node => tags'[m] = tags[m]
      BY <1>6, EvaluateStep
    <2>2. PICK response \in Responses(node, InputTags(tags, CurrentRefs, node)) :
             \A i \in DOMAIN tags'[node] :
                AddedTag(tags[node], response, CurrentRefs, tags'[node][i], i)
      BY <1>6, EvaluateStep
    <2>3. /\ CurrentRefs \in ScenarioRefs(tags, node)
          /\ InputTags(tags, CurrentRefs, node) \in [DataEdges(node) -> TagType]
      BY <2>1, CurrentRefsAre
    <2>4. LocallySound(node, response.trans, Before(tags, CurrentRefs, node))
      <3> DEFINE in == InputTags(tags, CurrentRefs, node)
      <3>1. [i \in DataEdges(node) |-> in[i].trans] = Before(tags, CurrentRefs, node)
        BY DEF InputTags, Before
      <3> HIDE DEF in
      <3>2. LocallySound(node, response.trans, [i \in DataEdges(node) |-> in[i].trans])
        BY <1>0, <2>1, <2>3, ResponseSound DEF in, WorkspaceOK
      <3> QED
        BY <3>1, <3>2
    <2>5. DataEdges(node) # {}
      BY <1>0, <2>1 DEF WorkspaceOK
    <2>6. Type[node] # "CONSTANT_GEN_SOURCE"
      BY <2>1, <2>5, EvaluatedNode
    <2>7. Kept(tags, tags')
      <3>1. \A i \in DOMAIN tags[node] : i \in DOMAIN tags'[node]
        BY <2>1 DEF Larger
      <3> QED
        BY <2>1, <2>2, <3>1 DEF Kept, AddedTag
    <2>8. ASSUME NEW m \in Node, m # node, NEW i \in DOMAIN tags'[m]
          PROVE  Arisen(tags, tags', m, tags'[m][i])
      BY <2>1, <2>8 DEF Arisen
    <2>9. ASSUME NEW i \in DOMAIN tags'[node] PROVE Arisen(tags, tags', node, tags'[node][i])
      <3>1. AddedTag(tags[node], response, CurrentRefs, tags'[node][i], i)
        BY <2>2
      <3> QED
        BY <2>3, <2>4, <2>6, <3>1 DEF Arisen, AddedTag
    <2> QED
      BY <2>7, <2>8, <2>9
  <1>7. CASE FinishNode
    BY <1>0, <1>7, FinishStep, GrownKeeps
  <1> QED
    BY <1>1, <1>2, <1>3, <1>4, <1>5, <1>6, <1>7 DEF Next
-------------------------------------------------------------------------------
(* The heap of the analysis is such a heap.                                 *)
LEMMA TInvIsWellFormed == TInv => WellFormed(tags)
  BY DEF TInv, HeapOK, WellFormed

(* The inductive invariant behind TransitionsAreSound.                      *)
SoundTags == SoundHeap(tags)

(* No tag, no wrong tag.                                                    *)
LEMMA SoundInitially == Init => SoundTags
  BY DEF Init, SoundTags, SoundHeap

(* Every step keeps tags sound, or makes sound ones.                        *)
LEMMA SoundStep == TInv /\ SoundTags /\ [Next]_vars => SoundTags'
  <1> SUFFICES ASSUME TInv, SoundHeap(tags), [Next]_vars PROVE SoundHeap(tags')
    BY DEF SoundTags
  <1>1. CASE Next
    BY <1>1, TagsArise, TInvIsWellFormed, SoundKept
  <1>2. CASE UNCHANGED vars
    <2>1. tags' = tags
      BY <1>2 DEF vars
    <2> QED
      BY <2>1
  <1> QED
    BY <1>1, <1>2

(* What a tag says of its node in scenario a.                               *)
TagHolds(heap, final, initial, n, i) ==
    /\ FinalValue(heap[n][i].trans) = final[n]
    /\ heap[n][i].trans \in Static => initial[n] = final[n]

(* In a heap of sound tags, every tag a scenario belongs to is right about  *)
(* it: node by node, from the inputs on.                                    *)
LEMMA SoundTagsHold ==
    ASSUME NEW heap, WellFormed(heap), SoundHeap(heap), NEW a \in CircuitScenarios,
           NEW final, final = LogicValues([n \in LogicalInputs |-> FinalValue(a[n])]),
           NEW initial, initial = LogicValues([n \in LogicalInputs |-> InitialValue(a[n])])
    PROVE  \A n \in Node : \A i \in DOMAIN heap[n] :
              a \in CoveredIn(heap)[n][i] => TagHolds(heap, final, initial, n, i)
  <1> DEFINE finals == [n \in LogicalInputs |-> FinalValue(a[n])]
             initials == [n \in LogicalInputs |-> InitialValue(a[n])]
             C == CoveredIn(heap)
             Good(n) == \A i \in DOMAIN heap[n] : a \in C[n][i] => TagHolds(heap, final, initial, n, i)
             Q == {k \in Nat : \A n \in Node : n <= k => Good(n)}
  <1>1. finals \in [LogicalInputs -> BOOLEAN] /\ initials \in [LogicalInputs -> BOOLEAN]
    BY DEF FinalValue, InitialValue
  <1>2. /\ final \in [Node -> BOOLEAN] /\ \A n \in Node : final[n] = NodeValue(finals, final, n)
        /\ initial \in [Node -> BOOLEAN] /\ \A n \in Node : initial[n] = NodeValue(initials, initial, n)
    BY <1>1, LogicValuesEquation
  <1>3. \A n \in Node : \A i \in DOMAIN heap[n] : C[n][i] = TagScenarios(C, n, heap[n][i])
    BY CoveredEquation
  <1>4. Node = 1..NumNodes /\ NumNodes \in Nat
    BY NetFacts
  <1>5. 0 \in Q
    <2>1. \A n \in Node : ~(n <= 0)
      BY <1>4
    <2> HIDE DEF Good
    <2> QED
      BY <2>1
  <1>6. ASSUME NEW k \in Nat, k \in Q PROVE k + 1 \in Q
    <2> SUFFICES ASSUME NEW n \in Node, n <= k + 1 PROVE Good(n)
      <3> HIDE DEF Good
      <3> QED
        OBVIOUS
    <2>1. \A m \in Node : m < n => Good(m)
      <3> HIDE DEF Good
      <3>1. \A m \in Node : m < n => m <= k
        BY <1>4
      <3> QED
        BY <1>6, <3>1
    <2> SUFFICES ASSUME NEW i \in DOMAIN heap[n], a \in C[n][i] PROVE TagHolds(heap, final, initial, n, i)
      OBVIOUS
    <2> DEFINE tag == heap[n][i]
    <2> HIDE DEF C, finals, initials
    <2>2. SoundTag(heap, n, tag)
      BY DEF SoundHeap
    <2>3. a \in TagScenarios(C, n, tag)
      BY <1>3
    <2>4. CASE Type[n] = "CONSTANT_GEN_SOURCE"
      <3>1. n \notin LogicalInputs
        BY <2>4 DEF LogicalInputs
      <3>2. final[n] = (OnSet[n] # {}) /\ initial[n] = (OnSet[n] # {})
        BY <1>2, <2>4, <3>1 DEF NodeValue
      <3>3. FinalValue(tag.trans) = (OnSet[n] # {})
        BY <2>2, <2>4 DEF SoundTag, Constant, FinalValue
      <3> QED
        BY <3>2, <3>3 DEF TagHolds
    <2>5. CASE n \in LogicalInputs
      <3>1. Type[n] # "CONSTANT_GEN_SOURCE"
        BY <2>5 DEF LogicalInputs
      <3>2. a[n] = tag.trans
        BY <2>3, <2>5, <3>1 DEF TagScenarios
      <3>3. final[n] = finals[n] /\ initial[n] = initials[n]
        BY <1>2, <2>5 DEF NodeValue
      <3>4. finals[n] = FinalValue(tag.trans) /\ initials[n] = InitialValue(tag.trans)
        BY <2>5, <3>2 DEF finals, initials
      <3>5. tag.trans \in Static => InitialValue(tag.trans) = FinalValue(tag.trans)
        BY DEF Static, InitialValue, FinalValue
      <3> QED
        BY <3>3, <3>4, <3>5 DEF TagHolds
    <2>6. CASE Type[n] # "CONSTANT_GEN_SOURCE" /\ n \notin LogicalInputs
      <3>1. a \in Satisfying(C, tag.scen)
        BY <2>3, <2>6 DEF TagScenarios
      <3>2. PICK s \in tag.scen : \A e \in DOMAIN s : a \in C[s[e][1]][s[e][2]]
        BY <3>1 DEF Satisfying
      <3>3. s \in ScenarioRefs(heap, n)
        BY <3>2 DEF WellFormed
      <3>4. DOMAIN s = DataEdges(n)
        BY <3>3 DEF ScenarioRefs
      <3> DEFINE trans == Before(heap, s, n)
      <3>5. ASSUME NEW e \in DataEdges(n)
            PROVE  /\ FinalValue(trans[e]) = final[Fanin[n][e]]
                   /\ trans[e] \in Static => initial[Fanin[n][e]] = final[Fanin[n][e]]
                   /\ Fanin[n][e] \in Node
        <4>1. Fanin[n][e] \in Node /\ Fanin[n][e] < n
          BY NetFacts, DataNetFacts
        <4>2. s[e] \in RefsAt(heap, Fanin[n][e])
          BY <3>3 DEF ScenarioRefs
        <4>3. s[e][1] = Fanin[n][e] /\ s[e][2] \in DOMAIN heap[Fanin[n][e]]
          BY <4>2 DEF RefsAt
        <4>4. a \in C[Fanin[n][e]][s[e][2]]
          BY <3>2, <3>4, <4>3
        <4>5. Good(Fanin[n][e])
          <5> HIDE DEF Good
          <5> QED
            BY <2>1, <4>1
        <4>6. TagHolds(heap, final, initial, Fanin[n][e], s[e][2])
          BY <4>3, <4>4, <4>5
        <4>7. trans[e] = heap[Fanin[n][e]][s[e][2]].trans
          BY <4>3 DEF Before, At
        <4> QED
          BY <4>1, <4>6, <4>7 DEF TagHolds
      <3>6. LocallySound(n, tag.trans, trans)
        BY <2>2, <3>2 DEF SoundTag
      <3>7. DOMAIN trans = DataEdges(n)
        BY DEF Before
      <3> HIDE DEF trans, Good, tag
      <3> DEFINE v == [e \in DataEdges(n) |-> final[Fanin[n][e]]]
                 x == [e \in DataEdges(n) |-> initial[Fanin[n][e]]]
      <3>8. FinalValues(trans) = v
        BY <3>5, <3>7 DEF FinalValues
      <3>9. x \in InputVectors(n)
        BY <1>2, <3>5 DEF InputVectors
      <3>10. Agrees(x, trans)
        BY <3>5, <3>7 DEF Agrees
      <3>11. final[n] = (v \in OnSet[n]) /\ initial[n] = (x \in OnSet[n])
        BY <1>2, <2>6 DEF NodeValue
      <3> HIDE DEF v, x
      <3>12. FinalValue(tag.trans) <=> v \in OnSet[n]
        BY <3>6, <3>8 DEF LocallySound
      <3>13. tag.trans \in Static => (x \in OnSet[n] <=> v \in OnSet[n])
        BY <3>6, <3>8, <3>9, <3>10 DEF LocallySound
      <3>14. FinalValue(tag.trans) = final[n]
        <4>1. FinalValue(tag.trans) \in BOOLEAN
          BY DEF FinalValue
        <4> QED
          BY <3>11, <3>12, <4>1
      <3>15. tag.trans \in Static => initial[n] = final[n]
        BY <3>11, <3>13
      <3> QED
        BY <3>14, <3>15 DEF TagHolds, tag
    <2> QED
      BY <2>4, <2>5, <2>6
  <1> HIDE DEF Q
  <1>7. \A k \in Nat : k \in Q
    BY <1>5, <1>6, NaturalInduction
  <1>8. ASSUME NEW n \in Node PROVE Good(n)
    <2> HIDE DEF Good
    <2>1. n \in Nat /\ n <= n /\ n \in Q
      BY <1>4, <1>7
    <2> QED
      BY <2>1 DEF Q
  <1> QED
    BY <1>8

(* For any circuit, delays and settings: no tag is wrong about the final    *)
(* value of its node, and no HIGH or LOW tag hides a transition, in any of  *)
(* the scenarios it stands for; reducing, merging and compressing included. *)
THEOREM TransitionsSound == Spec => []TransitionsAreSound
  <1>1. TInv /\ SoundTags => TransitionsAreSound
    <2> SUFFICES ASSUME TInv, SoundHeap(tags) PROVE TransitionsAreSound
      BY DEF SoundTags
    <2> SUFFICES ASSUME NEW a \in CircuitScenarios, NEW n \in Node, NEW t \in ToSet(dataTags[n]),
                        a \in ScenariosOf(Covered, t)
                 PROVE  LET final   == LogicValues([m \in LogicalInputs |-> FinalValue(a[m])])
                            initial == LogicValues([m \in LogicalInputs |-> InitialValue(a[m])])
                            trans   == At(tags, t).trans
                        IN /\ FinalValue(trans) = final[n]
                           /\ trans \in Static => initial[n] = final[n]
      BY DEF TransitionsAreSound
    <2> DEFINE final   == LogicValues([m \in LogicalInputs |-> FinalValue(a[m])])
               initial == LogicValues([m \in LogicalInputs |-> InitialValue(a[m])])
    <2>1. dataTags[n] \in Seq(RefsAt(tags, n))
      BY DEF TInv, HeapOK
    <2>2. t \in RefsAt(tags, n)
      BY <2>1 DEF ToSet
    <2>3. t[1] = n /\ t[2] \in DOMAIN tags[n]
      BY <2>2 DEF RefsAt
    <2>4. a \in CoveredIn(tags)[n][t[2]]
      BY <2>3 DEF ScenariosOf, Covered
    <2>5. \A m \in Node : \A i \in DOMAIN tags[m] :
             a \in CoveredIn(tags)[m][i] => TagHolds(tags, final, initial, m, i)
      <3>1. WellFormed(tags)
        BY TInvIsWellFormed
      <3> HIDE DEF final, initial
      <3> QED
        BY <3>1, SoundTagsHold DEF final, initial
    <2> HIDE DEF final, initial
    <2>6. TagHolds(tags, final, initial, n, t[2])
      BY <2>3, <2>4, <2>5
    <2> QED
      BY <2>3, <2>6 DEF TagHolds, At, final, initial
  <1> QED
    BY <1>1, TInvInitially, TInvStep, SoundInitially, SoundStep, PTL DEF Spec
-------------------------------------------------------------------------------
(* A tag that keeps its transition and scenarios stands for no fewer        *)
(* scenarios of the circuit, if the tags of the nodes before it do not.     *)
LEMMA MoreScenarios ==
    ASSUME NEW h1, NEW C1, NEW C2, NEW n \in Node, NEW tag1, NEW tag2,
           tag2.trans = tag1.trans, tag1.scen \subseteq tag2.scen, tag1.scen \subseteq ScenarioRefs(h1, n),
           \A m \in Node : m < n => \A i \in DOMAIN h1[m] : C1[m][i] \subseteq C2[m][i]
    PROVE  TagScenarios(C1, n, tag1) \subseteq TagScenarios(C2, n, tag2)
  <1>1. Satisfying(C1, tag1.scen) \subseteq Satisfying(C2, tag2.scen)
    <2> SUFFICES ASSUME NEW a \in CircuitScenarios, NEW s \in tag1.scen,
                        \A e \in DOMAIN s : a \in C1[s[e][1]][s[e][2]]
                 PROVE  \A e \in DOMAIN s : a \in C2[s[e][1]][s[e][2]]
      BY DEF Satisfying
    <2> TAKE e \in DOMAIN s
    <2>1. s \in ScenarioRefs(h1, n)
      OBVIOUS
    <2>2. e \in DataEdges(n) /\ s[e] \in RefsAt(h1, Fanin[n][e])
      BY <2>1 DEF ScenarioRefs
    <2>3. Fanin[n][e] \in Node /\ Fanin[n][e] < n
      BY <2>2, NetFacts, DataNetFacts
    <2>4. s[e][1] = Fanin[n][e] /\ s[e][2] \in DOMAIN h1[Fanin[n][e]]
      BY <2>2 DEF RefsAt
    <2> QED
      BY <2>3, <2>4
  <1> QED
    BY <1>1 DEF TagScenarios

(* No tag loses a scenario of the circuit.                                  *)
LEMMA CoveredGrows ==
    ASSUME NEW h1, NEW h2, WellFormed(h1), WellFormed(h2), Kept(h1, h2)
    PROVE  \A n \in Node : \A i \in DOMAIN h1[n] : CoveredIn(h1)[n][i] \subseteq CoveredIn(h2)[n][i]
  <1> DEFINE C1 == CoveredIn(h1)
             C2 == CoveredIn(h2)
             Good(n) == \A i \in DOMAIN h1[n] : C1[n][i] \subseteq C2[n][i]
             Q == {k \in Nat : \A n \in Node : n <= k => Good(n)}
  <1>1. /\ \A n \in Node : \A i \in DOMAIN h1[n] : C1[n][i] = TagScenarios(C1, n, h1[n][i])
        /\ \A n \in Node : \A i \in DOMAIN h2[n] : C2[n][i] = TagScenarios(C2, n, h2[n][i])
    BY CoveredEquation
  <1>2. Node = 1..NumNodes /\ NumNodes \in Nat
    BY NetFacts
  <1>3. 0 \in Q
    <2>1. \A n \in Node : ~(n <= 0)
      BY <1>2
    <2> HIDE DEF Good
    <2> QED
      BY <2>1
  <1>4. ASSUME NEW k \in Nat, k \in Q PROVE k + 1 \in Q
    <2> SUFFICES ASSUME NEW n \in Node, n <= k + 1 PROVE Good(n)
      <3> HIDE DEF Good
      <3> QED
        OBVIOUS
    <2>1. \A m \in Node : m < n => Good(m)
      <3> HIDE DEF Good
      <3>1. \A m \in Node : m < n => m <= k
        BY <1>2
      <3> QED
        BY <1>4, <3>1
    <2> SUFFICES ASSUME NEW i \in DOMAIN h1[n] PROVE C1[n][i] \subseteq C2[n][i]
      OBVIOUS
    <2>2. /\ i \in DOMAIN h2[n] /\ h2[n][i].trans = h1[n][i].trans
          /\ h1[n][i].scen \subseteq h2[n][i].scen /\ h1[n][i].scen \subseteq ScenarioRefs(h1, n)
      BY DEF Kept, WellFormed
    <2> HIDE DEF C1, C2
    <2>3. TagScenarios(C1, n, h1[n][i]) \subseteq TagScenarios(C2, n, h2[n][i])
      BY <2>1, <2>2, MoreScenarios
    <2> QED
      BY <1>1, <2>2, <2>3
  <1> HIDE DEF Q
  <1>5. \A k \in Nat : k \in Q
    BY <1>3, <1>4, NaturalInduction
  <1>6. ASSUME NEW n \in Node PROVE Good(n)
    <2> HIDE DEF Good
    <2>1. n \in Nat /\ n <= n /\ n \in Q
      BY <1>2, <1>5
    <2> QED
      BY <2>1 DEF Q
  <1> QED
    BY <1>6

(* Every scenario of the circuit belongs to a tag of the set.               *)
Covers(heap, set) == \A a \in CircuitScenarios : \E k \in DOMAIN set : a \in ScenariosOf(CoveredIn(heap), set[k])

(* What a set covers it covers in every later heap.                         *)
LEMMA CoversGrows ==
    ASSUME NEW h1, NEW h2, WellFormed(h1), WellFormed(h2), Kept(h1, h2),
           NEW n \in Node, NEW set \in Seq(RefsAt(h1, n)), Covers(h1, set)
    PROVE  Covers(h2, set)
  <1>1. \A k \in DOMAIN set : set[k][1] = n /\ set[k][2] \in DOMAIN h1[n]
    <2>1. \A k \in DOMAIN set : set[k] \in RefsAt(h1, n)
      OBVIOUS
    <2> QED
      BY <2>1 DEF RefsAt
  <1>2. \A i \in DOMAIN h1[n] : CoveredIn(h1)[n][i] \subseteq CoveredIn(h2)[n][i]
    BY CoveredGrows
  <1> QED
    BY <1>1, <1>2 DEF Covers, ScenariosOf

(* Merging a set leaves out no scenario of the circuit.                     *)
LEMMA MergedCovers ==
    ASSUME NEW h1, NEW h2, WellFormed(h1), WellFormed(h2), Kept(h1, h2),
           NEW n \in Node, NEW set \in Seq(RefsAt(h1, n)), NEW merged \in Seq(RefsAt(h2, n)),
           \A j \in DOMAIN set : LivesOn(h1, set[j], h2, merged), Covers(h1, set)
    PROVE  Covers(h2, merged)
  <1> SUFFICES ASSUME NEW a \in CircuitScenarios
               PROVE  \E k \in DOMAIN merged : a \in ScenariosOf(CoveredIn(h2), merged[k])
    BY DEF Covers
  <1> DEFINE C1 == CoveredIn(h1)
             C2 == CoveredIn(h2)
  <1>1. PICK j \in DOMAIN set : a \in ScenariosOf(C1, set[j])
    BY DEF Covers
  <1>2. PICK k \in DOMAIN merged : /\ At(h2, merged[k]).trans = At(h1, set[j]).trans
                                   /\ At(h1, set[j]).scen \subseteq At(h2, merged[k]).scen
    BY DEF LivesOn
  <1>3. set[j] \in RefsAt(h1, n) /\ merged[k] \in RefsAt(h2, n)
    BY <1>1, <1>2
  <1>4. /\ set[j][1] = n /\ set[j][2] \in DOMAIN h1[n]
        /\ merged[k][1] = n /\ merged[k][2] \in DOMAIN h2[n]
    BY <1>3 DEF RefsAt
  <1> DEFINE tag1 == h1[n][set[j][2]]
             tag2 == h2[n][merged[k][2]]
  <1>5. tag2.trans = tag1.trans /\ tag1.scen \subseteq tag2.scen /\ tag1.scen \subseteq ScenarioRefs(h1, n)
    BY <1>2, <1>4 DEF At, WellFormed
  <1>6. C1[n][set[j][2]] = TagScenarios(C1, n, tag1) /\ C2[n][merged[k][2]] = TagScenarios(C2, n, tag2)
    BY <1>4, CoveredEquation
  <1>7. \A m \in Node : \A i \in DOMAIN h1[m] : C1[m][i] \subseteq C2[m][i]
    BY CoveredGrows
  <1>8. a \in C1[n][set[j][2]]
    BY <1>1, <1>4 DEF ScenariosOf
  <1> HIDE DEF C1, C2, tag1, tag2
  <1>9. TagScenarios(C1, n, tag1) \subseteq TagScenarios(C2, n, tag2)
    BY <1>5, <1>7, MoreScenarios
  <1>10. a \in C2[n][merged[k][2]]
    BY <1>6, <1>8, <1>9
  <1> QED
    BY <1>4, <1>10 DEF ScenariosOf, C2

(* A logical input and a constant generator start with tags for everything. *)
LEMMA LaunchedCovers ==
    ASSUME NEW heap, WellFormed(heap), NEW n \in Node, NEW set,
           \/ n \in LogicalInputs /\ heap[n] = LaunchTags /\ set = References(n, LaunchTags)
           \/ /\ Type[n] = "CONSTANT_GEN_SOURCE" /\ heap[n] = <<Launch(Constant(n))>>
              /\ set = References(n, <<Launch(Constant(n))>>)
    PROVE  Covers(heap, set)
  <1> SUFFICES ASSUME NEW a \in CircuitScenarios
               PROVE  \E k \in DOMAIN set : a \in ScenariosOf(CoveredIn(heap), set[k])
    BY DEF Covers
  <1> DEFINE C == CoveredIn(heap)
  <1>1. \A i \in DOMAIN heap[n] : C[n][i] = TagScenarios(C, n, heap[n][i])
    BY CoveredEquation
  <1>2. set = References(n, heap[n])
    OBVIOUS
  <1>3. DOMAIN set = DOMAIN heap[n] /\ \A k \in DOMAIN heap[n] : set[k] = <<n, k>>
    BY <1>2 DEF References
  <1> SUFFICES \E k \in DOMAIN heap[n] : a \in TagScenarios(C, n, heap[n][k])
    BY <1>1, <1>3 DEF ScenariosOf
  <1>4. CASE n \in LogicalInputs /\ heap[n] = LaunchTags
    <2>1. a[n] \in {"RISE", "FALL", "HIGH", "LOW"}
      BY <1>4 DEF CircuitScenarios, Transitions, Dynamic, Static
    <2>2. \E k \in DOMAIN LaunchTags : LaunchTags[k].trans = a[n]
      BY <2>1 DEF LaunchTags, Launch
    <2>3. Type[n] # "CONSTANT_GEN_SOURCE"
      BY <1>4 DEF LogicalInputs
    <2> HIDE DEF C
    <2> QED
      BY <1>4, <2>2, <2>3 DEF TagScenarios
  <1>5. CASE Type[n] = "CONSTANT_GEN_SOURCE" /\ heap[n] = <<Launch(Constant(n))>>
    <2>1. 1 \in DOMAIN heap[n]
      BY <1>5
    <2> HIDE DEF C
    <2> QED
      BY <1>5, <2>1 DEF TagScenarios
  <1> QED
    BY <1>4, <1>5

(* The scenario that takes tag p[i] of input i.                             *)
Chosen(sets, n, p) == [i \in DataEdges(n) |-> sets[i][p[i]]]

(* When the inputs of a node miss no scenario of the circuit and all their  *)
(* permutations are among the scenarios of its tags, neither does the node. *)
LEMMA EvaluatedCovers ==
    ASSUME NEW heap, WellFormed(heap), NEW n \in Node, DataEdges(n) # {}, NEW sets,
           \A i \in DataEdges(n) : Covers(heap, sets[i]),
           \A p : (p = [i \in DataEdges(n) |-> p[i]] /\ \A i \in DataEdges(n) : p[i] \in DOMAIN sets[i])
                     => \E j \in DOMAIN heap[n] : Chosen(sets, n, p) \in heap[n][j].scen
    PROVE  Covers(heap, References(n, heap[n]))
  <1> SUFFICES ASSUME NEW a \in CircuitScenarios
               PROVE  \E k \in DOMAIN heap[n] : a \in CoveredIn(heap)[n][k]
    BY DEF Covers, References, ScenariosOf
  <1> DEFINE C == CoveredIn(heap)
             p == [i \in DataEdges(n) |-> CHOOSE k \in DOMAIN sets[i] : a \in ScenariosOf(C, sets[i][k])]
  <1>1. \A i \in DataEdges(n) : p[i] \in DOMAIN sets[i] /\ a \in ScenariosOf(C, sets[i][p[i]])
    <2> TAKE i \in DataEdges(n)
    <2>1. \E k \in DOMAIN sets[i] : a \in ScenariosOf(C, sets[i][k])
      BY DEF Covers
    <2> QED
      BY <2>1
  <1>2. p = [i \in DataEdges(n) |-> p[i]]
    OBVIOUS
  <1> HIDE DEF p
  <1>3. PICK j \in DOMAIN heap[n] : Chosen(sets, n, p) \in heap[n][j].scen
    BY <1>1, <1>2
  <1>4. C[n][j] = TagScenarios(C, n, heap[n][j])
    BY CoveredEquation
  <1>5. Type[n] # "CONSTANT_GEN_SOURCE" /\ n \notin LogicalInputs
    BY EvaluatedNode
  <1> HIDE DEF C
  <1>6. \A e \in DOMAIN Chosen(sets, n, p) :
           a \in C[Chosen(sets, n, p)[e][1]][Chosen(sets, n, p)[e][2]]
    BY <1>1 DEF Chosen, ScenariosOf
  <1>7. a \in Satisfying(C, heap[n][j].scen)
    BY <1>3, <1>6 DEF Satisfying
  <1> QED
    BY <1>4, <1>5, <1>7 DEF TagScenarios, C
-------------------------------------------------------------------------------
(* The generator of the node being evaluated, with its proofs.              *)
G == INSTANCE TagPermutationGeneratorProofs
        WITH SizesChoices <- {}, sizes <- Sizes(srcs), iterators <- its,
             done <- done, returned <- {}

(* Every passed permutation of the input tags is a scenario of some tag.    *)
PassedCollected ==
    \A p \in G!Permutations :
        done \/ G!Precedes(p, its) =>
            \E j \in DOMAIN tags[node] : Chosen(srcs, node, p) \in tags[node][j].scen

(* The inductive invariant behind CoversEveryScenario.                      *)
CoverInv ==
    /\ \A n \in visited : dataTags[n] # <<>> => Covers(tags, dataTags[n])
    /\ phase # "idle" => \A i \in DataEdges(node) : Covers(tags, srcs[i])
    /\ phase = "eval" => PassedCollected

(* No node has data tags before the traversal.                              *)
LEMMA CoverInitially == Init => CoverInv
  BY DEF Init, CoverInv

(* The sizes a node's generator is built with, and its permutations.        *)
LEMMA GeneratorOfNode ==
    ASSUME TInv, phase # "idle"
    PROVE  /\ G!SizesOK
           /\ \A p : p \in G!Permutations
                <=> p = [i \in DataEdges(node) |-> p[i]] /\ \A i \in DataEdges(node) : p[i] \in DOMAIN srcs[i]
  <1>1. /\ node \in Node /\ node \notin ClockNet /\ DataEdges(node) # {}
        /\ srcs = [i \in DataEdges(node) |-> srcs[i]]
        /\ \A i \in DataEdges(node) : srcs[i] \in Seq(RefsAt(tags, Fanin[node][i])) /\ srcs[i] # <<>>
    BY DEF TInv, WorkspaceOK
  <1>2. PICK k \in Nat : DataEdges(node) = 1..k
    BY <1>1, DataNetFacts
  <1>3. \A i \in DataEdges(node) : /\ DOMAIN srcs[i] = 1..Len(srcs[i]) /\ Len(srcs[i]) \in Nat
                                   /\ Len(srcs[i]) # 0
    <2> TAKE i \in DataEdges(node)
    <2>1. srcs[i] \in Seq(RefsAt(tags, Fanin[node][i])) /\ srcs[i] # <<>>
      BY <1>1
    <2> QED
      BY <2>1
  <1>4. Sizes(srcs) = [i \in DataEdges(node) |-> Len(srcs[i])]
    BY <1>1 DEF Sizes
  <1>5. Sizes(srcs) \in Seq(Nat \ {0}) /\ Sizes(srcs) # <<>>
    <2>1. Sizes(srcs) \in [1..k -> Nat \ {0}]
      BY <1>2, <1>3, <1>4
    <2>2. Sizes(srcs) \in Seq(Nat \ {0})
      BY <2>1
    <2>3. DOMAIN Sizes(srcs) # {}
      BY <1>1, <1>4
    <2> QED
      BY <2>2, <2>3
  <1>6. G!SizesOK
    BY <1>5 DEF G!SizesOK
  <1> DEFINE All == UNION {1..Len(srcs[i]) : i \in DataEdges(node)}
  <1>7. G!Permutations = {p \in [DataEdges(node) -> All] : \A i \in DataEdges(node) : p[i] \in 1..Len(srcs[i])}
    <2>1. G!Inputs = DataEdges(node)
      BY <1>4 DEF G!Inputs
    <2>2. \A i \in DataEdges(node) : Sizes(srcs)[i] = Len(srcs[i])
      BY <1>4
    <2>3. UNION {1..Sizes(srcs)[i] : i \in DataEdges(node)} = All
      BY <2>2
    <2> QED
      BY <2>1, <2>2, <2>3 DEF G!Permutations
  <1>8. ASSUME NEW p
        PROVE  p \in G!Permutations
                 <=> p = [i \in DataEdges(node) |-> p[i]] /\ \A i \in DataEdges(node) : p[i] \in DOMAIN srcs[i]
    <2>1. ASSUME p = [i \in DataEdges(node) |-> p[i]], \A i \in DataEdges(node) : p[i] \in DOMAIN srcs[i]
          PROVE  p \in G!Permutations
      <3>1. \A i \in DataEdges(node) : p[i] \in 1..Len(srcs[i]) /\ p[i] \in All
        BY <1>3, <2>1
      <3> HIDE DEF All
      <3>2. p \in [DataEdges(node) -> All]
        BY <2>1, <3>1
      <3> QED
        BY <1>7, <3>1, <3>2
    <2>2. ASSUME p \in G!Permutations
          PROVE  p = [i \in DataEdges(node) |-> p[i]] /\ \A i \in DataEdges(node) : p[i] \in DOMAIN srcs[i]
      <3> HIDE DEF All
      <3>1. p \in [DataEdges(node) -> All] /\ \A i \in DataEdges(node) : p[i] \in 1..Len(srcs[i])
        BY <1>7, <2>2
      <3> QED
        BY <1>3, <3>1
    <2> QED
      BY <2>1, <2>2
  <1> QED
    BY <1>6, <1>8

(* What is covered stays covered.                                           *)
LEMMA StillCovers ==
    ASSUME TInv, TInv', Next
    PROVE  /\ WellFormed(tags) /\ WellFormed(tags') /\ Kept(tags, tags')
           /\ \A n \in Node : \A set \in Seq(RefsAt(tags, n)) : Covers(tags, set) => Covers(tags', set)
  <1>1. WellFormed(tags) /\ WellFormed(tags') /\ Kept(tags, tags')
    BY TagsArise DEF TInv, HeapOK, WellFormed
  <1> QED
    BY <1>1, CoversGrows

(* A step that leaves the workspace, or has none.                           *)
LEMMA CoverStays ==
    ASSUME TInv, TInv', Next, CoverInv,
           \A n \in visited' : dataTags'[n] # <<>> =>
              Covers(tags', dataTags'[n]) \/ (n \in visited /\ dataTags'[n] = dataTags[n]),
           \/ phase' = "idle"
           \/ /\ phase' = phase /\ node' = node /\ srcs' = srcs /\ its' = its /\ done' = done
              /\ tags'[node] = tags[node]
    PROVE  CoverInv'
  <1>1. \A n \in Node : \A set \in Seq(RefsAt(tags, n)) : Covers(tags, set) => Covers(tags', set)
    BY StillCovers
  <1>2. \A n \in Node : dataTags[n] \in Seq(RefsAt(tags, n))
    BY DEF TInv, HeapOK
  <1>3. \A n \in visited' : dataTags'[n] # <<>> => Covers(tags', dataTags'[n])
    <2> SUFFICES ASSUME NEW n \in visited', n \in visited, dataTags'[n] = dataTags[n], dataTags[n] # <<>>
                 PROVE  Covers(tags', dataTags'[n])
      OBVIOUS
    <2>1. n \in Node /\ Covers(tags, dataTags[n])
      BY DEF CoverInv, TInv, VisitsOK
    <2> QED
      BY <1>1, <1>2, <2>1
  <1>4. CASE phase' = "idle"
    BY <1>3, <1>4 DEF CoverInv
  <1>5. CASE /\ phase' = phase /\ node' = node /\ srcs' = srcs /\ its' = its /\ done' = done
             /\ tags'[node] = tags[node]
    <2>1. phase # "idle" => \A i \in DataEdges(node) : Covers(tags', srcs[i])
      <3> SUFFICES ASSUME phase # "idle", NEW i \in DataEdges(node) PROVE Covers(tags', srcs[i])
        OBVIOUS
      <3>1. srcs[i] \in Seq(RefsAt(tags, Fanin[node][i])) /\ node \in Node
        BY DEF TInv, WorkspaceOK
      <3>2. Fanin[node][i] \in Node
        BY <3>1, NetFacts, DataNetFacts
      <3> QED
        BY <1>1, <3>1, <3>2 DEF CoverInv
    <2>2. PassedCollected => PassedCollected'
      <3>1. (G!Permutations)' = G!Permutations
        BY <1>5 DEF G!Permutations, G!Inputs
      <3>2. \A p : (G!Precedes(p, its))' = G!Precedes(p, its)
        BY <1>5 DEF G!Precedes, G!Inputs
      <3>3. \A p : Chosen(srcs, node, p)' = Chosen(srcs, node, p)
        BY <1>5 DEF Chosen
      <3> QED
        BY <1>5, <3>1, <3>2, <3>3, Zenon DEF PassedCollected
    <2> QED
      BY <1>3, <1>5, <2>1, <2>2 DEF CoverInv
  <1> QED
    BY <1>4, <1>5
-------------------------------------------------------------------------------
(* Every step keeps it: evaluation passes one permutation at a time, and   *)
(* merging keeps what the merged tags stand for.                            *)
LEMMA CoverStep == TInv /\ TInv' /\ CoverInv /\ [Next]_vars => CoverInv'
  <1> SUFFICES ASSUME TInv, TInv', CoverInv, [Next]_vars PROVE CoverInv'
    OBVIOUS
  <1>0. HeapOK /\ WorkspaceOK /\ HeapOK' /\ VisitsOK
    BY DEF TInv
  <1>1. ASSUME NEW n \in Node, PreTraverse(n) \/ TraverseClockNode(n) PROVE CoverInv'
    <2>1. Next
      BY <1>1 DEF Next
    <2>2. /\ n # node
          /\ \A m \in Node : m # n => tags'[m] = tags[m] /\ dataTags'[m] = dataTags[m]
          /\ visited' = visited \cup {n} /\ UNCHANGED <<NodeWorkspace, Configuration>>
          /\ \/ tags'[n] = <<>> /\ dataTags'[n] = <<>>
             \/ /\ n \in LogicalInputs /\ tags'[n] = LaunchTags
                /\ dataTags'[n] = References(n, LaunchTags)
             \/ /\ Type[n] = "CONSTANT_GEN_SOURCE" /\ tags'[n] = <<Launch(Constant(n))>>
                /\ dataTags'[n] = References(n, <<Launch(Constant(n))>>)
      BY <1>1, LaunchEffect
    <2>3. WellFormed(tags')
      BY <2>1, StillCovers
    <2>4. dataTags'[n] # <<>> => Covers(tags', dataTags'[n])
      BY <2>2, <2>3, LaunchedCovers
    <2>5. \A m \in visited' : dataTags'[m] # <<>> =>
             Covers(tags', dataTags'[m]) \/ (m \in visited /\ dataTags'[m] = dataTags[m])
      BY <1>0, <2>2, <2>4 DEF VisitsOK
    <2>6. /\ phase' = phase /\ node' = node /\ srcs' = srcs /\ its' = its /\ done' = done
      BY <2>2 DEF NodeWorkspace
    <2>7. phase' = "idle" \/ tags'[node] = tags[node]
      BY <1>0, <2>2, <2>6 DEF WorkspaceOK
    <2> QED
      BY <2>1, <2>5, <2>6, <2>7, CoverStays
  <1>2. ASSUME NEW n \in Node, BeginNode(n) PROVE CoverInv'
    <2>1. /\ tags' = tags /\ dataTags' = dataTags /\ visited' = visited /\ n \notin ClockNet
          /\ node' = n /\ phase' = "reduce"
          /\ \A i \in DataEdges(n) : srcs'[i] = dataTags[Fanin[n][i]] /\ Fanin[n][i] \in visited
      <3>1. n \notin ClockNet
        <4>1. node' = n /\ phase' = "reduce" /\ WorkspaceOK'
          BY <1>2, BeginStep DEF TInv
        <4> QED
          BY <4>1 DEF WorkspaceOK
      <3> QED
        BY <1>2, <3>1, BeginStep
    <2>2. ASSUME NEW i \in DataEdges(n) PROVE Covers(tags', srcs'[i])
      <3>1. Fanin[n][i] \notin ClockNet
        BY <2>1, DataNetFacts
      <3>2. dataTags[Fanin[n][i]] # <<>>
        BY <1>0, <2>1, <3>1 DEF VisitsOK
      <3> QED
        BY <2>1, <3>2 DEF CoverInv
    <2> QED
      BY <2>1, <2>2 DEF CoverInv
  <1>3. CASE ReduceInput
    <2>1. Next
      BY <1>3 DEF Next
    <2>2. PICK i \in DataEdges(node) :
             /\ Grown(tags, tags', Fanin[node][i])
             /\ \A j \in DOMAIN srcs[i] : LivesOn(tags, srcs[i][j], tags', srcs'[i])
             /\ \A k \in DataEdges(node) : k # i => srcs'[k] = srcs[k]
      BY <1>3, ReduceStep
    <2>3. /\ node \in Node \ visited
          /\ UNCHANGED <<dataTags, visited, node, delay, opts>> /\ phase = "reduce" /\ phase' = "reduce"
      BY <1>3, ReduceStep
    <2>4. /\ WellFormed(tags) /\ WellFormed(tags') /\ Kept(tags, tags')
          /\ \A n \in Node : \A set \in Seq(RefsAt(tags, n)) : Covers(tags, set) => Covers(tags', set)
      BY <2>1, StillCovers
    <2>5. ASSUME NEW k \in DataEdges(node)
          PROVE  /\ srcs[k] \in Seq(RefsAt(tags, Fanin[node][k])) /\ Fanin[node][k] \in Node
                 /\ srcs'[k] \in Seq(RefsAt(tags', Fanin[node][k]))
                 /\ Covers(tags, srcs[k])
      <3>1. WorkspaceOK'
        BY DEF TInv
      <3>2. srcs'[k] \in Seq(RefsAt(tags', Fanin[node][k]))
        BY <2>3, <3>1 DEF WorkspaceOK
      <3>3. srcs[k] \in Seq(RefsAt(tags, Fanin[node][k])) /\ Covers(tags, srcs[k])
        BY <1>0, <2>3 DEF WorkspaceOK, CoverInv
      <3> QED
        BY <2>3, <3>2, <3>3, NetFacts, DataNetFacts
    <2>6. Covers(tags', srcs'[i])
      BY <2>2, <2>4, <2>5, MergedCovers
    <2>7. \A k \in DataEdges(node) : Covers(tags', srcs'[k])
      BY <2>2, <2>4, <2>5, <2>6
    <2>8. \A n \in visited : dataTags[n] # <<>> => Covers(tags', dataTags[n])
      <3> SUFFICES ASSUME NEW n \in visited, dataTags[n] # <<>> PROVE Covers(tags', dataTags[n])
        OBVIOUS
      <3>1. n \in Node /\ dataTags[n] \in Seq(RefsAt(tags, n)) /\ Covers(tags, dataTags[n])
        BY <1>0 DEF VisitsOK, HeapOK, CoverInv
      <3> QED
        BY <2>4, <3>1
    <2> QED
      BY <2>3, <2>7, <2>8 DEF CoverInv
  <1>4. CASE StartEvaluation
    <2>1. /\ UNCHANGED <<tags, dataTags, visited, node, srcs>>
          /\ phase = "reduce" /\ phase' = "eval" /\ done' = FALSE
      BY <1>4, StartStep
    <2>2. its' = G!First(Sizes(srcs))
      BY <1>4 DEF StartEvaluation, Generator!First, G!First
    <2>3. \A p \in G!Permutations : ~G!Precedes(p, its')
      <3>1. G!SizesOK
        BY <2>1, GeneratorOfNode
      <3> QED
        BY <2>2, <3>1, G!FirstIsFirst
    <2>4. PassedCollected'
      BY <2>1, <2>3 DEF PassedCollected, G!Permutations, G!Precedes, G!Inputs
    <2> QED
      BY <2>1, <2>4 DEF CoverInv
  <1>5. CASE EvaluatePermutation
    <2>1. Next
      BY <1>5 DEF Next
    <2>2. /\ phase = "eval" /\ phase' = "eval" /\ ~done /\ node \in Node \ visited
          /\ UNCHANGED <<dataTags, visited, node, srcs>>
          /\ its' = Generator!Advanced(Sizes(srcs), its)
          /\ done' = Generator!Overflows(Sizes(srcs), its)
          /\ \E i \in DOMAIN tags'[node] : CurrentRefs \in tags'[node][i].scen
      BY <1>5, EvaluateStep
    <2>3. its' = G!Advanced(Sizes(srcs), its) /\ done' = G!Overflows(Sizes(srcs), its)
      BY <2>2 DEF Generator!Advanced, G!Advanced, G!CarryInto, Generator!CarryInto,
                  Generator!Overflows, G!Overflows
    <2>4. /\ Kept(tags, tags')
          /\ \A n \in Node : \A set \in Seq(RefsAt(tags, n)) : Covers(tags, set) => Covers(tags', set)
      BY <2>1, StillCovers
    <2>5. its \in G!Permutations /\ G!SizesOK
      <3>1. /\ its = [i \in DataEdges(node) |-> its[i]]
            /\ \A i \in DataEdges(node) : its[i] \in DOMAIN srcs[i]
        <4>1. /\ its = [i \in DataEdges(node) |-> its[i]]
              /\ \A i \in DataEdges(node) : its[i] \in 1..Len(srcs[i])
              /\ \A i \in DataEdges(node) : srcs[i] \in Seq(RefsAt(tags, Fanin[node][i]))
          BY <1>0, <2>2 DEF WorkspaceOK
        <4> QED
          BY <4>1
      <3> QED
        BY <2>2, <3>1, GeneratorOfNode
    <2>6. Chosen(srcs, node, its) = CurrentRefs
      BY DEF Chosen, CurrentRefs
    <2>7. ASSUME NEW p \in G!Permutations, done' \/ G!Precedes(p, its')
          PROVE  \E j \in DOMAIN tags'[node] : Chosen(srcs, node, p) \in tags'[node][j].scen
      <3>1. p = its \/ G!Precedes(p, its)
        <4>1. CASE G!Overflows(Sizes(srcs), its)
          BY <2>5, <4>1, G!OverflowIsTheEnd
        <4>2. CASE ~G!Overflows(Sizes(srcs), its)
          <5>1. G!Precedes(p, G!Advanced(Sizes(srcs), its)) <=> G!Precedes(p, its) \/ p = its
            BY <2>5, <4>2, G!AdvancePassesOne
          <5> QED
            BY <2>3, <2>7, <4>2, <5>1
        <4> QED
          BY <4>1, <4>2
      <3>2. CASE p = its
        BY <2>2, <2>6, <3>2
      <3>3. CASE G!Precedes(p, its)
        <4>1. PICK j \in DOMAIN tags[node] : Chosen(srcs, node, p) \in tags[node][j].scen
          BY <2>2, <3>3 DEF CoverInv, PassedCollected
        <4> QED
          BY <2>2, <2>4, <4>1 DEF Kept
      <3> QED
        BY <3>1, <3>2, <3>3
    <2>8. PassedCollected'
      <3>1. (G!Permutations)' = G!Permutations
        BY <2>2 DEF G!Permutations, G!Inputs
      <3>2. \A p : (G!Precedes(p, its))' = G!Precedes(p, its')
        BY <2>2 DEF G!Precedes, G!Inputs
      <3> QED
        BY <2>2, <2>7, <3>1, <3>2 DEF PassedCollected
    <2>9. \A i \in DataEdges(node) : Covers(tags', srcs[i])
      <3> TAKE i \in DataEdges(node)
      <3>1. srcs[i] \in Seq(RefsAt(tags, Fanin[node][i])) /\ Covers(tags, srcs[i])
        BY <1>0, <2>2 DEF WorkspaceOK, CoverInv
      <3>2. Fanin[node][i] \in Node
        BY <2>2, NetFacts, DataNetFacts
      <3> QED
        BY <2>4, <3>1, <3>2
    <2>10. \A n \in visited : dataTags[n] # <<>> => Covers(tags', dataTags[n])
      <3> SUFFICES ASSUME NEW n \in visited, dataTags[n] # <<>> PROVE Covers(tags', dataTags[n])
        OBVIOUS
      <3>1. n \in Node /\ dataTags[n] \in Seq(RefsAt(tags, n)) /\ Covers(tags, dataTags[n])
        BY <1>0 DEF VisitsOK, HeapOK, CoverInv
      <3> QED
        BY <2>4, <3>1
    <2> QED
      BY <2>2, <2>8, <2>9, <2>10 DEF CoverInv
  <1>6. CASE FinishNode
    <2>1. Next
      BY <1>6 DEF Next
    <2>2. /\ phase = "eval" /\ done /\ phase' = "idle"
          /\ node \in Node \ visited /\ visited' = visited \cup {node}
          /\ \A m \in Node : m # node => dataTags'[m] = dataTags[m]
          /\ \A i \in DOMAIN tags[node] : LivesOn(tags, <<node, i>>, tags', dataTags'[node])
      BY <1>6, FinishStep
    <2>3. WellFormed(tags) /\ WellFormed(tags') /\ Kept(tags, tags')
      BY <2>1, StillCovers
    <2> DEFINE set == References(node, tags[node])
    <2>4. Covers(tags, set)
      <3>1. DataEdges(node) # {} /\ \A i \in DataEdges(node) : Covers(tags, srcs[i])
        BY <1>0, <2>2 DEF WorkspaceOK, CoverInv
      <3>2. ASSUME NEW p, p = [i \in DataEdges(node) |-> p[i]],
                   \A i \in DataEdges(node) : p[i] \in DOMAIN srcs[i]
            PROVE  \E j \in DOMAIN tags[node] : Chosen(srcs, node, p) \in tags[node][j].scen
        <4>1. p \in G!Permutations
          BY <2>2, <3>2, GeneratorOfNode
        <4> QED
          BY <2>2, <4>1 DEF CoverInv, PassedCollected
      <3> QED
        BY <2>2, <2>3, <3>1, <3>2, EvaluatedCovers
    <2>5. set \in Seq(RefsAt(tags, node)) /\ DOMAIN set = DOMAIN tags[node]
          /\ \A j \in DOMAIN set : set[j] = <<node, j>>
      <3>1. tags[node] \in Seq(TagType)
        BY <1>0, <2>2 DEF HeapOK, Heap
      <3>2. DOMAIN tags[node] = 1..Len(tags[node]) /\ Len(tags[node]) \in Nat
        BY <3>1
      <3>3. \A j \in DOMAIN tags[node] : <<node, j>> \in RefsAt(tags, node)
        BY <2>2, <3>2 DEF RefsAt, Reference
      <3> QED
        BY <3>2, <3>3 DEF References
    <2>6. dataTags'[node] \in Seq(RefsAt(tags', node))
      BY <1>0, <2>2 DEF HeapOK
    <2> HIDE DEF set
    <2>7. Covers(tags', dataTags'[node])
      BY <2>2, <2>3, <2>4, <2>5, <2>6, MergedCovers
    <2>8. \A m \in visited' : dataTags'[m] # <<>> =>
             Covers(tags', dataTags'[m]) \/ (m \in visited /\ dataTags'[m] = dataTags[m])
      BY <1>0, <2>2, <2>7 DEF VisitsOK
    <2> QED
      BY <2>1, <2>2, <2>8, CoverStays
  <1>7. CASE UNCHANGED vars
    <2>1. UNCHANGED <<tags, dataTags, visited, node, phase, srcs, its, done>>
      BY <1>7 DEF vars
    <2>2. PassedCollected' <=> PassedCollected
      BY <2>1 DEF PassedCollected, G!Permutations, G!Precedes, G!Inputs
    <2> QED
      BY <2>1, <2>2 DEF CoverInv
  <1> QED
    BY <1>1, <1>2, <1>3, <1>4, <1>5, <1>6, <1>7 DEF Next

(* For any circuit, delays and settings: every scenario of the circuit is   *)
(* accounted for by some tag of every node with data.  Evaluation skips no  *)
(* permutation, and reducing, merging and compressing lose none.            *)
THEOREM EveryScenarioCovered == Spec => []CoversEveryScenario
  <1>1. TInv /\ CoverInv => CoversEveryScenario
    <2> SUFFICES ASSUME TInv, CoverInv, Finished, NEW n \in Node, dataTags[n] # <<>>
                 PROVE  UNION {ScenariosOf(Covered, t) : t \in ToSet(dataTags[n])} = CircuitScenarios
      BY DEF CoversEveryScenario
    <2>1. Covers(tags, dataTags[n])
      BY DEF Finished, CoverInv
    <2>2. ASSUME NEW t \in ToSet(dataTags[n]) PROVE ScenariosOf(Covered, t) \subseteq CircuitScenarios
      <3>1. dataTags[n] \in Seq(RefsAt(tags, n))
        BY DEF TInv, HeapOK
      <3>2. t \in RefsAt(tags, n)
        BY <2>2, <3>1 DEF ToSet
      <3>3. t[1] = n /\ t[2] \in DOMAIN tags[n]
        BY <3>2 DEF RefsAt
      <3>4. WellFormed(tags)
        BY TInvIsWellFormed
      <3>5. /\ CoveredIn(tags)[n] \in Seq(SUBSET CircuitScenarios)
            /\ DOMAIN CoveredIn(tags)[n] = DOMAIN tags[n]
        BY <3>4, CoveredEquation
      <3>6. CoveredIn(tags)[n][t[2]] \in SUBSET CircuitScenarios
        BY <3>3, <3>5
      <3> QED
        BY <3>3, <3>6 DEF ScenariosOf, Covered
    <2>3. \A k \in DOMAIN dataTags[n] : dataTags[n][k] \in ToSet(dataTags[n])
      BY DEF ToSet
    <2> QED
      BY <2>1, <2>2, <2>3 DEF Covers, Covered
  <1> QED
    BY <1>1, TInvInitially, TInvStep, CoverInitially, CoverStep, PTL DEF Spec
-------------------------------------------------------------------------------
(* Finite sets of times, of which the standard analysis keeps the latest.   *)
Times == {s \in SUBSET Nat : IsFiniteSet(s)}

(* The latest of such a set is one again, and no time of the set is later.  *)
LEMMA LatestOfTimes ==
    ASSUME NEW S \in Times
    PROVE  Latest(S) \in Times /\ \A t \in S : \E latest \in Latest(S) : t <= latest
  <1>1. S \in SUBSET Nat /\ S \in SUBSET Int /\ IsFiniteSet(S)
    BY DEF Times
  <1>2. CASE S = {}
    BY <1>2, FS_EmptySet DEF Latest, Times
  <1>3. CASE S # {}
    <2>1. Max(S) \in S /\ \A y \in S : y <= Max(S)
      BY <1>1, <1>3, GreatestMember
    <2>2. {Max(S)} \in SUBSET Nat /\ IsFiniteSet({Max(S)})
      BY <1>1, <2>1, FS_Singleton
    <2> QED
      BY <1>3, <2>1, <2>2 DEF Latest, Times
  <1> QED
    BY <1>2, <1>3

(* The edges of a node are finitely many, with delays in Nat.               *)
LEMMA EdgeFacts ==
    ASSUME NEW d \in DelayModels, NEW n \in Node
    PROVE  IsFiniteSet(DOMAIN Fanin[n]) /\ \A i \in DOMAIN Fanin[n] : d[n][i] \in Nat
  <1>1. DOMAIN Fanin[n] = 1..Len(Fanin[n]) /\ Len(Fanin[n]) \in Int /\ 1 \in Int
    BY NetFacts
  <1>2. IsFiniteSet(DOMAIN Fanin[n])
    BY <1>1, FS_Interval
  <1>3. d[n] \in [DOMAIN Fanin[n] -> Nat]
    BY OptionsAssumption
  <1> QED
    BY <1>2, <1>3

(* The times that reach a node over some of its edges.                      *)
LEMMA PulledTimes ==
    ASSUME NEW d \in DelayModels, NEW n \in Node, NEW edges \in SUBSET DOMAIN Fanin[n], NEW times,
           \A i \in edges : times[Fanin[n][i]] \in Times
    PROVE  /\ Pulled(times, d, n, edges) \in Times
           /\ \A i \in edges : \A t \in times[Fanin[n][i]] : t + d[n][i] \in Pulled(times, d, n, edges)
  <1>1. IsFiniteSet(edges) /\ \A i \in edges : d[n][i] \in Nat
    BY EdgeFacts, FS_Subset
  <1> DEFINE part == [i \in edges |-> {t + d[n][i] : t \in times[Fanin[n][i]]}]
             parts == {part[i] : i \in edges}
  <1>2. ASSUME NEW i \in edges PROVE IsFiniteSet(part[i]) /\ part[i] \in SUBSET Nat
    <2> DEFINE from == times[Fanin[n][i]]
    <2>1. from \in SUBSET Nat /\ IsFiniteSet(from)
      BY DEF Times
    <2> DEFINE g == [t \in from |-> t + d[n][i]]
    <2>2. IsFiniteSet({g[t] : t \in from})
      <3> HIDE DEF g, from
      <3> QED
        BY <2>1, FiniteImage
    <2>3. {g[t] : t \in from} = part[i]
      OBVIOUS
    <2>4. {g[t] : t \in from} \in SUBSET Nat
      <3>1. \A t \in from : t \in Nat /\ d[n][i] \in Nat
        BY <1>1, <2>1
      <3>2. \A t \in from : g[t] \in Nat
        BY <3>1
      <3> HIDE DEF g
      <3> QED
        BY <3>2
    <2> HIDE DEF g, part
    <2> QED
      BY <2>2, <2>3, <2>4
  <1>3. Pulled(times, d, n, edges) = UNION parts
    BY DEF Pulled
  <1>4. IsFiniteSet(parts)
    <2> HIDE DEF part
    <2> QED
      BY <1>1, FiniteImage
  <1>5. IsFiniteSet(UNION parts) /\ UNION parts \in SUBSET Nat
    <2> HIDE DEF part
    <2>1. \A T \in parts : IsFiniteSet(T) /\ T \in SUBSET Nat
      BY <1>2
    <2> HIDE DEF parts
    <2> QED
      BY <1>4, <2>1, FS_UNION
  <1>6. \A i \in edges : \A t \in times[Fanin[n][i]] : t + d[n][i] \in UNION parts
    OBVIOUS
  <1> QED
    BY <1>3, <1>5, <1>6 DEF Times

(* Only the times of the nodes the edges come from matter.                  *)
LEMMA PulledSame ==
    ASSUME NEW d, NEW n \in Node, NEW edges \in SUBSET DOMAIN Fanin[n], NEW t1, NEW t2,
           \A i \in DOMAIN Fanin[n] : t1[Fanin[n][i]] = t2[Fanin[n][i]]
    PROVE  Pulled(t1, d, n, edges) = Pulled(t2, d, n, edges)
  BY DEF Pulled

(* The clock arrival of a node, from those of the nodes before it.          *)
ClockArrival(d, n, arr) ==
    IF Type[n] = "CLOCK_SOURCE" THEN {0}
    ELSE Latest(Pulled(arr, d, n, {i \in DOMAIN Fanin[n] : Type[Fanin[n][i]] # "FF_SOURCE"}))

(* The clock arrivals of the standard analysis satisfy their equation.      *)
LEMMA ClockArrivalsEquation ==
    ASSUME NEW d \in DelayModels
    PROVE  /\ ClockArrivals(d) \in [Node -> Times]
           /\ \A n \in Node : ClockArrivals(d)[n] = ClockArrival(d, n, ClockArrivals(d))
  <1> DEFINE step == [n \in 1..NumNodes |-> [f \in [1..(n - 1) -> Times] |-> ClockArrival(d, n, f)]]
             arrivals == CHOOSE arr : arr = [n \in Node |-> ClockArrival(d, n, arr)]
  <1>1. Node = 1..NumNodes /\ NumNodes \in Nat
    BY NetFacts
  <1>2. ASSUME NEW n \in Node, NEW f, \A i \in DOMAIN Fanin[n] : f[Fanin[n][i]] \in Times
        PROVE  ClockArrival(d, n, f) \in Times
    <2>1. {0} \in Times
      <3>1. IsFiniteSet({0})
        BY FS_Singleton
      <3> QED
        BY <3>1 DEF Times
    <2> DEFINE edges == {i \in DOMAIN Fanin[n] : Type[Fanin[n][i]] # "FF_SOURCE"}
    <2>2. edges \in SUBSET DOMAIN Fanin[n]
      OBVIOUS
    <2>3. \A i \in edges : f[Fanin[n][i]] \in Times
      BY <1>2
    <2> HIDE DEF edges
    <2>4. Latest(Pulled(f, d, n, edges)) \in Times
      BY <2>2, <2>3, PulledTimes, LatestOfTimes
    <2> QED
      BY <2>1, <2>4 DEF ClockArrival, edges
  <1>3. ASSUME NEW n \in Node, NEW f, NEW g, \A i \in DOMAIN Fanin[n] : f[Fanin[n][i]] = g[Fanin[n][i]]
        PROVE  ClockArrival(d, n, f) = ClockArrival(d, n, g)
    BY <1>3, PulledSame DEF ClockArrival
  <1>4. ASSUME NEW n \in Node PROVE \A i \in DOMAIN Fanin[n] : Fanin[n][i] \in 1..(n - 1)
    BY NetFacts
  <1>5. MadeOfEarlier(NumNodes, Times, step)
    <2> SUFFICES ASSUME NEW n \in Node PROVE step[n] \in [[1..(n - 1) -> Times] -> Times]
      BY <1>1 DEF MadeOfEarlier
    <2>1. \A f \in [1..(n - 1) -> Times] : ClockArrival(d, n, f) \in Times
      BY <1>2, <1>4
    <2> HIDE DEF Times
    <2> QED
      BY <1>1, <2>1
  <1>6. ASSUME NEW arr, NEW n \in Node, \A j \in 1..(n - 1) : arr[j] \in Times
        PROVE  step[n][[j \in 1..(n - 1) |-> arr[j]]] = ClockArrival(d, n, arr)
    <2>1. [j \in 1..(n - 1) |-> arr[j]] \in [1..(n - 1) -> Times]
      BY <1>6
    <2>2. step[n][[j \in 1..(n - 1) |-> arr[j]]] = ClockArrival(d, n, [j \in 1..(n - 1) |-> arr[j]])
      BY <1>1, <2>1
    <2> QED
      BY <1>3, <1>4, <2>2
  <1> HIDE DEF step
  <1>7. \E arr : arr = [n \in Node |-> ClockArrival(d, n, arr)]
    <2>1. PICK f : Obeys(f, NumNodes, Times, step)
      BY <1>5, RecursionExists
    <2>2. f = [n \in Node |-> f[n]] /\ \A n \in Node : f[n] \in Times
      BY <1>1, <2>1 DEF Obeys
    <2>3. \A n \in Node : f[n] = ClockArrival(d, n, f)
      <3> TAKE n \in Node
      <3>1. \A j \in 1..(n - 1) : f[j] \in Times
        BY <1>1, <2>2
      <3>2. f[n] = step[n][[j \in 1..(n - 1) |-> f[j]]]
        BY <1>1, <2>1 DEF Obeys
      <3> QED
        BY <1>6, <3>1, <3>2
    <2> QED
      BY <2>2, <2>3
  <1>8. arrivals = [n \in Node |-> ClockArrival(d, n, arrivals)]
    BY <1>7
  <1>9. ClockArrivals(d) = arrivals
    BY DEF ClockArrivals, ClockArrival
  <1> HIDE DEF arrivals
  <1>10. Obeys(arrivals, NumNodes, Times, step)
    <2>1. arrivals = [k \in 1..NumNodes |-> arrivals[k]]
      BY <1>1, <1>8
    <2>2. \A k \in 1..NumNodes : (\A j \in 1..(k - 1) : arrivals[j] \in Times) =>
             arrivals[k] = step[k][[j \in 1..(k - 1) |-> arrivals[j]]]
      BY <1>1, <1>6, <1>8
    <2> QED
      BY <1>5, <2>1, <2>2, ObeysByEquation
  <1> QED
    BY <1>1, <1>8, <1>9, <1>10 DEF Obeys

(* Its data arrival, the clock arrivals given.                              *)
DataArrival(d, clk, n, arr) ==
    IF Type[n] = "INPAD_SOURCE" THEN {0}
    ELSE Latest(Pulled(arr, d, n, DOMAIN Fanin[n]) \cup
                (IF Type[n] = "FF_SOURCE" THEN Pulled(clk, d, n, DOMAIN Fanin[n]) ELSE {}))

(* What data arrivals a node's own is the latest of.                        *)
LEMMA DataArrivalFacts ==
    ASSUME NEW d \in DelayModels, NEW clk \in [Node -> Times], NEW n \in Node, NEW f,
           \A i \in DOMAIN Fanin[n] : f[Fanin[n][i]] \in Times
    PROVE  /\ DataArrival(d, clk, n, f) \in Times
           /\ Type[n] # "INPAD_SOURCE" => \A i \in DOMAIN Fanin[n] : \A t \in f[Fanin[n][i]] :
                 \E latest \in DataArrival(d, clk, n, f) : t + d[n][i] <= latest
           /\ Type[n] = "FF_SOURCE" => \A i \in DOMAIN Fanin[n] : \A t \in clk[Fanin[n][i]] :
                 \E latest \in DataArrival(d, clk, n, f) : t + d[n][i] <= latest
  <1> DEFINE data == Pulled(f, d, n, DOMAIN Fanin[n])
             launched == IF Type[n] = "FF_SOURCE" THEN Pulled(clk, d, n, DOMAIN Fanin[n]) ELSE {}
  <1>1. /\ data \in Times
        /\ \A i \in DOMAIN Fanin[n] : \A t \in f[Fanin[n][i]] : t + d[n][i] \in data
    BY PulledTimes
  <1>2. \A i \in DOMAIN Fanin[n] : clk[Fanin[n][i]] \in Times
    BY NetFacts
  <1>3. /\ Pulled(clk, d, n, DOMAIN Fanin[n]) \in Times
        /\ \A i \in DOMAIN Fanin[n] : \A t \in clk[Fanin[n][i]] : t + d[n][i] \in Pulled(clk, d, n, DOMAIN Fanin[n])
    BY <1>2, PulledTimes
  <1>4. launched \in Times
    BY <1>3, FS_EmptySet DEF Times
  <1>5. Type[n] = "FF_SOURCE" => \A i \in DOMAIN Fanin[n] : \A t \in clk[Fanin[n][i]] : t + d[n][i] \in launched
    BY <1>3
  <1> HIDE DEF data, launched
  <1>6. data \cup launched \in Times
    BY <1>1, <1>4, FS_Union DEF Times
  <1>7. Latest(data \cup launched) \in Times /\ \A t \in data \cup launched : \E latest \in Latest(data \cup launched) : t <= latest
    BY <1>6, LatestOfTimes
  <1>8. {0} \in Times
    <2>1. IsFiniteSet({0})
      BY FS_Singleton
    <2> QED
      BY <2>1 DEF Times
  <1>9. DataArrival(d, clk, n, f) = IF Type[n] = "INPAD_SOURCE" THEN {0} ELSE Latest(data \cup launched)
    BY DEF DataArrival, data, launched
  <1>10. Type[n] = "FF_SOURCE" => Type[n] # "INPAD_SOURCE"
    OBVIOUS
  <1> QED
    BY <1>1, <1>5, <1>7, <1>8, <1>9, <1>10

(* The data arrivals of the standard analysis satisfy their equation.       *)
LEMMA DataArrivalsEquation ==
    ASSUME NEW d \in DelayModels, NEW clk \in [Node -> Times]
    PROVE  /\ DataArrivals(d, clk) \in [Node -> Times]
           /\ \A n \in Node : DataArrivals(d, clk)[n] = DataArrival(d, clk, n, DataArrivals(d, clk))
  <1> DEFINE step == [n \in 1..NumNodes |-> [f \in [1..(n - 1) -> Times] |-> DataArrival(d, clk, n, f)]]
             arrivals == CHOOSE arr : arr = [n \in Node |-> DataArrival(d, clk, n, arr)]
  <1>1. Node = 1..NumNodes /\ NumNodes \in Nat
    BY NetFacts
  <1>2. ASSUME NEW n \in Node, NEW f, NEW g, \A i \in DOMAIN Fanin[n] : f[Fanin[n][i]] = g[Fanin[n][i]]
        PROVE  DataArrival(d, clk, n, f) = DataArrival(d, clk, n, g)
    <2>1. Pulled(f, d, n, DOMAIN Fanin[n]) = Pulled(g, d, n, DOMAIN Fanin[n])
      BY <1>2, PulledSame
    <2> QED
      BY <2>1 DEF DataArrival
  <1>3. ASSUME NEW n \in Node PROVE \A i \in DOMAIN Fanin[n] : Fanin[n][i] \in 1..(n - 1)
    BY NetFacts
  <1>4. MadeOfEarlier(NumNodes, Times, step)
    <2> SUFFICES ASSUME NEW n \in Node PROVE step[n] \in [[1..(n - 1) -> Times] -> Times]
      BY <1>1 DEF MadeOfEarlier
    <2>1. \A f \in [1..(n - 1) -> Times] : DataArrival(d, clk, n, f) \in Times
      BY <1>3, DataArrivalFacts
    <2> HIDE DEF Times
    <2> QED
      BY <1>1, <2>1
  <1>5. ASSUME NEW arr, NEW n \in Node, \A j \in 1..(n - 1) : arr[j] \in Times
        PROVE  step[n][[j \in 1..(n - 1) |-> arr[j]]] = DataArrival(d, clk, n, arr)
    <2>1. [j \in 1..(n - 1) |-> arr[j]] \in [1..(n - 1) -> Times]
      BY <1>5
    <2>2. step[n][[j \in 1..(n - 1) |-> arr[j]]] = DataArrival(d, clk, n, [j \in 1..(n - 1) |-> arr[j]])
      BY <1>1, <2>1
    <2> QED
      BY <1>2, <1>3, <2>2
  <1> HIDE DEF step
  <1>6. \E arr : arr = [n \in Node |-> DataArrival(d, clk, n, arr)]
    <2>1. PICK f : Obeys(f, NumNodes, Times, step)
      BY <1>4, RecursionExists
    <2>2. f = [n \in Node |-> f[n]] /\ \A n \in Node : f[n] \in Times
      BY <1>1, <2>1 DEF Obeys
    <2>3. \A n \in Node : f[n] = DataArrival(d, clk, n, f)
      <3> TAKE n \in Node
      <3>1. \A j \in 1..(n - 1) : f[j] \in Times
        BY <1>1, <2>2
      <3>2. f[n] = step[n][[j \in 1..(n - 1) |-> f[j]]]
        BY <1>1, <2>1 DEF Obeys
      <3> QED
        BY <1>5, <3>1, <3>2
    <2> QED
      BY <2>2, <2>3
  <1>7. arrivals = [n \in Node |-> DataArrival(d, clk, n, arrivals)]
    BY <1>6
  <1>8. DataArrivals(d, clk) = arrivals
    BY DEF DataArrivals, DataArrival
  <1> HIDE DEF arrivals
  <1>9. Obeys(arrivals, NumNodes, Times, step)
    <2>1. arrivals = [k \in 1..NumNodes |-> arrivals[k]]
      BY <1>1, <1>7
    <2>2. \A k \in 1..NumNodes : (\A j \in 1..(k - 1) : arrivals[j] \in Times) =>
             arrivals[k] = step[k][[j \in 1..(k - 1) |-> arrivals[j]]]
      BY <1>1, <1>5, <1>7
    <2> QED
      BY <1>4, <2>1, <2>2, ObeysByEquation
  <1> QED
    BY <1>1, <1>7, <1>8, <1>9 DEF Obeys

(* A node without a constant generator behind it has only inputs without.   *)
LEMMA ConstantInConeEquation ==
    ASSUME NEW n \in Node
    PROVE  ConstantInCone[n] <=> \/ Type[n] = "CONSTANT_GEN_SOURCE"
                                 \/ \E i \in DOMAIN Fanin[n] : ConstantInCone[Fanin[n][i]]
  <1> DEFINE InCone(m, f) == \/ Type[m] = "CONSTANT_GEN_SOURCE"
                             \/ \E i \in DOMAIN Fanin[m] : f[Fanin[m][i]]
             step == [m \in 1..NumNodes |-> [f \in [1..(m - 1) -> BOOLEAN] |-> InCone(m, f)]]
             cone == CHOOSE f : f = [m \in Node |-> InCone(m, f)]
  <1>1. Node = 1..NumNodes /\ NumNodes \in Nat
    BY NetFacts
  <1>2. ASSUME NEW m \in Node PROVE \A i \in DOMAIN Fanin[m] : Fanin[m][i] \in 1..(m - 1)
    BY NetFacts
  <1>3. ASSUME NEW m \in Node, NEW f \in [1..(m - 1) -> BOOLEAN] PROVE InCone(m, f) \in BOOLEAN
    OBVIOUS
  <1>4. ASSUME NEW m \in Node, NEW g PROVE InCone(m, [j \in 1..(m - 1) |-> g[j]]) = InCone(m, g)
    BY <1>2
  <1> HIDE DEF InCone
  <1>5. MadeOfEarlier(NumNodes, BOOLEAN, step)
    <2> SUFFICES ASSUME NEW m \in Node PROVE step[m] \in [[1..(m - 1) -> BOOLEAN] -> BOOLEAN]
      BY <1>1 DEF MadeOfEarlier
    <2> QED
      BY <1>1, <1>3
  <1>6. \E f : f = [m \in Node |-> InCone(m, f)]
    <2>1. PICK f : Obeys(f, NumNodes, BOOLEAN, step)
      <3> HIDE DEF step
      <3> QED
        BY <1>5, RecursionExists
    <2>2. f \in [Node -> BOOLEAN]
      BY <1>1, <2>1 DEF Obeys
    <2>3. ASSUME NEW m \in Node PROVE f[m] = InCone(m, f)
      <3>1. f[m] = step[m][[j \in 1..(m - 1) |-> f[j]]]
        BY <1>1, <2>1 DEF Obeys
      <3>2. [j \in 1..(m - 1) |-> f[j]] \in [1..(m - 1) -> BOOLEAN]
        BY <1>1, <2>2
      <3>3. f[m] = InCone(m, [j \in 1..(m - 1) |-> f[j]])
        BY <1>1, <3>1, <3>2
      <3> QED
        BY <1>4, <3>3
    <2> QED
      BY <2>2, <2>3
  <1>7. cone = [m \in Node |-> InCone(m, cone)]
    BY <1>6
  <1>8. ConstantInCone = cone
    BY DEF ConstantInCone, InCone
  <1> HIDE DEF cone
  <1> QED
    BY <1>7, <1>8 DEF InCone

(* The standard analysis has a clock arrival wherever the clock tag goes.   *)
LEMMA ClockReaches ==
    ASSUME NEW d \in DelayModels
    PROVE  \A n \in ClockNet : \E t \in ClockArrivals(d)[n] : t \in Nat
  <1> DEFINE clk == ClockArrivals(d)
             Good(n) == clk[n] # {}
             Q == {k \in Nat : \A n \in ClockNet : n <= k => Good(n)}
  <1>1. clk \in [Node -> Times] /\ \A n \in Node : clk[n] = ClockArrival(d, n, clk)
    BY ClockArrivalsEquation
  <1> HIDE DEF clk
  <1>2. Node = 1..NumNodes /\ NumNodes \in Nat /\ ClockNet \in SUBSET Node
    BY NetFacts DEF ClockNet
  <1>3. 0 \in Q
    <2>1. \A n \in ClockNet : ~(n <= 0)
      BY <1>2
    <2> HIDE DEF Good
    <2> QED
      BY <2>1
  <1>4. ASSUME NEW k \in Nat, k \in Q PROVE k + 1 \in Q
    <2> SUFFICES ASSUME NEW n \in ClockNet, n <= k + 1 PROVE clk[n] # {}
      OBVIOUS
    <2>1. \A m \in ClockNet : m < n => clk[m] # {}
      <3>1. \A m \in ClockNet : m < n => m <= k
        BY <1>2
      <3> QED
        BY <1>4, <3>1
    <2>2. n \in Node
      BY <1>2
    <2>3. CASE Type[n] = "CLOCK_SOURCE"
      BY <1>1, <2>2, <2>3 DEF ClockArrival
    <2>4. CASE Type[n] # "CLOCK_SOURCE"
      <3>1. \A i \in DOMAIN Fanin[n] : Fanin[n][i] \in ClockNet
        BY <2>2, DataNetFacts
      <3>2. Fanin[n] # <<>>
        <4>1. AsBuilt(n)
          BY <2>2, NetAssumption
        <4>2. Type[n] \notin {"FF_SOURCE", "FF_SINK", "INPAD_SOURCE", "CONSTANT_GEN_SOURCE"}
          BY <2>2, DataNetFacts
        <4> QED
          BY <2>4, <4>1, <4>2 DEF AsBuilt, PrimaryTypes
      <3>3. PICK i \in DOMAIN Fanin[n] : TRUE
        BY <2>2, <3>2, NetFacts
      <3>4. Fanin[n][i] \in ClockNet /\ Fanin[n][i] < n
        BY <2>2, <3>1, NetFacts
      <3>5. Type[Fanin[n][i]] # "FF_SOURCE"
        BY <1>2, <3>4, DataNetFacts
      <3>6. PICK t \in clk[Fanin[n][i]] : TRUE
        BY <2>1, <3>4
      <3> DEFINE edges == {e \in DOMAIN Fanin[n] : Type[Fanin[n][e]] # "FF_SOURCE"}
      <3>7. edges \in SUBSET DOMAIN Fanin[n] /\ i \in edges
        BY <3>5
      <3>8. \A e \in edges : clk[Fanin[n][e]] \in Times
        BY <1>1, <2>2, NetFacts
      <3> HIDE DEF edges
      <3>9. /\ Pulled(clk, d, n, edges) \in Times
            /\ t + d[n][i] \in Pulled(clk, d, n, edges)
        BY <2>2, <3>6, <3>7, <3>8, PulledTimes
      <3>10. Latest(Pulled(clk, d, n, edges)) # {}
        BY <3>9, LatestOfTimes
      <3>11. clk[n] = Latest(Pulled(clk, d, n, edges))
        BY <1>1, <2>2, <2>4 DEF ClockArrival, edges
      <3> QED
        BY <3>10, <3>11
    <2> QED
      BY <2>3, <2>4
  <1> HIDE DEF Q
  <1>5. \A k \in Nat : k \in Q
    BY <1>3, <1>4, NaturalInduction
  <1>6. ASSUME NEW n \in ClockNet PROVE \E t \in clk[n] : t \in Nat
    <2>1. n \in Nat /\ n <= n /\ n \in Q /\ n \in Node
      BY <1>2, <1>5
    <2>2. clk[n] # {}
      BY <2>1 DEF Q
    <2>3. clk[n] \in SUBSET Nat
      BY <1>1, <2>1 DEF Times
    <2> QED
      BY <2>2, <2>3
  <1> QED
    BY <1>6 DEF clk

(* The arrivals of the standard analysis at the nodes the tags are about.   *)
Latests == DataArrivals(delay, ClockArrivals(delay))

(* Data is launched with a clock or at a primary input, and travels on with *)
(* the delay of the edge.                                                   *)
LEMMA LatestsFacts ==
    ASSUME delay \in DelayModels, NEW n \in Node
    PROVE  /\ Latests \in [Node -> Times]
           /\ n \in LogicalInputs => \E latest \in Latests[n] : 0 <= latest
           /\ Type[n] # "INPAD_SOURCE" => \A i \in DOMAIN Fanin[n] : \A t \in Latests[Fanin[n][i]] :
                 \E latest \in Latests[n] : t + delay[n][i] <= latest
  <1> DEFINE clk == ClockArrivals(delay)
  <1>1. clk \in [Node -> Times]
    BY ClockArrivalsEquation
  <1>2. Latests \in [Node -> Times] /\ Latests[n] = DataArrival(delay, clk, n, Latests)
    BY <1>1, DataArrivalsEquation DEF Latests
  <1>3. \A i \in DOMAIN Fanin[n] : Latests[Fanin[n][i]] \in Times /\ Fanin[n][i] \in Node
    BY <1>2, NetFacts
  <1> HIDE DEF clk
  <1>4. /\ Type[n] # "INPAD_SOURCE" => \A i \in DOMAIN Fanin[n] : \A t \in Latests[Fanin[n][i]] :
              \E latest \in Latests[n] : t + delay[n][i] <= latest
        /\ Type[n] = "FF_SOURCE" => \A i \in DOMAIN Fanin[n] : \A t \in clk[Fanin[n][i]] :
              \E latest \in Latests[n] : t + delay[n][i] <= latest
    BY <1>1, <1>2, <1>3, DataArrivalFacts
  <1>5. CASE Type[n] = "INPAD_SOURCE"
    BY <1>2, <1>4, <1>5 DEF DataArrival
  <1>6. CASE Type[n] = "FF_SOURCE"
    <2>1. AsBuilt(n)
      BY NetAssumption
    <2>2. 1 \in DOMAIN Fanin[n] /\ Type[Fanin[n][1]] = "FF_CLOCK"
      BY <1>6, <2>1, NetFacts DEF AsBuilt
    <2>3. Fanin[n][1] \in ClockNet
      BY <1>3, <2>2 DEF ClockNet
    <2>4. PICK t \in clk[Fanin[n][1]] : t \in Nat
      BY <2>3, ClockReaches DEF clk
    <2>5. PICK latest \in Latests[n] : t + delay[n][1] <= latest
      BY <1>4, <1>6, <2>2, <2>4
    <2>6. delay[n][1] \in Nat
      BY <2>2, EdgeFacts
    <2>7. latest \in Nat
      BY <1>2 DEF Times
    <2>8. 0 <= latest
      BY <2>4, <2>5, <2>6, <2>7
    <2> QED
      BY <1>2, <1>4, <2>8
  <1> QED
    BY <1>2, <1>4, <1>5, <1>6 DEF LogicalInputs

(* The inductive invariant behind ArrivalsWithinSta: the reducer's analyzer *)
(* is the standard one of the same delays.                                  *)
WithinSta(heap) ==
    \A n \in Node : ~ConstantInCone[n] => \A i \in DOMAIN heap[n] :
        \E latest \in Latests[n] : heap[n][i].arr <= latest

StaInv == sta = StaTags(delay) /\ WithinSta(tags)

(* No tags before the traversal.                                            *)
LEMMA StaInitially == Init => StaInv
  <1> SUFFICES ASSUME Init PROVE StaInv
    OBVIOUS
  <1>1. sta = StaTags(delay) /\ tags = [n \in Node |-> <<>>]
    BY DEF Init
  <1> QED
    BY <1>1 DEF StaInv, WithinSta

(* A step that gives one node new arrivals.                                 *)
LEMMA StaNodeStep ==
    ASSUME StaInv, UNCHANGED <<sta, delay>>, NEW n \in Node,
           \A m \in Node : m # n => tags'[m] = tags[m],
           ~ConstantInCone[n] => \A i \in DOMAIN tags'[n] :
              \/ \E j \in DOMAIN tags[n] : tags'[n][i].arr = tags[n][j].arr
              \/ \E latest \in Latests[n] : tags'[n][i].arr <= latest
    PROVE  StaInv'
  <1>1. Latests' = Latests
    BY DEF Latests
  <1>2. ASSUME NEW m \in Node, ~ConstantInCone[m], NEW i \in DOMAIN tags'[m]
        PROVE  \E latest \in Latests[m] : tags'[m][i].arr <= latest
    BY <1>2 DEF StaInv, WithinSta
  <1> QED
    BY <1>1, <1>2 DEF StaInv, WithinSta

(* A response comes no later than the standard analysis says of the node.   *)
LEMMA ResponseWithinSta ==
    ASSUME TInv, StaInv, phase = "eval", ~ConstantInCone[node],
           NEW response \in Responses(node, InputTags(tags, CurrentRefs, node))
    PROVE  \E latest \in Latests[node] : response.arr <= latest
  <1> DEFINE in == InputTags(tags, CurrentRefs, node)
  <1>1. /\ node \in Node /\ delay \in DelayModels /\ DataEdges(node) # {}
        /\ CurrentRefs \in ScenarioRefs(tags, node) /\ in \in [DataEdges(node) -> TagType]
    BY CurrentRefsAre DEF TInv, WorkspaceOK
  <1>2. Latests \in [Node -> Times]
    BY <1>1, LatestsFacts
  <1>3. Type[node] # "INPAD_SOURCE"
    <2>1. Fanin[node] # <<>>
      BY <1>1 DEF DataEdges
    <2>2. AsBuilt(node)
      BY <1>1, NetAssumption
    <2> QED
      BY <2>1, <2>2 DEF AsBuilt, PrimaryTypes
  <1>4. ASSUME NEW i \in DataEdges(node)
        PROVE  \E latest \in Latests[node] : in[i].arr + delay[node][i] <= latest
    <2>1. i \in DOMAIN Fanin[node] /\ Fanin[node][i] \in Node
      BY <1>1, NetFacts, DataNetFacts
    <2>2. ~ConstantInCone[Fanin[node][i]]
      BY <1>1, <2>1, ConstantInConeEquation
    <2>3. CurrentRefs[i] \in RefsAt(tags, Fanin[node][i])
      BY <1>1 DEF ScenarioRefs
    <2>4. CurrentRefs[i][1] = Fanin[node][i] /\ CurrentRefs[i][2] \in DOMAIN tags[Fanin[node][i]]
      BY <2>3 DEF RefsAt
    <2>5. in[i] = tags[Fanin[node][i]][CurrentRefs[i][2]]
      BY <2>4 DEF InputTags, At
    <2>6. PICK t \in Latests[Fanin[node][i]] : in[i].arr <= t
      BY <2>1, <2>2, <2>4, <2>5 DEF StaInv, WithinSta
    <2>7. PICK latest \in Latests[node] : t + delay[node][i] <= latest
      BY <1>1, <1>3, <2>1, <2>6, LatestsFacts
    <2>8. in[i].arr \in Nat /\ delay[node][i] \in Nat /\ t \in Nat /\ latest \in Nat
      <3>1. in[i] \in TagType
        BY <1>1
      <3>2. delay[node][i] \in Nat
        BY <1>1, <2>1, EdgeFacts
      <3>3. Latests[Fanin[node][i]] \in Times /\ Latests[node] \in Times
        BY <1>1, <1>2, <2>1
      <3> QED
        BY <2>6, <2>7, <3>1, <3>2, <3>3 DEF TagType, Times
    <2>9. in[i].arr + delay[node][i] <= latest
      BY <2>6, <2>7, <2>8
    <2> QED
      BY <2>7, <2>9
  <1> HIDE DEF in
  <1>5. \/ response.arr = 0
        \/ \E i \in DataEdges(node) : response.arr = in[i].arr + EdgeDelay(node, i, response.trans)
    BY <1>1, ResponseFacts DEF in
  <1>6. ASSUME NEW i \in DataEdges(node),
               response.arr = 0 \/ response.arr = in[i].arr + EdgeDelay(node, i, response.trans)
        PROVE  \E latest \in Latests[node] : response.arr <= latest
    <2>1. PICK latest \in Latests[node] : in[i].arr + delay[node][i] <= latest
      BY <1>4
    <2>2. in[i] \in TagType /\ i \in DOMAIN Fanin[node]
      BY <1>1, DataNetFacts
    <2>3. in[i].arr \in Nat /\ delay[node][i] \in Nat
      BY <1>1, <2>2, EdgeFacts DEF TagType
    <2>4. latest \in Nat
      BY <1>1, <1>2, <2>1 DEF Times
    <2>5. EdgeDelay(node, i, response.trans) \in {0, delay[node][i]}
      BY DEF EdgeDelay
    <2>6. response.arr <= latest
      BY <1>6, <2>1, <2>3, <2>4, <2>5
    <2> QED
      BY <2>1, <2>6
  <1> QED
    BY <1>1, <1>5, <1>6

(* Launching adds no delay, evaluation that of an edge, and merging only    *)
(* moves tags to arrivals of the same node.                                 *)
LEMMA StaStep == TInv /\ StaInv /\ [Next]_vars => StaInv'
  <1> SUFFICES ASSUME TInv, StaInv, [Next]_vars PROVE StaInv'
    OBVIOUS
  <1>0. delay \in DelayModels
    BY DEF TInv, WorkspaceOK
  <1>1. ASSUME NEW n \in Node, PreTraverse(n) \/ TraverseClockNode(n) PROVE StaInv'
    <2>1. /\ tags[n] = <<>> /\ \A m \in Node : m # n => tags'[m] = tags[m]
          /\ UNCHANGED <<NodeWorkspace, Configuration>>
          /\ \/ tags'[n] = <<>>
             \/ n \in LogicalInputs /\ tags'[n] = LaunchTags
             \/ Type[n] = "CONSTANT_GEN_SOURCE"
      BY <1>1, LaunchEffect
    <2>2. ASSUME ~ConstantInCone[n], NEW i \in DOMAIN tags'[n]
          PROVE  \E latest \in Latests[n] : tags'[n][i].arr <= latest
      <3>1. n \in LogicalInputs /\ tags'[n] = LaunchTags
        <4>1. Type[n] # "CONSTANT_GEN_SOURCE"
          BY <2>2, ConstantInConeEquation
        <4> QED
          BY <2>1, <2>2, <4>1
      <3>2. tags'[n][i].arr = 0
        <4>1. \A k \in DOMAIN LaunchTags : LaunchTags[k].arr = 0
          BY DEF LaunchTags, Launch
        <4> QED
          BY <2>2, <3>1, <4>1
      <3> QED
        BY <1>0, <3>1, <3>2, LatestsFacts
    <2>3. UNCHANGED <<sta, delay>>
      BY <2>1 DEF Configuration
    <2> QED
      BY <2>1, <2>2, <2>3, StaNodeStep
  <1>2. ASSUME UNCHANGED <<tags, sta, delay>> PROVE StaInv'
    BY <1>2 DEF StaInv, WithinSta, Latests
  <1>3. ASSUME NEW m \in Node, Grown(tags, tags', m), UNCHANGED <<sta, delay>> PROVE StaInv'
    <2>1. /\ DOMAIN tags'[m] = DOMAIN tags[m] /\ \A n \in Node : n # m => tags'[n] = tags[n]
          /\ \A i \in DOMAIN tags[m] : \E j \in DOMAIN tags[m] : tags'[m][i].arr = tags[m][j].arr
      BY <1>3 DEF Grown, GrownTag
    <2> QED
      BY <1>3, <2>1, StaNodeStep
  <1>4. ASSUME NEW n \in Node, BeginNode(n) PROVE StaInv'
    BY <1>2, <1>4 DEF BeginNode, Configuration
  <1>5. CASE ReduceInput
    <2>1. PICK i \in DataEdges(node) : Grown(tags, tags', Fanin[node][i])
      BY <1>5, ReduceStep
    <2>2. Fanin[node][i] \in Node
      <3>1. node \in Node
        BY <1>5, ReduceStep
      <3> QED
        BY <3>1, NetFacts, DataNetFacts
    <2>3. UNCHANGED <<sta, delay>>
      BY <1>5 DEF ReduceInput, Configuration
    <2> QED
      BY <1>3, <2>1, <2>2, <2>3
  <1>6. CASE StartEvaluation
    BY <1>2, <1>6 DEF StartEvaluation, Configuration
  <1>7. CASE EvaluatePermutation
    <2>1. /\ phase = "eval" /\ node \in Node /\ UNCHANGED <<sta, delay>>
          /\ \A m \in Node : m # node => tags'[m] = tags[m]
      BY <1>7, EvaluateStep
    <2>2. PICK response \in Responses(node, InputTags(tags, CurrentRefs, node)) :
             \A i \in DOMAIN tags'[node] :
                AddedTag(tags[node], response, CurrentRefs, tags'[node][i], i)
      BY <1>7, EvaluateStep
    <2>3. \A i \in DOMAIN tags'[node] : \/ \E j \in DOMAIN tags[node] : tags'[node][i].arr = tags[node][j].arr
                                        \/ tags'[node][i].arr = response.arr
      BY <2>2 DEF AddedTag
    <2>4. ~ConstantInCone[node] => \E latest \in Latests[node] : response.arr <= latest
      BY <2>1, ResponseWithinSta
    <2> QED
      BY <2>1, <2>3, <2>4, StaNodeStep
  <1>8. CASE FinishNode
    BY <1>3, <1>8, FinishStep
  <1>9. CASE UNCHANGED vars
    BY <1>2, <1>9 DEF vars
  <1> QED
    BY <1>1, <1>4, <1>5, <1>6, <1>7, <1>8, <1>9 DEF Next

(* For any circuit, delays and settings: no tag, merged or not, arrives     *)
(* later than the standard analysis says of its node, unless a constant     *)
(* generator, whose delays that analysis leaves out, is behind it.          *)
THEOREM NeverLaterThanSta == Spec => []ArrivalsWithinSta
  <1>1. StaInv => ArrivalsWithinSta
    BY DEF StaInv, WithinSta, ArrivalsWithinSta, Latests, StaTags
  <1> QED
    BY <1>1, TInvInitially, TInvStep, StaInitially, StaStep, PTL DEF Spec
-------------------------------------------------------------------------------
(* A finite set of integers has a least member.                             *)
LEMMA LeastInteger ==
    ASSUME NEW T \in SUBSET Int, IsFiniteSet(T), T # {}
    PROVE  Min(T) \in T
  <1> DEFINE neg == [x \in T |-> -x]
             N == {neg[x] : x \in T}
  <1>1. IsFiniteSet(N)
    <2> HIDE DEF neg
    <2> QED
      BY FiniteImage
  <1>2. N \in SUBSET Int /\ N # {} /\ \A x \in T : neg[x] \in N /\ neg[x] = -x /\ x \in Int
    <2>1. \A x \in T : x \in Int /\ neg[x] = -x /\ neg[x] \in Int
      OBVIOUS
    <2> HIDE DEF neg
    <2> QED
      BY <2>1
  <1>3. Max(N) \in N /\ \A y \in N : y <= Max(N)
    <2> HIDE DEF N
    <2> QED
      BY <1>1, <1>2, GreatestMember
  <1>4. PICK x \in T : Max(N) = -x
    BY <1>2, <1>3
  <1>5. \A y \in T : x <= y
    <2> SUFFICES ASSUME NEW y \in T PROVE x <= y
      OBVIOUS
    <2>1. -y <= -x /\ x \in Int /\ y \in Int
      BY <1>2, <1>3, <1>4
    <2> QED
      BY <2>1
  <1> QED
    BY <1>5 DEF Min

(* Required times: finite sets of integers, of which the earliest is kept.  *)
Deadlines == {s \in SUBSET Int : IsFiniteSet(s)}

(* The earliest of such a set is such a set again.                          *)
LEMMA EarliestDeadline ==
    ASSUME NEW S \in Deadlines
    PROVE  Earliest(S) \in Deadlines
  <1>1. S \in SUBSET Int /\ IsFiniteSet(S)
    BY DEF Deadlines
  <1>2. CASE S = {}
    BY <1>2, FS_EmptySet DEF Earliest, Deadlines
  <1>3. CASE S # {}
    <2>1. Min(S) \in S
      BY <1>1, <1>3, LeastInteger
    <2>2. {Min(S)} \in SUBSET Int /\ IsFiniteSet({Min(S)})
      BY <1>1, <2>1, FS_Singleton
    <2> QED
      BY <1>3, <2>2 DEF Earliest, Deadlines
  <1> QED
    BY <1>2, <1>3

(* What a sink requires of its own arrival or of its clock's.               *)
LEMMA SinkDeadlines ==
    ASSUME NEW clk \in [Node -> Times], NEW arr \in [Node -> Times], NEW n \in Node
    PROVE  SinkRequired(n, clk, arr) \in Deadlines
  <1>1. arr[n] \in SUBSET Nat /\ IsFiniteSet(arr[n]) /\ clk[n] \in SUBSET Nat /\ IsFiniteSet(clk[n])
    BY DEF Times
  <1>2. {Max({0} \cup arr[n])} \in Deadlines
    <2> DEFINE T == {0} \cup arr[n]
    <2>1. IsFiniteSet({0})
      BY FS_Singleton
    <2>5. IsFiniteSet(T)
      BY <1>1, <2>1, FS_Union
    <2>2. T \in SUBSET Int /\ IsFiniteSet(T) /\ T # {}
      BY <1>1, <2>5
    <2> HIDE DEF T
    <2>3. Max(T) \in Int
      BY <2>2, GreatestMember
    <2>4. IsFiniteSet({Max(T)})
      BY FS_Singleton
    <2> QED
      BY <2>3, <2>4 DEF Deadlines, T
  <1>3. {c + DefaultConstraint : c \in clk[n]} \in Deadlines
    <2> DEFINE g == [c \in clk[n] |-> c + DefaultConstraint]
    <2>1. IsFiniteSet({g[c] : c \in clk[n]})
      <3> HIDE DEF g
      <3> QED
        BY <1>1, FiniteImage
    <2>2. \A c \in clk[n] : c + DefaultConstraint \in Int
      BY <1>1 DEF DefaultConstraint
    <2> QED
      BY <2>1, <2>2 DEF Deadlines
  <1>4. {} \in Deadlines
    BY FS_EmptySet DEF Deadlines
  <1> QED
    BY <1>2, <1>3, <1>4 DEF SinkRequired

(* The required time of a node, from those of the nodes after it.           *)
Required(d, clk, arr, n, req) ==
    IF arr[n] = {} THEN {}
    ELSE Earliest(SinkRequired(n, clk, arr) \cup
           (IF Type[n] = "FF_CLOCK" THEN {}
            ELSE UNION {{r - d[e[1]][e[2]] : r \in req[e[1]]} : e \in Fanouts(n)}))

(* The nodes an edge leads to come later.                                   *)
LEMMA FanoutFacts ==
    ASSUME NEW n \in Node
    PROVE  /\ IsFiniteSet(Fanouts(n))
           /\ \A e \in Fanouts(n) : e[1] \in Node /\ n < e[1] /\ e[2] \in DOMAIN Fanin[e[1]]
  <1>1. Node = 1..NumNodes /\ NumNodes \in Nat
    BY NetFacts
  <1>2. 1 \in Int /\ NumNodes \in Int
    BY <1>1
  <1>3. IsFiniteSet(Node) /\ IsFiniteSet(1..NumNodes)
    BY <1>1, <1>2, FS_Interval
  <1>4. IsFiniteSet(Node \X (1..NumNodes))
    BY <1>3, FS_Product
  <1>5. Fanouts(n) \in SUBSET (Node \X (1..NumNodes))
    BY DEF Fanouts
  <1>6. ASSUME NEW e \in Fanouts(n)
        PROVE  e[1] \in Node /\ n < e[1] /\ e[2] \in DOMAIN Fanin[e[1]]
    <2>1. e[1] \in Node /\ e[2] \in DOMAIN Fanin[e[1]] /\ Fanin[e[1]][e[2]] = n
      BY DEF Fanouts
    <2>2. AsBuilt(e[1])
      BY <2>1, NetAssumption
    <2> QED
      BY <2>1, <2>2 DEF AsBuilt
  <1> QED
    BY <1>4, <1>5, <1>6, FS_Subset

(* Those of a node are such a set whenever those of later nodes are.        *)
LEMMA RequiredDeadlines ==
    ASSUME NEW d \in DelayModels, NEW clk \in [Node -> Times], NEW arr \in [Node -> Times], NEW n \in Node,
           NEW req, \A m \in Node : n < m => req[m] \in Deadlines
    PROVE  Required(d, clk, arr, n, req) \in Deadlines
  <1> DEFINE part == [e \in Fanouts(n) |-> {r - d[e[1]][e[2]] : r \in req[e[1]]}]
             parts == {part[e] : e \in Fanouts(n)}
  <1>1. ASSUME NEW e \in Fanouts(n) PROVE part[e] \in SUBSET Int /\ IsFiniteSet(part[e])
    <2>1. e[1] \in Node /\ n < e[1] /\ e[2] \in DOMAIN Fanin[e[1]]
      BY FanoutFacts
    <2>2. d[e[1]][e[2]] \in Nat
      BY <2>1, EdgeFacts
    <2> DEFINE from == req[e[1]]
               back == d[e[1]][e[2]]
               g == [r \in from |-> r - back]
    <2>3. from \in SUBSET Int /\ IsFiniteSet(from)
      BY <2>1 DEF Deadlines
    <2>4. IsFiniteSet({g[r] : r \in from})
      <3> HIDE DEF g, from
      <3> QED
        BY <2>3, FiniteImage
    <2>5. part[e] = {g[r] : r \in from}
      OBVIOUS
    <2>6. \A r \in from : g[r] \in Int
      <3> HIDE DEF from, back
      <3>1. back \in Nat
        BY <2>2 DEF back
      <3> QED
        BY <2>3, <3>1
    <2> HIDE DEF g, part
    <2> QED
      BY <2>4, <2>5, <2>6
  <1> HIDE DEF part
  <1>2. IsFiniteSet(parts)
    BY FanoutFacts, FiniteImage
  <1>3. \A T \in parts : IsFiniteSet(T) /\ T \in SUBSET Int
    BY <1>1
  <1> HIDE DEF parts
  <1>4. UNION parts \in Deadlines
    BY <1>2, <1>3, FS_UNION DEF Deadlines
  <1>5. {} \in Deadlines
    BY FS_EmptySet DEF Deadlines
  <1>6. UNION parts = UNION {{r - d[e[1]][e[2]] : r \in req[e[1]]} : e \in Fanouts(n)}
    BY DEF parts, part
  <1> DEFINE later == IF Type[n] = "FF_CLOCK" THEN {} ELSE UNION parts
  <1>7. later \in Deadlines
    BY <1>4, <1>5
  <1> HIDE DEF later
  <1>8. SinkRequired(n, clk, arr) \cup later \in Deadlines
    BY <1>7, SinkDeadlines, FS_Union DEF Deadlines
  <1>9. Earliest(SinkRequired(n, clk, arr) \cup later) \in Deadlines
    BY <1>8, EarliestDeadline
  <1> QED
    BY <1>5, <1>6, <1>9 DEF Required, later

(* Only the required times of later nodes matter.                           *)
LEMMA RequiredSame ==
    ASSUME NEW d, NEW clk, NEW arr, NEW n \in Node, NEW r1, NEW r2,
           \A m \in Node : n < m => r1[m] = r2[m]
    PROVE  Required(d, clk, arr, n, r1) = Required(d, clk, arr, n, r2)
  <1>1. \A e \in Fanouts(n) : r1[e[1]] = r2[e[1]]
    BY FanoutFacts
  <1>2. UNION {{r - d[e[1]][e[2]] : r \in r1[e[1]]} : e \in Fanouts(n)}
          = UNION {{r - d[e[1]][e[2]] : r \in r2[e[1]]} : e \in Fanouts(n)}
    BY <1>1
  <1> QED
    BY <1>2 DEF Required

(* The required times of the standard analysis are such sets, by recursion  *)
(* from the last node to the first.                                         *)
LEMMA RequiredTimesType ==
    ASSUME NEW d \in DelayModels, NEW clk \in [Node -> Times], NEW arr \in [Node -> Times]
    PROVE  RequiredTimes(d, clk, arr) \in [Node -> Deadlines]
  <1> DEFINE back(k) == NumNodes + 1 - k
             Later(k, f) == [m \in Node |-> IF back(m) < k THEN f[back(m)] ELSE {}]
             step == [k \in 1..NumNodes |->
                        [f \in [1..(k - 1) -> Deadlines] |-> Required(d, clk, arr, back(k), Later(k, f))]]
             required == CHOOSE req : req = [n \in Node |-> Required(d, clk, arr, n, req)]
  <1>1. Node = 1..NumNodes /\ NumNodes \in Nat
    BY NetFacts
  <1>2. \A k \in 1..NumNodes : back(k) \in 1..NumNodes /\ back(back(k)) = k
    BY <1>1
  <1>3. \A k, m \in 1..NumNodes : back(k) < m <=> back(m) < k
    BY <1>1
  <1>4. \A k, m \in 1..NumNodes : back(m) < k => back(m) \in 1..(k - 1)
    BY <1>1
  <1> HIDE DEF back
  <1>5. ASSUME NEW k \in 1..NumNodes, NEW f, \A j \in 1..(k - 1) : f[j] \in Deadlines
        PROVE  Required(d, clk, arr, back(k), Later(k, f)) \in Deadlines
    <2>1. \A m \in Node : back(k) < m => Later(k, f)[m] \in Deadlines
      <3> TAKE m \in Node
      <3> HAVE back(k) < m
      <3>1. back(m) < k /\ back(m) \in 1..(k - 1)
        BY <1>1, <1>3, <1>4
      <3>2. Later(k, f)[m] = f[back(m)]
        BY <3>1
      <3> QED
        BY <1>5, <3>1, <3>2
    <2> HIDE DEF Later
    <2>2. back(k) \in Node
      BY <1>1, <1>2
    <2> QED
      BY <2>1, <2>2, RequiredDeadlines
  <1> HIDE DEF Later
  <1>6. MadeOfEarlier(NumNodes, Deadlines, step)
    <2> SUFFICES ASSUME NEW k \in 1..NumNodes PROVE step[k] \in [[1..(k - 1) -> Deadlines] -> Deadlines]
      BY <1>1 DEF MadeOfEarlier
    <2>1. \A f \in [1..(k - 1) -> Deadlines] : Required(d, clk, arr, back(k), Later(k, f)) \in Deadlines
      BY <1>5
    <2> HIDE DEF Deadlines
    <2> QED
      BY <2>1
  <1>7. ASSUME NEW req, NEW k \in 1..NumNodes, NEW f \in [1..(k - 1) -> Deadlines],
               \A j \in 1..(k - 1) : f[j] = req[back(j)]
        PROVE  step[k][f] = Required(d, clk, arr, back(k), req)
    <2>1. step[k][f] = Required(d, clk, arr, back(k), Later(k, f))
      BY <1>7
    <2>2. \A m \in Node : back(k) < m => Later(k, f)[m] = req[m]
      <3> TAKE m \in Node
      <3> HAVE back(k) < m
      <3>1. back(m) < k /\ back(m) \in 1..(k - 1) /\ back(back(m)) = m
        BY <1>1, <1>2, <1>3, <1>4
      <3> QED
        BY <1>7, <3>1 DEF Later
    <2>3. back(k) \in Node
      BY <1>1, <1>2
    <2> QED
      BY <2>1, <2>2, <2>3, RequiredSame
  <1> HIDE DEF step
  <1>8. \E req : req = [n \in Node |-> Required(d, clk, arr, n, req)]
    <2>1. PICK f : Obeys(f, NumNodes, Deadlines, step)
      BY <1>6, RecursionExists
    <2>2. f \in [1..NumNodes -> Deadlines]
          /\ \A k \in 1..NumNodes : f[k] = step[k][[j \in 1..(k - 1) |-> f[j]]]
      BY <2>1 DEF Obeys
    <2> DEFINE req == [n \in Node |-> f[back(n)]]
    <2>3. ASSUME NEW n \in Node PROVE f[back(n)] = Required(d, clk, arr, n, req)
      <3> DEFINE k == back(n)
                 before == [j \in 1..(k - 1) |-> f[j]]
      <3>1. k \in 1..NumNodes /\ back(k) = n /\ k \in Nat
        BY <1>1, <1>2
      <3>2. \A j \in 1..(k - 1) : j \in 1..NumNodes
        BY <1>1, <3>1
      <3>3. before \in [1..(k - 1) -> Deadlines]
        BY <2>2, <3>2
      <3>4. \A j \in 1..(k - 1) : before[j] = req[back(j)]
        <4> TAKE j \in 1..(k - 1)
        <4>1. j \in 1..NumNodes /\ back(j) \in Node /\ back(back(j)) = j
          BY <1>1, <1>2, <3>2
        <4> QED
          BY <4>1
      <3>5. f[k] = step[k][before]
        BY <2>2, <3>1
      <3> HIDE DEF k, before, req
      <3> QED
        BY <1>7, <3>1, <3>3, <3>4, <3>5 DEF k
    <2> QED
      BY <2>3
  <1>9. required = [n \in Node |-> Required(d, clk, arr, n, required)]
    BY <1>8
  <1>10. RequiredTimes(d, clk, arr) = required
    BY DEF RequiredTimes, Required
  <1> HIDE DEF required
  <1> DEFINE turned == [k \in 1..NumNodes |-> required[back(k)]]
  <1>11. Obeys(turned, NumNodes, Deadlines, step)
    <2>1. turned = [k \in 1..NumNodes |-> turned[k]]
      OBVIOUS
    <2>2. ASSUME NEW k \in 1..NumNodes, \A j \in 1..(k - 1) : turned[j] \in Deadlines
          PROVE  turned[k] = step[k][[j \in 1..(k - 1) |-> turned[j]]]
      <3> DEFINE before == [j \in 1..(k - 1) |-> turned[j]]
      <3>1. before \in [1..(k - 1) -> Deadlines]
        BY <2>2
      <3>2. \A j \in 1..(k - 1) : before[j] = required[back(j)]
        <4> TAKE j \in 1..(k - 1)
        <4>1. j \in 1..NumNodes
          BY <1>1
        <4> QED
          BY <4>1
      <3>3. turned[k] = required[back(k)] /\ back(k) \in Node
        BY <1>1, <1>2
      <3> HIDE DEF before, turned
      <3>4. step[k][before] = Required(d, clk, arr, back(k), required)
        BY <1>7, <3>1, <3>2
      <3> QED
        BY <1>9, <3>3, <3>4 DEF before
    <2> HIDE DEF turned
    <2> QED
      BY <1>6, <2>1, <2>2, ObeysByEquation
  <1>12. ASSUME NEW n \in Node PROVE required[n] \in Deadlines
    <2>1. back(n) \in 1..NumNodes /\ back(back(n)) = n
      BY <1>1, <1>2
    <2>2. turned[back(n)] \in Deadlines
      BY <1>11, <2>1 DEF Obeys
    <2> QED
      BY <2>1, <2>2
  <1>13. required = [n \in Node |-> required[n]]
    BY <1>9
  <1> QED
    BY <1>10, <1>12, <1>13

(* A threshold is a set of integers.                                        *)
LEMMA ThresholdType ==
    ASSUME TInv, StaInv, NEW n \in Node
    PROVE  Threshold(n) \in SUBSET Int
  <1>1. delay \in DelayModels /\ opts \in Options
    BY DEF TInv, WorkspaceOK
  <1>2. opts.slack \in Nat
    BY <1>1, OptionsAssumption
  <1>3. ClockArrivals(delay) \in [Node -> Times]
    BY <1>1, ClockArrivalsEquation
  <1>4. DataArrivals(delay, ClockArrivals(delay)) \in [Node -> Times]
    BY <1>1, <1>3, DataArrivalsEquation
  <1>5. sta.required = RequiredTimes(delay, ClockArrivals(delay), DataArrivals(delay, ClockArrivals(delay)))
    BY DEF StaInv, StaTags
  <1>6. sta.required \in [Node -> Deadlines]
    BY <1>1, <1>3, <1>4, <1>5, RequiredTimesType
  <1>7. sta.required[n] \in SUBSET Int
    BY <1>6 DEF Deadlines
  <1> QED
    BY <1>2, <1>7 DEF Threshold
-------------------------------------------------------------------------------
(* No set of tags holds a tag twice.                                        *)
DistinctSets ==
    /\ \A n \in Node : IsInjective(dataTags[n])
    /\ phase # "idle" => \A i \in DataEdges(node) : IsInjective(srcs[i])

(* References to the tags of a node name each of them once.                 *)
LEMMA ReferencesDistinct ==
    ASSUME NEW n, NEW seq
    PROVE  IsInjective(References(n, seq))
  BY DEF References, IsInjective

(* One pass of the reducer merges the tags of one input.                    *)
LEMMA ReduceEffect ==
    ASSUME TInv, StaInv, DistinctSets, ReduceInput
    PROVE  LET i == MostTags
               m == Fanin[node][i]
           IN /\ i \in DataEdges(node) /\ m \in Node /\ srcs[i] \in Seq(RefsAt(tags, m))
              /\ \A k \in DataEdges(node) : k # i => srcs'[k] = srcs[k]
              /\ \E res, home : /\ tags' = res.heap /\ srcs'[i] = res.merged
                                /\ MergedInto(tags, srcs[i], Len(srcs[i]), home, res, NewBin, NewBin, Threshold(m))
  <1> DEFINE i == MostTags
             m == Fanin[node][i]
             thr == Threshold(m)
             res == Coarsened(NewBin)
  <1>1. /\ HeapOK /\ WorkspaceOK /\ phase = "reduce"
        /\ tags' = res.heap /\ srcs' = [srcs EXCEPT ![i] = res.merged]
        /\ res = MergeTags(tags, srcs[i], NewBin, NewBin, thr)
    BY DEF TInv, ReduceInput, Coarsened
  <1>2. i \in DataEdges(node)
    BY <1>1, MostTagsIsInput
  <1>3. /\ node \in Node /\ m \in Node /\ srcs = [k \in DataEdges(node) |-> srcs[k]]
        /\ srcs[i] \in Seq(RefsAt(tags, m)) /\ tags \in Heap /\ IsInjective(srcs[i])
    BY <1>1, <1>2, NetFacts, DataNetFacts DEF WorkspaceOK, HeapOK, DistinctSets
  <1>4. thr \in SUBSET Int
    BY <1>3, ThresholdType
  <1> HIDE DEF i, m, thr, res
  <1>5. \E home : MergedInto(tags, srcs[i], Len(srcs[i]), home, res, NewBin, NewBin, thr)
    BY <1>1, <1>3, <1>4, MergeFacts
  <1>6. srcs'[i] = res.merged /\ \A k \in DataEdges(node) : k # i => srcs'[k] = srcs[k]
    BY <1>1, <1>2, <1>3
  <1>7. /\ i \in DataEdges(node) /\ m \in Node /\ srcs[i] \in Seq(RefsAt(tags, m))
        /\ \A k \in DataEdges(node) : k # i => srcs'[k] = srcs[k]
        /\ \E res2, home : /\ tags' = res2.heap /\ srcs'[i] = res2.merged
                          /\ MergedInto(tags, srcs[i], Len(srcs[i]), home, res2, NewBin, NewBin, thr)
    BY <1>1, <1>2, <1>3, <1>5, <1>6
  <1> QED
    BY <1>7 DEF i, m, thr

(* The end of a handler merges all tags of its node.                        *)
LEMMA FinishEffect ==
    ASSUME TInv, StaInv, FinishNode
    PROVE  LET set == References(node, tags[node])
               thr == Threshold(node)
           IN /\ node \in Node /\ set \in Seq(RefsAt(tags, node)) /\ tags[node] \in Seq(TagType)
              /\ \E res, home : /\ tags' = res.heap /\ dataTags'[node] = res.merged
                                /\ MergedInto(tags, set, Len(set), home, res, Bin(opts.coarse), Bin(opts.fine), thr)
                                /\ thr # {} => Apart(res, Bin(opts.coarse), Bin(opts.fine), thr)
  <1> DEFINE set == References(node, tags[node])
             thr == Threshold(node)
             coarse == Bin(opts.coarse)
             fine == Bin(opts.fine)
             res == MergeTags(tags, set, coarse, fine, thr)
  <1>1. /\ HeapOK /\ WorkspaceOK /\ phase = "eval"
        /\ tags' = res.heap /\ dataTags' = [dataTags EXCEPT ![node] = res.merged]
    BY DEF TInv, FinishNode
  <1>2. node \in Node /\ tags \in Heap /\ dataTags \in [Node -> Seq(Reference)]
    BY <1>1 DEF WorkspaceOK, HeapOK
  <1>3. tags[node] \in Seq(TagType) /\ DOMAIN tags[node] = 1..Len(tags[node]) /\ Len(tags[node]) \in Nat
    BY <1>2 DEF Heap
  <1>4. set \in Seq(RefsAt(tags, node))
    <2>1. \A i \in DOMAIN tags[node] : <<node, i>> \in RefsAt(tags, node)
      BY <1>2, <1>3 DEF RefsAt, Reference
    <2>2. set = [i \in 1..Len(tags[node]) |-> <<node, i>>]
      BY <1>3 DEF References
    <2> QED
      BY <1>3, <2>1, <2>2
  <1>5. IsInjective(set)
    BY ReferencesDistinct
  <1>6. thr \in SUBSET Int
    BY <1>2, ThresholdType
  <1>7. dataTags'[node] = res.merged
    <2> HIDE DEF res
    <2> QED
      BY <1>1, <1>2
  <1> HIDE DEF set, thr, coarse, fine
  <1>8. /\ \E home : MergedInto(tags, set, Len(set), home, res, coarse, fine, thr)
        /\ thr # {} => Apart(res, coarse, fine, thr)
    BY <1>2, <1>4, <1>5, <1>6, MergeFacts
  <1>9. tags' = res.heap
    BY <1>1
  <1> HIDE DEF res
  <1>10. /\ node \in Node /\ set \in Seq(RefsAt(tags, node)) /\ tags[node] \in Seq(TagType)
         /\ \E res2, home : /\ tags' = res2.heap /\ dataTags'[node] = res2.merged
                            /\ MergedInto(tags, set, Len(set), home, res2, coarse, fine, thr)
                            /\ thr # {} => Apart(res2, coarse, fine, thr)
    BY <1>2, <1>3, <1>4, <1>7, <1>8, <1>9
  <1> QED
    BY <1>10 DEF set, thr, coarse, fine

(* No node has tags at first.                                               *)
LEMMA DistinctInitially == Init => DistinctSets
  <1> SUFFICES ASSUME Init PROVE DistinctSets
    OBVIOUS
  <1>1. phase = "idle" /\ \A n \in Node : dataTags[n] = <<>>
    BY DEF Init
  <1>2. IsInjective(<<>>)
    BY DEF IsInjective
  <1> QED
    BY <1>1, <1>2 DEF DistinctSets

(* Every step keeps the sets free of repetitions.                           *)
LEMMA DistinctStep == TInv /\ StaInv /\ DistinctSets /\ [Next]_vars => DistinctSets'
  <1> SUFFICES ASSUME TInv, StaInv, DistinctSets, [Next]_vars PROVE DistinctSets'
    OBVIOUS
  <1>1. ASSUME NEW n \in Node, PreTraverse(n) \/ TraverseClockNode(n) PROVE DistinctSets'
    <2>1. /\ \A m \in Node : m # n => dataTags'[m] = dataTags[m]
          /\ phase' = phase /\ node' = node /\ srcs' = srcs
          /\ dataTags'[n] = <<>> \/ \E seq : dataTags'[n] = References(n, seq)
      BY <1>1, LaunchEffect DEF NodeWorkspace
    <2>2. IsInjective(<<>>)
      BY DEF IsInjective
    <2>3. IsInjective(dataTags'[n])
      BY <2>1, <2>2, ReferencesDistinct
    <2> QED
      BY <2>1, <2>3 DEF DistinctSets
  <1>2. ASSUME NEW n \in Node, BeginNode(n) PROVE DistinctSets'
    <2>1. /\ dataTags' = dataTags /\ node' = n
          /\ \A i \in DataEdges(n) : srcs'[i] = dataTags[Fanin[n][i]]
      BY <1>2, BeginStep
    <2>2. \A i \in DataEdges(n) : Fanin[n][i] \in Node
      BY NetFacts, DataNetFacts
    <2> QED
      BY <2>1, <2>2 DEF DistinctSets
  <1>3. CASE ReduceInput
    <2> DEFINE i == MostTags
    <2>1. /\ UNCHANGED <<dataTags, node>> /\ phase = "reduce"
      BY <1>3, ReduceStep
    <2>2. \A k \in DataEdges(node) : k # i => srcs'[k] = srcs[k]
      BY <1>3, ReduceEffect
    <2>3. IsInjective(srcs'[i])
      BY <1>3, ReduceEffect DEF MergedInto
    <2> HIDE DEF i
    <2> QED
      BY <2>1, <2>2, <2>3 DEF DistinctSets
  <1>4. CASE StartEvaluation
    BY <1>4, StartStep DEF DistinctSets
  <1>5. CASE EvaluatePermutation
    BY <1>5, EvaluateStep DEF DistinctSets
  <1>6. CASE FinishNode
    <2>1. phase' = "idle" /\ \A m \in Node : m # node => dataTags'[m] = dataTags[m]
      BY <1>6, FinishStep
    <2>2. IsInjective(dataTags'[node])
      BY <1>6, FinishEffect DEF MergedInto
    <2> QED
      BY <2>1, <2>2 DEF DistinctSets
  <1>7. CASE UNCHANGED vars
    BY <1>7 DEF vars, DistinctSets
  <1> QED
    BY <1>1, <1>2, <1>3, <1>4, <1>5, <1>6, <1>7 DEF Next
-------------------------------------------------------------------------------
(* The tags a node is launched with have different transitions.             *)
LEMMA LaunchedApart ==
    /\ DOMAIN LaunchTags = 1..4
    /\ \A i, j \in 1..4 : i # j => LaunchTags[i].trans # LaunchTags[j].trans
    /\ \A i \in 1..4 : LaunchTags[i].trans \in Transitions
    /\ \A trans \in Transitions : \E i \in 1..4 : LaunchTags[i].trans = trans
  <1>1. LaunchTags[1].trans = "RISE" /\ LaunchTags[2].trans = "FALL"
        /\ LaunchTags[3].trans = "HIGH" /\ LaunchTags[4].trans = "LOW"
        /\ DOMAIN LaunchTags = 1..4
    BY DEF LaunchTags, Launch
  <1>2. \A i \in 1..4 : i = 1 \/ i = 2 \/ i = 3 \/ i = 4
    OBVIOUS
  <1> HIDE DEF LaunchTags
  <1> QED
    BY <1>1, <1>2 DEF Transitions, Dynamic, Static

(* Of a launched node, no two tags can be merged.                           *)
LEMMA LaunchedNotJoinable ==
    ASSUME NEW heap, NEW n \in Node, NEW seq, heap[n] = seq,
           seq = LaunchTags \/ \E trans : seq = <<Launch(trans)>>,
           NEW i \in DOMAIN References(n, seq), NEW j \in DOMAIN References(n, seq), i < j,
           NEW coarse, NEW fine, NEW thr
    PROVE  ~Joinable(heap, References(n, seq)[j], References(n, seq)[i], coarse, fine, thr)
  <1>1. /\ i \in DOMAIN seq /\ j \in DOMAIN seq
        /\ At(heap, References(n, seq)[i]) = seq[i] /\ At(heap, References(n, seq)[j]) = seq[j]
    BY DEF References, At
  <1>2. CASE seq = LaunchTags
    <2>1. i # j /\ i \in 1..4 /\ j \in 1..4
      <3>1. i \in 1..4 /\ j \in 1..4
        BY <1>1, <1>2, LaunchedApart
      <3> QED
        BY <3>1
    <2>2. seq[j].trans # seq[i].trans
      BY <1>2, <2>1, LaunchedApart
    <2> QED
      BY <1>1, <2>2 DEF Joinable
  <1>3. CASE \E trans : seq = <<Launch(trans)>>
    <2>1. DOMAIN seq = 1..1
      <3> HIDE DEF Launch
      <3> QED
        BY <1>3
    <2>2. i = 1 /\ j = 1
      BY <1>1, <2>1
    <2> QED
      BY <2>2
  <1> QED
    BY <1>2, <1>3

(* For any circuit and delays, without a permutation limit: once a node is  *)
(* done, another pass of the reducer would change nothing, whatever the bin *)
(* sizes and the threshold.  (With a limit, the reduction of a later node's *)
(* inputs changes the tags of a node that is done.)                         *)
THEOREM NothingLeftToMerge ==
    (\A o \in Options : o.maxPerm = 0) /\ Spec => []FullyMerged
  <1> SUFFICES ASSUME \A o \in Options : o.maxPerm = 0 PROVE Spec => []FullyMerged
    OBVIOUS
  <1>1. Init => FullyMerged
    BY DEF Init, FullyMerged
  <1>2. ASSUME TInv, StaInv, FullyMerged, [Next]_vars PROVE FullyMerged'
    <2> DEFINE Done(n) == \A i, j \in DOMAIN dataTags[n] : i < j /\ Threshold(n) # {} =>
                             ~Joinable(tags, dataTags[n][j], dataTags[n][i],
                                       Bin(opts.coarse), Bin(opts.fine), Threshold(n))
    <2>1. \A n \in visited : n \in Node /\ Done(n)
      BY <1>2 DEF FullyMerged, TInv, VisitsOK
    <2>2. opts' = opts /\ sta' = sta
      BY <1>2 DEF Next, PreTraverse, TraverseClockNode, BeginNode, ReduceInput, StartEvaluation,
                  EvaluatePermutation, FinishNode, Configuration, vars
    <2>3. ASSUME NEW n \in visited, tags'[n] = tags[n], dataTags'[n] = dataTags[n] PROVE Done(n)'
      <3>1. \A i \in DOMAIN dataTags[n] : dataTags[n][i][1] = n
        <4>1. n \in Node /\ dataTags[n] \in Seq(RefsAt(tags, n))
          BY <1>2, <2>1 DEF TInv, HeapOK
        <4> QED
          BY <4>1 DEF RefsAt
      <3>2. \A i \in DOMAIN dataTags[n] : At(tags', dataTags[n][i]) = At(tags, dataTags[n][i])
        BY <2>3, <3>1 DEF At
      <3>3. Threshold(n)' = Threshold(n)
        BY <2>2 DEF Threshold
      <3>4. ASSUME NEW i \in DOMAIN dataTags[n], NEW j \in DOMAIN dataTags[n], i < j, Threshold(n) # {}
            PROVE  ~Joinable(tags', dataTags[n][j], dataTags[n][i], Bin(opts.coarse), Bin(opts.fine), Threshold(n))
        <4>1. ~Joinable(tags, dataTags[n][j], dataTags[n][i], Bin(opts.coarse), Bin(opts.fine), Threshold(n))
          BY <2>1, <3>4
        <4> QED
          BY <3>2, <4>1 DEF Joinable
      <3>5. (Bin(opts.coarse))' = Bin(opts.coarse) /\ (Bin(opts.fine))' = Bin(opts.fine)
        BY <2>2
      <3> QED
        BY <2>3, <3>3, <3>4, <3>5
    <2>4. ASSUME \A n \in visited : tags'[n] = tags[n] /\ dataTags'[n] = dataTags[n],
                 \A n \in visited' : n \in visited \/ Done(n)'
          PROVE  FullyMerged'
      <3>1. \A n \in visited' : Done(n)'
        BY <2>3, <2>4
      <3> QED
        BY <3>1 DEF FullyMerged
    <2>5. ASSUME NEW n \in Node, PreTraverse(n) \/ TraverseClockNode(n) PROVE FullyMerged'
      <3>1. /\ n \notin visited /\ visited' = visited \cup {n}
            /\ \A m \in Node : m # n => tags'[m] = tags[m] /\ dataTags'[m] = dataTags[m]
            /\ \/ tags'[n] = <<>> /\ dataTags'[n] = <<>>
               \/ /\ tags'[n] = LaunchTags /\ dataTags'[n] = References(n, LaunchTags)
               \/ /\ tags'[n] = <<Launch(Constant(n))>>
                  /\ dataTags'[n] = References(n, <<Launch(Constant(n))>>)
        BY <1>2, <2>5, LaunchEffect, PreTraverseStep, TraverseClockStep
      <3>2. CASE dataTags'[n] = <<>>
        <4>1. DOMAIN dataTags'[n] = {}
          BY <3>2
        <4>2. Done(n)'
          BY <4>1
        <4> HIDE DEF Done
        <4> QED
          BY <2>1, <2>4, <3>1, <4>2
      <3>3. CASE \E seq : /\ tags'[n] = seq /\ dataTags'[n] = References(n, seq)
                          /\ seq = LaunchTags \/ \E trans : seq = <<Launch(trans)>>
        <4>1. ASSUME NEW i \in DOMAIN dataTags'[n], NEW j \in DOMAIN dataTags'[n], i < j,
                     NEW coarse, NEW fine, NEW thr
              PROVE  ~Joinable(tags', dataTags'[n][j], dataTags'[n][i], coarse, fine, thr)
          BY <3>3, <4>1, LaunchedNotJoinable
        <4>2. Done(n)'
          BY <4>1
        <4> HIDE DEF Done
        <4> QED
          BY <2>1, <2>4, <3>1, <4>2
      <3> QED
        BY <3>1, <3>2, <3>3
    <2>6. ASSUME NEW n \in Node, BeginNode(n) PROVE FullyMerged'
      <3>1. tags' = tags /\ dataTags' = dataTags /\ visited' = visited
        BY <1>2, <2>6, BeginStep
      <3> HIDE DEF Done
      <3> QED
        BY <2>4, <3>1
    <2>7. CASE ReduceInput
      <3>1. opts.maxPerm = 0
        BY <1>2 DEF TInv, WorkspaceOK
      <3> QED
        BY <2>7, <3>1 DEF ReduceInput, TooMany
    <2>8. CASE StartEvaluation
      <3>1. tags' = tags /\ dataTags' = dataTags /\ visited' = visited
        BY <1>2, <2>8, StartStep
      <3> HIDE DEF Done
      <3> QED
        BY <2>4, <3>1
    <2>9. CASE EvaluatePermutation
      <3>1. /\ dataTags' = dataTags /\ visited' = visited /\ node \notin visited
            /\ \A m \in Node : m # node => tags'[m] = tags[m]
        BY <1>2, <2>9, EvaluateStep
      <3> HIDE DEF Done
      <3> QED
        BY <2>1, <2>4, <3>1
    <2>10. CASE FinishNode
      <3>1. /\ node \in Node \ visited /\ visited' = visited \cup {node}
            /\ \A m \in Node : m # node => tags'[m] = tags[m] /\ dataTags'[m] = dataTags[m]
        BY <1>2, <2>10, FinishStep DEF Grown
      <3>2. PICK res : /\ tags' = res.heap /\ dataTags'[node] = res.merged
                       /\ Threshold(node) # {} =>
                            Apart(res, Bin(opts.coarse), Bin(opts.fine), Threshold(node))
        BY <1>2, <2>10, FinishEffect
      <3>3. ASSUME NEW i \in DOMAIN dataTags'[node], NEW j \in DOMAIN dataTags'[node], i < j,
                   Threshold(node) # {}
            PROVE  ~Joinable(tags', dataTags'[node][j], dataTags'[node][i],
                             Bin(opts.coarse), Bin(opts.fine), Threshold(node))
        BY <3>2, <3>3 DEF Apart
      <3>4. Threshold(node)' = {req - opts'.slack : req \in sta'.required[node']}
        BY DEF Threshold
      <3>5. FullyMerged'
        <4>1. ASSUME NEW n \in visited',
                     NEW i \in DOMAIN dataTags'[n], NEW j \in DOMAIN dataTags'[n],
                     i < j, {req - opts.slack : req \in sta.required[n]} # {}
              PROVE  ~Joinable(tags', dataTags'[n][j], dataTags'[n][i], Bin(opts.coarse), Bin(opts.fine),
                               {req - opts.slack : req \in sta.required[n]})
          <5>1. CASE n \in visited
            <6>1. Done(n)'
              BY <2>1, <2>3, <3>1, <5>1
            <6> QED
              BY <2>2, <4>1, <6>1 DEF Threshold
          <5>2. CASE n = node
            BY <3>3, <4>1, <5>2 DEF Threshold
          <5> QED
            BY <3>1, <5>1, <5>2
        <4> QED
          BY <2>2, <4>1 DEF FullyMerged, Threshold
      <3> QED
        BY <3>5
    <2>11. CASE UNCHANGED vars
      <3>1. tags' = tags /\ dataTags' = dataTags /\ visited' = visited
        BY <2>11 DEF vars
      <3> HIDE DEF Done
      <3> QED
        BY <2>4, <3>1
    <2> QED
      BY <1>2, <2>5, <2>6, <2>7, <2>8, <2>9, <2>10, <2>11 DEF Next
  <1> QED
    BY <1>1, <1>2, TInvInitially, TInvStep, StaInitially, StaStep, PTL DEF Spec
-------------------------------------------------------------------------------
(* Bin sizes are fractions of natural numbers.                              *)
BinSizes == [num : Nat, den : Nat]

(* The arrivals of one bin differ by less than its size.                    *)
LEMMA BinWidth ==
    ASSUME NEW size \in BinSizes, NEW x \in Nat, NEW y \in Nat, x <= y, SameBin(size, x, y)
    PROVE  y = x \/ (y - x) * size.den < size.num
  <1> DEFINE num == size.num
             den == size.den
  <1>1. num \in Nat /\ den \in Nat
    BY DEF BinSizes
  <1>2. CASE num = 0
    BY <1>2 DEF SameBin
  <1>3. CASE num # 0
    <2> DEFINE a == x * den
               b == y * den
               q == a \div num
    <2>1. a \in Nat /\ b \in Nat
      <3> HIDE DEF den
      <3> QED
        BY <1>1
    <2>2. q = b \div num
      BY <1>3 DEF SameBin
    <2>3. (y - x) * den = b - a
      <3> HIDE DEF den
      <3> QED
        BY <1>1
    <2> HIDE DEF a, b, num, den
    <2>4. num > 0 /\ num \in Nat
      BY <1>1, <1>3 DEF num
    <2>5. a \in num * q .. num * q + (num - 1)
      BY <2>1, <2>4
    <2>6. b \in num * q .. num * q + (num - 1)
      BY <2>1, <2>2, <2>4
    <2> DEFINE c == num * q
    <2>7. q \in Int
      BY <2>1, <2>4
    <2> HIDE DEF q
    <2>8. c \in Int
      BY <2>4, <2>7
    <2> HIDE DEF c
    <2>9. a \in c .. c + (num - 1) /\ b \in c .. c + (num - 1)
      BY <2>5, <2>6 DEF c
    <2>10. b - a < num
      BY <2>1, <2>4, <2>8, <2>9
    <2> QED
      BY <2>3, <2>10 DEF num, den
  <1> QED
    BY <1>2, <1>3

(* A tag that was taken survives, in a bin at least as wide.                *)
LEMMA TakenSurvives ==
    ASSUME NEW old, NEW heap, NEW t, NEW merged, NEW a \in DOMAIN merged,
           At(old, t).arr \in Nat, At(heap, merged[a]).arr \in Nat,
           NEW coarse \in BinSizes, NEW fine \in BinSizes, NEW wide \in BinSizes, NEW thr,
           coarse.den = wide.den, fine.den = wide.den, coarse.num <= wide.num, fine.num <= wide.num,
           Taken(At(old, t), At(heap, merged[a]), coarse, fine, thr)
    PROVE  \E r \in ToSet(merged) :
              LET before == At(old, t)
                  after  == At(heap, r)
              IN /\ after.trans = before.trans /\ before.scen \subseteq after.scen
                 /\ before.arr <= after.arr
                 /\ after.arr = before.arr \/ (after.arr - before.arr) * wide.den < wide.num
  <1> DEFINE tag == At(old, t)
             rep == At(heap, merged[a])
             size == BinSize(rep.arr, coarse, fine, thr)
  <1>1. /\ rep.trans = tag.trans /\ tag.scen \subseteq rep.scen /\ tag.arr <= rep.arr
        /\ SameBin(size, tag.arr, rep.arr)
    BY DEF Taken
  <1>2. size \in BinSizes /\ size.den = wide.den /\ size.num <= wide.num
    BY DEF BinSize
  <1>3. tag.arr \in Nat /\ rep.arr \in Nat
    OBVIOUS
  <1> HIDE DEF tag, rep, size
  <1>4. rep.arr = tag.arr \/ (rep.arr - tag.arr) * size.den < size.num
    BY <1>1, <1>2, <1>3, BinWidth
  <1>5. ASSUME (rep.arr - tag.arr) * size.den < size.num
        PROVE  (rep.arr - tag.arr) * wide.den < wide.num
    <2> DEFINE d == (rep.arr - tag.arr) * wide.den
    <2>1. d \in Int
      BY <1>3 DEF BinSizes
    <2>2. d < size.num
      BY <1>2, <1>5
    <2>3. size.num \in Nat /\ wide.num \in Nat
      BY <1>2 DEF BinSizes
    <2> HIDE DEF d
    <2>4. d < wide.num
      BY <1>2, <2>1, <2>2, <2>3
    <2> QED
      BY <2>4 DEF d
  <1>6. /\ rep.trans = tag.trans /\ tag.scen \subseteq rep.scen /\ tag.arr <= rep.arr
        /\ rep.arr = tag.arr \/ (rep.arr - tag.arr) * wide.den < wide.num
    BY <1>1, <1>4, <1>5
  <1>7. merged[a] \in ToSet(merged)
    BY DEF ToSet
  <1> QED
    BY <1>6, <1>7 DEF tag, rep
-------------------------------------------------------------------------------
(* The scale factors of the inputs being reduced are fractions as well.     *)
ScaleOK ==
    phase # "idle" => /\ scale = [i \in DataEdges(node) |-> scale[i]]
                      /\ \A i \in DataEdges(node) : scale[i] \in BinSizes

(* No input is being reduced at first.                                      *)
LEMMA ScaleInitially == Init => ScaleOK
  BY DEF Init, ScaleOK

(* begin_node starts the factors at 1.2, and a pass of the reducer          *)
(* multiplies one of them by 1.2.                                           *)
LEMMA ScaleStep == TInv /\ ScaleOK /\ [Next]_vars => ScaleOK'
  <1> SUFFICES ASSUME TInv, ScaleOK, [Next]_vars PROVE ScaleOK'
    OBVIOUS
  <1>1. ScaleFac \in BinSizes /\ \A f \in BinSizes : Increased(f) \in BinSizes
    BY DEF ScaleFac, Increased, BinSizes
  <1>2. ASSUME NEW n \in Node, PreTraverse(n) \/ TraverseClockNode(n) PROVE ScaleOK'
    BY <1>2 DEF PreTraverse, TraverseClockNode, NodeWorkspace, ScaleOK
  <1>3. ASSUME NEW n \in Node, BeginNode(n) PROVE ScaleOK'
    <2>1. node' = n /\ scale' = [i \in DOMAIN srcs' |-> ScaleFac] /\ phase' = "reduce"
      BY <1>3 DEF BeginNode
    <2>2. WorkspaceOK'
      BY <1>3, BeginStep DEF TInv
    <2>3. srcs' = [i \in DataEdges(n) |-> srcs'[i]]
      BY <2>1, <2>2 DEF WorkspaceOK
    <2>4. DOMAIN srcs' = DataEdges(n)
      BY <2>3
    <2> QED
      BY <1>1, <2>1, <2>4 DEF ScaleOK
  <1>4. CASE ReduceInput
    <2>1. /\ node' = node /\ phase = "reduce"
          /\ scale' = [scale EXCEPT ![MostTags] = IF opts.coarse = 0 THEN @ ELSE Increased(@)]
      BY <1>4 DEF ReduceInput
    <2>2. /\ scale = [i \in DataEdges(node) |-> scale[i]]
          /\ \A i \in DataEdges(node) : scale[i] \in BinSizes
      BY <2>1 DEF ScaleOK
    <2>3. scale' = [i \in DataEdges(node) |-> scale'[i]]
      BY <2>1, <2>2
    <2> HIDE DEF MostTags
    <2>4. \A i \in DataEdges(node) : scale'[i] \in {scale[i], Increased(scale[i])}
      BY <2>1, <2>2
    <2> QED
      BY <1>1, <2>1, <2>2, <2>3, <2>4 DEF ScaleOK
  <1>5. CASE StartEvaluation
    BY <1>5 DEF StartEvaluation, ScaleOK
  <1>6. CASE EvaluatePermutation
    BY <1>6 DEF EvaluatePermutation, ScaleOK
  <1>7. CASE FinishNode
    BY <1>7 DEF FinishNode, ScaleOK
  <1>8. CASE UNCHANGED vars
    BY <1>8 DEF vars, ScaleOK
  <1> QED
    BY <1>2, <1>3, <1>4, <1>5, <1>6, <1>7, <1>8 DEF Next
-------------------------------------------------------------------------------
(* The bins of the options and of the reducer.                              *)
LEMMA BinTypes ==
    ASSUME TInv
    PROVE  /\ Bin(opts.coarse) \in BinSizes /\ Bin(opts.fine) \in BinSizes /\ WiderBin \in BinSizes
           /\ \A size \in {Bin(opts.coarse), Bin(opts.fine)} : size.den = WiderBin.den /\ size.num <= WiderBin.num
           /\ ScaleOK /\ phase # "idle" => NewBin \in BinSizes
  <1>1. opts.coarse \in Nat /\ opts.fine \in Nat
    BY OptionsAssumption DEF TInv, WorkspaceOK
  <1>2. Bin(opts.coarse) \in BinSizes /\ Bin(opts.fine) \in BinSizes
    BY <1>1 DEF Bin, BinSizes
  <1>3. WiderBin \in BinSizes
    BY <1>2 DEF WiderBin
  <1>4. \A size \in {Bin(opts.coarse), Bin(opts.fine)} : size.den = WiderBin.den /\ size.num <= WiderBin.num
    BY <1>1 DEF Bin, WiderBin
  <1>5. ASSUME ScaleOK, phase # "idle" PROVE NewBin \in BinSizes
    <2>1. scale[MostTags] \in BinSizes
      BY <1>5, MostTagsIsInput DEF ScaleOK
    <2> HIDE DEF MostTags
    <2> QED
      BY <1>1, <2>1 DEF NewBin, Scaled, BinSizes
  <1> QED
    BY <1>2, <1>3, <1>4, <1>5

(* One step of the reducer, and one of the end of a handler.                *)
LEMMA ReduceSurvives ==
    ASSUME TInv, StaInv, DistinctSets, ScaleOK, ReduceInput, NEW t \in ToSet(srcs[MostTags])
    PROVE  Survives(t, srcs'[MostTags], tags', NewBin)
  <1> DEFINE i == MostTags
             m == Fanin[node][i]
             set == srcs[i]
  <1>1. m \in Node /\ set \in Seq(RefsAt(tags, m))
    BY ReduceEffect
  <1>2. PICK res, home : /\ tags' = res.heap /\ srcs'[i] = res.merged
                         /\ MergedInto(tags, set, Len(set), home, res, NewBin, NewBin, Threshold(m))
    BY ReduceEffect
  <1>3. NewBin \in BinSizes /\ NewBin.num <= NewBin.num
    <2>1. phase = "reduce"
      BY DEF ReduceInput
    <2>2. NewBin \in BinSizes
      BY <2>1, BinTypes
    <2> HIDE DEF NewBin
    <2> QED
      BY <2>2 DEF BinSizes
  <1>4. tags \in Heap /\ tags' \in Heap
    BY ReduceStep DEF TInv, HeapOK
  <1> HIDE DEF i, m, set
  <1>5. PICK j \in 1..Len(set) : t = set[j]
    <2>1. t \in ToSet(set)
      BY DEF i, set
    <2> QED
      BY <1>1, <2>1 DEF ToSet
  <1>6. /\ home[j] \in DOMAIN srcs'[i]
        /\ Taken(At(tags, t), At(tags', srcs'[i][home[j]]), NewBin, NewBin, Threshold(m))
    BY <1>2, <1>5 DEF MergedInto
  <1>7. At(tags, t).arr \in Nat /\ At(tags', srcs'[i][home[j]]).arr \in Nat
    <2>1. \A l \in DOMAIN set : set[l] \in RefsAt(tags, m)
      BY <1>1
    <2>2. t \in RefsAt(tags, m) /\ srcs'[i][home[j]] \in RefsAt(tags, m)
      <3>1. PICK l \in 1..Len(set) : srcs'[i][home[j]] = set[l]
        BY <1>2, <1>6 DEF MergedInto
      <3>2. DOMAIN set = 1..Len(set)
        BY <1>1
      <3> QED
        BY <1>5, <2>1, <3>1, <3>2
    <2>3. Larger(tags, tags')
      <3>1. PICK k \in DataEdges(node) : Grown(tags, tags', Fanin[node][k])
        BY ReduceStep
      <3>2. Fanin[node][k] \in Node
        <4>1. node \in Node
          BY ReduceStep
        <4> QED
          BY <4>1, NetFacts, DataNetFacts
      <3> QED
        BY <3>1, <3>2 DEF Grown, Larger
    <2>4. srcs'[i][home[j]] \in RefsAt(tags', m)
      BY <1>1, <2>2, <2>3, LargerKeepsRefs DEF m
    <2> QED
      BY <1>1, <1>4, <2>2, <2>4, TagsOfHeap DEF RefsAt, At, m
  <1> HIDE DEF NewBin
  <1>8. \E r \in ToSet(srcs'[i]) :
              LET before == At(tags, t)
                  after  == At(tags', r)
              IN /\ after.trans = before.trans /\ before.scen \subseteq after.scen
                 /\ before.arr <= after.arr
                 /\ after.arr = before.arr \/ (after.arr - before.arr) * NewBin.den < NewBin.num
    BY <1>3, <1>6, <1>7, TakenSurvives
  <1> QED
    BY <1>8 DEF Survives, i

(* Without a reduction step an input's tags stay as they are.               *)
LEMMA UntouchedSurvives ==
    ASSUME NEW t, NEW set, t \in ToSet(set), NEW heap, At(heap, t) = At(tags, t),
           At(tags, t).arr \in Nat, NEW size
    PROVE  Survives(t, set, heap, size)
  <1>1. At(tags, t).arr <= At(heap, t).arr
    OBVIOUS
  <1> QED
    BY <1>1 DEF Survives

(* The end of a handler keeps each of the node's tags.                      *)
LEMMA FinishSurvives ==
    ASSUME TInv, StaInv, FinishNode, NEW i \in DOMAIN tags[node]
    PROVE  Survives(<<node, i>>, dataTags'[node], tags', WiderBin)
  <1> DEFINE set == References(node, tags[node])
             coarse == Bin(opts.coarse)
             fine == Bin(opts.fine)
             thr == Threshold(node)
             merged == dataTags'[node]
  <1>1. node \in Node /\ set \in Seq(RefsAt(tags, node)) /\ tags[node] \in Seq(TagType)
    BY FinishEffect
  <1>2. PICK res, home : /\ tags' = res.heap /\ merged = res.merged
                         /\ MergedInto(tags, set, Len(set), home, res, coarse, fine, thr)
    BY FinishEffect
  <1>3. /\ coarse \in BinSizes /\ fine \in BinSizes /\ WiderBin \in BinSizes
        /\ coarse.den = WiderBin.den /\ fine.den = WiderBin.den
        /\ coarse.num <= WiderBin.num /\ fine.num <= WiderBin.num
    BY BinTypes
  <1>4. set[i] = <<node, i>> /\ i \in DOMAIN set
    BY DEF References
  <1>5. i \in 1..Len(set)
    <2> HIDE DEF set
    <2> QED
      BY <1>1, <1>4
  <1>6. tags \in Heap /\ tags' \in Heap /\ merged \in Seq(RefsAt(tags', node))
    BY <1>1, FinishStep DEF TInv, HeapOK
  <1> HIDE DEF set, coarse, fine, thr, merged
  <1>7. /\ home[i] \in DOMAIN merged
        /\ Taken(At(tags, <<node, i>>), At(tags', merged[home[i]]), coarse, fine, thr)
    BY <1>2, <1>4, <1>5 DEF MergedInto
  <1>8. At(tags, <<node, i>>).arr \in Nat /\ At(tags', merged[home[i]]).arr \in Nat
    <2>1. merged[home[i]] \in RefsAt(tags', node)
      BY <1>6, <1>7
    <2>2. tags[node][i].arr \in Nat
      BY <1>1, <1>6, TagsOfHeap
    <2> QED
      BY <1>1, <1>6, <2>1, <2>2, TagsOfHeap DEF RefsAt, At
  <1> HIDE DEF WiderBin
  <1>9. \E r \in ToSet(merged) :
              LET before == At(tags, <<node, i>>)
                  after  == At(tags', r)
              IN /\ after.trans = before.trans /\ before.scen \subseteq after.scen
                 /\ before.arr <= after.arr
                 /\ after.arr = before.arr \/ (after.arr - before.arr) * WiderBin.den < WiderBin.num
    BY <1>3, <1>7, <1>8, TakenSurvives
  <1> QED
    BY <1>9 DEF Survives, merged

(* What MergingIsBounded says of a step.                                    *)
StepBounded ==
    /\ phase = "reduce" /\ phase' = "reduce" =>
          \A t \in ToSet(srcs[MostTags]) : Survives(t, srcs'[MostTags], tags', NewBin)
    /\ phase = "eval" /\ phase' = "idle" =>
          \A i \in DOMAIN tags[node] : Survives(<<node, i>>, dataTags'[node], tags', WiderBin)

(* Every step is bounded: only the reducer merges tags during a reduction,  *)
(* and only the end of a handler ends an evaluation.                        *)
LEMMA EveryStepBounded ==
    TInv /\ StaInv /\ DistinctSets /\ ScaleOK /\ [Next]_vars => [StepBounded]_vars
  <1> SUFFICES ASSUME TInv, StaInv, DistinctSets, ScaleOK, Next PROVE StepBounded
    OBVIOUS
  <1>0. HeapOK /\ WorkspaceOK
    BY DEF TInv
  <1>1. ASSUME NEW n \in Node, PreTraverse(n) \/ TraverseClockNode(n) PROVE StepBounded
    <2>1. /\ phase' = phase /\ srcs' = srcs /\ n \notin visited
          /\ \A m \in Node : m # n => tags'[m] = tags[m]
      BY <1>1, LaunchEffect, PreTraverseStep, TraverseClockStep DEF NodeWorkspace
    <2>2. ASSUME phase = "reduce", NEW t \in ToSet(srcs[MostTags])
          PROVE  Survives(t, srcs'[MostTags], tags', NewBin)
      <3> DEFINE set == srcs[MostTags]
                 m == Fanin[node][MostTags]
      <3>1. MostTags \in DataEdges(node) /\ node \in Node
        BY <1>0, <2>2, MostTagsIsInput DEF WorkspaceOK
      <3>2. set \in Seq(RefsAt(tags, m)) /\ m \in visited /\ m \in Node
        BY <1>0, <2>2, <3>1, NetFacts, DataNetFacts DEF WorkspaceOK
      <3>3. srcs'[MostTags] = set
        BY <2>1
      <3>4. t \in ToSet(set)
        OBVIOUS
      <3> HIDE DEF set, m, MostTags
      <3>5. t \in RefsAt(tags, m)
        BY <3>2, <3>4 DEF ToSet
      <3>6. t[1] = m /\ t[2] \in DOMAIN tags[m]
        BY <3>5 DEF RefsAt
      <3>7. At(tags', t) = At(tags, t) /\ At(tags, t).arr \in Nat
        <4>1. tags[m][t[2]].arr \in Nat
          BY <1>0, <3>2, <3>6, TagsOfHeap DEF HeapOK
        <4> QED
          BY <2>1, <3>2, <3>6, <4>1 DEF At
      <3> HIDE DEF NewBin
      <3> QED
        BY <3>3, <3>4, <3>7, UntouchedSurvives
    <2> QED
      BY <2>1, <2>2 DEF StepBounded
  <1>2. ASSUME NEW n \in Node, BeginNode(n) PROVE StepBounded
    <2>1. phase = "idle"
      BY <1>0, <1>2 DEF BeginNode, Ready, WorkspaceOK
    <2> QED
      BY <2>1 DEF StepBounded
  <1>3. CASE ReduceInput
    <2>1. phase = "reduce" /\ phase' = "reduce"
      BY <1>3, ReduceStep
    <2>2. \A t \in ToSet(srcs[MostTags]) : Survives(t, srcs'[MostTags], tags', NewBin)
      BY <1>3, ReduceSurvives
    <2> QED
      BY <2>1, <2>2 DEF StepBounded
  <1>4. CASE StartEvaluation
    <2>1. phase = "reduce" /\ phase' = "eval"
      BY <1>4 DEF StartEvaluation
    <2> QED
      BY <2>1 DEF StepBounded
  <1>5. CASE EvaluatePermutation
    <2>1. phase = "eval" /\ phase' = "eval"
      BY <1>5, EvaluateStep
    <2> QED
      BY <2>1 DEF StepBounded
  <1>6. CASE FinishNode
    <2>1. phase = "eval" /\ phase' = "idle"
      BY <1>6, FinishStep
    <2>2. \A i \in DOMAIN tags[node] : Survives(<<node, i>>, dataTags'[node], tags', WiderBin)
      BY <1>6, FinishSurvives
    <2> QED
      BY <2>1, <2>2 DEF StepBounded
  <1> QED
    BY <1>1, <1>2, <1>3, <1>4, <1>5, <1>6 DEF Next

(* For any circuit, delays and settings: merging tags never makes one       *)
(* earlier nor drops its scenarios, and moves it by less than a bin, both   *)
(* when input tags are reduced and when output tags are merged.             *)
THEOREM MergingBounded == Spec => MergingIsBounded
  <1>1. MergingIsBounded <=> [][StepBounded]_vars
    BY DEF MergingIsBounded, StepBounded
  <1> QED
    BY <1>1, EveryStepBounded, TInvInitially, TInvStep, StaInitially, StaStep, DistinctInitially,
       DistinctStep, ScaleInitially, ScaleStep, PTL DEF Spec
-------------------------------------------------------------------------------
(* A scenario of node n over the tags its inputs were left with.            *)
OfInputs(n, s) ==
    /\ s = [e \in DataEdges(n) |-> s[e]]
    /\ \A e \in DataEdges(n) : s[e] \in ToSet(dataTags[Fanin[n][e]])

(* No two tags of node n have a scenario in common.                         *)
OnceAt(n) ==
    LET tag == [j \in DOMAIN dataTags[n] |-> At(tags, dataTags[n][j])]
    IN IF n \in LogicalInputs
       THEN \A j, k \in DOMAIN tag : j # k => tag[j].trans # tag[k].trans
       ELSE IF Type[n] = "CONSTANT_GEN_SOURCE" THEN \A j, k \in DOMAIN tag : j = k
       ELSE /\ \A j, k \in DOMAIN tag : j # k => tag[j].scen \cap tag[k].scen = {}
            /\ \A j \in DOMAIN tag : \A s \in tag[j].scen : OfInputs(n, s)

(* Scenarios are only added for passed permutations, each to one tag.       *)
OnlyPassed ==
    /\ \A j, k \in DOMAIN tags[node] : j # k => tags[node][j].scen \cap tags[node][k].scen = {}
    /\ \A j \in DOMAIN tags[node] : \A s \in tags[node][j].scen :
          \E p \in G!Permutations : s = Chosen(srcs, node, p) /\ (done \/ G!Precedes(p, its))

(* The inductive invariant behind EveryScenarioOnce, as long as no input    *)
(* tags are reduced.                                                        *)
OnceInv ==
    /\ \A n \in visited : OnceAt(n)
    /\ phase # "idle" => \A i \in DataEdges(node) : srcs[i] = dataTags[Fanin[node][i]]
    /\ phase = "eval" => OnlyPassed

(* No node is visited at first.                                             *)
LEMMA OnceInitially == Init => OnceInv
  BY DEF Init, OnceInv

(* A node that a step leaves alone.                                         *)
LEMMA OnceKept ==
    ASSUME TInv, NEW n \in Node, OnceAt(n), tags'[n] = tags[n], dataTags'[n] = dataTags[n],
           \A m \in Node : dataTags[m] # <<>> => dataTags'[m] = dataTags[m]
    PROVE  OnceAt(n)'
  <1> DEFINE tag(heap) == [j \in DOMAIN dataTags[n] |-> At(heap, dataTags[n][j])]
  <1>1. \A j \in DOMAIN dataTags[n] : dataTags[n][j][1] = n
    <2>1. dataTags[n] \in Seq(RefsAt(tags, n))
      BY DEF TInv, HeapOK
    <2> QED
      BY <2>1 DEF RefsAt
  <1>2. tag(tags') = tag(tags)
    BY <1>1 DEF At
  <1>3. ASSUME NEW s, OfInputs(n, s) PROVE OfInputs(n, s)'
    <2> SUFFICES ASSUME NEW e \in DataEdges(n) PROVE s[e] \in ToSet(dataTags'[Fanin[n][e]])
      BY <1>3 DEF OfInputs
    <2>1. s[e] \in ToSet(dataTags[Fanin[n][e]])
      BY <1>3 DEF OfInputs
    <2>2. dataTags[Fanin[n][e]] # <<>>
      BY <2>1 DEF ToSet
    <2>3. Fanin[n][e] \in Node
      BY NetFacts, DataNetFacts
    <2> QED
      BY <2>1, <2>2, <2>3
  <1> DEFINE T == tag(tags)
  <1>4. [j \in DOMAIN dataTags'[n] |-> At(tags', dataTags'[n][j])] = T
    BY <1>2
  <1>5. IF n \in LogicalInputs
        THEN \A j, k \in DOMAIN T : j # k => T[j].trans # T[k].trans
        ELSE IF Type[n] = "CONSTANT_GEN_SOURCE" THEN \A j, k \in DOMAIN T : j = k
        ELSE /\ \A j, k \in DOMAIN T : j # k => T[j].scen \cap T[k].scen = {}
             /\ \A j \in DOMAIN T : \A s \in T[j].scen : OfInputs(n, s)
    BY DEF OnceAt
  <1> HIDE DEF T
  <1>6. IF n \in LogicalInputs
        THEN \A j, k \in DOMAIN T : j # k => T[j].trans # T[k].trans
        ELSE IF Type[n] = "CONSTANT_GEN_SOURCE" THEN \A j, k \in DOMAIN T : j = k
        ELSE /\ \A j, k \in DOMAIN T : j # k => T[j].scen \cap T[k].scen = {}
             /\ \A j \in DOMAIN T : \A s \in T[j].scen : OfInputs(n, s)'
    BY <1>3, <1>5
  <1> QED
    BY <1>4, <1>6 DEF OnceAt

(* The current permutation is not one of those passed.                      *)
LEMMA CurrentIsNew ==
    ASSUME TInv, DistinctSets, phase = "eval", ~done, OnlyPassed, NEW j \in DOMAIN tags[node]
    PROVE  CurrentRefs \notin tags[node][j].scen
  <1> SUFFICES ASSUME CurrentRefs \in tags[node][j].scen PROVE FALSE
    OBVIOUS
  <1>1. PICK p \in G!Permutations : CurrentRefs = Chosen(srcs, node, p) /\ G!Precedes(p, its)
    BY DEF OnlyPassed
  <1>2. /\ its = [i \in DataEdges(node) |-> its[i]]
        /\ \A i \in DataEdges(node) : /\ its[i] \in 1..Len(srcs[i])
                                      /\ srcs[i] \in Seq(RefsAt(tags, Fanin[node][i]))
                                      /\ IsInjective(srcs[i])
    BY DEF TInv, WorkspaceOK, DistinctSets
  <1>3. /\ G!SizesOK /\ p = [i \in DataEdges(node) |-> p[i]]
        /\ \A i \in DataEdges(node) : p[i] \in DOMAIN srcs[i]
    BY GeneratorOfNode
  <1>4. \A i \in DataEdges(node) : its[i] \in DOMAIN srcs[i]
    BY <1>2
  <1>5. \A i \in DataEdges(node) : srcs[i][its[i]] = srcs[i][p[i]]
    <2>1. \A i \in DataEdges(node) : CurrentRefs[i] = srcs[i][its[i]]
      BY DEF CurrentRefs
    <2>2. \A i \in DataEdges(node) : Chosen(srcs, node, p)[i] = srcs[i][p[i]]
      BY DEF Chosen
    <2> QED
      BY <1>1, <2>1, <2>2
  <1>6. \A i \in DataEdges(node) : its[i] = p[i]
    BY <1>2, <1>3, <1>4, <1>5 DEF IsInjective
  <1>7. p = its
    BY <1>2, <1>3, <1>6
  <1> QED
    BY <1>1, <1>3, <1>7, G!PrecedesIsIrreflexive

(* Evaluating a permutation adds its scenario, which no tag had, to one tag.*)
LEMMA OnlyPassedStep ==
    ASSUME TInv, DistinctSets, OnlyPassed, EvaluatePermutation
    PROVE  OnlyPassed'
  <1>1. /\ phase = "eval" /\ ~done /\ node \in Node
        /\ UNCHANGED <<dataTags, visited, node, srcs>>
        /\ its' = Generator!Advanced(Sizes(srcs), its)
        /\ done' = Generator!Overflows(Sizes(srcs), its)
    BY EvaluateStep
  <1>2. its' = G!Advanced(Sizes(srcs), its) /\ done' = G!Overflows(Sizes(srcs), its)
    BY <1>1 DEF Generator!Advanced, G!Advanced, G!CarryInto, Generator!CarryInto,
                Generator!Overflows, G!Overflows
  <1>3. PICK k \in DOMAIN tags'[node] : \A i \in DOMAIN tags'[node] :
           i # k => i \in DOMAIN tags[node] /\ tags'[node][i] = tags[node][i]
    BY EvaluateStep
  <1>4. ASSUME NEW i \in DOMAIN tags'[node], NEW s \in tags'[node][i].scen
        PROVE  s = CurrentRefs \/ (i \in DOMAIN tags[node] /\ s \in tags[node][i].scen)
    BY EvaluateStep DEF AddedTag
  <1>5. \A j \in DOMAIN tags[node] : CurrentRefs \notin tags[node][j].scen
    BY <1>1, CurrentIsNew
  <1>6. ASSUME NEW i \in DOMAIN tags'[node], NEW j \in DOMAIN tags'[node], i # j,
               NEW s, s \in tags'[node][i].scen, s \in tags'[node][j].scen
        PROVE  FALSE
    <2>1. \A a, b \in DOMAIN tags[node] : a # b => ~(s \in tags[node][a].scen /\ s \in tags[node][b].scen)
      BY DEF OnlyPassed
    <2>2. CASE i # k
      <3>1. i \in DOMAIN tags[node] /\ s \in tags[node][i].scen
        BY <1>3, <1>6, <2>2
      <3>2. s # CurrentRefs
        BY <1>5, <3>1
      <3>3. j \in DOMAIN tags[node] /\ s \in tags[node][j].scen
        BY <1>4, <1>6, <3>2
      <3> QED
        BY <1>6, <2>1, <3>1, <3>3
    <2>3. CASE j # k
      <3>1. j \in DOMAIN tags[node] /\ s \in tags[node][j].scen
        BY <1>3, <1>6, <2>3
      <3>2. s # CurrentRefs
        BY <1>5, <3>1
      <3>3. i \in DOMAIN tags[node] /\ s \in tags[node][i].scen
        BY <1>4, <1>6, <3>2
      <3> QED
        BY <1>6, <2>1, <3>1, <3>3
    <2> QED
      BY <1>6, <2>2, <2>3
  <1>7. its \in G!Permutations /\ G!SizesOK
    <2>1. /\ its = [i \in DataEdges(node) |-> its[i]]
          /\ \A i \in DataEdges(node) : its[i] \in DOMAIN srcs[i]
      <3>1. /\ its = [i \in DataEdges(node) |-> its[i]]
            /\ \A i \in DataEdges(node) : its[i] \in 1..Len(srcs[i])
            /\ \A i \in DataEdges(node) : srcs[i] \in Seq(RefsAt(tags, Fanin[node][i]))
        BY <1>1 DEF TInv, WorkspaceOK
      <3> QED
        BY <3>1
    <2> QED
      BY <1>1, <2>1, GeneratorOfNode
  <1>8. Chosen(srcs, node, its) = CurrentRefs
    BY DEF Chosen, CurrentRefs
  <1>9. ASSUME NEW p \in G!Permutations, p = its \/ G!Precedes(p, its)
        PROVE  done' \/ G!Precedes(p, its')
    <2>1. CASE G!Overflows(Sizes(srcs), its)
      BY <1>2, <2>1
    <2>2. CASE ~G!Overflows(Sizes(srcs), its)
      <3>1. G!Precedes(p, G!Advanced(Sizes(srcs), its)) <=> G!Precedes(p, its) \/ p = its
        BY <1>7, <2>2, G!AdvancePassesOne
      <3> QED
        BY <1>2, <1>9, <3>1
    <2> QED
      BY <2>1, <2>2
  <1>10. ASSUME NEW i \in DOMAIN tags'[node], NEW s \in tags'[node][i].scen
         PROVE  \E p \in G!Permutations : s = Chosen(srcs, node, p) /\ (done' \/ G!Precedes(p, its'))
    <2>1. CASE s = CurrentRefs
      BY <1>7, <1>8, <1>9, <2>1
    <2>2. CASE i \in DOMAIN tags[node] /\ s \in tags[node][i].scen
      <3>1. PICK p \in G!Permutations : s = Chosen(srcs, node, p) /\ G!Precedes(p, its)
        BY <1>1, <2>2 DEF OnlyPassed
      <3> QED
        BY <1>9, <3>1
    <2> QED
      BY <1>4, <2>1, <2>2
  <1>11. (G!Permutations)' = G!Permutations
    BY <1>1 DEF G!Permutations, G!Inputs
  <1>12. \A p : (G!Precedes(p, its))' = G!Precedes(p, its')
    BY <1>1 DEF G!Precedes, G!Inputs
  <1>13. \A p : Chosen(srcs, node, p)' = Chosen(srcs, node, p)
    BY <1>1 DEF Chosen
  <1>14. \A i, j \in DOMAIN tags'[node] : i # j => tags'[node][i].scen \cap tags'[node][j].scen = {}
    BY <1>6
  <1>15. \A i \in DOMAIN tags'[node] : \A s \in tags'[node][i].scen :
            \E p \in (G!Permutations)' : s = Chosen(srcs, node, p)' /\ (done' \/ (G!Precedes(p, its))')
    BY <1>10, <1>11, <1>12, <1>13
  <1> QED
    BY <1>1, <1>14, <1>15 DEF OnlyPassed

(* The end of a handler: tags are only taken together, so they still have   *)
(* no scenario in common.                                                   *)
LEMMA OnceFinish ==
    ASSUME TInv, StaInv, OnceInv, FinishNode
    PROVE  \A n \in Node : n = node => OnceAt(n)'
  <1> SUFFICES ASSUME NEW n \in Node, n = node PROVE OnceAt(n)'
    OBVIOUS
  <1> DEFINE set == References(node, tags[node])
             merged == dataTags'[n]
             thr == Threshold(node)
  <1>1. /\ node \in Node \ visited /\ phase = "eval" /\ done
        /\ \A m \in Node : m # node => dataTags'[m] = dataTags[m]
    BY FinishStep
  <1>2. PICK res, home : /\ tags' = res.heap /\ merged = res.merged
                         /\ MergedInto(tags, set, Len(set), home, res, Bin(opts.coarse), Bin(opts.fine), thr)
    BY FinishEffect
  <1>3. /\ set \in Seq(RefsAt(tags, node)) /\ tags[node] \in Seq(TagType)
    BY FinishEffect
  <1>4. \A j \in 1..Len(set) : j \in DOMAIN tags[node] /\ At(tags, set[j]) = tags[node][j]
    <2>1. DOMAIN set = DOMAIN tags[node] /\ \A j \in DOMAIN tags[node] : At(tags, set[j]) = tags[node][j]
      BY DEF References, At
    <2> HIDE DEF set
    <2>2. DOMAIN set = 1..Len(set)
      BY <1>3
    <2> QED
      BY <2>1, <2>2
  <1>5. DataEdges(node) # {} /\ Type[node] # "CONSTANT_GEN_SOURCE" /\ node \notin LogicalInputs
    BY <1>1, EvaluatedNode DEF TInv, WorkspaceOK
  <1> HIDE DEF set, merged, thr
  <1>6. \A a \in DOMAIN merged : \A s \in At(tags', merged[a]).scen :
           \E j \in 1..Len(set) : home[j] = a /\ s \in At(tags, set[j]).scen
    BY <1>2 DEF MergedInto
  <1>7. \A a \in DOMAIN merged : \A s \in At(tags', merged[a]).scen :
           \E j \in DOMAIN tags[node] : home[j] = a /\ s \in tags[node][j].scen
    BY <1>4, <1>6
  <1>8. OnlyPassed
    BY <1>1 DEF OnceInv
  <1>9. ASSUME NEW a \in DOMAIN merged, NEW b \in DOMAIN merged, a # b,
               NEW s, s \in At(tags', merged[a]).scen, s \in At(tags', merged[b]).scen
        PROVE  FALSE
    <2>1. PICK j \in DOMAIN tags[node] : home[j] = a /\ s \in tags[node][j].scen
      BY <1>7, <1>9
    <2>2. PICK k \in DOMAIN tags[node] : home[k] = b /\ s \in tags[node][k].scen
      BY <1>7, <1>9
    <2>3. j # k
      BY <1>9, <2>1, <2>2
    <2>4. tags[node][j].scen \cap tags[node][k].scen = {}
      BY <1>8, <2>3 DEF OnlyPassed
    <2> QED
      BY <2>1, <2>2, <2>4
  <1>10. ASSUME NEW a \in DOMAIN merged, NEW s \in At(tags', merged[a]).scen
         PROVE  OfInputs(n, s)'
    <2>1. PICK j \in DOMAIN tags[node] : s \in tags[node][j].scen
      BY <1>7
    <2>2. PICK p \in G!Permutations : s = Chosen(srcs, node, p)
      BY <1>8, <2>1 DEF OnlyPassed
    <2>3. \A i \in DataEdges(node) : p[i] \in DOMAIN srcs[i]
      BY <1>1, GeneratorOfNode
    <2>4. s = [e \in DataEdges(node) |-> s[e]] /\ \A e \in DataEdges(node) : s[e] = srcs[e][p[e]]
      BY <2>2 DEF Chosen
    <2>5. ASSUME NEW e \in DataEdges(node) PROVE s[e] \in ToSet(dataTags'[Fanin[node][e]])
      <3>1. srcs[e] = dataTags[Fanin[node][e]]
        BY <1>1 DEF OnceInv
      <3>2. Fanin[node][e] \in Node /\ Fanin[node][e] # node
        BY <1>1, NetFacts, DataNetFacts
      <3>3. dataTags'[Fanin[node][e]] = srcs[e]
        BY <1>1, <3>1, <3>2
      <3> QED
        BY <2>3, <2>4, <3>3 DEF ToSet
    <2>6. s = [e \in DataEdges(n) |-> s[e]] /\ \A e \in DataEdges(n) : s[e] \in ToSet(dataTags'[Fanin[n][e]])
      BY <2>4, <2>5
    <2> QED
      BY <2>6 DEF OfInputs
  <1> QED
    <2>1. \A a, b \in DOMAIN merged : a # b => At(tags', merged[a]).scen \cap At(tags', merged[b]).scen = {}
      BY <1>9
    <2>2. \A a \in DOMAIN merged : \A s \in At(tags', merged[a]).scen : OfInputs(n, s)'
      BY <1>10
    <2> QED
      BY <1>5, <2>1, <2>2 DEF OnceAt, merged

(* A node that is launched has a tag per transition, or one tag.            *)
LEMMA OnceLaunched ==
    ASSUME TInv, NEW n \in Node, PreTraverse(n) \/ TraverseClockNode(n)
    PROVE  OnceAt(n)'
  <1> DEFINE tag == [j \in DOMAIN dataTags'[n] |-> At(tags', dataTags'[n][j])]
  <1>1. \/ tags'[n] = <<>> /\ dataTags'[n] = <<>>
        \/ /\ n \in LogicalInputs /\ tags'[n] = LaunchTags
           /\ dataTags'[n] = References(n, LaunchTags)
        \/ /\ Type[n] = "CONSTANT_GEN_SOURCE" /\ tags'[n] = <<Launch(Constant(n))>>
           /\ dataTags'[n] = References(n, <<Launch(Constant(n))>>)
    BY LaunchEffect
  <1>2. CASE dataTags'[n] = <<>>
    <2>1. DOMAIN tag = {}
      BY <1>2
    <2> QED
      BY <2>1 DEF OnceAt
  <1>3. CASE /\ n \in LogicalInputs /\ tags'[n] = LaunchTags
             /\ dataTags'[n] = References(n, LaunchTags)
    <2>1. DOMAIN tag = DOMAIN LaunchTags /\ \A j \in DOMAIN tag : tag[j] = LaunchTags[j]
      BY <1>3 DEF References, At
    <2> HIDE DEF tag
    <2>2. \A j, k \in DOMAIN tag : j # k => tag[j].trans # tag[k].trans
      BY <2>1, LaunchedApart
    <2> QED
      BY <1>3, <2>2 DEF OnceAt, tag
  <1>4. CASE /\ Type[n] = "CONSTANT_GEN_SOURCE" /\ tags'[n] = <<Launch(Constant(n))>>
             /\ dataTags'[n] = References(n, <<Launch(Constant(n))>>)
    <2>1. DOMAIN tag = 1..1
      <3>1. DOMAIN tag = DOMAIN <<Launch(Constant(n))>>
        BY <1>4 DEF References
      <3> HIDE DEF Launch
      <3>2. DOMAIN <<Launch(Constant(n))>> = 1..1
        OBVIOUS
      <3> QED
        BY <3>1, <3>2
    <2>2. n \notin LogicalInputs
      BY <1>4 DEF LogicalInputs
    <2> HIDE DEF tag
    <2>3. \A j, k \in DOMAIN tag : j = k
      BY <2>1
    <2> QED
      BY <1>4, <2>2, <2>3 DEF OnceAt, tag
  <1> QED
    BY <1>1, <1>2, <1>3, <1>4

(* Every step keeps it, as long as there is no permutation limit.           *)
LEMMA OnceStep ==
    ASSUME \A o \in Options : o.maxPerm = 0
    PROVE  TInv /\ StaInv /\ DistinctSets /\ OnceInv /\ [Next]_vars => OnceInv'
  <1> SUFFICES ASSUME TInv, StaInv, DistinctSets, OnceInv, [Next]_vars PROVE OnceInv'
    OBVIOUS
  <1>0. VisitsOK /\ WorkspaceOK
    BY DEF TInv
  <1>1. ASSUME NEW n \in Node, dataTags[n] = <<>>,
               \A m \in Node : m # n => tags'[m] = tags[m] /\ dataTags'[m] = dataTags[m]
        PROVE  \A m \in Node : m # n /\ OnceAt(m) => OnceAt(m)'
    <2>1. \A m \in Node : dataTags[m] # <<>> => dataTags'[m] = dataTags[m]
      BY <1>1
    <2> QED
      BY <1>1, <2>1, OnceKept
  <1>2. ASSUME NEW n \in Node, PreTraverse(n) \/ TraverseClockNode(n) PROVE OnceInv'
    <2>1. /\ dataTags[n] = <<>> /\ n # node /\ visited' = visited \cup {n}
          /\ \A m \in Node : m # n => tags'[m] = tags[m] /\ dataTags'[m] = dataTags[m]
          /\ node' = node /\ phase' = phase /\ srcs' = srcs /\ its' = its /\ done' = done
          /\ n \notin visited
      BY <1>2, LaunchEffect, PreTraverseStep, TraverseClockStep DEF NodeWorkspace
    <2>2. \A m \in visited' : OnceAt(m)'
      <3>1. OnceAt(n)'
        BY <1>2, OnceLaunched
      <3>2. \A m \in visited : m \in Node /\ m # n /\ OnceAt(m)
        BY <1>0, <2>1 DEF VisitsOK, OnceInv
      <3> HIDE DEF OnceAt
      <3>3. \A m \in visited : OnceAt(m)'
        BY <1>1, <2>1, <3>2
      <3> QED
        BY <2>1, <3>1, <3>3
    <2>3. phase # "idle" => \A i \in DataEdges(node) : srcs[i] = dataTags'[Fanin[node][i]]
      <3> SUFFICES ASSUME phase # "idle", NEW i \in DataEdges(node) PROVE srcs[i] = dataTags'[Fanin[node][i]]
        OBVIOUS
      <3>1. Fanin[node][i] \in visited
        BY <1>0 DEF WorkspaceOK
      <3>2. Fanin[node][i] \in Node /\ Fanin[node][i] # n
        BY <1>0, <2>1, <3>1 DEF VisitsOK
      <3> QED
        BY <2>1, <3>2 DEF OnceInv
    <2>4. phase = "eval" => OnlyPassed'
      <3> SUFFICES ASSUME phase = "eval" PROVE OnlyPassed'
        OBVIOUS
      <3>1. OnlyPassed /\ tags'[node] = tags[node]
        BY <1>0, <2>1 DEF OnceInv, WorkspaceOK
      <3>2. (G!Permutations)' = G!Permutations
        BY <2>1 DEF G!Permutations, G!Inputs
      <3>3. \A p : (G!Precedes(p, its))' = G!Precedes(p, its)
        BY <2>1 DEF G!Precedes, G!Inputs
      <3>4. \A p : Chosen(srcs, node, p)' = Chosen(srcs, node, p)
        BY <2>1 DEF Chosen
      <3>5. \A i \in DOMAIN tags[node] : \A s \in tags[node][i].scen :
               \E p \in G!Permutations : s = Chosen(srcs, node, p) /\ (done \/ G!Precedes(p, its))
        BY <3>1 DEF OnlyPassed
      <3>6. \A i \in DOMAIN tags[node] : \A s \in tags[node][i].scen :
               \E p \in (G!Permutations)' : s = Chosen(srcs, node, p)' /\ (done' \/ (G!Precedes(p, its))')
        BY <2>1, <3>2, <3>3, <3>4, <3>5
      <3>7. \A j, k \in DOMAIN tags[node] : j # k => tags[node][j].scen \cap tags[node][k].scen = {}
        BY <3>1 DEF OnlyPassed
      <3> QED
        BY <2>1, <3>1, <3>6, <3>7 DEF OnlyPassed
    <2> QED
      BY <2>1, <2>2, <2>3, <2>4 DEF OnceInv
  <1>3. ASSUME tags' = tags, dataTags' = dataTags PROVE \A n \in Node : OnceAt(n) => OnceAt(n)'
    BY <1>3, OnceKept
  <1>4. ASSUME NEW n \in Node, BeginNode(n) PROVE OnceInv'
    <2>1. /\ tags' = tags /\ dataTags' = dataTags /\ visited' = visited
          /\ node' = n /\ phase' = "reduce"
          /\ \A i \in DataEdges(n) : srcs'[i] = dataTags[Fanin[n][i]]
      BY <1>4, BeginStep
    <2>2. \A m \in visited' : OnceAt(m)'
      <3> HIDE DEF OnceAt
      <3>1. \A m \in visited : m \in Node /\ OnceAt(m)
        BY <1>0 DEF VisitsOK, OnceInv
      <3> QED
        BY <1>3, <2>1, <3>1
    <2> QED
      BY <2>1, <2>2 DEF OnceInv
  <1>5. CASE ReduceInput
    <2>1. opts.maxPerm = 0
      BY <1>0 DEF WorkspaceOK
    <2> QED
      BY <1>5, <2>1 DEF ReduceInput, TooMany
  <1>6. CASE StartEvaluation
    <2>1. /\ UNCHANGED <<tags, dataTags, visited, node, srcs>>
          /\ phase = "reduce" /\ phase' = "eval"
      BY <1>6, StartStep
    <2>2. \A m \in visited' : OnceAt(m)'
      <3> HIDE DEF OnceAt
      <3>1. \A m \in visited : m \in Node /\ OnceAt(m)
        BY <1>0 DEF VisitsOK, OnceInv
      <3> QED
        BY <1>3, <2>1, <3>1
    <2>3. OnlyPassed'
      <3>1. DOMAIN tags'[node'] = {}
        BY <1>0, <2>1 DEF WorkspaceOK
      <3> QED
        BY <3>1 DEF OnlyPassed
    <2> QED
      BY <2>1, <2>2, <2>3 DEF OnceInv
  <1>7. CASE EvaluatePermutation
    <2>1. /\ phase = "eval" /\ phase' = "eval" /\ node \in Node \ visited
          /\ UNCHANGED <<dataTags, visited, node, srcs>>
          /\ \A m \in Node : m # node => tags'[m] = tags[m]
      BY <1>7, EvaluateStep
    <2>2. dataTags[node] = <<>>
      BY <1>0, <2>1 DEF VisitsOK
    <2>3. \A m \in visited' : OnceAt(m)'
      <3> HIDE DEF OnceAt
      <3>1. \A m \in visited : m \in Node /\ m # node /\ OnceAt(m)
        BY <1>0, <2>1 DEF VisitsOK, OnceInv
      <3>2. \A m \in Node : m # node => tags'[m] = tags[m] /\ dataTags'[m] = dataTags[m]
        BY <2>1
      <3>3. node \in Node
        BY <2>1
      <3>4. \A m \in Node : m # node /\ OnceAt(m) => OnceAt(m)'
        BY <1>1, <2>2, <3>2, <3>3
      <3> QED
        BY <2>1, <3>1, <3>4
    <2>4. OnlyPassed'
      BY <1>7, <2>1, OnlyPassedStep DEF OnceInv
    <2> QED
      BY <2>1, <2>3, <2>4 DEF OnceInv
  <1>8. CASE FinishNode
    <2>1. /\ phase' = "idle" /\ node \in Node \ visited /\ visited' = visited \cup {node}
          /\ \A m \in Node : m # node => tags'[m] = tags[m] /\ dataTags'[m] = dataTags[m]
      BY <1>8, FinishStep DEF Grown
    <2>2. dataTags[node] = <<>>
      BY <1>0, <2>1 DEF VisitsOK
    <2>3. \A m \in visited' : OnceAt(m)'
      <3>1. \A n \in Node : n = node => OnceAt(n)'
        BY <1>8, OnceFinish
      <3> HIDE DEF OnceAt
      <3>2. \A m \in visited : m \in Node /\ m # node /\ OnceAt(m)
        BY <1>0, <2>1 DEF VisitsOK, OnceInv
      <3>3. node \in Node
        BY <2>1
      <3>4. \A m \in Node : m # node /\ OnceAt(m) => OnceAt(m)'
        BY <1>1, <2>1, <2>2, <3>3
      <3> QED
        BY <2>1, <3>1, <3>2, <3>3, <3>4
    <2> QED
      BY <2>1, <2>3 DEF OnceInv
  <1>9. CASE UNCHANGED vars
    <2>1. UNCHANGED <<tags, dataTags, visited, node, phase, srcs, its, done>>
      BY <1>9 DEF vars
    <2>2. \A m \in visited' : OnceAt(m)'
      <3> HIDE DEF OnceAt
      <3>1. \A m \in visited : m \in Node /\ OnceAt(m)
        BY <1>0 DEF VisitsOK, OnceInv
      <3> QED
        BY <1>3, <2>1, <3>1
    <2>3. OnlyPassed' <=> OnlyPassed
      BY <2>1 DEF OnlyPassed, G!Permutations, G!Precedes, G!Inputs
    <2> QED
      BY <2>1, <2>2, <2>3 DEF OnceInv
  <1> QED
    BY <1>2, <1>4, <1>5, <1>6, <1>7, <1>8, <1>9 DEF Next

(* At the end two tags of a node never stand for the same scenario of the   *)
(* circuit: node by node, from the inputs on.                               *)
LEMMA CoveredOnce ==
    ASSUME TInv, OnceInv, Finished, NEW a \in CircuitScenarios
    PROVE  \A n \in Node : \A t, u \in ToSet(dataTags[n]) :
              a \in ScenariosOf(CoveredIn(tags), t) /\ a \in ScenariosOf(CoveredIn(tags), u) => t = u
  <1> DEFINE C == CoveredIn(tags)
             Good(n) == \A t, u \in ToSet(dataTags[n]) :
                           a \in ScenariosOf(C, t) /\ a \in ScenariosOf(C, u) => t = u
             Q == {k \in Nat : \A n \in Node : n <= k => Good(n)}
  <1>1. Node = 1..NumNodes /\ NumNodes \in Nat
    BY NetFacts
  <1>2. \A n \in Node : \A i \in DOMAIN tags[n] : C[n][i] = TagScenarios(C, n, tags[n][i])
    BY CoveredEquation, TInvIsWellFormed
  <1>3. 0 \in Q
    <2>1. \A n \in Node : ~(n <= 0)
      BY <1>1
    <2> HIDE DEF Good
    <2> QED
      BY <2>1
  <1>4. ASSUME NEW k \in Nat, k \in Q PROVE k + 1 \in Q
    <2> SUFFICES ASSUME NEW n \in Node, n <= k + 1 PROVE Good(n)
      <3> HIDE DEF Good
      <3> QED
        OBVIOUS
    <2>1. \A m \in Node : m < n => Good(m)
      <3> HIDE DEF Good
      <3>1. \A m \in Node : m < n => m <= k
        BY <1>1
      <3> QED
        BY <1>4, <3>1
    <2> SUFFICES ASSUME NEW t \in ToSet(dataTags[n]), NEW u \in ToSet(dataTags[n]),
                        a \in ScenariosOf(C, t), a \in ScenariosOf(C, u)
                 PROVE  t = u
      OBVIOUS
    <2> HIDE DEF C, Good
    <2>2. PICK j \in DOMAIN dataTags[n] : t = dataTags[n][j]
      BY DEF ToSet
    <2>3. PICK l \in DOMAIN dataTags[n] : u = dataTags[n][l]
      BY DEF ToSet
    <2> SUFFICES ASSUME j # l PROVE FALSE
      BY <2>2, <2>3
    <2>4. OnceAt(n)
      BY DEF OnceInv, Finished
    <2>5. t \in RefsAt(tags, n) /\ u \in RefsAt(tags, n)
      <3>1. dataTags[n] \in Seq(RefsAt(tags, n))
        BY DEF TInv, HeapOK
      <3> QED
        BY <2>2, <2>3, <3>1
    <2>6. /\ t[1] = n /\ t[2] \in DOMAIN tags[n] /\ u[1] = n /\ u[2] \in DOMAIN tags[n]
      BY <2>5 DEF RefsAt
    <2> DEFINE x == At(tags, t)
               y == At(tags, u)
    <2>7. a \in TagScenarios(C, n, x) /\ a \in TagScenarios(C, n, y)
      BY <1>2, <2>6 DEF ScenariosOf, At
    <2> HIDE DEF x, y
    <2>8. CASE n \in LogicalInputs
      <3>1. Type[n] # "CONSTANT_GEN_SOURCE"
        BY <2>8 DEF LogicalInputs
      <3>2. a[n] = x.trans /\ a[n] = y.trans
        BY <2>7, <2>8, <3>1 DEF TagScenarios
      <3>3. x.trans # y.trans
        BY <2>2, <2>3, <2>4, <2>8 DEF OnceAt, x, y
      <3> QED
        BY <3>2, <3>3
    <2>9. CASE n \notin LogicalInputs /\ Type[n] = "CONSTANT_GEN_SOURCE"
      BY <2>4, <2>9 DEF OnceAt
    <2>10. CASE n \notin LogicalInputs /\ Type[n] # "CONSTANT_GEN_SOURCE"
      <3>1. a \in Satisfying(C, x.scen) /\ a \in Satisfying(C, y.scen)
        BY <2>7, <2>10 DEF TagScenarios
      <3>2. PICK s \in x.scen : \A e \in DOMAIN s : a \in C[s[e][1]][s[e][2]]
        BY <3>1 DEF Satisfying
      <3>3. PICK r \in y.scen : \A e \in DOMAIN r : a \in C[r[e][1]][r[e][2]]
        BY <3>1 DEF Satisfying
      <3>4. x.scen \cap y.scen = {} /\ OfInputs(n, s) /\ OfInputs(n, r)
        BY <2>2, <2>3, <2>4, <2>10, <3>2, <3>3 DEF OnceAt, x, y
      <3>5. /\ s = [e \in DataEdges(n) |-> s[e]] /\ r = [e \in DataEdges(n) |-> r[e]]
            /\ \A e \in DataEdges(n) : /\ s[e] \in ToSet(dataTags[Fanin[n][e]])
                                       /\ r[e] \in ToSet(dataTags[Fanin[n][e]])
        BY <3>4 DEF OfInputs
      <3>6. ASSUME NEW e \in DataEdges(n) PROVE s[e] = r[e]
        <4>1. Fanin[n][e] \in Node /\ Fanin[n][e] < n
          BY NetFacts, DataNetFacts
        <4>2. Good(Fanin[n][e])
          BY <2>1, <4>1
        <4>3. e \in DOMAIN s /\ e \in DOMAIN r
          BY <3>5
        <4>4. a \in ScenariosOf(C, s[e]) /\ a \in ScenariosOf(C, r[e])
          BY <3>2, <3>3, <4>3 DEF ScenariosOf
        <4> QED
          BY <3>5, <4>2, <4>4 DEF Good
      <3>7. s = r
        BY <3>5, <3>6
      <3> QED
        BY <3>2, <3>3, <3>4, <3>7
    <2> QED
      BY <2>8, <2>9, <2>10
  <1> HIDE DEF Q
  <1>5. \A k \in Nat : k \in Q
    BY <1>3, <1>4, NaturalInduction
  <1>6. ASSUME NEW n \in Node PROVE Good(n)
    <2> HIDE DEF Good
    <2>1. n \in Nat /\ n <= n /\ n \in Q
      BY <1>1, <1>5
    <2> QED
      BY <2>1 DEF Q
  <1> QED
    BY <1>6

(* For any circuit, delays, bins and threshold, without a permutation limit:*)
(* every scenario of the circuit is accounted for by exactly one tag of     *)
(* every node with data.  Evaluation adds no scenario twice, and merging    *)
(* and compressing never put one into two tags.                             *)
THEOREM EveryScenarioInOneTag ==
    (\A o \in Options : o.maxPerm = 0) /\ Spec => []EveryScenarioOnce
  <1> SUFFICES ASSUME \A o \in Options : o.maxPerm = 0 PROVE Spec => []EveryScenarioOnce
    OBVIOUS
  <1>1. TInv /\ CoverInv /\ OnceInv => EveryScenarioOnce
    <2> SUFFICES ASSUME TInv, CoverInv, OnceInv, Finished, NEW n \in Node, dataTags[n] # <<>>,
                        NEW a \in CircuitScenarios
                 PROVE  Cardinality({t \in ToSet(dataTags[n]) : a \in ScenariosOf(Covered, t)}) = 1
      BY DEF EveryScenarioOnce
    <2> DEFINE those == {t \in ToSet(dataTags[n]) : a \in ScenariosOf(Covered, t)}
    <2>1. Covers(tags, dataTags[n])
      BY DEF Finished, CoverInv
    <2>2. PICK k \in DOMAIN dataTags[n] : a \in ScenariosOf(CoveredIn(tags), dataTags[n][k])
      BY <2>1 DEF Covers
    <2>3. dataTags[n][k] \in those
      BY <2>2 DEF ToSet, Covered
    <2>4. \A t, u \in those : t = u
      BY CoveredOnce DEF Covered
    <2>5. those = {dataTags[n][k]}
      <3> HIDE DEF those
      <3> QED
        BY <2>3, <2>4
    <2>6. Cardinality({dataTags[n][k]}) = 1
      BY FS_Singleton
    <2> QED
      BY <2>5, <2>6
  <1>2. TInv /\ StaInv /\ DistinctSets /\ OnceInv /\ [Next]_vars => OnceInv'
    BY OnceStep
  <1> QED
    BY <1>1, <1>2, TInvInitially, TInvStep, CoverInitially, CoverStep, StaInitially, StaStep,
       DistinctInitially, DistinctStep, OnceInitially, PTL DEF Spec
-------------------------------------------------------------------------------
(* A tag without its scenarios, and those of the inputs in a scenario.      *)
TimedTag(tag) == [trans |-> tag.trans, arr |-> tag.arr]
Timed(heap, s, n) == [e \in DataEdges(n) |-> TimedTag(At(heap, s[e]))]

(* A node answers to the transitions and arrivals of its inputs, not to     *)
(* their scenarios.                                                         *)
LEMMA ResponsesOfTimes ==
    ASSUME NEW n \in Node, NEW in, DOMAIN in = DataEdges(n)
    PROVE  Responses(n, in) = Responses(n, [e \in DataEdges(n) |-> TimedTag(in[e])])
  <1> DEFINE timed == [e \in DataEdges(n) |-> TimedTag(in[e])]
  <1>1. DOMAIN timed = DataEdges(n)
        /\ \A e \in DataEdges(n) : timed[e].trans = in[e].trans /\ timed[e].arr = in[e].arr
    BY DEF TimedTag
  <1> HIDE DEF timed
  <1>2. SortedOrders(timed) = SortedOrders(in)
    BY <1>1 DEF SortedOrders
  <1>3. ASSUME NEW o \in SortedOrders(in) PROVE Unfiltered(n, timed, o) = Unfiltered(n, in, o)
    <2>1. ASSUME NEW k PROVE Restricted(n, timed, o, k) = Restricted(n, in, o, k)
      <3>1. ASSUME NEW x \in InputVectors(n)
            PROVE  [i \in DOMAIN x |-> IF \E j \in 1..k : o[j] = i THEN FinalValue(timed[i].trans) ELSE x[i]]
                 = [i \in DOMAIN x |-> IF \E j \in 1..k : o[j] = i THEN FinalValue(in[i].trans) ELSE x[i]]
        <4>1. DOMAIN x = DataEdges(n)
          BY DEF InputVectors
        <4>2. \A i \in DOMAIN x : FinalValue(timed[i].trans) = FinalValue(in[i].trans)
          BY <1>1, <4>1
        <4> QED
          BY <4>2
      <3> QED
        BY <3>1 DEF Restricted
    <2> QED
      BY <2>1 DEF Unfiltered
  <1>4. ASSUME NEW u \in SUBSET DataEdges(n) PROVE Response(n, timed, u) = Response(n, in, u)
    <2>1. (\E i \in u : timed[i].trans \in Dynamic) <=> (\E i \in u : in[i].trans \in Dynamic)
      BY <1>1
    <2>2. [i \in DOMAIN timed |-> FinalValue(timed[i].trans)] = [i \in DOMAIN in |-> FinalValue(in[i].trans)]
      BY <1>1
    <2>3. ASSUME NEW trans
          PROVE  {timed[i].arr + EdgeDelay(n, i, trans) : i \in u} = {in[i].arr + EdgeDelay(n, i, trans) : i \in u}
      <3>1. \A i \in u : timed[i].arr + EdgeDelay(n, i, trans) = in[i].arr + EdgeDelay(n, i, trans)
        BY <1>1
      <3> QED
        BY <3>1
    <2> DEFINE moves(f) == \E i \in u : f[i].trans \in Dynamic
               final(f) == [i \in DOMAIN f |-> FinalValue(f[i].trans)]
               late(f, trans) == {f[i].arr + EdgeDelay(n, i, trans) : i \in u}
               answer(move, values) == IF values \in OnSet[n] THEN IF move THEN "RISE" ELSE "HIGH"
                                       ELSE IF move THEN "FALL" ELSE "LOW"
               made(f) == [trans |-> answer(moves(f), final(f)),
                           arr   |-> Max({0} \cup late(f, answer(moves(f), final(f))))]
    <2>4. ASSUME NEW f PROVE Response(n, f, u) = made(f)
      BY DEF Response
    <2>5. /\ moves(timed) <=> moves(in)
          /\ final(timed) = final(in) /\ \A trans : late(timed, trans) = late(in, trans)
      BY <2>1, <2>2, <2>3
    <2> HIDE DEF late, final, moves
    <2>6. answer(moves(timed), final(timed)) = answer(moves(in), final(in))
      BY <2>5
    <2> HIDE DEF answer
    <2>7. made(timed) = made(in)
      BY <2>5, <2>6
    <2> QED
      BY <2>4, <2>7
  <1>5. ASSUME NEW o \in SortedOrders(in) PROVE Unfiltered(n, in, o) \in SUBSET DataEdges(n)
    <2>1. \A k \in DOMAIN o : o[k] \in DataEdges(n)
      BY DEF SortedOrders
    <2> QED
      BY <2>1 DEF Unfiltered
  <1>6. \A o \in SortedOrders(in) : Response(n, timed, Unfiltered(n, timed, o)) = Response(n, in, Unfiltered(n, in, o))
    BY <1>3, <1>4, <1>5
  <1>7. Responses(n, timed) = {Response(n, timed, Unfiltered(n, timed, o)) : o \in SortedOrders(timed)}
    BY DEF Responses
  <1>8. Responses(n, in) = {Response(n, in, Unfiltered(n, in, o)) : o \in SortedOrders(in)}
    BY DEF Responses
  <1> QED
    BY <1>2, <1>6, <1>7, <1>8 DEF timed

(* Responses depend on the delays, which never change.                      *)
LEMMA ResponsesStay ==
    ASSUME delay' = delay, NEW n, NEW in
    PROVE  Responses(n, in)' = Responses(n, in)
  <1>1. ASSUME NEW u PROVE Response(n, in, u)' = Response(n, in, u)
    BY DEF Response, EdgeDelay
  <1> QED
    BY <1>1 DEF Responses
-------------------------------------------------------------------------------
(* What merging without bins may do to the tags of node m: none gets another*)
(* arrival time, and none a scenario of a tag with another one.             *)
GrownInTime(old, new, m) ==
    \A i \in DOMAIN old[m] :
        /\ new[m][i].arr = old[m][i].arr
        /\ \A s \in new[m][i].scen : \E j \in DOMAIN old[m] :
              TimedTag(old[m][j]) = TimedTag(new[m][i]) /\ s \in old[m][j].scen

(* Collecting a tag without bins.                                           *)
LEMMA CollectInTime ==
    ASSUME NEW old \in Heap, NEW m \in Node, NEW set \in Seq(RefsAt(old, m)), NEW k \in DOMAIN set,
           NEW coarse, NEW fine, coarse.num = 0, fine.num = 0, NEW thr,
           NEW st, st \in MergeState(old, m), GrownInTime(old, st.heap, m)
    PROVE  GrownInTime(old, CollectTag(st, set[k], coarse, fine, thr).heap, m)
  <1> DEFINE t == set[k]
             reps == {i \in DOMAIN st.merged : Joinable(st.heap, t, st.merged[i], coarse, fine, thr)}
             new == CollectTag(st, t, coarse, fine, thr)
  <1>1. /\ st \in [heap : Heap, merged : Seq(RefsAt(old, m))] /\ Grown(old, st.heap, m)
        /\ st.heap \in Heap /\ st.merged \in Seq(RefsAt(old, m))
    BY DEF MergeState
  <1>2. t \in RefsAt(old, m) /\ RefsAt(st.heap, m) = RefsAt(old, m) /\ DOMAIN st.heap[m] = DOMAIN old[m]
    BY <1>1, GrownRefs DEF Grown
  <1>3. CASE reps = {}
    <2>1. new = [st EXCEPT !.merged = Append(@, t)]
      BY <1>3 DEF CollectTag
    <2>2. new.heap = st.heap
      <3> HIDE DEF t, new
      <3> QED
        BY <1>1, <2>1
    <2> QED
      BY <2>2
  <1>4. CASE reps # {}
    <2> DEFINE r == st.merged[Min(reps)]
    <2>1. Min(reps) \in reps
      <3>1. reps \in SUBSET Nat
        <4>1. DOMAIN st.merged = 1..Len(st.merged)
          BY <1>1
        <4> QED
          BY <4>1
      <3> HIDE DEF reps
      <3> QED
        BY <1>4, <3>1, LeastMember
    <2>2. Min(reps) \in DOMAIN st.merged /\ Joinable(st.heap, t, r, coarse, fine, thr)
      BY <2>1
    <2>3. new = [st EXCEPT !.heap = Absorb(@, r, t)]
      BY <1>4 DEF CollectTag
    <2>4. r \in RefsAt(old, m)
      BY <1>1, <2>2
    <2>5. At(st.heap, t).trans = At(st.heap, r).trans /\ At(st.heap, t).arr = At(st.heap, r).arr
      BY <2>2 DEF Joinable, SameBin
    <2> HIDE DEF r, t, reps, new
    <2> DEFINE heap == st.heap
               late == Absorb(heap, r, t)
    <2>6. new.heap = late
      BY <1>1, <2>3
    <2>7. /\ Grown(heap, late, m)
          /\ At(late, r).scen = At(heap, r).scen \cup At(heap, t).scen
          /\ At(late, r).arr = At(heap, r).arr
          /\ \A x \in RefsAt(heap, m) : x # r => At(late, x) = At(heap, x)
      BY <1>1, <1>2, <2>4, <2>5, AbsorbEffect
    <2>8. At(late, r).trans = At(heap, r).trans
      BY <1>1, <1>2, <2>4, <2>7, GrownRefs
    <2>9. GrownInTime(old, heap, m) /\ heap \in Heap /\ DOMAIN heap[m] = DOMAIN old[m]
      BY <1>1, <1>2
    <2> HIDE DEF late, heap
    <2>10. /\ r[1] = m /\ t[1] = m /\ r[2] \in DOMAIN old[m] /\ t[2] \in DOMAIN old[m]
           /\ r = <<m, r[2]>>
      BY <1>2, <2>4 DEF RefsAt, Reference
    <2>11. ASSUME NEW i \in DOMAIN old[m]
           PROVE  /\ late[m][i].arr = old[m][i].arr
                  /\ \A s \in late[m][i].scen : \E j \in DOMAIN old[m] :
                        TimedTag(old[m][j]) = TimedTag(late[m][i]) /\ s \in old[m][j].scen
      <3>1. CASE i = r[2]
        <4>1. /\ late[m][i].scen = heap[m][i].scen \cup heap[m][t[2]].scen
              /\ late[m][i].arr = heap[m][i].arr /\ late[m][i].trans = heap[m][i].trans
              /\ heap[m][t[2]].arr = heap[m][i].arr /\ heap[m][t[2]].trans = heap[m][i].trans
          BY <2>5, <2>7, <2>8, <2>10, <3>1 DEF At, heap
        <4>2. TimedTag(late[m][i]) = TimedTag(heap[m][i]) /\ TimedTag(heap[m][t[2]]) = TimedTag(heap[m][i])
          BY <4>1 DEF TimedTag
        <4> QED
          BY <2>9, <2>10, <4>1, <4>2 DEF GrownInTime
      <3>2. CASE i # r[2]
        <4>1. <<m, i>> \in RefsAt(heap, m) /\ <<m, i>> # r
          <5>1. heap[m] \in Seq(TagType)
            BY <2>9 DEF Heap
          <5>2. i \in Nat
            BY <2>9, <5>1
          <5> QED
            BY <2>9, <3>2, <5>2 DEF RefsAt, Reference
        <4>2. late[m][i] = heap[m][i]
          BY <2>7, <4>1 DEF At
        <4> QED
          BY <2>9, <4>2 DEF GrownInTime
      <3> QED
        BY <3>1, <3>2
    <2> QED
      BY <2>6, <2>11 DEF GrownInTime, new, t
  <1> QED
    BY <1>3, <1>4

(* Merging without bins only brings together what arrives at the same time. *)
LEMMA MergedInTime ==
    ASSUME NEW old \in Heap, NEW m \in Node, NEW set \in Seq(RefsAt(old, m)),
           NEW coarse, NEW fine, coarse.num = 0, fine.num = 0, NEW thr
    PROVE  GrownInTime(old, MergeTags(old, set, coarse, fine, thr).heap, m)
  <1> DEFINE States == MergeStates(old, m, set)
             Same == {st \in States : GrownInTime(old, st.heap, m)}
             good == [k \in 0..Len(set) |-> Same]
             Empty == [heap |-> old, merged |-> <<>>]
  <1>0. GrownInTime(old, old, m)
    BY DEF GrownInTime
  <1>1. Len(set) \in Nat /\ DOMAIN set = 1..Len(set)
    OBVIOUS
  <1>2. /\ Empty \in States
        /\ \A st \in States, k \in DOMAIN set : CollectTag(st, set[k], coarse, fine, thr) \in States
    BY MergeStatesClosed
  <1>3. \A st \in States : st \in MergeState(old, m)
    BY DEF MergeStates
  <1> HIDE DEF States
  <1>4. Empty \in Same
    BY <1>0, <1>2
  <1>5. ASSUME NEW st \in Same, NEW k \in DOMAIN set PROVE CollectTag(st, set[k], coarse, fine, thr) \in Same
    <2>1. GrownInTime(old, CollectTag(st, set[k], coarse, fine, thr).heap, m)
      BY <1>3, CollectInTime
    <2> QED
      BY <1>2, <2>1
  <1>6. Same \in SUBSET States
    OBVIOUS
  <1> HIDE DEF Same, Empty
  <1>7. /\ \A k \in 0..Len(set) : good[k] = Same
        /\ \A k \in Nat : k + 1 <= Len(set) => good[k] = Same /\ good[k + 1] = Same /\ k + 1 \in DOMAIN set
        /\ 0 \in 0..Len(set) /\ Len(set) \in 0..Len(set)
    BY <1>1
  <1> HIDE DEF good
  <1>8. Turns(old, set, States, good, coarse, fine, thr)
    BY <1>1, <1>2, <1>4, <1>5, <1>6, <1>7 DEF Turns, Empty
  <1>9. CASE thr # {}
    <2>1. MergeTags(old, set, coarse, fine, thr) \in good[Len(set)]
      BY <1>8, <1>9, MergeByTurns
    <2> QED
      BY <1>7, <2>1 DEF Same
  <1>10. CASE thr = {}
    BY <1>0, <1>10 DEF MergeTags
  <1> QED
    BY <1>9, <1>10
-------------------------------------------------------------------------------
(* What steps without bins leave of the tags that are there, and where the  *)
(* scenarios of a tag come from: a tag of the same transition and arrival,  *)
(* or an evaluation of the node.                                            *)
KeptInTime(h1, h2) ==
    \A n \in Node : \A i \in DOMAIN h1[n] :
        i \in DOMAIN h2[n] /\ TimedTag(h2[n][i]) = TimedTag(h1[n][i])

ArisenInTime(h1, n, tag) ==
    /\ n \in LogicalInputs \/ Type[n] = "CONSTANT_GEN_SOURCE" =>
          tag.arr = 0 \/ \E j \in DOMAIN h1[n] : h1[n][j].arr = tag.arr
    /\ \A s \in tag.scen :
          \/ \E j \in DOMAIN h1[n] : TimedTag(h1[n][j]) = TimedTag(tag) /\ s \in h1[n][j].scen
          \/ s \in ScenarioRefs(h1, n) /\ TimedTag(tag) \in Responses(n, Timed(h1, s, n))

(* Every scenario of a tag, evaluated alone, may answer with the transition *)
(* and the arrival time of the tag.                                         *)
ExactTag(heap, n, tag) ==
    /\ n \in LogicalInputs \/ Type[n] = "CONSTANT_GEN_SOURCE" => tag.arr = 0
    /\ \A s \in tag.scen : TimedTag(tag) \in Responses(n, Timed(heap, s, n))

ExactHeap(heap) == \A n \in Node : \A i \in DOMAIN heap[n] : ExactTag(heap, n, heap[n][i])

(* Exact tags stay exact, and make exact tags.                              *)
LEMMA ExactKept ==
    ASSUME NEW h1, NEW h2, WellFormed(h1), ExactHeap(h1), KeptInTime(h1, h2),
           \A n \in Node : \A i \in DOMAIN h2[n] : ArisenInTime(h1, n, h2[n][i])
    PROVE  ExactHeap(h2)
  <1> SUFFICES ASSUME NEW n \in Node, NEW i \in DOMAIN h2[n] PROVE ExactTag(h2, n, h2[n][i])
    BY DEF ExactHeap
  <1> DEFINE tag == h2[n][i]
  <1>1. ArisenInTime(h1, n, tag)
    OBVIOUS
  <1> HIDE DEF tag
  <1>2. ASSUME n \in LogicalInputs \/ Type[n] = "CONSTANT_GEN_SOURCE" PROVE tag.arr = 0
    <2>1. tag.arr = 0 \/ \E j \in DOMAIN h1[n] : h1[n][j].arr = tag.arr
      BY <1>1, <1>2 DEF ArisenInTime
    <2>2. \A j \in DOMAIN h1[n] : h1[n][j].arr = 0
      BY <1>2 DEF ExactHeap, ExactTag
    <2> QED
      BY <2>1, <2>2
  <1>3. ASSUME NEW s \in tag.scen PROVE TimedTag(tag) \in Responses(n, Timed(h2, s, n))
    <2>1. s \in ScenarioRefs(h1, n) /\ TimedTag(tag) \in Responses(n, Timed(h1, s, n))
      <3>1. CASE \E j \in DOMAIN h1[n] : TimedTag(h1[n][j]) = TimedTag(tag) /\ s \in h1[n][j].scen
        <4>1. PICK j \in DOMAIN h1[n] : TimedTag(h1[n][j]) = TimedTag(tag) /\ s \in h1[n][j].scen
          BY <3>1
        <4>2. s \in ScenarioRefs(h1, n)
          BY <4>1 DEF WellFormed
        <4>3. ExactTag(h1, n, h1[n][j])
          BY <4>1 DEF ExactHeap
        <4>4. TimedTag(h1[n][j]) \in Responses(n, Timed(h1, s, n))
          BY <4>1, <4>3 DEF ExactTag
        <4> QED
          BY <4>1, <4>2, <4>4
      <3> QED
        BY <1>1, <3>1 DEF ArisenInTime
    <2>2. Timed(h2, s, n) = Timed(h1, s, n)
      <3>1. ASSUME NEW e \in DataEdges(n) PROVE TimedTag(At(h2, s[e])) = TimedTag(At(h1, s[e]))
        <4>1. s[e] \in RefsAt(h1, Fanin[n][e]) /\ Fanin[n][e] \in Node
          BY <2>1, NetFacts, DataNetFacts DEF ScenarioRefs
        <4>2. s[e][1] = Fanin[n][e] /\ s[e][2] \in DOMAIN h1[Fanin[n][e]]
          BY <4>1 DEF RefsAt
        <4> QED
          BY <4>1, <4>2 DEF KeptInTime, At
      <3> QED
        BY <3>1 DEF Timed
    <2> QED
      BY <2>1, <2>2
  <1> QED
    BY <1>2, <1>3 DEF ExactTag, tag

(* Merging the tags of a node without bins keeps them, and makes no         *)
(* scenarios of its own.                                                    *)
LEMMA GrownInTimeKeeps ==
    ASSUME NEW h1 \in Heap, NEW h2, NEW m \in Node, Grown(h1, h2, m), GrownInTime(h1, h2, m)
    PROVE  /\ KeptInTime(h1, h2)
           /\ \A n \in Node : \A i \in DOMAIN h2[n] : ArisenInTime(h1, n, h2[n][i])
  <1>1. /\ \A n \in Node : n # m => h2[n] = h1[n]
        /\ DOMAIN h2[m] = DOMAIN h1[m]
        /\ \A i \in DOMAIN h1[m] : h2[m][i].trans = h1[m][i].trans
    BY DEF Grown, GrownTag
  <1>2. KeptInTime(h1, h2)
    BY <1>1 DEF KeptInTime, GrownInTime, TimedTag
  <1>3. ASSUME NEW i \in DOMAIN h2[m] PROVE ArisenInTime(h1, m, h2[m][i])
    <2>1. h2[m][i].arr = h1[m][i].arr /\ i \in DOMAIN h1[m]
      BY <1>1 DEF GrownInTime
    <2>2. \A s \in h2[m][i].scen : \E j \in DOMAIN h1[m] :
             TimedTag(h1[m][j]) = TimedTag(h2[m][i]) /\ s \in h1[m][j].scen
      BY <2>1 DEF GrownInTime
    <2> QED
      BY <2>1, <2>2 DEF ArisenInTime
  <1>4. ASSUME NEW n \in Node, n # m, NEW i \in DOMAIN h2[n] PROVE ArisenInTime(h1, n, h2[n][i])
    BY <1>1, <1>4 DEF ArisenInTime
  <1> QED
    BY <1>2, <1>3, <1>4

(* Without bins, every step keeps the tags and their times, and makes none  *)
(* out of nothing.                                                          *)
LEMMA TagsAriseInTime ==
    ASSUME TInv, ScaleOK, Next, opts.coarse = 0, opts.fine = 0
    PROVE  /\ KeptInTime(tags, tags')
           /\ \A n \in Node : \A i \in DOMAIN tags'[n] : ArisenInTime(tags, n, tags'[n][i])
  <1>0. HeapOK /\ WorkspaceOK /\ tags \in Heap
    BY DEF TInv, HeapOK
  <1>1. ASSUME tags' = tags
        PROVE  /\ KeptInTime(tags, tags')
               /\ \A n \in Node : \A i \in DOMAIN tags'[n] : ArisenInTime(tags, n, tags'[n][i])
    BY <1>1 DEF KeptInTime, ArisenInTime
  <1>2. ASSUME NEW n \in Node, PreTraverse(n) \/ TraverseClockNode(n)
        PROVE  /\ KeptInTime(tags, tags')
               /\ \A m \in Node : \A i \in DOMAIN tags'[m] : ArisenInTime(tags, m, tags'[m][i])
    <2>1. /\ tags[n] = <<>> /\ \A m \in Node : m # n => tags'[m] = tags[m]
          /\ \/ tags'[n] = <<>>
             \/ n \in LogicalInputs /\ tags'[n] = LaunchTags
             \/ Type[n] = "CONSTANT_GEN_SOURCE" /\ tags'[n] = <<Launch(Constant(n))>>
      BY <1>2, LaunchEffect
    <2>2. KeptInTime(tags, tags')
      BY <2>1 DEF KeptInTime
    <2>3. ASSUME NEW m \in Node, m # n, NEW i \in DOMAIN tags'[m] PROVE ArisenInTime(tags, m, tags'[m][i])
      BY <2>1, <2>3 DEF ArisenInTime
    <2>4. ASSUME NEW i \in DOMAIN tags'[n] PROVE ArisenInTime(tags, n, tags'[n][i])
      <3>1. \E trans : tags'[n][i] = Launch(trans)
        <4>1. CASE n \in LogicalInputs /\ tags'[n] = LaunchTags
          <5>1. i \in 1..4
            BY <4>1, <2>4 DEF LaunchTags
          <5> QED
            BY <4>1, <5>1 DEF LaunchTags
        <4>2. CASE Type[n] = "CONSTANT_GEN_SOURCE" /\ tags'[n] = <<Launch(Constant(n))>>
          <5>1. i = 1
            BY <4>2, <2>4
          <5> QED
            BY <4>2, <5>1
        <4> QED
          BY <2>1, <2>4, <4>1, <4>2
      <3>2. tags'[n][i].arr = 0 /\ tags'[n][i].scen = {}
        BY <3>1 DEF Launch
      <3> QED
        BY <3>2 DEF ArisenInTime
    <2> QED
      BY <2>2, <2>3, <2>4
  <1>3. ASSUME NEW n \in Node, BeginNode(n) PROVE tags' = tags
    BY <1>3 DEF BeginNode
  <1>4. CASE ReduceInput
    <2> DEFINE i == MostTags
               m == Fanin[node][i]
    <2>1. PICK k \in DataEdges(node) : Grown(tags, tags', Fanin[node][k])
      BY <1>4, ReduceStep
    <2>2. tags' = MergeTags(tags, srcs[i], NewBin, NewBin, Threshold(m)).heap /\ phase = "reduce"
      BY <1>4 DEF ReduceInput, Coarsened
    <2>3. i \in DataEdges(node)
      BY <1>0, <2>2, MostTagsIsInput
    <2>4. node \in Node /\ m \in Node /\ srcs[i] \in Seq(RefsAt(tags, m)) /\ Fanin[node][k] \in Node
      BY <1>0, <2>2, <2>3, NetFacts, DataNetFacts DEF WorkspaceOK
    <2>5. NewBin.num = 0
      <3>1. scale[i].num \in Nat
        BY <2>2, <2>3 DEF ScaleOK, BinSizes
      <3> HIDE DEF i
      <3>2. 0 * scale[i].num = 0
        BY <3>1
      <3> QED
        BY <3>2 DEF NewBin, Scaled, i
    <2> HIDE DEF i, m, NewBin
    <2>6. GrownInTime(tags, tags', m)
      BY <1>0, <2>2, <2>4, <2>5, MergedInTime
    <2>7. Grown(tags, tags', m)
      BY <1>0, <2>2, <2>4, MergeOutcome DEF Collected, MergeState
    <2> QED
      BY <1>0, <2>4, <2>6, <2>7, GrownInTimeKeeps
  <1>5. CASE StartEvaluation
    <2>1. tags' = tags
      BY <1>5 DEF StartEvaluation
    <2> QED
      BY <1>1, <2>1
  <1>6. CASE EvaluatePermutation
    <2>1. /\ phase = "eval" /\ node \in Node /\ Larger(tags, tags')
          /\ \A m \in Node : m # node => tags'[m] = tags[m]
      BY <1>6, EvaluateStep
    <2>2. PICK response \in Responses(node, InputTags(tags, CurrentRefs, node)) :
             \A i \in DOMAIN tags'[node] :
                AddedTag(tags[node], response, CurrentRefs, tags'[node][i], i)
      BY <1>6, EvaluateStep
    <2>3. /\ CurrentRefs \in ScenarioRefs(tags, node)
          /\ InputTags(tags, CurrentRefs, node) \in [DataEdges(node) -> TagType]
      BY <2>1, CurrentRefsAre
    <2>4. response \in Responses(node, Timed(tags, CurrentRefs, node))
      <3> DEFINE in == InputTags(tags, CurrentRefs, node)
      <3>1. Timed(tags, CurrentRefs, node) = [e \in DataEdges(node) |-> TimedTag(in[e])]
        BY DEF InputTags, Timed
      <3>2. DOMAIN in = DataEdges(node)
        BY DEF InputTags
      <3> HIDE DEF in
      <3> QED
        BY <2>1, <2>2, <3>1, <3>2, ResponsesOfTimes DEF in
    <2>5. response \in [trans : Transitions, arr : Nat]
      <3>1. delay \in DelayModels
        BY <1>0 DEF WorkspaceOK
      <3> QED
        BY <2>1, <2>2, <2>3, <3>1, ResponseFacts
    <2>6. Type[node] # "CONSTANT_GEN_SOURCE" /\ node \notin LogicalInputs
      BY <1>0, <2>1, EvaluatedNode DEF WorkspaceOK
    <2>7. ASSUME NEW i \in DOMAIN tags'[node] PROVE ArisenInTime(tags, node, tags'[node][i])
      <3> DEFINE tag == tags'[node][i]
      <3>1. AddedTag(tags[node], response, CurrentRefs, tag, i)
        BY <2>2
      <3> HIDE DEF tag
      <3>2. ASSUME tag.trans = response.trans, tag.arr = response.arr PROVE TimedTag(tag) = response
        BY <2>5, <3>2 DEF TimedTag
      <3>3. ASSUME i \in DOMAIN tags[node] PROVE TimedTag(tags[node][i]) = TimedTag(tag)
        BY <3>1, <3>3 DEF AddedTag, TimedTag
      <3>4. ASSUME NEW s \in tag.scen
            PROVE  \/ \E j \in DOMAIN tags[node] : TimedTag(tags[node][j]) = TimedTag(tag) /\ s \in tags[node][j].scen
                   \/ s \in ScenarioRefs(tags, node) /\ TimedTag(tag) \in Responses(node, Timed(tags, s, node))
        <4>1. \/ i \in DOMAIN tags[node] /\ s \in tags[node][i].scen
              \/ s = CurrentRefs /\ tag.trans = response.trans /\ tag.arr = response.arr
          BY <3>1 DEF AddedTag
        <4> QED
          BY <2>3, <2>4, <3>2, <3>3, <4>1
      <3> QED
        BY <2>6, <3>4 DEF ArisenInTime, tag
    <2>8. ASSUME NEW m \in Node, m # node, NEW i \in DOMAIN tags'[m] PROVE ArisenInTime(tags, m, tags'[m][i])
      BY <2>1, <2>8 DEF ArisenInTime
    <2>9. KeptInTime(tags, tags')
      <3>1. \A i \in DOMAIN tags[node] : i \in DOMAIN tags'[node]
        BY <2>1 DEF Larger
      <3> QED
        BY <2>1, <2>2, <3>1 DEF KeptInTime, AddedTag, TimedTag
    <2> QED
      BY <2>7, <2>8, <2>9
  <1>7. CASE FinishNode
    <2> DEFINE set == References(node, tags[node])
    <2>1. tags' = MergeTags(tags, set, Bin(opts.coarse), Bin(opts.fine), Threshold(node)).heap
      BY <1>7 DEF FinishNode
    <2>2. Grown(tags, tags', node) /\ node \in Node
      BY <1>7, FinishStep
    <2>3. set \in Seq(RefsAt(tags, node))
      <3>1. DOMAIN tags[node] = 1..Len(tags[node]) /\ Len(tags[node]) \in Nat
        BY <1>0, <2>2 DEF Heap
      <3>2. \A i \in DOMAIN tags[node] : <<node, i>> \in RefsAt(tags, node)
        BY <2>2, <3>1 DEF RefsAt, Reference
      <3>3. set = [i \in 1..Len(tags[node]) |-> <<node, i>>]
        BY <3>1 DEF References
      <3> QED
        BY <3>1, <3>2, <3>3
    <2>4. Bin(opts.coarse).num = 0 /\ Bin(opts.fine).num = 0
      BY DEF Bin
    <2> HIDE DEF set
    <2>5. GrownInTime(tags, tags', node)
      BY <1>0, <2>1, <2>2, <2>3, <2>4, MergedInTime
    <2> QED
      BY <1>0, <2>2, <2>5, GrownInTimeKeeps
  <1> QED
    BY <1>1, <1>2, <1>3, <1>4, <1>5, <1>6, <1>7 DEF Next
-------------------------------------------------------------------------------
(* The inductive invariant behind MatchesSimulation.                        *)
ExactTags == (opts.coarse = 0 /\ opts.fine = 0) => ExactHeap(tags)

(* No tag, none that is not exact.                                          *)
LEMMA ExactInitially == Init => ExactTags
  BY DEF Init, ExactTags, ExactHeap

(* Every step keeps tags exact, or makes exact ones.                        *)
LEMMA ExactStep == TInv /\ ScaleOK /\ ExactTags /\ [Next]_vars => ExactTags'
  <1> SUFFICES ASSUME TInv, ScaleOK, ExactTags, [Next]_vars, opts'.coarse = 0, opts'.fine = 0
               PROVE  ExactHeap(tags)'
    BY DEF ExactTags
  <1>1. opts' = opts /\ delay' = delay
    BY DEF Next, vars, PreTraverse, TraverseClockNode, BeginNode, ReduceInput, StartEvaluation,
           EvaluatePermutation, FinishNode, Configuration
  <1>2. opts.coarse = 0 /\ opts.fine = 0 /\ ExactHeap(tags)
    BY <1>1 DEF ExactTags
  <1>3. ExactHeap(tags')
    <2>1. CASE Next
      BY <1>2, <2>1, TagsAriseInTime, TInvIsWellFormed, ExactKept
    <2>2. CASE UNCHANGED vars
      <3>1. tags' = tags
        BY <2>2 DEF vars
      <3> QED
        BY <1>2, <3>1
    <2> QED
      BY <2>1, <2>2
  <1>4. ASSUME NEW n, NEW in PROVE Responses(n, in)' = Responses(n, in)
    BY <1>1, ResponsesStay
  <1> QED
    BY <1>3, <1>4 DEF ExactHeap, ExactTag
-------------------------------------------------------------------------------
(* The responses of a node are those to the responses of its inputs.        *)
NodeSimulated(a, values, n) ==
    IF n \in LogicalInputs THEN {[trans |-> a[n], arr |-> 0]}
    ELSE IF Type[n] = "CONSTANT_GEN_SOURCE"
         THEN {[trans |-> IF OnSet[n] = {} THEN "LOW" ELSE "HIGH", arr |-> 0]}
    ELSE IF \E i \in DataEdges(n) : values[Fanin[n][i]] = {} THEN {}
    ELSE UNION {Responses(n, in) :
            in \in {f \in [DataEdges(n) -> UNION {values[Fanin[n][i]] : i \in DataEdges(n)}] :
                      \A i \in DataEdges(n) : f[i] \in values[Fanin[n][i]]}}

(* Only the inputs of a node count.                                         *)
LEMMA SimulatedOfInputs ==
    ASSUME NEW a, NEW v, NEW w, NEW n \in Node,
           \A i \in DataEdges(n) : v[Fanin[n][i]] = w[Fanin[n][i]]
    PROVE  NodeSimulated(a, v, n) = NodeSimulated(a, w, n)
  <1> DEFINE all(u) == UNION {u[Fanin[n][i]] : i \in DataEdges(n)}
             ins(u) == {f \in [DataEdges(n) -> all(u)] : \A i \in DataEdges(n) : f[i] \in u[Fanin[n][i]]}
  <1>1. all(v) = all(w)
    <2>1. {v[Fanin[n][i]] : i \in DataEdges(n)} = {w[Fanin[n][i]] : i \in DataEdges(n)}
      OBVIOUS
    <2> QED
      BY <2>1
  <1> HIDE DEF all
  <1>2. ins(v) = ins(w)
    BY <1>1
  <1>3. (\E i \in DataEdges(n) : v[Fanin[n][i]] = {}) <=> (\E i \in DataEdges(n) : w[Fanin[n][i]] = {})
    OBVIOUS
  <1> QED
    BY <1>2, <1>3 DEF NodeSimulated, all

(* The fold over the nodes computes these responses.                        *)
LEMMA SimulatedEquation ==
    ASSUME NEW a
    PROVE  \A n \in Node : Simulated(a)[n] = NodeSimulated(a, Simulated(a), n)
  <1> DEFINE nodes == [n \in Node |-> n]
             Op(earlier, n) == Append(earlier, NodeSimulated(a, earlier, n))
             fold(iter) == [s \in SUBSET DOMAIN nodes |->
                             IF s = {} THEN <<>> ELSE Op(iter[s \ {Max(s)}], nodes[Max(s)])]
             latest == CHOOSE iter : iter = fold(iter)
  <1>1. NumNodes \in Nat /\ Node = 1..NumNodes /\ DOMAIN nodes = 1..NumNodes
        /\ \A k \in 1..NumNodes : nodes[k] = k
    BY NetFacts
  <1>2. Simulated(a) = latest[DOMAIN nodes]
    BY DEF Simulated, FoldLeft, MapThenFoldSet, NodeSimulated
  <1> HIDE DEF nodes, Op
  <1>3. latest = fold(latest)
    <2> DEFINE upTo(iter, k) == [s \in SUBSET (1..k) |->
                                   IF s = {} THEN <<>> ELSE Op(iter[s \ {Max(s)}], Max(s))]
               Q == {k \in Nat : \E iter : iter = upTo(iter, k)}
    <2>1. 0 \in Q
      <3> DEFINE none == [s \in SUBSET (1..0) |-> <<>>]
      <3>1. \A s \in SUBSET (1..0) : s = {}
        OBVIOUS
      <3>2. none = upTo(none, 0)
        BY <3>1
      <3> HIDE DEF upTo, none
      <3> QED
        BY <3>2
    <2>2. ASSUME NEW k \in Nat, k \in Q PROVE k + 1 \in Q
      <3>1. PICK iter : iter = upTo(iter, k)
        BY <2>2
      <3> DEFINE one(s) == IF s = {} THEN <<>> ELSE Op(iter[s \ {Max(s)}], Max(s))
                 more == [s \in SUBSET (1..(k + 1)) |-> one(s)]
      <3>2. ASSUME NEW s \in SUBSET (1..k) PROVE iter[s] = one(s)
        BY <3>1
      <3>3. ASSUME NEW s \in SUBSET (1..(k + 1)), s # {}
            PROVE  s \ {Max(s)} \in SUBSET (1..k)
        <4> HIDE DEF Q, upTo, fold, more
        <4>1. k + 1 \in Nat
          OBVIOUS
        <4>2. Max(s) \in s /\ \A x \in s : x <= Max(s)
          BY <3>3, <4>1, MaxOfInterval
        <4>3. ASSUME NEW x \in s \ {Max(s)} PROVE x \in 1..k
          <5> DEFINE last == Max(s)
          <5>1. last \in 1..(k + 1) /\ x \in 1..(k + 1) /\ x <= last /\ x # last
            BY <4>2
          <5> HIDE DEF last
          <5> QED
            BY <5>1
        <4> QED
          BY <4>3
      <3>4. ASSUME NEW s \in SUBSET (1..(k + 1)) PROVE more[s] = IF s = {} THEN <<>> ELSE Op(more[s \ {Max(s)}], Max(s))
        <4>1. CASE s = {}
          BY <4>1
        <4>2. CASE s # {}
          <5> DEFINE rest == s \ {Max(s)}
          <5>1. rest \in SUBSET (1..k) /\ rest \in SUBSET (1..(k + 1))
            BY <3>3, <4>2
          <5> HIDE DEF one
          <5>2. more[s] = one(s) /\ more[rest] = one(rest) /\ iter[rest] = one(rest)
            <6> HIDE DEF rest
            <6> QED
              BY <3>2, <5>1
          <5> HIDE DEF more
          <5> QED
            BY <4>2, <5>2 DEF one
        <4> QED
          BY <4>1, <4>2
      <3>5. more = [s \in SUBSET (1..(k + 1)) |-> more[s]]
        OBVIOUS
      <3> HIDE DEF more
      <3>6. more = upTo(more, k + 1)
        BY <3>4, <3>5
      <3> HIDE DEF upTo
      <3> QED
        BY <3>6
    <2> HIDE DEF Q
    <2>3. NumNodes \in Q
      BY <1>1, <2>1, <2>2, NaturalInduction
    <2>4. PICK iter : iter = upTo(iter, NumNodes)
      BY <2>3 DEF Q
    <2>5. iter = fold(iter)
      <3>1. ASSUME NEW s \in SUBSET (1..NumNodes), s # {} PROVE nodes[Max(s)] = Max(s)
        BY <1>1, <3>1, MaxOfInterval
      <3> QED
        BY <1>1, <2>4, <3>1
    <2> HIDE DEF fold
    <2> QED
      BY <2>5
  <1> HIDE DEF latest
  <1>4. latest[1..0] = <<>>
    <2>1. 1..0 = {} /\ 1..0 \in SUBSET DOMAIN nodes
      OBVIOUS
    <2> QED
      BY <1>3, <2>1
  <1>5. ASSUME NEW k \in Nat, k + 1 <= NumNodes PROVE latest[1..(k + 1)] = Op(latest[1..k], k + 1)
    <2>1. 1..(k + 1) \in SUBSET DOMAIN nodes /\ nodes[k + 1] = k + 1
      BY <1>1, <1>5
    <2>2. 1..(k + 1) # {} /\ Max(1..(k + 1)) = k + 1 /\ (1..(k + 1)) \ {k + 1} = 1..k
      BY PrefixMax
    <2>3. ASSUME NEW s \in SUBSET DOMAIN nodes, s # {} PROVE latest[s] = Op(latest[s \ {Max(s)}], nodes[Max(s)])
      BY <1>3, <2>3
    <2> QED
      BY <2>1, <2>2, <2>3
  <1> DEFINE Good(k) == LET v == latest[1..k] IN
                          /\ \E S : v \in Seq(S)
                          /\ Len(v) = k
                          /\ \A n \in 1..k : v[n] = NodeSimulated(a, v, n)
             Q == {k \in Nat : k <= NumNodes => Good(k)}
  <1>6. 0 \in Q
    <2>1. <<>> \in Seq({}) /\ Len(<<>>) = 0 /\ 1..0 = {}
      OBVIOUS
    <2> QED
      BY <1>4, <2>1
  <1>7. ASSUME NEW k \in Nat, k \in Q PROVE k + 1 \in Q
    <2> SUFFICES ASSUME k + 1 <= NumNodes PROVE Good(k + 1)
      <3> HIDE DEF Good
      <3> QED
        OBVIOUS
    <2>1. Good(k)
      <3> HIDE DEF Good
      <3>1. k <= NumNodes
        BY <1>1
      <3> QED
        BY <1>7, <3>1
    <2> DEFINE v == latest[1..k]
               e == NodeSimulated(a, v, k + 1)
               w == latest[1..(k + 1)]
    <2>2. PICK S : v \in Seq(S)
      BY <2>1
    <2>3. Len(v) = k /\ \A n \in 1..k : v[n] = NodeSimulated(a, v, n)
      BY <2>1
    <2>4. w = Append(v, e)
      BY <1>5 DEF Op
    <2> HIDE DEF v, e, w
    <2>5. /\ w \in Seq(S \cup {e}) /\ Len(w) = k + 1 /\ w[k + 1] = e
          /\ \A n \in 1..k : w[n] = v[n]
      <3>1. v \in Seq(S \cup {e})
        BY <2>2
      <3> QED
        BY <2>3, <2>4, <3>1
    <2>6. ASSUME NEW n \in 1..(k + 1) PROVE NodeSimulated(a, w, n) = NodeSimulated(a, v, n)
      <3>1. n \in Node
        BY <1>1
      <3>2. ASSUME NEW i \in DataEdges(n) PROVE w[Fanin[n][i]] = v[Fanin[n][i]]
        <4>1. Fanin[n][i] \in 1..k
          <5>1. Fanin[n][i] \in 1..(n - 1)
            BY <3>1, NetFacts, DataNetFacts
          <5> QED
            BY <5>1
        <4> QED
          BY <2>5, <4>1
      <3> QED
        BY <3>1, <3>2, SimulatedOfInputs
    <2>7. \A n \in 1..(k + 1) : w[n] = NodeSimulated(a, w, n)
      <3> TAKE n \in 1..(k + 1)
      <3>1. CASE n \in 1..k
        BY <2>3, <2>5, <2>6, <3>1
      <3>2. CASE n = k + 1
        BY <2>5, <2>6, <3>2 DEF e
      <3> QED
        BY <3>1, <3>2
    <2> QED
      BY <2>5, <2>7 DEF w
  <1> HIDE DEF Q
  <1>8. NumNodes \in Q
    BY <1>1, <1>6, <1>7, NaturalInduction
  <1>9. Good(NumNodes)
    <2> HIDE DEF Good
    <2>1. NumNodes <= NumNodes
      BY <1>1
    <2> QED
      BY <1>8, <2>1 DEF Q
  <1> QED
    BY <1>1, <1>2, <1>9

(* In a heap of sound and exact tags, every tag a scenario belongs to is an *)
(* answer of its node when that scenario is simulated: node by node, from   *)
(* the inputs on.                                                           *)
LEMMA ExactTagsHold ==
    ASSUME NEW heap, WellFormed(heap), SoundHeap(heap), ExactHeap(heap), NEW a \in CircuitScenarios
    PROVE  \A n \in Node : \A i \in DOMAIN heap[n] :
              a \in CoveredIn(heap)[n][i] => TimedTag(heap[n][i]) \in Simulated(a)[n]
  <1> DEFINE C == CoveredIn(heap)
             sim == Simulated(a)
             Good(n) == \A i \in DOMAIN heap[n] : a \in C[n][i] => TimedTag(heap[n][i]) \in sim[n]
             Q == {k \in Nat : \A n \in Node : n <= k => Good(n)}
  <1>1. \A n \in Node : sim[n] = NodeSimulated(a, sim, n)
    BY SimulatedEquation
  <1>2. \A n \in Node : \A i \in DOMAIN heap[n] : C[n][i] = TagScenarios(C, n, heap[n][i])
    BY CoveredEquation
  <1>3. Node = 1..NumNodes /\ NumNodes \in Nat
    BY NetFacts
  <1> HIDE DEF C, sim
  <1>4. 0 \in Q
    <2>1. \A n \in Node : ~(n <= 0)
      BY <1>3
    <2> HIDE DEF Good
    <2> QED
      BY <2>1
  <1>5. ASSUME NEW k \in Nat, k \in Q PROVE k + 1 \in Q
    <2> SUFFICES ASSUME NEW n \in Node, n <= k + 1 PROVE Good(n)
      <3> HIDE DEF Good
      <3> QED
        OBVIOUS
    <2>1. \A m \in Node : m < n => Good(m)
      <3> HIDE DEF Good
      <3>1. \A m \in Node : m < n => m <= k
        BY <1>3
      <3> QED
        BY <1>5, <3>1
    <2> SUFFICES ASSUME NEW i \in DOMAIN heap[n], a \in C[n][i] PROVE TimedTag(heap[n][i]) \in sim[n]
      OBVIOUS
    <2> DEFINE tag == heap[n][i]
    <2>2. SoundTag(heap, n, tag) /\ ExactTag(heap, n, tag) /\ a \in TagScenarios(C, n, tag)
          /\ tag.scen \subseteq ScenarioRefs(heap, n)
      BY <1>2 DEF SoundHeap, ExactHeap, WellFormed
    <2>3. sim[n] = NodeSimulated(a, sim, n)
      BY <1>1
    <2> HIDE DEF tag
    <2>4. CASE Type[n] = "CONSTANT_GEN_SOURCE"
      <3>1. n \notin LogicalInputs
        BY <2>4 DEF LogicalInputs
      <3>2. tag.trans = Constant(n) /\ tag.arr = 0
        BY <2>2, <2>4 DEF SoundTag, ExactTag
      <3> QED
        BY <2>3, <2>4, <3>1, <3>2 DEF NodeSimulated, Constant, TimedTag, tag
    <2>5. CASE n \in LogicalInputs
      <3>1. Type[n] # "CONSTANT_GEN_SOURCE"
        BY <2>5 DEF LogicalInputs
      <3>2. tag.trans = a[n] /\ tag.arr = 0
        BY <2>2, <2>5, <3>1 DEF TagScenarios, ExactTag
      <3> QED
        BY <2>3, <2>5, <3>2 DEF NodeSimulated, TimedTag, tag
    <2>6. CASE Type[n] # "CONSTANT_GEN_SOURCE" /\ n \notin LogicalInputs
      <3>1. PICK s \in tag.scen : \A e \in DOMAIN s : a \in C[s[e][1]][s[e][2]]
        BY <2>2, <2>6 DEF TagScenarios, Satisfying
      <3>2. s \in ScenarioRefs(heap, n) /\ DOMAIN s = DataEdges(n)
        BY <2>2, <3>1 DEF ScenarioRefs
      <3> DEFINE f == Timed(heap, s, n)
      <3>3. ASSUME NEW e \in DataEdges(n) PROVE f[e] \in sim[Fanin[n][e]]
        <4>1. Fanin[n][e] \in Node /\ Fanin[n][e] < n
          BY NetFacts, DataNetFacts
        <4>2. s[e] \in RefsAt(heap, Fanin[n][e])
          BY <3>2 DEF ScenarioRefs
        <4>3. s[e][1] = Fanin[n][e] /\ s[e][2] \in DOMAIN heap[Fanin[n][e]]
          BY <4>2 DEF RefsAt
        <4>4. a \in C[Fanin[n][e]][s[e][2]]
          BY <3>1, <3>2, <4>3
        <4>5. Good(Fanin[n][e])
          <5> HIDE DEF Good
          <5> QED
            BY <2>1, <4>1
        <4>6. f[e] = TimedTag(heap[Fanin[n][e]][s[e][2]])
          BY <4>3 DEF Timed, At
        <4> QED
          BY <4>3, <4>4, <4>5, <4>6
      <3>4. TimedTag(tag) \in Responses(n, f)
        BY <2>2, <3>1 DEF ExactTag
      <3>5. f \in [DataEdges(n) -> UNION {sim[Fanin[n][e]] : e \in DataEdges(n)}]
        <4>1. f = [e \in DataEdges(n) |-> f[e]]
          BY DEF Timed
        <4> HIDE DEF f
        <4>2. \A e \in DataEdges(n) : f[e] \in UNION {sim[Fanin[n][d]] : d \in DataEdges(n)}
          BY <3>3
        <4> QED
          BY <4>1, <4>2
      <3> HIDE DEF f
      <3>6. ~\E e \in DataEdges(n) : sim[Fanin[n][e]] = {}
        BY <3>3
      <3> DEFINE ins == {in \in [DataEdges(n) -> UNION {sim[Fanin[n][e]] : e \in DataEdges(n)}] :
                            \A e \in DataEdges(n) : in[e] \in sim[Fanin[n][e]]}
      <3>7. f \in ins
        BY <3>3, <3>5
      <3>8. sim[n] = UNION {Responses(n, in) : in \in ins}
        BY <2>3, <2>6, <3>6 DEF NodeSimulated
      <3> HIDE DEF ins
      <3> QED
        BY <3>4, <3>7, <3>8 DEF tag
    <2> QED
      BY <2>4, <2>5, <2>6
  <1> HIDE DEF Q
  <1>6. \A k \in Nat : k \in Q
    BY <1>4, <1>5, NaturalInduction
  <1>7. ASSUME NEW n \in Node PROVE Good(n)
    <2> HIDE DEF Good
    <2>1. n \in Nat /\ n <= n /\ n \in Q
      BY <1>3, <1>6
    <2> QED
      BY <2>1 DEF Q
  <1> QED
    BY <1>7 DEF C, sim

(* For any circuit and delays: without binning, whatever the limit on       *)
(* permutations, a tag that stands for a scenario has the transition and    *)
(* the arrival time that evaluating this one scenario alone may give.       *)
THEOREM ExactWithoutBins == Spec => []MatchesSimulation
  <1>1. TInv /\ SoundTags /\ ExactTags => MatchesSimulation
    <2> SUFFICES ASSUME TInv, SoundHeap(tags), ExactTags, opts.coarse = 0, opts.fine = 0,
                        NEW a \in CircuitScenarios, NEW n \in Node, NEW t \in ToSet(dataTags[n]),
                        a \in ScenariosOf(Covered, t)
                 PROVE  [trans |-> At(tags, t).trans, arr |-> At(tags, t).arr] \in Simulated(a)[n]
      BY DEF SoundTags, MatchesSimulation
    <2>1. WellFormed(tags) /\ ExactHeap(tags)
      BY TInvIsWellFormed DEF ExactTags
    <2>2. t \in RefsAt(tags, n)
      <3>1. dataTags[n] \in Seq(RefsAt(tags, n))
        BY DEF TInv, HeapOK
      <3> QED
        BY <3>1 DEF ToSet
    <2>3. t[1] = n /\ t[2] \in DOMAIN tags[n]
      BY <2>2 DEF RefsAt
    <2>4. a \in CoveredIn(tags)[n][t[2]]
      BY <2>3 DEF ScenariosOf, Covered
    <2>5. TimedTag(tags[n][t[2]]) \in Simulated(a)[n]
      BY <2>1, <2>3, <2>4, ExactTagsHold
    <2> QED
      BY <2>3, <2>5 DEF TimedTag, At
  <1>2. TInv /\ ScaleOK /\ SoundTags /\ ExactTags /\ [Next]_vars
           => TInv' /\ ScaleOK' /\ SoundTags' /\ ExactTags'
    BY TInvStep, ScaleStep, SoundStep, ExactStep
  <1> QED
    BY <1>1, <1>2, TInvInitially, ScaleInitially, SoundInitially, ExactInitially, PTL DEF Spec
-------------------------------------------------------------------------------
(* What circuit_max_delays makes of output tags.                            *)
MaxTagType == [trans : {"MAX"}, arr : Nat, scen : SUBSET AnyScenario]

(* seq has the arrivals and the scenarios of the tags of S, and no others.  *)
MaxOf(seq, S) ==
    /\ seq \in Seq(MaxTagType)
    /\ \A t \in S : \E k \in DOMAIN seq : seq[k].arr = t.arr /\ t.scen \subseteq seq[k].scen
    /\ \A k \in DOMAIN seq : \A s \in seq[k].scen :
          \E t \in S : t.arr = seq[k].arr /\ s \in t.scen

(* One call of max_arr() adds the tag.                                      *)
LEMMA AddMaxTagEffect ==
    ASSUME NEW seq, NEW S, MaxOf(seq, S), NEW tag \in TagType
    PROVE  MaxOf(AddMaxTag(seq, tag), S \cup {tag})
  <1> DEFINE same == {k \in DOMAIN seq : seq[k].arr = tag.arr}
             new == AddMaxTag(seq, tag)
  <1>1. /\ seq \in Seq(MaxTagType)
        /\ DOMAIN seq = 1..Len(seq) /\ Len(seq) \in Nat
        /\ \A k \in DOMAIN seq : seq[k] \in MaxTagType
    BY DEF MaxOf
  <1>2. tag.arr \in Nat /\ tag.scen \in SUBSET AnyScenario
    BY DEF TagType
  <1>3. CASE same = {}
    <2> DEFINE max == [tag EXCEPT !.trans = "MAX"]
               last == Len(seq) + 1
    <2>1. max.arr = tag.arr /\ max.scen = tag.scen /\ max \in MaxTagType
      BY DEF TagType, MaxTagType
    <2>2. new = Append(seq, max)
      BY <1>3 DEF AddMaxTag
    <2> HIDE DEF max, new
    <2>3. /\ new \in Seq(MaxTagType) /\ DOMAIN new = 1..last /\ new[last] = max
          /\ \A k \in DOMAIN seq : k \in DOMAIN new /\ new[k] = seq[k]
          /\ last \in DOMAIN new /\ \A k \in DOMAIN new : k \in DOMAIN seq \/ k = last
      BY <1>1, <2>1, <2>2
    <2> HIDE DEF last
    <2>4. ASSUME NEW t \in S \cup {tag}
          PROVE  \E k \in DOMAIN new : new[k].arr = t.arr /\ t.scen \subseteq new[k].scen
      <3>1. CASE t \in S
        <4>1. PICK k \in DOMAIN seq : seq[k].arr = t.arr /\ t.scen \subseteq seq[k].scen
          BY <3>1 DEF MaxOf
        <4> QED
          BY <2>3, <4>1
      <3>2. CASE t = tag
        BY <2>1, <2>3, <3>2
      <3> QED
        BY <3>1, <3>2
    <2>5. ASSUME NEW k \in DOMAIN new, NEW s \in new[k].scen
          PROVE  \E t \in S \cup {tag} : t.arr = new[k].arr /\ s \in t.scen
      <3>1. CASE k \in DOMAIN seq
        <4>1. PICK t \in S : t.arr = seq[k].arr /\ s \in t.scen
          BY <2>3, <3>1 DEF MaxOf
        <4> QED
          BY <2>3, <3>1, <4>1
      <3>2. CASE k = last
        BY <2>1, <2>3, <3>2
      <3> QED
        BY <2>3, <3>1, <3>2
    <2> QED
      BY <2>3, <2>4, <2>5 DEF MaxOf, new
  <1>4. CASE same # {}
    <2> DEFINE j == Min(same)
               scen == seq[j].scen \cup tag.scen
               grown == [seq[j] EXCEPT !.scen = scen]
    <2>1. j \in same
      <3>1. same \in SUBSET Nat
        BY <1>1
      <3> HIDE DEF same
      <3> QED
        BY <1>4, <3>1, LeastMember
    <2>2. new = [seq EXCEPT ![j] = grown]
      <3>1. new = [seq EXCEPT ![j].scen = @ \cup tag.scen]
        BY <1>4 DEF AddMaxTag
      <3> QED
        BY <3>1
    <2>3. j \in DOMAIN seq /\ seq[j].arr = tag.arr
      BY <2>1
    <2> HIDE DEF j, new, same
    <2>4. grown.arr = seq[j].arr /\ grown.scen = scen /\ grown \in MaxTagType
      BY <1>1, <1>2, <2>3 DEF MaxTagType
    <2> HIDE DEF grown, scen
    <2>5. /\ new \in Seq(MaxTagType) /\ DOMAIN new = DOMAIN seq /\ new[j] = grown
          /\ \A k \in DOMAIN seq : k # j => new[k] = seq[k]
      BY <1>1, <2>2, <2>3, <2>4
    <2>6. \A k \in DOMAIN seq : new[k].arr = seq[k].arr /\ seq[k].scen \subseteq new[k].scen
      BY <2>4, <2>5 DEF scen
    <2>7. ASSUME NEW t \in S \cup {tag}
          PROVE  \E k \in DOMAIN new : new[k].arr = t.arr /\ t.scen \subseteq new[k].scen
      <3>1. CASE t \in S
        <4>1. PICK k \in DOMAIN seq : seq[k].arr = t.arr /\ t.scen \subseteq seq[k].scen
          BY <3>1 DEF MaxOf
        <4> QED
          BY <2>5, <2>6, <4>1
      <3>2. CASE t = tag
        BY <2>3, <2>4, <2>5, <3>2 DEF scen
      <3> QED
        BY <3>1, <3>2
    <2>8. ASSUME NEW k \in DOMAIN new, NEW s \in new[k].scen
          PROVE  \E t \in S \cup {tag} : t.arr = new[k].arr /\ s \in t.scen
      <3>1. CASE s \in seq[k].scen
        <4>1. PICK t \in S : t.arr = seq[k].arr /\ s \in t.scen
          BY <2>5, <3>1 DEF MaxOf
        <4> QED
          BY <2>5, <2>6, <4>1
      <3>2. CASE s \notin seq[k].scen
        <4>1. k = j /\ s \in tag.scen
          BY <2>4, <2>5, <3>2 DEF scen
        <4> QED
          BY <2>3, <2>4, <2>5, <4>1
      <3> QED
        BY <3>1, <3>2
    <2> QED
      BY <2>5, <2>7, <2>8 DEF MaxOf, new
  <1> QED
    BY <1>3, <1>4
-------------------------------------------------------------------------------
(* What holds of the start of a fold and after every step of it holds of    *)
(* its result.                                                              *)
LEMMA FoldTurns ==
    ASSUME NEW S, NEW n, NEW base, NEW step, StepsWithin(S, n, base, step),
           NEW iter, FoldsOver(iter, S, n, base, step), NEW good, base \in good[0],
           \A k \in Nat : k + 1 <= n => \A v \in S : v \in good[k] => step[<<v, k + 1>>] \in good[k + 1]
    PROVE  iter[1..n] \in S /\ iter[1..n] \in good[n]
  <1>1. n \in Nat
    BY DEF StepsWithin
  <1>2. /\ iter[1..0] = base /\ \A k \in 0..n : iter[1..k] \in S
        /\ \A k \in Nat : k + 1 <= n => iter[1..(k + 1)] = step[<<iter[1..k], k + 1>>]
    BY FoldPrefix
  <1> DEFINE Q == {k \in Nat : k <= n => iter[1..k] \in good[k]}
  <1>3. 0 \in Q
    BY <1>2
  <1>4. ASSUME NEW k \in Nat, k \in Q PROVE k + 1 \in Q
    <2> SUFFICES ASSUME k + 1 <= n PROVE iter[1..(k + 1)] \in good[k + 1]
      OBVIOUS
    <2>1. k <= n /\ k \in 0..n
      BY <1>1
    <2>2. iter[1..k] \in good[k] /\ iter[1..k] \in S
      BY <1>2, <1>4, <2>1
    <2> QED
      BY <1>2, <2>2
  <1> HIDE DEF Q
  <1>5. n \in Q
    BY <1>1, <1>3, <1>4, NaturalInduction
  <1> QED
    BY <1>1, <1>2, <1>5 DEF Q

(* Sequences of output tags stay such sequences.                            *)
LEMMA AddMaxTagType ==
    ASSUME NEW seq \in Seq(MaxTagType), NEW tag \in TagType
    PROVE  AddMaxTag(seq, tag) \in Seq(MaxTagType)
  <1> DEFINE S == {seq[k] : k \in DOMAIN seq}
  <1>1. MaxOf(seq, S)
    BY DEF MaxOf
  <1>2. MaxOf(AddMaxTag(seq, tag), S \cup {tag})
    BY <1>1, AddMaxTagEffect
  <1> QED
    BY <1>2 DEF MaxOf

(* The tags of the first k references of a set.                             *)
TagsTo(heap, set, k) == {At(heap, set[j]) : j \in 1..k}

(* The tags of one output are added.                                        *)
LEMMA AddedSet ==
    ASSUME NEW heap, NEW base, NEW S, MaxOf(base, S), NEW set, NEW n \in Nat, DOMAIN set = 1..n,
           \A k \in 1..n : At(heap, set[k]) \in TagType
    PROVE  MaxOf(FoldLeft(LAMBDA s, t : AddMaxTag(s, At(heap, t)), base, set), S \cup TagsTo(heap, set, n))
  <1> DEFINE V == Seq(MaxTagType)
             Op(v, t) == AddMaxTag(v, At(heap, t))
             step == [p \in V \X (1..n) |-> Op(p[1], set[p[2]])]
             fold(iter) == [s \in SUBSET DOMAIN set |->
                             IF s = {} THEN base ELSE Op(iter[s \ {Max(s)}], set[Max(s)])]
             latest == CHOOSE iter : iter = fold(iter)
             good == [k \in 0..n |-> {v \in V : MaxOf(v, S \cup TagsTo(heap, set, k))}]
  <1>1. FoldLeft(LAMBDA s, t : AddMaxTag(s, At(heap, t)), base, set) = latest[DOMAIN set]
    BY DEF FoldLeft, MapThenFoldSet
  <1>2. ASSUME NEW v \in V, NEW k \in 1..n PROVE Op(v, set[k]) \in V
    BY AddMaxTagType
  <1>3. base \in V
    BY DEF MaxOf
  <1>4. ASSUME NEW k \in Nat, k + 1 <= n, NEW v \in V, v \in good[k]
        PROVE  Op(v, set[k + 1]) \in good[k + 1]
    <2>1. k \in 0..n /\ k + 1 \in 0..n /\ k + 1 \in 1..n
      BY <1>4
    <2> DEFINE tag == At(heap, set[k + 1])
               before == S \cup TagsTo(heap, set, k)
    <2>2. MaxOf(v, before) /\ tag \in TagType
      BY <1>4, <2>1
    <2>3. TagsTo(heap, set, k + 1) = TagsTo(heap, set, k) \cup {tag}
      <3>1. 1..(k + 1) = (1..k) \cup {k + 1}
        OBVIOUS
      <3> QED
        BY <3>1 DEF TagsTo
    <2>4. S \cup TagsTo(heap, set, k + 1) = before \cup {tag}
      BY <2>3
    <2> HIDE DEF tag, before
    <2>5. MaxOf(AddMaxTag(v, tag), S \cup TagsTo(heap, set, k + 1))
      BY <2>2, <2>4, AddMaxTagEffect
    <2>6. AddMaxTag(v, tag) \in V
      BY <2>2, AddMaxTagType
    <2> QED
      BY <2>1, <2>5, <2>6 DEF tag
  <1>5. base \in good[0]
    <2>1. TagsTo(heap, set, 0) = {} /\ 0 \in 0..n
      BY DEF TagsTo
    <2>2. S \cup TagsTo(heap, set, 0) = S
      BY <2>1
    <2> QED
      BY <1>3, <2>1, <2>2
  <1> HIDE DEF Op, V, good
  <1>6. step \in [V \X (1..n) -> V] /\ \A v \in V, k \in 1..n : step[<<v, k>>] = Op(v, set[k])
    BY <1>2
  <1> HIDE DEF step
  <1>7. StepsWithin(V, n, base, step)
    BY <1>3, <1>6 DEF StepsWithin
  <1>8. latest = fold(latest)
    <2>1. PICK iter : FoldsOver(iter, V, n, base, step)
      BY <1>7, FoldExists
    <2>2. /\ iter \in [SUBSET (1..n) -> V]
          /\ \A s \in SUBSET (1..n) :
               iter[s] = IF s = {} THEN base ELSE step[<<iter[s \ {Max(s)}], Max(s)>>]
      BY <2>1 DEF FoldsOver
    <2>3. ASSUME NEW s \in SUBSET (1..n), s # {}
          PROVE  step[<<iter[s \ {Max(s)}], Max(s)>>] = Op(iter[s \ {Max(s)}], set[Max(s)])
      <3>1. Max(s) \in 1..n
        BY <2>3, MaxOfInterval
      <3>2. iter[s \ {Max(s)}] \in V
        BY <2>2
      <3> QED
        BY <1>6, <3>1, <3>2
    <2>4. iter = fold(iter)
      BY <2>2, <2>3
    <2> HIDE DEF fold
    <2> QED
      BY <2>4
  <1> HIDE DEF latest
  <1>9. FoldEquation(latest, V, n, base, step)
    <2>1. latest = [s \in SUBSET (1..n) |-> latest[s]] /\ latest[{}] = base
      BY <1>8
    <2>2. ASSUME NEW s \in SUBSET (1..n), s # {}, latest[s \ {Max(s)}] \in V
          PROVE  latest[s] = step[<<latest[s \ {Max(s)}], Max(s)>>]
      <3>1. Max(s) \in 1..n
        BY <2>2, MaxOfInterval
      <3>2. latest[s] = Op(latest[s \ {Max(s)}], set[Max(s)])
        BY <1>8, <2>2
      <3> QED
        BY <1>6, <2>2, <3>1, <3>2
    <2> QED
      BY <2>1, <2>2 DEF FoldEquation
  <1>10. FoldsOver(latest, V, n, base, step)
    BY <1>7, <1>9, FoldsByEquation
  <1>11. \A k \in Nat : k + 1 <= n => \A v \in V : v \in good[k] => step[<<v, k + 1>>] \in good[k + 1]
    <2> TAKE k \in Nat
    <2> HAVE k + 1 <= n
    <2> TAKE v \in V
    <2> HAVE v \in good[k]
    <2>1. k + 1 \in 1..n
      OBVIOUS
    <2> QED
      BY <1>4, <1>6, <2>1
  <1>12. latest[1..n] \in good[n]
    BY <1>5, <1>7, <1>10, <1>11, FoldTurns
  <1>13. n \in 0..n
    OBVIOUS
  <1> QED
    BY <1>1, <1>12, <1>13 DEF good

(* The tags of the first k outputs.                                         *)
TagsOfNode(n) == TagsTo(tags, dataTags[n], Len(dataTags[n]))
TagsOfOutputs(outputs, k) == UNION {TagsOfNode(outputs[j]) : j \in 1..k}

(* circuit_max_delays collects the tags of all outputs.                     *)
LEMMA MaxTagsAre ==
    ASSUME TInv, NEW n \in Nat, NEW outputs \in [1..n -> Node]
    PROVE  MaxOf(MaxTags(outputs), TagsOfOutputs(outputs, n))
  <1> DEFINE V == Seq(MaxTagType)
             step == [p \in V \X (1..n) |-> AddTagsOf(p[1], outputs[p[2]])]
             fold(iter) == [s \in SUBSET DOMAIN outputs |->
                             IF s = {} THEN <<>> ELSE AddTagsOf(iter[s \ {Max(s)}], outputs[Max(s)])]
             latest == CHOOSE iter : iter = fold(iter)
             good == [k \in 0..n |-> {v \in V : MaxOf(v, TagsOfOutputs(outputs, k))}]
  <1>1. MaxTags(outputs) = latest[DOMAIN outputs] /\ DOMAIN outputs = 1..n
    BY DEF MaxTags, FoldLeft, MapThenFoldSet
  <1>2. ASSUME NEW v \in V, NEW S, MaxOf(v, S), NEW m \in Node
        PROVE  MaxOf(AddTagsOf(v, m), S \cup TagsOfNode(m))
    <2> DEFINE set == dataTags[m]
    <2>1. set \in Seq(RefsAt(tags, m)) /\ tags \in Heap
      BY DEF TInv, HeapOK
    <2>2. Len(set) \in Nat /\ DOMAIN set = 1..Len(set)
      BY <2>1
    <2>3. \A k \in 1..Len(set) : At(tags, set[k]) \in TagType
      <3> TAKE k \in 1..Len(set)
      <3>1. set[k] \in RefsAt(tags, m)
        BY <2>1, <2>2
      <3>2. set[k][1] = m /\ set[k][2] \in DOMAIN tags[m]
        BY <3>1 DEF RefsAt
      <3> QED
        BY <2>1, <3>2, TagsOfHeap DEF At
    <2> HIDE DEF set
    <2>4. MaxOf(FoldLeft(LAMBDA s, t : AddMaxTag(s, At(tags, t)), v, set), S \cup TagsTo(tags, set, Len(set)))
      BY <1>2, <2>2, <2>3, AddedSet
    <2> QED
      BY <2>4 DEF AddTagsOf, TagsOfNode, set
  <1>3. ASSUME NEW v \in V, NEW k \in 1..n PROVE AddTagsOf(v, outputs[k]) \in V
    <2> DEFINE S == {v[i] : i \in DOMAIN v}
    <2>1. MaxOf(v, S)
      BY DEF MaxOf
    <2> HIDE DEF S
    <2>2. MaxOf(AddTagsOf(v, outputs[k]), S \cup TagsOfNode(outputs[k]))
      BY <1>2, <2>1
    <2> QED
      BY <2>2 DEF MaxOf
  <1>4. ASSUME NEW k \in Nat, k + 1 <= n, NEW v \in V, v \in good[k]
        PROVE  AddTagsOf(v, outputs[k + 1]) \in good[k + 1]
    <2>1. k \in 0..n /\ k + 1 \in 0..n /\ k + 1 \in 1..n
      BY <1>4
    <2> DEFINE m == outputs[k + 1]
    <2>2. MaxOf(v, TagsOfOutputs(outputs, k)) /\ m \in Node
      BY <1>4, <2>1
    <2>3. TagsOfOutputs(outputs, k + 1) = TagsOfOutputs(outputs, k) \cup TagsOfNode(m)
      <3>1. 1..(k + 1) = (1..k) \cup {k + 1}
        OBVIOUS
      <3> QED
        BY <3>1 DEF TagsOfOutputs
    <2> HIDE DEF m
    <2>4. MaxOf(AddTagsOf(v, m), TagsOfOutputs(outputs, k + 1))
      BY <1>2, <2>2, <2>3
    <2>5. AddTagsOf(v, m) \in V
      BY <2>4 DEF MaxOf
    <2> QED
      BY <2>1, <2>4, <2>5 DEF m
  <1>5. <<>> \in V /\ <<>> \in good[0]
    <2>1. TagsOfOutputs(outputs, 0) = {} /\ 0 \in 0..n
      BY DEF TagsOfOutputs
    <2>2. MaxOf(<<>>, TagsOfOutputs(outputs, 0)) /\ <<>> \in V
      BY <2>1 DEF MaxOf
    <2> DEFINE empty == <<>>
    <2> HIDE DEF empty, V
    <2>3. empty \in good[0]
      BY <2>1, <2>2 DEF empty
    <2> QED
      BY <2>2, <2>3 DEF empty
  <1> HIDE DEF V, good
  <1>6. step \in [V \X (1..n) -> V] /\ \A v \in V, k \in 1..n : step[<<v, k>>] = AddTagsOf(v, outputs[k])
    BY <1>3
  <1> HIDE DEF step
  <1>7. StepsWithin(V, n, <<>>, step)
    BY <1>5, <1>6 DEF StepsWithin
  <1>8. latest = fold(latest)
    <2>1. PICK iter : FoldsOver(iter, V, n, <<>>, step)
      BY <1>7, FoldExists
    <2>2. /\ iter \in [SUBSET (1..n) -> V]
          /\ \A s \in SUBSET (1..n) :
               iter[s] = IF s = {} THEN <<>> ELSE step[<<iter[s \ {Max(s)}], Max(s)>>]
      BY <2>1 DEF FoldsOver
    <2>3. ASSUME NEW s \in SUBSET (1..n), s # {}
          PROVE  step[<<iter[s \ {Max(s)}], Max(s)>>] = AddTagsOf(iter[s \ {Max(s)}], outputs[Max(s)])
      <3>1. Max(s) \in 1..n
        BY <2>3, MaxOfInterval
      <3>2. iter[s \ {Max(s)}] \in V
        BY <2>2
      <3> QED
        BY <1>6, <3>1, <3>2
    <2>4. iter = fold(iter)
      BY <2>2, <2>3
    <2> HIDE DEF fold
    <2> QED
      BY <2>4
  <1> HIDE DEF latest
  <1>9. FoldEquation(latest, V, n, <<>>, step)
    <2>1. latest = [s \in SUBSET (1..n) |-> latest[s]] /\ latest[{}] = <<>>
      BY <1>8
    <2>2. ASSUME NEW s \in SUBSET (1..n), s # {}, latest[s \ {Max(s)}] \in V
          PROVE  latest[s] = step[<<latest[s \ {Max(s)}], Max(s)>>]
      <3>1. Max(s) \in 1..n
        BY <2>2, MaxOfInterval
      <3>2. latest[s] = AddTagsOf(latest[s \ {Max(s)}], outputs[Max(s)])
        BY <1>8, <2>2
      <3> QED
        BY <1>6, <2>2, <3>1, <3>2
    <2> QED
      BY <2>1, <2>2 DEF FoldEquation
  <1>10. FoldsOver(latest, V, n, <<>>, step)
    BY <1>7, <1>9, FoldsByEquation
  <1>11. \A k \in Nat : k + 1 <= n => \A v \in V : v \in good[k] => step[<<v, k + 1>>] \in good[k + 1]
    <2> TAKE k \in Nat
    <2> HAVE k + 1 <= n
    <2> TAKE v \in V
    <2> HAVE v \in good[k]
    <2>1. k + 1 \in 1..n
      OBVIOUS
    <2> QED
      BY <1>4, <1>6, <2>1
  <1>12. latest[1..n] \in good[n]
    BY <1>5, <1>7, <1>10, <1>11, FoldTurns
  <1>13. n \in 0..n
    OBVIOUS
  <1> QED
    BY <1>1, <1>12, <1>13 DEF good
-------------------------------------------------------------------------------
(* The tags to be merged are the one sequence of a heap of their own.  As a *)
(* heap of the first node, their transition made RISE, it is one the lemmas *)
(* about merging speak of.                                                  *)
OneHeap == {<<seq>> : seq \in Seq(MaxTagType)}

Lift(heap) ==
    [n \in Node |-> IF n = 1 THEN [k \in DOMAIN heap[1] |-> [heap[1][k] EXCEPT !.trans = "RISE"]]
                    ELSE <<>>]

LiftState(st) == [heap |-> Lift(st.heap), merged |-> st.merged]

(* Only the transitions differ.                                             *)
LEMMA LiftFacts ==
    ASSUME NEW heap \in OneHeap
    PROVE  /\ heap[1] \in Seq(MaxTagType) /\ heap = <<heap[1]>> /\ 1 \in Node
           /\ Lift(heap) \in Heap /\ DOMAIN Lift(heap)[1] = DOMAIN heap[1]
           /\ \A t \in RefsAt(Lift(heap), 1) :
                /\ t[1] = 1 /\ t[2] \in DOMAIN heap[1]
                /\ At(heap, t) = heap[1][t[2]] /\ heap[1][t[2]] \in MaxTagType
                /\ At(Lift(heap), t) = [At(heap, t) EXCEPT !.trans = "RISE"]
                /\ At(Lift(heap), t).trans = "RISE" /\ At(heap, t).trans = "MAX"
                /\ At(Lift(heap), t).arr = At(heap, t).arr
                /\ At(Lift(heap), t).scen = At(heap, t).scen
  <1>1. PICK seq \in Seq(MaxTagType) : heap = <<seq>>
    BY DEF OneHeap
  <1>2. heap[1] = seq /\ heap = <<heap[1]>> /\ 1 \in Node
    BY <1>1, NetAssumption DEF Node
  <1> DEFINE up == [k \in DOMAIN seq |-> [seq[k] EXCEPT !.trans = "RISE"]]
  <1>3. \A k \in DOMAIN seq : seq[k] \in MaxTagType /\ DOMAIN seq = 1..Len(seq) /\ Len(seq) \in Nat
    OBVIOUS
  <1>4. \A tag \in MaxTagType : LET new == [tag EXCEPT !.trans = "RISE"] IN
           /\ new \in TagType /\ new.trans = "RISE" /\ new.arr = tag.arr /\ new.scen = tag.scen
           /\ tag.trans = "MAX"
    BY DEF MaxTagType, TagType, Transitions, Dynamic
  <1>5. up \in Seq(TagType) /\ DOMAIN up = DOMAIN seq
    <2>1. \A k \in DOMAIN seq : [seq[k] EXCEPT !.trans = "RISE"] \in TagType
      BY <1>3, <1>4
    <2>2. up \in [1..Len(seq) -> TagType] /\ Len(seq) \in Nat
      BY <2>1
    <2> QED
      BY <2>2
  <1>6. Lift(heap) = [n \in Node |-> IF n = 1 THEN up ELSE <<>>]
    BY <1>2 DEF Lift
  <1>7. \A k \in DOMAIN seq : up[k] = [seq[k] EXCEPT !.trans = "RISE"]
    OBVIOUS
  <1> HIDE DEF up
  <1>8. Lift(heap) \in Heap /\ Lift(heap)[1] = up
    BY <1>2, <1>5, <1>6 DEF Heap
  <1>9. ASSUME NEW t \in RefsAt(Lift(heap), 1)
        PROVE   /\ t[1] = 1 /\ t[2] \in DOMAIN heap[1]
                /\ At(heap, t) = heap[1][t[2]] /\ heap[1][t[2]] \in MaxTagType
                /\ At(Lift(heap), t) = [At(heap, t) EXCEPT !.trans = "RISE"]
                /\ At(Lift(heap), t).trans = "RISE" /\ At(heap, t).trans = "MAX"
                /\ At(Lift(heap), t).arr = At(heap, t).arr
                /\ At(Lift(heap), t).scen = At(heap, t).scen
    <2>1. t[1] = 1 /\ t[2] \in DOMAIN seq
      BY <1>5, <1>8 DEF RefsAt
    <2>2. At(heap, t) = seq[t[2]] /\ At(Lift(heap), t) = up[t[2]]
      BY <1>2, <1>8, <2>1 DEF At
    <2> DEFINE tag == seq[t[2]]
               new == [tag EXCEPT !.trans = "RISE"]
    <2>3. tag \in MaxTagType /\ up[t[2]] = new
      BY <1>3, <1>7, <2>1
    <2>4. new.trans = "RISE" /\ new.arr = tag.arr /\ new.scen = tag.scen /\ tag.trans = "MAX"
      BY <1>4, <2>3
    <2> HIDE DEF tag
    <2>5. At(heap, t) = tag /\ heap[1][t[2]] = tag /\ At(Lift(heap), t) = new
      BY <1>2, <2>2, <2>3 DEF tag
    <2> QED
      BY <1>2, <2>1, <2>3, <2>4, <2>5
  <1> QED
    BY <1>2, <1>5, <1>8, <1>9

(* Whether tags may be merged, and what comes of it, are the same of a heap *)
(* and of the lifted one.                                                   *)
LEMMA JoinableLifted ==
    ASSUME NEW heap \in OneHeap, NEW t \in RefsAt(Lift(heap), 1), NEW r \in RefsAt(Lift(heap), 1),
           NEW coarse, NEW fine, NEW thr
    PROVE  Joinable(Lift(heap), t, r, coarse, fine, thr) <=> Joinable(heap, t, r, coarse, fine, thr)
  <1> DEFINE lt == At(Lift(heap), t)
             lr == At(Lift(heap), r)
             ht == At(heap, t)
             hr == At(heap, r)
  <1>1. lt.trans = lr.trans /\ ht.trans = hr.trans /\ lt.arr = ht.arr /\ lr.arr = hr.arr
    BY LiftFacts
  <1>2. Joinable(Lift(heap), t, r, coarse, fine, thr) <=>
           /\ lt.trans = lr.trans /\ ~(Beyond(lt.arr, thr) /\ ~Beyond(lr.arr, thr))
           /\ SameBin(IF Beyond(lr.arr, thr) THEN fine ELSE coarse, lt.arr, lr.arr)
    BY DEF Joinable
  <1>3. Joinable(heap, t, r, coarse, fine, thr) <=>
           /\ ht.trans = hr.trans /\ ~(Beyond(ht.arr, thr) /\ ~Beyond(hr.arr, thr))
           /\ SameBin(IF Beyond(hr.arr, thr) THEN fine ELSE coarse, ht.arr, hr.arr)
    BY DEF Joinable
  <1> HIDE DEF lt, lr, ht, hr
  <1> QED
    BY <1>1, <1>2, <1>3

LEMMA AbsorbLifted ==
    ASSUME NEW heap \in OneHeap, NEW t \in RefsAt(Lift(heap), 1), NEW r \in RefsAt(Lift(heap), 1)
    PROVE  Absorb(heap, r, t) \in OneHeap /\ Lift(Absorb(heap, r, t)) = Absorb(Lift(heap), r, t)
  <1> DEFINE j == r[2]
             seq == heap[1]
             x == At(heap, t)
             y == seq[j]
             late == Max({y.arr, x.arr})
             grown == [[y EXCEPT !.arr = late] EXCEPT !.scen = y.scen \cup x.scen]
             new == Absorb(heap, r, t)
  <1>1. /\ seq \in Seq(MaxTagType) /\ heap = <<seq>> /\ 1 \in Node
        /\ r[1] = 1 /\ j \in DOMAIN seq /\ y \in MaxTagType /\ x \in MaxTagType
        /\ At(heap, r) = y /\ DOMAIN Lift(heap)[1] = DOMAIN seq
        /\ Lift(heap) \in Heap
    BY LiftFacts
  <1>2. new = [heap EXCEPT ![1] = [seq EXCEPT ![j] = grown]]
    <2>1. heap \in [{1} -> Seq(MaxTagType)]
      BY <1>1
    <2> QED
      BY <1>1, <2>1 DEF Absorb, At
  <1>3. late \in Nat /\ late \in {y.arr, x.arr}
    <2>1. y.arr \in Nat /\ x.arr \in Nat
      BY <1>1 DEF MaxTagType
    <2> DEFINE T == {y.arr, x.arr}
    <2>2. IsFiniteSet(T) /\ T \in SUBSET Int /\ T # {}
      <3>1. IsFiniteSet({}) /\ T = ({} \cup {y.arr}) \cup {x.arr}
        BY FS_EmptySet
      <3>2. IsFiniteSet({} \cup {y.arr})
        BY <3>1, FS_AddElement
      <3>3. IsFiniteSet(({} \cup {y.arr}) \cup {x.arr})
        BY <3>2, FS_AddElement
      <3> QED
        BY <2>1, <3>1, <3>3
    <2>3. Max(T) \in T
      <3> HIDE DEF T
      <3> QED
        BY <2>2, GreatestMember
    <2> QED
      BY <2>1, <2>3
  <1> HIDE DEF late
  <1>4. grown \in MaxTagType /\ grown.arr = late /\ grown.scen = y.scen \cup x.scen
    BY <1>1, <1>3 DEF MaxTagType
  <1> DEFINE longer == [seq EXCEPT ![j] = grown]
  <1>5. longer \in Seq(MaxTagType) /\ DOMAIN longer = DOMAIN seq
    <2> HIDE DEF grown, j, seq
    <2> QED
      BY <1>1, <1>4
  <1>6. new = <<longer>>
    <2> HIDE DEF longer, seq, new
    <2>1. heap = <<seq>> /\ new = [heap EXCEPT ![1] = longer]
      BY <1>1, <1>2 DEF longer
    <2> QED
      BY <2>1
  <1>7. new \in OneHeap
    <2> HIDE DEF longer, new
    <2> QED
      BY ONLY <1>5, <1>6 DEF OneHeap
  <1>8. Lift(new) = Absorb(Lift(heap), r, t)
    <2> DEFINE up == Lift(heap)
               lgrown == [[up[1][j] EXCEPT !.arr = Max({@, At(up, t).arr})] EXCEPT !.scen = @ \cup At(up, t).scen]
               absorbed == [up EXCEPT ![1] = [up[1] EXCEPT ![j] = lgrown]]
    <2>1. Absorb(up, r, t) = absorbed
      BY <1>1, ZenonT(60) DEF Absorb, At, Heap
    <2>2. /\ At(up, t).arr = x.arr /\ At(up, t).scen = x.scen
          /\ up[1][j] = [y EXCEPT !.trans = "RISE"]
          /\ up[1] = [k \in DOMAIN seq |-> [seq[k] EXCEPT !.trans = "RISE"]]
          /\ up = [n \in Node |-> IF n = 1 THEN [k \in DOMAIN seq |-> [seq[k] EXCEPT !.trans = "RISE"]] ELSE <<>>]
      <3>1. At(up, r) = up[1][j]
        BY <1>1 DEF At
      <3> QED
        BY <1>1, <3>1, LiftFacts DEF Lift
    <2>3. lgrown = [grown EXCEPT !.trans = "RISE"]
      <3> DEFINE z == [y EXCEPT !.trans = "RISE"]
      <3>1. z.arr = y.arr /\ z.scen = y.scen /\ up[1][j] = z
        BY <1>1, <2>2 DEF MaxTagType
      <3>2. Max({z.arr, At(up, t).arr}) = late
        BY <2>2, <3>1 DEF late
      <3>3. lgrown = [[z EXCEPT !.arr = late] EXCEPT !.scen = y.scen \cup x.scen]
        <4> HIDE DEF up, z, x, y, late
        <4>1. lgrown = [[z EXCEPT !.arr = Max({z.arr, At(up, t).arr})] EXCEPT !.scen = z.scen \cup At(up, t).scen]
          BY <3>1
        <4> QED
          BY <2>2, <3>1, <3>2, <4>1
      <3> QED
        BY <1>1, <3>3 DEF MaxTagType
    <2> HIDE DEF lgrown, grown, up
    <2>4. Lift(new) = [n \in Node |-> IF n = 1 THEN [k \in DOMAIN longer |-> [longer[k] EXCEPT !.trans = "RISE"]] ELSE <<>>]
      <3> HIDE DEF longer, new
      <3> QED
        BY <1>6 DEF Lift
    <2>5. [k \in DOMAIN longer |-> [longer[k] EXCEPT !.trans = "RISE"]] = [up[1] EXCEPT ![j] = lgrown]
      <3> HIDE DEF seq, j
      <3>1. \A k \in DOMAIN seq : longer[k] = IF k = j THEN grown ELSE seq[k]
        BY <1>1
      <3>2. DOMAIN longer = DOMAIN seq /\ DOMAIN up[1] = DOMAIN seq
        BY <1>5, <2>2
      <3>3. \A k \in DOMAIN seq : up[1][k] = [seq[k] EXCEPT !.trans = "RISE"]
        BY <2>2
      <3> HIDE DEF longer
      <3>4. \A k \in DOMAIN seq : [longer[k] EXCEPT !.trans = "RISE"] = IF k = j THEN lgrown ELSE up[1][k]
        BY <2>3, <3>1, <3>3
      <3>5. up[1] = [k \in DOMAIN seq |-> up[1][k]]
        BY <2>2
      <3> QED
        BY <3>2, <3>4, <3>5
    <2>6. up = [n \in Node |-> up[n]] /\ \A n \in Node : n # 1 => up[n] = <<>>
      BY <2>2
    <2>7. absorbed = [n \in Node |-> IF n = 1 THEN [up[1] EXCEPT ![j] = lgrown] ELSE <<>>]
      BY <1>1, <2>6
    <2> QED
      BY <2>1, <2>4, <2>5, <2>7 DEF up
  <1> QED
    BY <1>7, <1>8

(* The states of merge_max_tags, and that its turns are those of the lifted *)
(* heap.                                                                    *)
OneStates(old, set) ==
    {st \in [heap : OneHeap, merged : Seq(RefsAt(Lift(old), 1))] :
        LiftState(st) \in MergeStates(Lift(old), 1, set)}

LEMMA CollectLifted ==
    ASSUME NEW old \in OneHeap, NEW set \in Seq(RefsAt(Lift(old), 1)), NEW st \in OneStates(old, set),
           NEW k \in DOMAIN set, NEW coarse, NEW fine, NEW thr
    PROVE  LET new == CollectTag(st, set[k], coarse, fine, thr)
           IN /\ LiftState(new) = CollectTag(LiftState(st), set[k], coarse, fine, thr)
              /\ new \in OneStates(old, set)
  <1> DEFINE t == set[k]
             up == LiftState(st)
             reps == {a \in DOMAIN st.merged : Joinable(st.heap, t, st.merged[a], coarse, fine, thr)}
             new == CollectTag(st, t, coarse, fine, thr)
  <1>1. /\ st \in [heap : OneHeap, merged : Seq(RefsAt(Lift(old), 1))]
        /\ up \in MergeStates(Lift(old), 1, set)
        /\ up.heap = Lift(st.heap) /\ up.merged = st.merged
    BY DEF OneStates, LiftState
  <1>2. Lift(old) \in Heap /\ 1 \in Node
    BY LiftFacts
  <1>3. /\ st.heap \in OneHeap /\ st.merged \in Seq(RefsAt(Lift(old), 1))
        /\ Grown(Lift(old), Lift(st.heap), 1)
    BY <1>1 DEF MergeStates, MergeState
  <1>4. RefsAt(Lift(st.heap), 1) = RefsAt(Lift(old), 1)
    BY <1>2, <1>3, GrownRefs
  <1>5. /\ t \in RefsAt(Lift(st.heap), 1)
        /\ \A a \in DOMAIN st.merged : st.merged[a] \in RefsAt(Lift(st.heap), 1)
        /\ DOMAIN st.merged = 1..Len(st.merged)
    BY <1>3, <1>4
  <1>6. \A a \in DOMAIN st.merged :
           Joinable(Lift(st.heap), t, st.merged[a], coarse, fine, thr)
              <=> Joinable(st.heap, t, st.merged[a], coarse, fine, thr)
    <2> HIDE DEF t
    <2> QED
      BY <1>3, <1>5, JoinableLifted
  <1>7. reps = {a \in DOMAIN up.merged : Joinable(up.heap, t, up.merged[a], coarse, fine, thr)}
    <2> HIDE DEF t, up
    <2> QED
      BY <1>1, <1>6
  <1>8. CollectTag(up, t, coarse, fine, thr) \in MergeStates(Lift(old), 1, set)
    BY <1>1, <1>2, MergeStatesClosed
  <1>9. CASE reps = {}
    <2>1. new = [st EXCEPT !.merged = Append(@, t)]
      BY <1>9 DEF CollectTag
    <2>2. CollectTag(up, t, coarse, fine, thr) = [up EXCEPT !.merged = Append(@, t)]
      BY <1>7, <1>9 DEF CollectTag
    <2>3. new.heap = st.heap /\ new.merged = Append(st.merged, t)
          /\ new \in [heap : OneHeap, merged : Seq(RefsAt(Lift(old), 1))]
      <3> DEFINE longer == Append(st.merged, t)
      <3>1. new = [st EXCEPT !.merged = longer]
        BY <2>1
      <3>2. t \in RefsAt(Lift(old), 1)
        BY <1>4, <1>5
      <3> HIDE DEF t
      <3>3. longer \in Seq(RefsAt(Lift(old), 1))
        BY <1>3, <3>2
      <3> HIDE DEF new, longer
      <3>4. new.heap = st.heap /\ new.merged = longer
          /\ new \in [heap : OneHeap, merged : Seq(RefsAt(Lift(old), 1))]
        BY <1>1, <3>1, <3>3
      <3> QED
        BY <3>4 DEF longer
    <2>4. LiftState(new) = CollectTag(up, t, coarse, fine, thr)
      <3>1. [up EXCEPT !.merged = Append(@, t)] = [heap |-> Lift(st.heap), merged |-> Append(st.merged, t)]
        <4>1. up = [heap |-> Lift(st.heap), merged |-> st.merged]
          BY DEF LiftState
        <4> DEFINE longer == Append(st.merged, t)
        <4>2. [up EXCEPT !.merged = Append(@, t)] = [up EXCEPT !.merged = longer]
          BY <1>1
        <4> HIDE DEF longer, up
        <4>3. [up EXCEPT !.merged = longer] = [heap |-> Lift(st.heap), merged |-> longer]
          BY <4>1
        <4> QED
          BY <4>2, <4>3 DEF longer
      <3> HIDE DEF new, t, up
      <3>2. LiftState(new) = [heap |-> Lift(st.heap), merged |-> Append(st.merged, t)]
        BY <2>3 DEF LiftState
      <3> QED
        BY <2>2, <3>1, <3>2
    <2> HIDE DEF new, up, t
    <2>5. new \in OneStates(old, set)
      BY <1>8, <2>3, <2>4 DEF OneStates
    <2> QED
      BY <2>4, <2>5 DEF new, up, t
  <1>10. CASE reps # {}
    <2> DEFINE r == st.merged[Min(reps)]
    <2>1. r \in RefsAt(Lift(st.heap), 1)
      <3>1. reps \in SUBSET Nat
        BY <1>5
      <3>2. Min(reps) \in reps
        <4> HIDE DEF reps
        <4> QED
          BY <1>10, <3>1, LeastMember
      <3>3. Min(reps) \in DOMAIN st.merged
        BY <3>2
      <3> QED
        BY <1>5, <3>3
    <2>2. new = [st EXCEPT !.heap = Absorb(@, r, t)]
      BY <1>10 DEF CollectTag
    <2>3. CollectTag(up, t, coarse, fine, thr) = [up EXCEPT !.heap = Absorb(@, r, t)]
      <3> DEFINE lreps == {a \in DOMAIN up.merged : Joinable(up.heap, t, up.merged[a], coarse, fine, thr)}
      <3>1. lreps = reps
        BY <1>7
      <3>2. CollectTag(up, t, coarse, fine, thr) = [up EXCEPT !.heap = Absorb(@, up.merged[Min(lreps)], t)]
        BY <1>10, <3>1 DEF CollectTag
      <3> HIDE DEF lreps, reps, t, up
      <3> QED
        BY <1>1, <3>1, <3>2
    <2> HIDE DEF r, reps
    <2>4. Absorb(st.heap, r, t) \in OneHeap /\ Lift(Absorb(st.heap, r, t)) = Absorb(Lift(st.heap), r, t)
      <3> HIDE DEF t
      <3> QED
        BY <1>3, <1>5, <2>1, AbsorbLifted
    <2> DEFINE absorbed == Absorb(st.heap, r, t)
    <2>5. new.heap = absorbed /\ new.merged = st.merged
          /\ new \in [heap : OneHeap, merged : Seq(RefsAt(Lift(old), 1))]
      <3>1. new = [st EXCEPT !.heap = absorbed]
        BY <2>2
      <3> HIDE DEF t, new, absorbed
      <3>2. absorbed \in OneHeap
        BY <2>4 DEF absorbed
      <3> QED
        BY <1>1, <3>1, <3>2
    <2>6. LiftState(new) = CollectTag(up, t, coarse, fine, thr)
      <3>1. [up EXCEPT !.heap = Absorb(@, r, t)] = [heap |-> Absorb(Lift(st.heap), r, t), merged |-> st.merged]
        BY DEF LiftState
      <3> HIDE DEF new, t, up
      <3>2. LiftState(new) = [heap |-> Lift(absorbed), merged |-> st.merged]
        BY <2>5 DEF LiftState
      <3> QED
        BY <2>3, <2>4, <3>1, <3>2
    <2> HIDE DEF new, up, t
    <2>7. new \in OneStates(old, set)
      BY <1>8, <2>5, <2>6 DEF OneStates
    <2> QED
      BY <2>6, <2>7 DEF new, up, t
  <1> QED
    BY <1>9, <1>10

(* What merge_max_tags makes of a set without repetitions.                  *)
LEMMA MergeLifted ==
    ASSUME NEW old \in OneHeap, NEW set \in Seq(RefsAt(Lift(old), 1)), IsInjective(set),
           NEW coarse, NEW fine, NEW thr \in SUBSET Int, thr # {}
    PROVE  LET res == MergeTags(old, set, coarse, fine, thr)
           IN /\ res \in OneStates(old, set)
              /\ \E home : MergedInto(Lift(old), set, Len(set), home, LiftState(res), coarse, fine, thr)
              /\ Apart(LiftState(res), coarse, fine, thr)
  <1> DEFINE States == OneStates(old, set)
             Done(k, st) == /\ \E home : MergedInto(Lift(old), set, k, home, LiftState(st), coarse, fine, thr)
                            /\ Apart(LiftState(st), coarse, fine, thr)
             good == [k \in 0..Len(set) |-> {st \in States : Done(k, st)}]
             res == MergeTags(old, set, coarse, fine, thr)
             Empty == [heap |-> old, merged |-> <<>>]
  <1>1. Len(set) \in Nat /\ DOMAIN set = 1..Len(set)
    OBVIOUS
  <1>2. Lift(old) \in Heap /\ 1 \in Node
    BY LiftFacts
  <1>3. LiftState(Empty) = [heap |-> Lift(old), merged |-> <<>>]
    BY DEF LiftState
  <1>4. Empty \in States
    <2>1. [heap |-> Lift(old), merged |-> <<>>] \in MergeStates(Lift(old), 1, set)
      BY <1>2, MergeStatesClosed
    <2>2. Empty \in [heap : OneHeap, merged : Seq(RefsAt(Lift(old), 1))]
      OBVIOUS
    <2> HIDE DEF Empty
    <2> QED
      BY <1>3, <2>1, <2>2 DEF OneStates
  <1>5. Done(0, Empty)
    <2> DEFINE up == [heap |-> Lift(old), merged |-> <<>>]
    <2>1. up.merged = <<>> /\ DOMAIN up.merged = {} /\ up.heap = Lift(old) /\ 1..0 = {}
      OBVIOUS
    <2> HIDE DEF up
    <2>2. <<>> \in [1..0 -> DOMAIN up.merged]
      BY <2>1
    <2>3. MergedInto(Lift(old), set, 0, <<>>, up, coarse, fine, thr)
      BY <2>1, <2>2 DEF MergedInto, IsInjective
    <2>4. Apart(up, coarse, fine, thr)
      BY <2>1 DEF Apart
    <2> QED
      BY <1>3, <2>3, <2>4 DEF up
  <1>6. ASSUME NEW k \in Nat, k + 1 <= Len(set), NEW st \in States, Done(k, st)
        PROVE  Done(k + 1, CollectTag(st, set[k + 1], coarse, fine, thr))
    <2> DEFINE up == LiftState(st)
               next == CollectTag(st, set[k + 1], coarse, fine, thr)
    <2>1. PICK home : MergedInto(Lift(old), set, k, home, up, coarse, fine, thr)
      BY <1>6
    <2>2. k + 1 \in DOMAIN set
      BY <1>1, <1>6
    <2>3. LiftState(next) = CollectTag(up, set[k + 1], coarse, fine, thr)
      BY <2>2, CollectLifted
    <2>4. up \in MergeStates(Lift(old), 1, set) /\ Apart(up, coarse, fine, thr)
      BY <1>6 DEF OneStates
    <2> HIDE DEF up, next
    <2>5. LET new == CollectTag(up, set[k + 1], coarse, fine, thr)
          IN /\ \E home2 : MergedInto(Lift(old), set, k + 1, home2, new, coarse, fine, thr)
             /\ Apart(new, coarse, fine, thr)
      BY <1>2, <2>1, <2>2, <2>4, CollectMerged
    <2>6. Done(k + 1, next)
      BY <2>3, <2>5
    <2> QED
      BY <2>6 DEF next
  <1>7. \A st \in States, k \in DOMAIN set : CollectTag(st, set[k], coarse, fine, thr) \in States
    BY CollectLifted
  <1> HIDE DEF States, Done
  <1>8. Empty \in good[0]
    <2>1. 0 \in 0..Len(set)
      BY <1>1
    <2> QED
      BY <1>4, <1>5, <2>1
  <1>9. ASSUME NEW k \in Nat, k + 1 <= Len(set), NEW st \in good[k]
        PROVE  CollectTag(st, set[k + 1], coarse, fine, thr) \in good[k + 1]
    <2>1. k \in 0..Len(set) /\ k + 1 \in 0..Len(set) /\ k + 1 \in DOMAIN set
      BY <1>1, <1>9
    <2>2. st \in States /\ Done(k, st)
      BY <2>1
    <2> QED
      BY <1>6, <1>7, <1>9, <2>1, <2>2
  <1>10. \A k \in 0..Len(set) : good[k] \in SUBSET States
    OBVIOUS
  <1> HIDE DEF good
  <1>11. Turns(old, set, States, good, coarse, fine, thr)
    BY <1>1, <1>7, <1>8, <1>9, <1>10 DEF Turns
  <1>12. res \in good[Len(set)]
    BY <1>11, MergeByTurns
  <1>13. Len(set) \in 0..Len(set)
    BY <1>1
  <1> HIDE DEF res
  <1>14. res \in States /\ Done(Len(set), res)
    BY <1>12, <1>13 DEF good
  <1> QED
    BY <1>14 DEF Done, States, res
-------------------------------------------------------------------------------
(* A time no earlier and less than the wider bin later.                     *)
Near(x, y) == x <= y /\ (y = x \/ y - x < WiderBin.num)

(* A collected tag is near those it has taken.                              *)
LEMMA TakenNear ==
    ASSUME TInv, NEW thr, NEW tag, NEW rep, tag.arr \in Nat, rep.arr \in Nat,
           Taken(tag, rep, Bin(opts.coarse), Bin(opts.fine), thr)
    PROVE  Near(tag.arr, rep.arr)
  <1> DEFINE size == BinSize(rep.arr, Bin(opts.coarse), Bin(opts.fine), thr)
             x == tag.arr
             y == rep.arr
  <1>1. x <= y /\ SameBin(size, x, y) /\ x \in Nat /\ y \in Nat
    BY DEF Taken
  <1>2. opts.coarse \in Nat /\ opts.fine \in Nat
    BY OptionsAssumption DEF TInv, WorkspaceOK
  <1>3. size \in {Bin(opts.coarse), Bin(opts.fine)}
    BY DEF BinSize
  <1>4. size \in BinSizes /\ size.num <= WiderBin.num
    <2> HIDE DEF size
    <2> QED
      BY <1>3, BinTypes
  <1>5. size.den = 1 /\ WiderBin.num \in Nat
    BY <1>2, <1>3 DEF Bin, WiderBin
  <1> HIDE DEF size, x, y
  <1>6. y = x \/ (y - x) * size.den < size.num
    BY <1>1, <1>4, BinWidth
  <1>7. size.num \in Nat
    BY <1>4 DEF BinSizes
  <1>8. (y - x) * size.den = y - x
    BY <1>1, <1>5
  <1>9. y = x \/ y - x < WiderBin.num
    <2> DEFINE w == WiderBin.num
               s == size.num
    <2>1. w \in Nat /\ s \in Nat /\ s <= w /\ (y = x \/ y - x < s)
      BY <1>4, <1>5, <1>6, <1>7, <1>8
    <2> HIDE DEF w, s
    <2>2. y = x \/ y - x < w
      BY <1>1, <2>1
    <2> QED
      BY <2>2 DEF w
  <1>10. Near(x, y)
    BY <1>1, <1>9 DEF Near
  <1> QED
    BY <1>10 DEF x, y

(* The largest required time, less the slack, is a number.                  *)
LEMMA MaxThresholdType ==
    ASSUME TInv, StaInv
    PROVE  MaxThreshold \in Int
  <1> DEFINE all == {sta.required[n] : n \in Node}
             T == {0} \cup UNION all
  <1>1. delay \in DelayModels /\ opts \in Options
    BY DEF TInv, WorkspaceOK
  <1>2. opts.slack \in Nat
    BY <1>1, OptionsAssumption
  <1>3. ClockArrivals(delay) \in [Node -> Times]
    BY <1>1, ClockArrivalsEquation
  <1>4. DataArrivals(delay, ClockArrivals(delay)) \in [Node -> Times]
    BY <1>1, <1>3, DataArrivalsEquation
  <1>5. sta.required = RequiredTimes(delay, ClockArrivals(delay), DataArrivals(delay, ClockArrivals(delay)))
    BY DEF StaInv, StaTags
  <1>6. sta.required \in [Node -> Deadlines]
    BY <1>1, <1>3, <1>4, <1>5, RequiredTimesType
  <1>7. IsFiniteSet(Node)
    <2>1. Node = 1..NumNodes /\ 1 \in Int /\ NumNodes \in Int
      BY NetFacts
    <2> QED
      BY <2>1, FS_Interval
  <1>8. IsFiniteSet(all)
    <2> DEFINE required == sta.required
    <2> HIDE DEF required
    <2>1. IsFiniteSet({required[n] : n \in Node})
      BY <1>7, FiniteImage
    <2> QED
      BY <2>1 DEF required
  <1>9. \A s \in all : s \in SUBSET Int /\ IsFiniteSet(s)
    BY <1>6 DEF Deadlines
  <1> HIDE DEF all
  <1>10. IsFiniteSet(UNION all) /\ UNION all \in SUBSET Int
    BY <1>8, <1>9, FS_UNION
  <1>11. IsFiniteSet((UNION all) \cup {0}) /\ T = (UNION all) \cup {0}
    BY <1>10, FS_AddElement
  <1>12. T \in SUBSET Int /\ T # {} /\ IsFiniteSet(T)
    BY <1>10, <1>11
  <1>13. MaxThreshold = Max(T) - opts.slack
    BY DEF MaxThreshold, all
  <1> HIDE DEF T
  <1>14. Max(T) \in Int
    BY <1>12, GreatestMember
  <1> QED
    BY <1>2, <1>13, <1>14

(* What merging makes of the tags of seq: each goes to one near it, which   *)
(* has the scenarios of such tags only, and no two are equally late.        *)
MergedOf(out, seq) ==
    /\ out \in Seq(MaxTagType)
    /\ \A j \in DOMAIN seq : \E k \in DOMAIN out :
          Near(seq[j].arr, out[k].arr) /\ seq[j].scen \subseteq out[k].scen
    /\ \A k \in DOMAIN out : \A s \in out[k].scen : \E j \in DOMAIN seq :
          Near(seq[j].arr, out[k].arr) /\ s \in seq[j].scen
    /\ \A k, l \in DOMAIN out : out[k].arr = out[l].arr => k = l

(* merge_max_tags does so, for any set of tags.                             *)
LEMMA MergedMaxTagsAre ==
    ASSUME TInv, StaInv, NEW outputs, NEW seq \in Seq(MaxTagType), MaxTags(outputs) = seq
    PROVE  MergedOf(MergedMaxTags(outputs), seq)
  <1> DEFINE old == <<seq>>
             set == References(1, seq)
             coarse == Bin(opts.coarse)
             fine == Bin(opts.fine)
             thr == {MaxThreshold}
             res == MergeTags(old, set, coarse, fine, thr)
             up == LiftState(res)
             out == [k \in DOMAIN res.merged |-> At(res.heap, res.merged[k])]
  <1>1. MergedMaxTags(outputs) = out
    BY DEF MergedMaxTags
  <1>2. old \in OneHeap /\ old[1] = seq
    BY DEF OneHeap
  <1>3. /\ DOMAIN seq = 1..Len(seq) /\ Len(seq) \in Nat
        /\ \A j \in DOMAIN seq : seq[j] \in MaxTagType
    OBVIOUS
  <1>4. thr \in SUBSET Int /\ thr # {}
    BY MaxThresholdType
  <1> HIDE DEF coarse, fine, thr
  <1>5. /\ 1 \in Node /\ Lift(old) \in Heap /\ DOMAIN Lift(old)[1] = DOMAIN seq
        /\ \A t \in RefsAt(Lift(old), 1) :
              At(Lift(old), t).arr = At(old, t).arr /\ At(Lift(old), t).scen = At(old, t).scen
    <2> HIDE DEF old
    <2> QED
      BY <1>2, LiftFacts
  <1>6. /\ set \in Seq(RefsAt(Lift(old), 1)) /\ IsInjective(set) /\ DOMAIN set = DOMAIN seq
        /\ Len(set) = Len(seq) /\ \A j \in DOMAIN seq : set[j] = <<1, j>>
    <2>1. \A j \in DOMAIN seq : <<1, j>> \in RefsAt(Lift(old), 1)
      <3> HIDE DEF old
      <3> QED
        BY <1>3, <1>5 DEF RefsAt, Reference
    <2>2. set = [j \in 1..Len(seq) |-> <<1, j>>]
      BY <1>3 DEF References
    <2>3. IsInjective(set)
      BY ReferencesDistinct
    <2> HIDE DEF old, set
    <2>4. set \in [1..Len(seq) -> RefsAt(Lift(old), 1)]
      BY <1>3, <2>1, <2>2
    <2>5. set \in Seq(RefsAt(Lift(old), 1)) /\ Len(set) = Len(seq)
      BY <1>3, <2>4
    <2> QED
      BY <1>3, <2>2, <2>3, <2>5
  <1>7. \A j \in DOMAIN seq : At(old, set[j]) = seq[j]
    <2> TAKE j \in DOMAIN seq
    <2>1. set[j] = <<1, j>>
      BY <1>6
    <2> HIDE DEF set, old
    <2>2. set[j][1] = 1 /\ set[j][2] = j
      BY <2>1
    <2> QED
      BY <1>2, <2>2 DEF At
  <1>8. \A j \in DOMAIN seq : At(Lift(old), set[j]).arr = seq[j].arr /\ At(Lift(old), set[j]).scen = seq[j].scen
    <2> TAKE j \in DOMAIN seq
    <2>1. set[j] \in RefsAt(Lift(old), 1)
      <3> HIDE DEF set, old
      <3> QED
        BY <1>6
    <2> HIDE DEF set, old
    <2> QED
      BY <1>5, <1>7, <2>1
  <1> HIDE DEF old, set
  <1>9. /\ res \in OneStates(old, set)
        /\ \E home : MergedInto(Lift(old), set, Len(set), home, up, coarse, fine, thr)
        /\ Apart(up, coarse, fine, thr)
    BY <1>2, <1>4, <1>6, MergeLifted
  <1> HIDE DEF res
  <1>10. /\ res.heap \in OneHeap /\ res.merged \in Seq(RefsAt(Lift(old), 1))
         /\ Grown(Lift(old), Lift(res.heap), 1) /\ up.heap = Lift(res.heap) /\ up.merged = res.merged
    BY <1>9 DEF OneStates, MergeStates, MergeState, LiftState
  <1>11. /\ RefsAt(Lift(res.heap), 1) = RefsAt(Lift(old), 1)
         /\ DOMAIN res.merged = 1..Len(res.merged) /\ Len(res.merged) \in Nat
         /\ \A k \in DOMAIN res.merged : res.merged[k] \in RefsAt(Lift(res.heap), 1)
    BY <1>5, <1>10, GrownRefs
  <1>12. ASSUME NEW k \in DOMAIN res.merged
         PROVE  /\ out[k] \in MaxTagType /\ out[k].arr \in Nat
                /\ At(up.heap, up.merged[k]).trans = "RISE"
                /\ At(up.heap, up.merged[k]).arr = out[k].arr /\ At(up.heap, up.merged[k]).scen = out[k].scen
    <2> DEFINE t == res.merged[k]
    <2>1. t \in RefsAt(Lift(res.heap), 1) /\ res.heap \in OneHeap
      BY <1>10, <1>11
    <2>2. At(up.heap, up.merged[k]) = At(Lift(res.heap), t) /\ out[k] = At(res.heap, t)
      BY <1>10
    <2> HIDE DEF t, up, out
    <2>3. out[k] \in MaxTagType /\ At(Lift(res.heap), t).trans = "RISE"
          /\ At(Lift(res.heap), t).arr = out[k].arr /\ At(Lift(res.heap), t).scen = out[k].scen
      BY <2>1, <2>2, LiftFacts
    <2>4. out[k].arr \in Nat
      BY <2>3 DEF MaxTagType
    <2> QED
      BY <2>2, <2>3, <2>4
  <1>13. DOMAIN out = DOMAIN res.merged
    OBVIOUS
  <1>14. out \in Seq(MaxTagType)
    <2>1. out = [k \in 1..Len(res.merged) |-> out[k]]
      BY <1>11
    <2> HIDE DEF out
    <2>2. out \in [1..Len(res.merged) -> MaxTagType]
      BY <1>11, <1>12, <2>1
    <2> QED
      BY <1>11, <2>2
  <1> HIDE DEF out, up
  <1>15. PICK home : MergedInto(Lift(old), set, Len(set), home, up, coarse, fine, thr)
    BY <1>9
  <1>16. /\ home \in [1..Len(set) -> DOMAIN up.merged]
         /\ \A j \in 1..Len(set) : Taken(At(Lift(old), set[j]), At(up.heap, up.merged[home[j]]), coarse, fine, thr)
         /\ \A a \in DOMAIN up.merged : \A s \in At(up.heap, up.merged[a]).scen :
               \E j \in 1..Len(set) : home[j] = a /\ s \in At(Lift(old), set[j]).scen
    BY <1>15 DEF MergedInto
  <1>17. ASSUME NEW j \in DOMAIN seq
         PROVE  /\ home[j] \in DOMAIN out /\ Near(seq[j].arr, out[home[j]].arr)
                /\ seq[j].scen \subseteq out[home[j]].scen
    <2>1. j \in 1..Len(set)
      BY <1>3, <1>6
    <2>2. home[j] \in DOMAIN res.merged
      BY <1>10, <1>16, <2>1
    <2> DEFINE tag == At(Lift(old), set[j])
               rep == At(up.heap, up.merged[home[j]])
    <2>3. Taken(tag, rep, coarse, fine, thr)
      BY <1>16, <2>1
    <2>4. tag.arr = seq[j].arr /\ tag.scen = seq[j].scen /\ seq[j].arr \in Nat
      <3>1. seq[j] \in MaxTagType
        BY <1>3
      <3>2. seq[j].arr \in Nat
        BY <3>1 DEF MaxTagType
      <3> QED
        BY <1>8, <3>2
    <2>5. rep.arr = out[home[j]].arr /\ rep.scen = out[home[j]].scen /\ out[home[j]].arr \in Nat
      BY <1>12, <2>2
    <2> HIDE DEF tag, rep
    <2>6. Near(tag.arr, rep.arr)
      BY <2>3, <2>4, <2>5, TakenNear DEF coarse, fine
    <2> QED
      BY <1>13, <2>2, <2>3, <2>4, <2>5, <2>6 DEF Taken
  <1>18. ASSUME NEW k \in DOMAIN out, NEW s \in out[k].scen
         PROVE  \E j \in DOMAIN seq : Near(seq[j].arr, out[k].arr) /\ s \in seq[j].scen
    <2>1. k \in DOMAIN up.merged /\ s \in At(up.heap, up.merged[k]).scen
      BY <1>10, <1>12, <1>13, <1>18
    <2>2. PICK j \in 1..Len(set) : home[j] = k /\ s \in At(Lift(old), set[j]).scen
      BY <1>16, <2>1
    <2>3. j \in DOMAIN seq
      BY <1>3, <1>6
    <2> QED
      BY <1>8, <1>17, <2>2, <2>3
  <1>19. ASSUME NEW k \in DOMAIN out, NEW l \in DOMAIN out, out[k].arr = out[l].arr PROVE k = l
    <2>1. ASSUME NEW a \in DOMAIN out, NEW b \in DOMAIN out, out[a].arr = out[b].arr
          PROVE  Joinable(up.heap, up.merged[b], up.merged[a], coarse, fine, thr)
      <3> DEFINE x == At(up.heap, up.merged[a])
                 y == At(up.heap, up.merged[b])
      <3>1. x.trans = y.trans /\ x.arr = y.arr
        BY <1>12, <1>13, <2>1
      <3>2. Joinable(up.heap, up.merged[b], up.merged[a], coarse, fine, thr) <=>
               /\ y.trans = x.trans /\ ~(Beyond(y.arr, thr) /\ ~Beyond(x.arr, thr))
               /\ SameBin(IF Beyond(x.arr, thr) THEN fine ELSE coarse, y.arr, x.arr)
        BY DEF Joinable
      <3> HIDE DEF x, y
      <3>3. SameBin(IF Beyond(x.arr, thr) THEN fine ELSE coarse, y.arr, x.arr)
        BY <3>1, SameBinFacts
      <3> QED
        BY <3>1, <3>2, <3>3
    <2>2. k \in Nat /\ l \in Nat /\ k \in DOMAIN up.merged /\ l \in DOMAIN up.merged
      BY <1>10, <1>11, <1>13
    <2>3. ~(k < l) /\ ~(l < k)
      BY <1>9, <1>19, <2>1, <2>2 DEF Apart
    <2> QED
      BY <2>2, <2>3
  <1>20. MergedOf(out, seq)
    <2>1. \A j \in DOMAIN seq : \E k \in DOMAIN out :
             Near(seq[j].arr, out[k].arr) /\ seq[j].scen \subseteq out[k].scen
      BY <1>17
    <2> QED
      BY <1>14, <1>18, <1>19, <2>1 DEF MergedOf
  <1> QED
    BY <1>1, <1>20
-------------------------------------------------------------------------------
(* Sorting leaves every tag, in descending order of arrival.                *)
Sorted(sorted, out) ==
    /\ sorted \in Seq(MaxTagType) /\ Len(sorted) = Len(out)
    /\ \A i \in DOMAIN sorted : \E k \in DOMAIN out : sorted[i] = out[k]
    /\ \A k \in DOMAIN out : \E i \in DOMAIN sorted : sorted[i] = out[k]
    /\ \A i, j \in DOMAIN sorted : i < j => sorted[j].arr < sorted[i].arr

(* The number of later tags differs from tag to tag, so each has a place.   *)
LEMMA DescendingIsSorted ==
    ASSUME NEW out \in Seq(MaxTagType), \A k, l \in DOMAIN out : out[k].arr = out[l].arr => k = l
    PROVE  Sorted(Descending(out), out)
  <1> DEFINE n == Len(out)
             D == 1..n
             Later(k) == {j \in D : out[j].arr > out[k].arr}
             rank == [k \in D |-> Cardinality(Later(k)) + 1]
             sorted == Descending(out)
  <1>1. /\ DOMAIN out = D /\ n \in Nat
        /\ \A k \in D : out[k] \in MaxTagType /\ out[k].arr \in Nat
    <2>1. DOMAIN out = D /\ n \in Nat /\ \A k \in D : out[k] \in MaxTagType
      OBVIOUS
    <2> HIDE DEF n, D
    <2>2. \A tag \in MaxTagType : tag.arr \in Nat
      BY DEF MaxTagType
    <2> QED
      BY <2>1, <2>2
  <1>2. IsFiniteSet(D) /\ Cardinality(D) = n
    <2>1. 1 \in Int /\ n \in Int
      BY <1>1
    <2>2. Cardinality(D) = IF 1 > n THEN 0 ELSE n - 1 + 1
      BY <2>1, FS_Interval
    <2> QED
      BY <1>1, <2>1, <2>2, FS_Interval
  <1>3. \A k \in D : Later(k) \in SUBSET D /\ k \notin Later(k)
    BY <1>1
  <1>4. \A k, l \in D : out[l].arr < out[k].arr => Later(k) \cup {k} \subseteq Later(l)
    <2> SUFFICES ASSUME NEW k \in D, NEW l \in D, out[l].arr < out[k].arr, NEW j \in Later(k) \cup {k}
                 PROVE  j \in Later(l)
      OBVIOUS
    <2>1. j \in D /\ (out[j].arr > out[k].arr \/ j = k)
      OBVIOUS
    <2>2. out[j].arr \in Nat /\ out[k].arr \in Nat /\ out[l].arr \in Nat
      BY <1>1, <2>1
    <2>3. out[j].arr > out[l].arr
      BY <2>1, <2>2
    <2> QED
      BY <2>1, <2>3
  <1> HIDE DEF n, D
  <1>5. ASSUME NEW k \in D PROVE IsFiniteSet(Later(k)) /\ Cardinality(Later(k)) \in Nat /\ Cardinality(Later(k)) < n
    <2> DEFINE s == Later(k)
    <2>1. s \in SUBSET D /\ k \notin s
      BY <1>3
    <2> HIDE DEF s
    <2>2. s \cup {k} \in SUBSET D
      BY <2>1
    <2>3. IsFiniteSet(s) /\ Cardinality(s) \in Nat /\ Cardinality(s \cup {k}) <= n
      BY <1>2, <2>1, <2>2, FS_Subset, FS_CardinalityType
    <2>4. Cardinality(s \cup {k}) = Cardinality(s) + 1
      BY <2>1, <2>3, FS_AddElement
    <2>5. Cardinality(s) < n
      BY <1>1, <2>3, <2>4
    <2> QED
      BY <2>3, <2>5 DEF s
  <1>6. ASSUME NEW k \in D, NEW l \in D, out[l].arr < out[k].arr
        PROVE  Cardinality(Later(k)) < Cardinality(Later(l))
    <2> DEFINE s == Later(k)
               u == Later(l)
    <2>1. s \cup {k} \subseteq u /\ k \notin s
      BY <1>3, <1>4, <1>6
    <2>2. IsFiniteSet(s) /\ IsFiniteSet(u) /\ Cardinality(s) \in Nat /\ Cardinality(u) \in Nat
      BY <1>5
    <2> HIDE DEF s, u
    <2>3. Cardinality(s \cup {k}) <= Cardinality(u)
      BY <2>1, <2>2, FS_Subset
    <2>4. Cardinality(s \cup {k}) = Cardinality(s) + 1
      BY <2>1, <2>2, FS_AddElement
    <2>5. Cardinality(s) < Cardinality(u)
      BY <2>2, <2>3, <2>4
    <2> QED
      BY <2>5 DEF s, u
  <1> HIDE DEF Later
  <1>7. ASSUME NEW k \in D, NEW l \in D, Cardinality(Later(k)) = Cardinality(Later(l)) PROVE k = l
    <2>1. out[k].arr \in Nat /\ out[l].arr \in Nat
      BY <1>1
    <2>2. Cardinality(Later(k)) \in Nat /\ Cardinality(Later(l)) \in Nat
      BY <1>5
    <2>3. ~(out[k].arr < out[l].arr) /\ ~(out[l].arr < out[k].arr)
      BY <1>6, <1>7, <2>2
    <2>4. out[k].arr = out[l].arr
      BY <2>1, <2>3
    <2> QED
      BY <1>1, <2>4
  <1>8. rank \in [D -> D] /\ \A k \in D : rank[k] = Cardinality(Later(k)) + 1
    <2>1. \A k \in D : Cardinality(Later(k)) + 1 \in D
      BY <1>1, <1>5 DEF D
    <2> QED
      BY <2>1
  <1> HIDE DEF rank
  <1>9. \A k, l \in D : rank[k] = rank[l] => k = l
    <2> TAKE k, l \in D
    <2> HAVE rank[k] = rank[l]
    <2> DEFINE x == Cardinality(Later(k))
               y == Cardinality(Later(l))
    <2>1. x + 1 = y + 1 /\ x \in Nat /\ y \in Nat
      BY <1>5, <1>8
    <2>2. x = y
      <3> HIDE DEF x, y
      <3> QED
        BY <2>1
    <2> QED
      BY <1>7, <2>2
  <1>10. \A i \in D : \E k \in D : rank[k] = i
    <2>1. rank \in Injection(D, D)
      BY <1>8, <1>9, Zenon DEF Injection, IsInjective
    <2>2. rank \in Surjection(D, D)
      BY <1>2, <2>1, FS_Injection
    <2> QED
      BY <2>2 DEF Surjection
  <1> DEFINE pick == [i \in D |-> CHOOSE k \in D : Cardinality(Later(k)) = i - 1]
  <1>11. sorted = [i \in D |-> out[pick[i]]]
    BY <1>1 DEF Descending, Later
  <1>12. ASSUME NEW i \in D PROVE pick[i] \in D /\ Cardinality(Later(pick[i])) = i - 1 /\ rank[pick[i]] = i
    <2>1. PICK k \in D : rank[k] = i
      BY <1>10
    <2> DEFINE c == Cardinality(Later(k))
    <2>2. c + 1 = i /\ c \in Nat
      BY <1>5, <1>8, <2>1
    <2>3. c = i - 1
      <3> HIDE DEF c
      <3> QED
        BY <2>2
    <2>4. \E l \in D : Cardinality(Later(l)) = i - 1
      BY <2>3
    <2>5. pick[i] \in D /\ Cardinality(Later(pick[i])) = i - 1
      BY <2>4
    <2> HIDE DEF pick
    <2>6. rank[pick[i]] = i - 1 + 1
      BY <1>8, <2>5
    <2>7. i \in Nat
      BY <1>1 DEF D
    <2>8. i - 1 + 1 = i
      BY <2>7
    <2> QED
      BY <2>5, <2>6, <2>8
  <1> HIDE DEF pick, sorted
  <1>13. DOMAIN sorted = D /\ \A i \in D : sorted[i] = out[pick[i]] /\ sorted[i] \in MaxTagType
    BY <1>1, <1>11, <1>12
  <1>14. sorted \in Seq(MaxTagType) /\ Len(sorted) = n
    <2>1. sorted \in [1..n -> MaxTagType]
      BY <1>11, <1>13 DEF D
    <2> QED
      BY <1>1, <2>1
  <1>15. \A k \in D : \E i \in D : sorted[i] = out[k]
    <2> TAKE k \in D
    <2>1. rank[k] \in D
      BY <1>8
    <2>2. pick[rank[k]] \in D /\ rank[pick[rank[k]]] = rank[k]
      BY <1>12, <2>1
    <2>3. pick[rank[k]] = k
      BY <1>9, <2>2
    <2> QED
      BY <1>13, <2>1, <2>3
  <1>16. ASSUME NEW i \in D, NEW j \in D, i < j PROVE sorted[j].arr < sorted[i].arr
    <2> DEFINE k == pick[i]
               l == pick[j]
    <2>1. k \in D /\ l \in D /\ Cardinality(Later(k)) = i - 1 /\ Cardinality(Later(l)) = j - 1
      BY <1>12
    <2>2. i \in Nat /\ j \in Nat
      BY <1>1 DEF D
    <2> HIDE DEF k, l
    <2>3. ~(Cardinality(Later(l)) < Cardinality(Later(k))) /\ k # l
      BY <1>16, <2>1, <2>2
    <2>4. ~(out[k].arr < out[l].arr)
      BY <1>6, <2>1, <2>3
    <2>5. out[k].arr \in Nat /\ out[l].arr \in Nat /\ out[k].arr # out[l].arr
      BY <1>1, <2>1, <2>3
    <2>6. out[l].arr < out[k].arr
      BY <2>4, <2>5
    <2> QED
      BY <1>13, <2>6 DEF k, l
  <1>17. Sorted(sorted, out)
    BY <1>1, <1>12, <1>13, <1>14, <1>15, <1>16 DEF Sorted, n
  <1> QED
    BY <1>17 DEF sorted

(* Whatever the order of a set, it has all its members.                     *)
LEMMA SetToSeqsOnto ==
    ASSUME NEW S, IsFiniteSet(S), NEW f \in SetToSeqs(S)
    PROVE  /\ Cardinality(S) \in Nat /\ f \in [1..Cardinality(S) -> S]
           /\ \A x \in S : \E k \in 1..Cardinality(S) : f[k] = x
  <1> DEFINE n == Cardinality(S)
  <1>1. n \in Nat
    BY FS_CardinalityType
  <1>2. f \in [1..n -> S] /\ \A i, j \in 1..n : i # j => f[i] # f[j]
    BY DEF SetToSeqs
  <1> HIDE DEF n
  <1>3. f \in Injection(1..n, S)
    <2>1. \A i, j \in 1..n : f[i] = f[j] => i = j
      BY <1>2
    <2> QED
      BY <1>2, <2>1, Zenon DEF Injection, IsInjective
  <1>4. Cardinality(1..n) = n
    <2>1. 1 \in Int /\ n \in Int
      BY <1>1
    <2>2. Cardinality(1..n) = IF 1 > n THEN 0 ELSE n - 1 + 1
      BY <2>1, FS_Interval
    <2> QED
      BY <1>1, <2>2
  <1>5. f \in Surjection(1..n, S)
    BY <1>3, <1>4, FS_Injection DEF n
  <1> QED
    BY <1>1, <1>2, <1>5 DEF n, Surjection

(* A set of scenarios satisfies what one of its members does.               *)
LEMMA SatisfyingMember ==
    ASSUME NEW covered, NEW scen, NEW a
    PROVE  a \in Satisfying(covered, scen) <=> \E s \in scen : a \in Satisfying(covered, {s})
  BY DEF Satisfying

(* The delays of sorted tags, as CircuitMaxDelays has them.                 *)
FunctionsOf(covered, sorted) == [k \in DOMAIN sorted |-> Satisfying(covered, sorted[k].scen)]
DelaysOf(covered, sorted) ==
    [k \in DOMAIN sorted |->
        [arr |-> sorted[k].arr,
         scenarios |-> (IF k = Len(sorted) THEN CircuitScenarios ELSE FunctionsOf(covered, sorted)[k])
                          \ CoveredTerms(FunctionsOf(covered, sorted), k)]]

(* The arrivals of the tags that have a scenario.                           *)
ArrivalsIn(S, covered, a) == {t.arr : t \in {u \in S : a \in Satisfying(covered, u.scen)}}

(* Scenario a has one delay, latest or less than a bin later.               *)
ReportedNear(delays, a, latest) ==
    \E at \in {{k \in DOMAIN delays : a \in delays[k].scenarios}} :
        /\ Cardinality(at) = 1
        /\ \A k \in at : latest \in Nat /\ delays[k].arr \in Nat /\ Near(latest, delays[k].arr)

(* A time of the circuit is reported for a scenario once: the latest of the *)
(* sorted tags that has it takes it away from the earlier ones, and the     *)
(* inferred rest holds no scenario of a later tag.                          *)
LEMMA DelaysReported ==
    ASSUME NEW S \in SUBSET TagType, NEW seq, MaxOf(seq, S), NEW out, MergedOf(out, seq),
           NEW sorted, Sorted(sorted, out), NEW covered, WiderBin.num \in Nat,
           NEW a \in CircuitScenarios, NEW t0 \in S, a \in Satisfying(covered, t0.scen)
    PROVE  ReportedNear(DelaysOf(covered, sorted), a, Max(ArrivalsIn(S, covered, a)))
  <1> DEFINE functions == FunctionsOf(covered, sorted)
             delays == DelaysOf(covered, sorted)
             T == ArrivalsIn(S, covered, a)
             n == Len(sorted)
             at == {k \in DOMAIN delays : a \in delays[k].scenarios}
             hold == {k \in 1..n : a \in functions[k]}
             had == {u \in S : a \in Satisfying(covered, u.scen)}
  <1>1. n \in Nat /\ DOMAIN sorted = 1..n /\ \A k \in 1..n : sorted[k] \in MaxTagType
    BY DEF Sorted
  <1>2. \A k \in 1..n : sorted[k].arr \in Nat
    <2>1. \A tag \in MaxTagType : tag.arr \in Nat
      BY DEF MaxTagType
    <2> HIDE DEF n
    <2> QED
      BY <1>1, <2>1
  <1>3. \A t \in S : t.arr \in Nat
    BY DEF TagType
  <1>4. functions = [k \in DOMAIN sorted |-> Satisfying(covered, sorted[k].scen)]
    BY DEF FunctionsOf
  <1>5. delays = [k \in DOMAIN sorted |->
                      [arr |-> sorted[k].arr,
                       scenarios |-> (IF k = n THEN CircuitScenarios ELSE functions[k])
                                        \ CoveredTerms(functions, k)]]
    BY DEF DelaysOf
  <1>6. T = {t.arr : t \in had}
    BY DEF ArrivalsIn
  <1> HIDE DEF n, functions, delays, T
  <1>7. ASSUME NEW t \in had PROVE \E k \in hold : Near(t.arr, sorted[k].arr)
    <2>1. PICK j \in DOMAIN seq : seq[j].arr = t.arr /\ t.scen \subseteq seq[j].scen
      BY DEF MaxOf
    <2>2. PICK k \in DOMAIN out : Near(seq[j].arr, out[k].arr) /\ seq[j].scen \subseteq out[k].scen
      BY DEF MergedOf
    <2>3. PICK i \in DOMAIN sorted : sorted[i] = out[k]
      BY DEF Sorted
    <2>4. t.scen \subseteq sorted[i].scen /\ Near(t.arr, sorted[i].arr)
      BY <2>1, <2>2, <2>3
    <2>5. a \in Satisfying(covered, sorted[i].scen)
      BY <2>4, SatisfyingMember
    <2> QED
      BY <1>1, <1>4, <2>4, <2>5
  <1>8. ASSUME NEW k \in hold PROVE \E t \in had : Near(t.arr, sorted[k].arr)
    <2>1. k \in DOMAIN sorted /\ a \in Satisfying(covered, sorted[k].scen)
      BY <1>1, <1>4
    <2>2. PICK s \in sorted[k].scen : a \in Satisfying(covered, {s})
      BY <2>1, SatisfyingMember
    <2>3. PICK i \in DOMAIN out : sorted[k] = out[i]
      BY <2>1 DEF Sorted
    <2>4. PICK j \in DOMAIN seq : Near(seq[j].arr, out[i].arr) /\ s \in seq[j].scen
      BY <2>2, <2>3 DEF MergedOf
    <2>5. PICK t \in S : t.arr = seq[j].arr /\ s \in t.scen
      BY <2>4 DEF MaxOf
    <2>6. a \in Satisfying(covered, t.scen)
      BY <2>2, <2>5, SatisfyingMember
    <2> QED
      BY <2>3, <2>4, <2>5, <2>6
  <1>9. t0 \in had /\ hold # {} /\ hold \in SUBSET (1..n)
    BY <1>7
  <1> DEFINE first == Min(hold)
  <1>10. first \in hold /\ \A k \in hold : first <= k
    <2> HIDE DEF hold
    <2>1. hold \in SUBSET Nat
      BY <1>1, <1>9
    <2> QED
      BY <1>9, <2>1, LeastMember
  <1> HIDE DEF first
  <1>11. ASSUME NEW k \in 1..n
        PROVE  /\ delays[k].arr = sorted[k].arr
               /\ a \in delays[k].scenarios <=>
                    (k = n \/ k \in hold) /\ \A j \in 1..(k - 1) : j \notin hold
    <2>1. k \in DOMAIN sorted
      BY <1>1
    <2>2. /\ delays[k].arr = sorted[k].arr
          /\ delays[k].scenarios = (IF k = n THEN CircuitScenarios ELSE functions[k]) \ CoveredTerms(functions, k)
      BY <1>5, <2>1
    <2>3. \A j \in 1..(k - 1) : j \in 1..n
      BY <1>1
    <2>4. a \in CoveredTerms(functions, k) <=> \E j \in 1..(k - 1) : j \in hold
      BY <2>3 DEF CoveredTerms
    <2>5. k \in hold <=> a \in functions[k]
      OBVIOUS
    <2> HIDE DEF hold
    <2> QED
      BY <2>2, <2>4, <2>5
  <1>12. DOMAIN delays = 1..n
    BY <1>1, <1>5
  <1>13. at = {first}
    <2>1. first \in 1..n
      BY <1>9, <1>10
    <2>2. first \in at
      <3>1. ASSUME NEW j \in 1..(first - 1) PROVE j \notin hold
        <4>1. j \in Nat /\ first \in Nat /\ ~(first <= j)
          BY <1>1, <2>1
        <4> QED
          BY <1>10, <4>1
      <3> QED
        BY <1>10, <1>11, <1>12, <2>1, <3>1
    <2>3. ASSUME NEW k \in at PROVE k = first
      <3>1. k \in 1..n /\ (k = n \/ k \in hold) /\ \A j \in 1..(k - 1) : j \notin hold
        BY <1>11, <1>12
      <3>2. first \notin 1..(k - 1)
        BY <1>10, <3>1
      <3>3. k <= first
        <4> HIDE DEF at, hold
        <4> QED
          BY <1>1, <2>1, <3>1, <3>2
      <3>4. first <= k
        <4>1. CASE k \in hold
          BY <1>10, <4>1
        <4>2. CASE k = n
          BY <1>1, <2>1, <4>2
        <4> QED
          BY <3>1, <4>1, <4>2
      <3> HIDE DEF at, hold
      <3> QED
        BY <1>1, <2>1, <3>1, <3>3, <3>4
    <2> QED
      BY <2>2, <2>3
  <1> HIDE DEF at
  <1>14. Cardinality(at) = 1
    BY <1>13, FS_Singleton
  <1>15. \A k \in hold : sorted[k].arr <= sorted[first].arr
    <2> SUFFICES ASSUME NEW k \in hold PROVE sorted[k].arr <= sorted[first].arr
      OBVIOUS
    <2>1. first \in 1..n /\ k \in 1..n /\ first <= k
      BY <1>9, <1>10
    <2>2. sorted[k].arr \in Nat /\ sorted[first].arr \in Nat
      BY <1>2, <2>1
    <2>3. CASE first < k
      <3>1. sorted[k].arr < sorted[first].arr
        BY <1>1, <2>1, <2>3 DEF Sorted
      <3> QED
        BY <2>2, <3>1
    <2>4. CASE first = k
      BY <2>2, <2>4
    <2> HIDE DEF hold
    <2> QED
      BY <1>1, <2>1, <2>3, <2>4
  <1> DEFINE top == sorted[first].arr
             latest == Max(T)
  <1>16. first \in 1..n /\ top \in Nat
    BY <1>2, <1>9, <1>10
  <1>17. \A t \in had : t.arr \in Nat /\ t.arr <= top
    <2> SUFFICES ASSUME NEW t \in had PROVE t.arr \in Nat /\ t.arr <= top
      OBVIOUS
    <2>1. PICK k \in hold : Near(t.arr, sorted[k].arr)
      BY <1>7
    <2>2. t.arr \in Nat /\ sorted[k].arr \in Nat /\ sorted[k].arr <= top
      BY <1>2, <1>3, <1>9, <1>15
    <2>3. t.arr <= sorted[k].arr
      BY <2>1 DEF Near
    <2> HIDE DEF top
    <2> QED
      BY <1>16, <2>2, <2>3
  <1> HIDE DEF had, top
  <1>18. T \in SUBSET (0..top) /\ T # {}
    <2>1. \A t \in had : t.arr \in 0..top
      BY <1>16, <1>17
    <2> QED
      BY <1>9, <1>6, <2>1
  <1>19. IsFiniteSet(T) /\ T \in SUBSET Int
    <2>1. IsFiniteSet(0..top)
      <3>1. 0 \in Int /\ top \in Int
        BY <1>16
      <3> QED
        BY <3>1, FS_Interval
    <2>2. IsFiniteSet(T)
      BY <1>18, <2>1, FS_Subset
    <2>3. \A x \in 0..top : x \in Int
      BY <1>16
    <2> QED
      BY <1>18, <2>2, <2>3
  <1>20. latest \in T /\ \A x \in T : x <= latest
    BY <1>18, <1>19, GreatestMember
  <1> HIDE DEF latest
  <1>21. latest \in Nat /\ latest <= top
    <2>1. latest \in 0..top
      BY <1>18, <1>20
    <2> QED
      BY <1>16, <2>1
  <1>22. PICK t \in had : Near(t.arr, top)
    BY <1>8, <1>10 DEF top
  <1>23. t.arr \in Nat /\ t.arr <= latest
    BY <1>17, <1>6, <1>20, <1>22
  <1>24. Near(latest, top)
    <2> DEFINE x == t.arr
               w == WiderBin.num
    <2>1. x \in Nat /\ x <= latest /\ x <= top /\ (top = x \/ top - x < w) /\ w \in Nat
      BY <1>22, <1>23 DEF Near
    <2> HIDE DEF x, w
    <2>2. top = latest \/ top - latest < w
      BY <1>16, <1>21, <2>1
    <2> QED
      BY <1>21, <2>2 DEF Near, w
  <1>25. \A k \in at : delays[k].arr = top
    BY <1>11, <1>13, <1>16 DEF top
  <1>26. \A k \in at : Near(latest, delays[k].arr) /\ delays[k].arr \in Nat
    BY <1>16, <1>24, <1>25
  <1>27. ReportedNear(delays, a, latest)
    BY <1>14, <1>21, <1>26 DEF at, ReportedNear
  <1> QED
    BY <1>27 DEF delays, latest, T
-------------------------------------------------------------------------------
(* An output carries data, and every scenario of the circuit is in one of   *)
(* its tags.                                                                *)
LEMMA OutputsCovered ==
    ASSUME TInv, CoverInv, Finished, NEW m \in PrimaryOutputs
    PROVE  /\ m \in Node /\ Type[m] # "CONSTANT_GEN_SOURCE" /\ m \notin LogicalInputs
           /\ \A a \in CircuitScenarios : \E t \in ToSet(dataTags[m]) : a \in ScenariosOf(Covered, t)
  <1>1. m \in Node /\ Type[m] \in {"OUTPAD_SINK", "FF_SINK"}
    BY DEF PrimaryOutputs
  <1>2. m \notin ClockNet
    BY <1>1, NetAssumption DEF AsBuilt, ClockNet
  <1>3. dataTags[m] # <<>>
    BY <1>1, <1>2 DEF Finished, TInv, VisitsOK
  <1>4. Covers(tags, dataTags[m])
    BY <1>1, <1>3 DEF CoverInv, Finished
  <1>5. \A k \in DOMAIN dataTags[m] : dataTags[m][k] \in ToSet(dataTags[m])
    BY DEF ToSet
  <1> QED
    BY <1>1, <1>4, <1>5 DEF Covers, Covered, LogicalInputs

(* The tags circuit_max_delays collects, with their scenarios.              *)
LEMMA OutputTags ==
    ASSUME TInv, NEW n \in Nat, NEW outputs \in [1..n -> PrimaryOutputs],
           \A m \in PrimaryOutputs : \E k \in 1..n : outputs[k] = m
    PROVE  LET refs == UNION {ToSet(dataTags[m]) : m \in PrimaryOutputs} IN
           /\ TagsOfOutputs(outputs, n) = {At(tags, t) : t \in refs}
           /\ TagsOfOutputs(outputs, n) \subseteq TagType
           /\ \A t \in refs : ScenariosOf(Covered, t) = Satisfying(Covered, At(tags, t).scen)
  <1> DEFINE refs == UNION {ToSet(dataTags[m]) : m \in PrimaryOutputs}
  <1>1. \A m \in PrimaryOutputs : m \in Node /\ Type[m] # "CONSTANT_GEN_SOURCE" /\ m \notin LogicalInputs
    BY DEF PrimaryOutputs, LogicalInputs
  <1>2. ASSUME NEW m \in PrimaryOutputs
        PROVE  TagsOfNode(m) = {At(tags, t) : t \in ToSet(dataTags[m])}
    <2>1. dataTags[m] \in Seq(RefsAt(tags, m))
      BY <1>1 DEF TInv, HeapOK
    <2>2. DOMAIN dataTags[m] = 1..Len(dataTags[m])
      BY <2>1
    <2> QED
      BY <2>2 DEF TagsOfNode, TagsTo, ToSet
  <1>3. ASSUME NEW t \in refs
        PROVE  /\ At(tags, t) \in TagType
               /\ ScenariosOf(Covered, t) = Satisfying(Covered, At(tags, t).scen)
    <2>1. PICK m \in PrimaryOutputs : t \in ToSet(dataTags[m])
      BY <1>3
    <2>2. dataTags[m] \in Seq(RefsAt(tags, m)) /\ tags \in Heap
      BY <1>1 DEF TInv, HeapOK
    <2>3. t \in RefsAt(tags, m)
      BY <2>1, <2>2 DEF ToSet
    <2>4. t[1] = m /\ t[2] \in DOMAIN tags[m]
      BY <2>3 DEF RefsAt
    <2>5. At(tags, t) = tags[m][t[2]]
      BY <2>4 DEF At
    <2>6. tags[m] \in Seq(TagType)
      BY <1>1, <2>2 DEF Heap
    <2>7. tags[m][t[2]] \in TagType
      BY <2>4, <2>6
    <2>8. Covered[m][t[2]] = TagScenarios(Covered, m, tags[m][t[2]])
      <3>1. WellFormed(tags)
        BY TInvIsWellFormed
      <3> QED
        BY <1>1, <2>4, <3>1, CoveredEquation DEF Covered
    <2>9. TagScenarios(Covered, m, tags[m][t[2]]) = Satisfying(Covered, tags[m][t[2]].scen)
      BY <1>1 DEF TagScenarios
    <2> QED
      BY <2>4, <2>5, <2>7, <2>8, <2>9 DEF ScenariosOf
  <1>4. TagsOfOutputs(outputs, n) = {At(tags, t) : t \in refs}
    <2>1. ASSUME NEW x \in TagsOfOutputs(outputs, n) PROVE x \in {At(tags, t) : t \in refs}
      <3>1. PICK k \in 1..n : x \in TagsOfNode(outputs[k])
        BY <2>1 DEF TagsOfOutputs
      <3>2. outputs[k] \in PrimaryOutputs
        OBVIOUS
      <3>3. PICK t \in ToSet(dataTags[outputs[k]]) : x = At(tags, t)
        BY <1>2, <3>1, <3>2
      <3> QED
        BY <3>2, <3>3
    <2>2. ASSUME NEW t \in refs PROVE At(tags, t) \in TagsOfOutputs(outputs, n)
      <3>1. PICK m \in PrimaryOutputs : t \in ToSet(dataTags[m])
        BY <2>2
      <3>2. PICK k \in 1..n : outputs[k] = m
        OBVIOUS
      <3>3. At(tags, t) \in TagsOfNode(outputs[k])
        BY <1>2, <3>1, <3>2
      <3> QED
        BY <3>3 DEF TagsOfOutputs
    <2> QED
      BY <2>1, <2>2
  <1>5. TagsOfOutputs(outputs, n) \subseteq TagType
    BY <1>3, <1>4
  <1> QED
    BY <1>3, <1>4, <1>5

(* The bins are whole numbers of time units.                                *)
LEMMA WiderBinType == TInv => WiderBin.den = 1 /\ WiderBin.num \in Nat
  <1> SUFFICES ASSUME TInv PROVE WiderBin.den = 1 /\ WiderBin.num \in Nat
    OBVIOUS
  <1>1. opts.coarse \in Nat /\ opts.fine \in Nat
    BY OptionsAssumption DEF TInv, WorkspaceOK
  <1> QED
    BY <1>1 DEF Bin, WiderBin

(* Every scenario of the circuit is reported once, at the latest arrival    *)
(* of any output in it or less than a bin later, whatever the order of the  *)
(* outputs.                                                                 *)
LEMMA MaxDelaysReported ==
    ASSUME TInv, StaInv, CoverInv, Finished, PrimaryOutputs # {}, NEW outputs \in SetToSeqs(PrimaryOutputs),
           NEW a \in CircuitScenarios
    PROVE  ReportedNear(CircuitMaxDelays(Covered, outputs), a, Max(OutputArrivals(Covered, a)))
  <1> DEFINE n == Cardinality(PrimaryOutputs)
             refs == UNION {ToSet(dataTags[m]) : m \in PrimaryOutputs}
             S == TagsOfOutputs(outputs, n)
             seq == MaxTags(outputs)
             out == MergedMaxTags(outputs)
             sorted == Descending(out)
             covered == Covered
             had == {u \in S : a \in Satisfying(covered, u.scen)}
             T == OutputArrivals(covered, a)
  <1>1. IsFiniteSet(PrimaryOutputs) /\ PrimaryOutputs \subseteq Node
    <2>1. Node = 1..NumNodes /\ 1 \in Int /\ NumNodes \in Int
      BY NetFacts
    <2>2. IsFiniteSet(Node)
      BY <2>1, FS_Interval
    <2>3. PrimaryOutputs \subseteq Node
      BY DEF PrimaryOutputs
    <2> QED
      BY <2>2, <2>3, FS_Subset
  <1>2. /\ n \in Nat /\ outputs \in [1..n -> PrimaryOutputs]
        /\ \A m \in PrimaryOutputs : \E k \in 1..n : outputs[k] = m
    BY <1>1, SetToSeqsOnto
  <1> HIDE DEF n
  <1>3. outputs \in [1..n -> Node]
    BY <1>1, <1>2
  <1>4. MaxOf(seq, S)
    BY <1>2, <1>3, MaxTagsAre
  <1>5. /\ S = {At(tags, t) : t \in refs} /\ S \in SUBSET TagType
        /\ \A t \in refs : ScenariosOf(covered, t) = Satisfying(covered, At(tags, t).scen)
    BY <1>2, OutputTags
  <1>6. MergedOf(out, seq)
    <2>1. seq \in Seq(MaxTagType)
      BY <1>4 DEF MaxOf
    <2> HIDE DEF seq, out
    <2> QED
      BY <2>1, MergedMaxTagsAre DEF seq, out
  <1>7. Sorted(sorted, out)
    <2>1. out \in Seq(MaxTagType) /\ \A k, l \in DOMAIN out : out[k].arr = out[l].arr => k = l
      BY <1>6 DEF MergedOf
    <2> HIDE DEF out
    <2> QED
      BY <2>1, DescendingIsSorted
  <1>8. PICK t \in refs : a \in ScenariosOf(covered, t)
    <2>1. PICK m \in PrimaryOutputs : TRUE
      OBVIOUS
    <2>2. PICK t \in ToSet(dataTags[m]) : a \in ScenariosOf(Covered, t)
      BY OutputsCovered
    <2> QED
      BY <2>2
  <1> DEFINE t0 == At(tags, t)
  <1>9. t0 \in S /\ a \in Satisfying(covered, t0.scen)
    BY <1>5, <1>8
  <1>10. T = {u.arr : u \in had}
    <2>1. T = {At(tags, u).arr : u \in {v \in refs : a \in ScenariosOf(covered, v)}}
      BY DEF OutputArrivals
    <2>2. ASSUME NEW x \in T PROVE x \in {u.arr : u \in had}
      <3>1. PICK u \in refs : a \in ScenariosOf(covered, u) /\ x = At(tags, u).arr
        BY <2>1, <2>2
      <3>2. At(tags, u) \in had
        BY <1>5, <3>1
      <3> QED
        BY <3>1, <3>2
    <2>3. ASSUME NEW u \in had PROVE u.arr \in T
      <3>1. PICK v \in refs : u = At(tags, v)
        BY <1>5
      <3>2. a \in ScenariosOf(covered, v)
        BY <1>5, <3>1
      <3> QED
        BY <2>1, <3>1, <3>2
    <2> QED
      BY <2>2, <2>3
  <1>11. T = ArrivalsIn(S, covered, a)
    BY <1>10 DEF ArrivalsIn
  <1>12. CircuitMaxDelays(covered, outputs) = DelaysOf(covered, sorted)
    BY DEF CircuitMaxDelays, DelaysOf, FunctionsOf
  <1>13. WiderBin.num \in Nat
    BY WiderBinType
  <1>14. S \in SUBSET TagType
    BY <1>5
  <1> HIDE DEF S, seq, out, sorted, covered, t0, T
  <1>15. ReportedNear(DelaysOf(covered, sorted), a, Max(ArrivalsIn(S, covered, a)))
    BY <1>4, <1>6, <1>7, <1>9, <1>13, <1>14, DelaysReported
  <1> QED
    BY <1>11, <1>12, <1>15 DEF covered, T

(* MaxDelayOfEveryScenario holds of any circuit with an output: no          *)
(* scenario is counted at two delays, none is missing, and the delay is     *)
(* never less than the latest output's nor a bin more.                      *)
THEOREM EveryScenarioReportedOnce ==
    ASSUME PrimaryOutputs # {}
    PROVE  Spec => []MaxDelayOfEveryScenario
  <1>1. TInv /\ StaInv /\ CoverInv => MaxDelayOfEveryScenario
    <2> SUFFICES ASSUME TInv, StaInv, CoverInv, Finished,
                        NEW covered, covered = Covered, NEW outputs \in SetToSeqs(PrimaryOutputs),
                        NEW delays, delays = CircuitMaxDelays(covered, outputs), NEW a \in CircuitScenarios,
                        NEW latest, latest = Max(OutputArrivals(covered, a)),
                        NEW at, at = {k \in DOMAIN delays : a \in delays[k].scenarios}
                 PROVE  /\ Cardinality(at) = 1
                        /\ \A k \in at : LET late == delays[k].arr - latest IN
                             late = 0 \/ (late > 0 /\ late * WiderBin.den < WiderBin.num)
      BY DEF MaxDelayOfEveryScenario
    <2>1. /\ Cardinality(at) = 1
          /\ \A k \in at : latest \in Nat /\ Near(latest, delays[k].arr) /\ delays[k].arr \in Nat
      BY MaxDelaysReported DEF ReportedNear
    <2>2. ASSUME NEW x \in Nat, NEW y \in Nat, Near(x, y)
          PROVE  y - x = 0 \/ (y - x > 0 /\ (y - x) * WiderBin.den < WiderBin.num)
      <3> DEFINE w == WiderBin.num
                 d == y - x
      <3>1. w \in Nat /\ WiderBin.den = 1
        BY WiderBinType
      <3>2. x <= y /\ (y = x \/ y - x < w)
        BY <2>2 DEF Near
      <3> HIDE DEF w
      <3>3. d \in Int /\ (d = 0 \/ (d > 0 /\ d < w))
        BY <3>1, <3>2
      <3> HIDE DEF d
      <3>4. d * WiderBin.den = d
        BY <3>1, <3>3
      <3> QED
        BY <3>3, <3>4 DEF d, w
    <2> QED
      BY <2>1, <2>2
  <1> QED
    BY <1>1, TInvInitially, TInvStep, StaInitially, StaStep, CoverInitially, CoverStep, PTL DEF Spec
===============================================================================
