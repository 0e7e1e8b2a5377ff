------------------------------ MODULE TagCoverage ------------------------------
(***************************************************************************)
(* What the tags mean and what the forward traversal promises about them.  *)
(* A scenario of the whole circuit gives every logical input (primary      *)
(* input or flip-flop output) one of the four transitions; a tag stands    *)
(* for the set of scenarios that its switching scenarios, traced back to   *)
(* the logical inputs, describe.  Its share of all scenarios is the        *)
(* probability the analysis reports for its arrival time.                  *)
(***************************************************************************)
EXTENDS TagPropagation

CircuitScenarios == [LogicalInputs -> Transitions]

(* The circuit scenarios in which all tags of some switching scenario occur. *)
Satisfying(covered, scen) ==
    {a \in CircuitScenarios :
        \E s \in scen : \A i \in DOMAIN s : a \in covered[s[i][1]][s[i][2]]}

(* What SharpSatBddEvaluator::build_bdd_xfunc computes for a tag, the      *)
(* scenario sets of the tags of the earlier nodes given.                   *)
TagScenarios(earlier, n, tag) ==
    IF Type[n] = "CONSTANT_GEN_SOURCE" THEN CircuitScenarios
    ELSE IF n \in LogicalInputs THEN {a \in CircuitScenarios : a[n] = tag.trans}
    ELSE Satisfying(earlier, tag.scen)

(* CoveredIn(heap)[n][i]: the circuit scenarios of the tag heap[n][i].     *)
CoveredIn(heap) ==
    FoldLeft(LAMBDA earlier, n :
                Append(earlier, [i \in DOMAIN heap[n] |->
                                    TagScenarios(earlier, n, heap[n][i])]),
             <<>>, [n \in Node |-> n])

Covered == CoveredIn(tags)

Finished == visited = Node

ScenariosOf(covered, t) == covered[t[1]][t[2]]

(* The value of every node when the logical inputs have the values given.  *)
LogicValues(inputs) ==
    FoldLeft(LAMBDA earlier, n :
                Append(earlier,
                    IF n \in LogicalInputs THEN inputs[n]
                    ELSE IF Type[n] = "CONSTANT_GEN_SOURCE" THEN OnSet[n] # {}
                    ELSE [i \in DataEdges(n) |-> earlier[Fanin[n][i]]] \in OnSet[n]),
             <<>>, [n \in Node |-> n])

InitialValue(trans) == trans \in {"FALL", "HIGH"}
-------------------------------------------------------------------------------
(* Tag sets only hold references to existing tags, and the workspace of    *)
(* the node being evaluated is in step with its stage.                     *)
TypeOK ==
    /\ \A n \in Node : \A i \in DOMAIN tags[n] :
          /\ tags[n][i].trans \in Transitions /\ tags[n][i].arr \in Nat
          /\ \A s \in tags[n][i].scen : \A e \in DOMAIN s :
                s[e][1] = Fanin[n][e] /\ s[e][2] \in DOMAIN tags[s[e][1]]
    /\ \A n \in Node : \A i \in DOMAIN dataTags[n] :
          dataTags[n][i][1] = n /\ dataTags[n][i][2] \in DOMAIN tags[n]
    /\ clocked \subseteq Node /\ visited \subseteq Node
    /\ phase \in {"idle", "reduce", "eval"}
    /\ (phase = "idle") = (node = NoNode)
    /\ node # NoNode => node \in Node \ visited
    /\ DOMAIN srcs = IF node = NoNode THEN {} ELSE DataEdges(node)
    /\ \A i \in DOMAIN srcs : \A j \in DOMAIN srcs[i] :
          srcs[i][j][1] = Fanin[node][i] /\ srcs[i][j][2] \in DOMAIN tags[Fanin[node][i]]
    /\ done \in BOOLEAN

(* Every scenario of the circuit belongs to some tag of every node that    *)
(* carries data: reducing, merging and compressing tags loses none.        *)
CoversEveryScenario ==
    Finished => LET covered == Covered IN
        \A n \in Node : dataTags[n] # <<>> =>
            UNION {ScenariosOf(covered, t) : t \in ToSet(dataTags[n])} = CircuitScenarios

(* And, as long as no input tags are reduced, to one tag only: no scenario *)
(* is counted twice, nor merged into two tags.                             *)
EveryScenarioOnce ==
    Finished => LET covered == Covered IN
        \A n \in Node : dataTags[n] # <<>> => \A a \in CircuitScenarios :
            Cardinality({t \in ToSet(dataTags[n]) : a \in ScenariosOf(covered, t)}) = 1

(* The probabilities of the tags of a primary output sum to one, as        *)
(* print_node_histogram asserts.                                           *)
OutputProbabilityIsOne ==
    Finished => LET covered == Covered IN
        \A n \in {m \in Node : Type[m] = "OUTPAD_SINK"} :
            FoldLeft(LAMBDA sum, t : sum + Cardinality(ScenariosOf(covered, t)),
                     0, dataTags[n]) = Cardinality(CircuitScenarios)

(* A tag's transition agrees with the circuit's logic in every scenario it *)
(* stands for: it ends at the value the node settles to, and a HIGH or LOW *)
(* tag also starts there (a static tag never hides a transition).          *)
TransitionsAreSound ==
    Finished => LET covered == Covered IN
        \A a \in CircuitScenarios :
            LET final   == LogicValues([n \in LogicalInputs |-> FinalValue(a[n])])
                initial == LogicValues([n \in LogicalInputs |-> InitialValue(a[n])])
            IN \A n \in Node : \A t \in ToSet(dataTags[n]) :
                  a \in ScenariosOf(covered, t) =>
                    LET trans == At(tags, t).trans IN
                      /\ FinalValue(trans) = final[n]
                      /\ trans \in Static => initial[n] = final[n]

(* The responses of every node to one circuit scenario, simulated without  *)
(* tags; ties may be broken either way.                                    *)
Simulated(a) ==
    FoldLeft(LAMBDA earlier, n :
        Append(earlier,
            IF n \in LogicalInputs THEN {[trans |-> a[n], arr |-> 0]}
            ELSE IF Type[n] = "CONSTANT_GEN_SOURCE"
                 THEN {[trans |-> IF OnSet[n] = {} THEN "LOW" ELSE "HIGH", arr |-> 0]}
            ELSE IF \E i \in DataEdges(n) : earlier[Fanin[n][i]] = {} THEN {}
            ELSE UNION {Responses(n, in) :
                    in \in {f \in [DataEdges(n) -> UNION {earlier[Fanin[n][i]] : i \in DataEdges(n)}] :
                              \A i \in DataEdges(n) : f[i] \in earlier[Fanin[n][i]]}}),
        <<>>, [n \in Node |-> n])

(* Without binning the compressed analysis is exact: the tag that stands   *)
(* for a scenario has the transition and arrival time a simulation of that *)
(* one scenario gives.                                                     *)
MatchesSimulation ==
    (Finished /\ opts.coarse = 0 /\ opts.fine = 0) => LET covered == Covered IN
        \A a \in CircuitScenarios : LET simulated == Simulated(a) IN
            \A n \in Node : \A t \in ToSet(dataTags[n]) :
                a \in ScenariosOf(covered, t) =>
                    [trans |-> At(tags, t).trans, arr |-> At(tags, t).arr] \in simulated[n]

ConstantInCone[n \in Node] ==
    \/ Type[n] = "CONSTANT_GEN_SOURCE"
    \/ \E i \in DOMAIN Fanin[n] : ConstantInCone[Fanin[n][i]]

(* No tag arrives later than the standard analysis says, however tags were *)
(* merged (the standard analysis ignores the delays from constants).       *)
ArrivalsWithinSta ==
    \A n \in Node : ~ConstantInCone[n] => \A i \in DOMAIN tags[n] :
        \E latest \in sta.arrival[n] : tags[n][i].arr <= latest

(* Once a node is done, another pass of the reducer would change nothing.  *)
FullyMerged ==
    \A n \in visited : \A i, j \in DOMAIN dataTags[n] : i < j /\ Threshold(n) # {} =>
        ~Joinable(tags, dataTags[n][j], dataTags[n][i],
                  Bin(opts.coarse), Bin(opts.fine), Threshold(n))

(* Tag t survives a merge at the bin size given: some tag of the merged    *)
(* set takes over its scenarios, at an arrival no earlier and less than a  *)
(* bin later.                                                              *)
Survives(t, merged, heap, size) ==
    \E r \in ToSet(merged) :
        LET old == At(tags, t)
            new == At(heap, r)
        IN /\ new.trans = old.trans /\ old.scen \subseteq new.scen
           /\ old.arr <= new.arr
           /\ new.arr = old.arr \/ (new.arr - old.arr) * size.den < size.num

WiderBin == IF opts.coarse < opts.fine THEN Bin(opts.fine) ELSE Bin(opts.coarse)

(* Merging is conservative and its error bounded, both when a node's input *)
(* tags are reduced and when its output tags are merged.                   *)
MergingIsBounded ==
    [][/\ phase = "reduce" /\ phase' = "reduce" =>
             \A t \in ToSet(srcs[MostTags]) : Survives(t, srcs'[MostTags], tags', NewBin)
       /\ phase = "eval" /\ phase' = "idle" =>
             \A i \in DOMAIN tags[node] :
                 Survives(<<node, i>>, dataTags'[node], tags', WiderBin)]_vars

(* The handler of a node modifies only that node (SerialTimingAnalyzer's   *)
(* thread-safety note).                                                    *)
OnlyCurrentNode ==
    [][\A n \in Node : n \in visited => tags'[n] = tags[n] /\ dataTags'[n] = dataTags[n]]_vars

(* A tag beyond the slack threshold is only merged with tags beyond it.    *)
NeverAcrossThreshold ==
    [][(phase = "eval" /\ phase' = "idle") =>
          \A r \in ToSet(dataTags'[node]), i \in DOMAIN tags[node] :
             (tags[node][i].scen \subseteq At(tags', r).scen)
                => (Beyond(tags[node][i].arr, Threshold(node))
                      <=> Beyond(At(tags', r).arr, Threshold(node)))]_vars

(* reduce_permutations gives up on its limit only when a larger bin would  *)
(* leave the input with the most tags as it is.                            *)
GivesUpWhenIrreducible ==
    [][(phase = "reduce" /\ phase' = "eval" /\ TooMany) =>
          Len(Coarsened(NewBin).merged) = Len(srcs[MostTags])]_vars

(* The analysis terminates.                                                *)
EveryNodeVisited == <>(visited = Node)
===============================================================================
