------------------------------ MODULE TimingGraph ------------------------------
(***************************************************************************)
(* tatum's TimingGraph: nodes and edges as parallel arrays, and levelize(), *)
(* which sorts the nodes topologically.  Every edge is stored three times:  *)
(* in srcOf/sinkOf, in the out-edges of its source and in the in-edges of   *)
(* its sink.  A graph may be changed again after it has been levelized; its *)
(* levels are then stale until it is levelized anew.                        *)
(*                                                                          *)
(* Ids count from 1; level k of levels is the LevelId k - 1.  The logic     *)
(* functions of the nodes are not used here.                                *)
(***************************************************************************)
EXTENDS Integers, Sequences, FiniteSets

CONSTANT Domains          \* the clock domains, positive numbers

InvalidDomain == 0        \* INVALID_CLOCK_DOMAIN

ASSUME DomainsAssumption == Domains \subseteq Nat \ {InvalidDomain}

TN_Type ==
    {"INPAD_SOURCE", "INPAD_OPIN", "OUTPAD_IPIN", "OUTPAD_SINK", "PRIMITIVE_IPIN",
     "PRIMITIVE_OPIN", "FF_IPIN", "FF_OPIN", "FF_SINK", "FF_SOURCE", "FF_CLOCK",
     "CLOCK_SOURCE", "CLOCK_OPIN", "CONSTANT_GEN_SOURCE", "UNKOWN"}

is_source(type) == type \in {"INPAD_SOURCE", "FF_SOURCE", "CONSTANT_GEN_SOURCE"}
is_sink(type)   == type \in {"FF_SINK", "OUTPAD_SINK"}

NodeData == [type : TN_Type, domain : Domains \cup {InvalidDomain}, clockSource : BOOLEAN]

VARIABLES
    nodes,            \* node_types_, node_clock_domains_, node_is_clock_source_
    outEdges, inEdges,\* node_out_edges_, node_in_edges_
    srcOf, sinkOf,    \* edge_src_nodes_, edge_sink_nodes_
    levels,           \* the nodes of each level, in the order they were found
    nodeLevels,       \* node_levels_
    primaryOutputs, logicalInputs, logicalOutputs,
    stage,            \* "modified", "counting", "levelizing" or "levelized"
    fanin,            \* node_fanin_remaining
    level, pos, edge  \* loop positions: levels[level][pos] and its edge-th out-edge

graphData    == <<nodes, outEdges, inEdges, srcOf, sinkOf>>
levelData    == <<levels, nodeLevels, primaryOutputs, logicalInputs, logicalOutputs>>
loopState    == <<fanin, level, pos, edge>>
graphVars    == <<graphData, levelData, stage, loopState>>

NodeIds == DOMAIN nodes
EdgeIds == DOMAIN srcOf

Idle == stage \in {"modified", "levelized"}

GraphInit ==
    /\ nodes = <<>> /\ outEdges = <<>> /\ inEdges = <<>>
    /\ srcOf = <<>> /\ sinkOf = <<>>
    /\ levels = <<>> /\ nodeLevels = <<>>
    /\ primaryOutputs = <<>> /\ logicalInputs = <<>> /\ logicalOutputs = <<>>
    /\ stage = "modified"
    /\ fanin = <<>> /\ level = 1 /\ pos = 1 /\ edge = 1

add_node(data) ==
    /\ Idle
    /\ nodes' = Append(nodes, data)
    /\ outEdges' = Append(outEdges, <<>>)
    /\ inEdges' = Append(inEdges, <<>>)
    /\ stage' = "modified"
    /\ UNCHANGED <<srcOf, sinkOf, levelData, loopState>>

add_edge(src, sink) ==
    /\ Idle
    /\ src \in NodeIds /\ sink \in NodeIds
    /\ srcOf' = Append(srcOf, src)
    /\ sinkOf' = Append(sinkOf, sink)
    /\ outEdges' = [outEdges EXCEPT ![src] = Append(@, Len(srcOf) + 1)]
    /\ inEdges' = [inEdges EXCEPT ![sink] = Append(@, Len(srcOf) + 1)]
    /\ stage' = "modified"
    /\ UNCHANGED <<nodes, levelData, loopState>>
-------------------------------------------------------------------------------
(* levelize(), one node of the first loop and one out-edge of the second at *)
(* a time.  The call is over when nothing is left to do: Idle again.        *)

(* Mutant: what an earlier call found is kept.                              *)
BeginLevelizeKeepsOutputs ==
    /\ Idle
    /\ levels' = << <<>> >>
    /\ logicalInputs' = <<>> /\ logicalOutputs' = <<>>
    /\ nodeLevels' = [n \in NodeIds |-> 0]
    /\ fanin' = [n \in NodeIds |-> 0]
    /\ stage' = "counting" /\ level' = 1 /\ pos' = 1 /\ edge' = 1
    /\ UNCHANGED <<graphData, primaryOutputs>>

(* Earlier results are cleared.                                             *)
BeginLevelize ==
    /\ Idle
    /\ levels' = << <<>> >>
    /\ primaryOutputs' = <<>> /\ logicalInputs' = <<>> /\ logicalOutputs' = <<>>
    /\ nodeLevels' = [n \in NodeIds |-> 0]
    /\ fanin' = [n \in NodeIds |-> 0]
    /\ stage' = "counting" /\ level' = 1 /\ pos' = 1 /\ edge' = 1
    /\ UNCHANGED graphData

AppendIf(test, seq, x) == IF test THEN Append(seq, x) ELSE seq

(* Node pos: its in-edges are counted; without any it is on level 0.        *)
CountFanin ==
    /\ stage = "counting" /\ pos <= Len(nodes)
    /\ fanin' = [fanin EXCEPT ![pos] = Len(inEdges[pos])]
    /\ levels' = [levels EXCEPT ![1] = AppendIf(inEdges[pos] = <<>>, @, pos)]
    /\ logicalInputs' = AppendIf(is_source(nodes[pos].type), logicalInputs, pos)
    /\ logicalOutputs' = AppendIf(is_sink(nodes[pos].type), logicalOutputs, pos)
    /\ pos' = pos + 1
    /\ UNCHANGED <<graphData, nodeLevels, primaryOutputs, stage, level, edge>>

StartWalk ==
    /\ stage = "counting" /\ pos > Len(nodes)
    /\ stage' = "levelizing" /\ pos' = 1
    /\ UNCHANGED <<graphData, levelData, fanin, level, edge>>

AtNode == stage = "levelizing" /\ pos <= Len(levels[level])
Current == levels[level][pos]

(* Mutants: a sink is placed when its first in-edge is seen; the count is   *)
(* not decremented for the edge that places it.                             *)
TraverseEdgeFirstFanin ==
    /\ AtNode /\ edge <= Len(outEdges[Current])
    /\ LET sink == sinkOf[outEdges[Current][edge]] IN
         /\ fanin' = [fanin EXCEPT ![sink] = @ - 1]
         /\ IF fanin[sink] = Len(inEdges[sink])
            THEN /\ levels' = IF Len(levels) = level
                              THEN Append(levels, <<sink>>)
                              ELSE [levels EXCEPT ![level + 1] = Append(@, sink)]
                 /\ nodeLevels' = [nodeLevels EXCEPT ![sink] = level]
            ELSE UNCHANGED <<levels, nodeLevels>>
    /\ edge' = edge + 1
    /\ UNCHANGED <<graphData, primaryOutputs, logicalInputs, logicalOutputs, stage, level, pos>>

TraverseEdgeNoCount ==
    /\ AtNode /\ edge <= Len(outEdges[Current])
    /\ LET sink == sinkOf[outEdges[Current][edge]] IN
         IF fanin[sink] = 1
         THEN /\ levels' = IF Len(levels) = level
                           THEN Append(levels, <<sink>>)
                           ELSE [levels EXCEPT ![level + 1] = Append(@, sink)]
              /\ nodeLevels' = [nodeLevels EXCEPT ![sink] = level]
              /\ UNCHANGED fanin
         ELSE /\ fanin' = [fanin EXCEPT ![sink] = @ - 1]
              /\ UNCHANGED <<levels, nodeLevels>>
    /\ edge' = edge + 1
    /\ UNCHANGED <<graphData, primaryOutputs, logicalInputs, logicalOutputs, stage, level, pos>>

(* The sink has one in-edge less to wait for; after the last it joins the   *)
(* next level, which is allocated for its first node.                       *)
TraverseEdge ==
    /\ AtNode /\ edge <= Len(outEdges[Current])
    /\ LET sink == sinkOf[outEdges[Current][edge]] IN
         /\ fanin' = [fanin EXCEPT ![sink] = @ - 1]
         /\ IF fanin[sink] = 1
            THEN /\ levels' = IF Len(levels) = level
                              THEN Append(levels, <<sink>>)
                              ELSE [levels EXCEPT ![level + 1] = Append(@, sink)]
                 /\ nodeLevels' = [nodeLevels EXCEPT ![sink] = level]
            ELSE UNCHANGED <<levels, nodeLevels>>
    /\ edge' = edge + 1
    /\ UNCHANGED <<graphData, primaryOutputs, logicalInputs, logicalOutputs, stage, level, pos>>

LeaveNode ==
    /\ AtNode /\ edge > Len(outEdges[Current])
    /\ primaryOutputs' = AppendIf(outEdges[Current] = <<>> /\ is_sink(nodes[Current].type),
                                  primaryOutputs, Current)
    /\ pos' = pos + 1 /\ edge' = 1
    /\ UNCHANGED <<graphData, levels, nodeLevels, logicalInputs, logicalOutputs,
                   stage, fanin, level>>

(* Mutant: the position is not set back.                                    *)
LeaveLevelKeepsPos ==
    /\ stage = "levelizing" /\ pos > Len(levels[level])
    /\ IF Len(levels) > level
       THEN level' = level + 1 /\ UNCHANGED stage
       ELSE stage' = "levelized" /\ UNCHANGED level
    /\ UNCHANGED <<graphData, levelData, fanin, pos, edge>>

(* The loop ends after a level that placed no node.                         *)
LeaveLevel ==
    /\ stage = "levelizing" /\ pos > Len(levels[level])
    /\ IF Len(levels) > level
       THEN level' = level + 1 /\ UNCHANGED stage
       ELSE stage' = "levelized" /\ UNCHANGED level
    /\ pos' = 1
    /\ UNCHANGED <<graphData, levelData, fanin, edge>>

LevelizeStep == CountFanin \/ StartWalk \/ TraverseEdge \/ LeaveNode \/ LeaveLevel

GraphNext ==
    \/ \E data \in NodeData : add_node(data)
    \/ \E src, sink \in NodeIds : add_edge(src, sink)
    \/ BeginLevelize \/ LevelizeStep

GraphSpec == GraphInit /\ [][GraphNext]_graphVars
-------------------------------------------------------------------------------
(* An out-edge the loop has already followed.                               *)
Traversed(e) ==
    \/ \E l \in 1..(level - 1) : \E p \in DOMAIN levels[l] : levels[l][p] = srcOf[e]
    \/ \E p \in DOMAIN levels[level] :
          /\ levels[level][p] = srcOf[e]
          /\ \/ p < pos
             \/ p = pos /\ \E i \in 1..(edge - 1) : outEdges[srcOf[e]][i] = e

Waiting(n) == {e \in EdgeIds : sinkOf[e] = n /\ ~Traversed(e)}

OnLevel(n, l) == \E p \in DOMAIN levels[l] : levels[l][p] = n
Placed(n) == \E l \in DOMAIN levels : OnLevel(n, l)

(* levelize()'s counters: while it runs, a node waits for exactly the       *)
(* in-edges not followed yet, and is in a level exactly when it waits for   *)
(* none, so that the VERIFY of a positive count before each decrement never *)
(* fails.                                                                   *)
FaninIsExact ==
    stage = "levelizing" => \A n \in NodeIds :
        /\ fanin[n] = Cardinality(Waiting(n))
        /\ fanin[n] = 0 <=> Placed(n)

(* An edge whose ends are both placed goes up in level, and no node is      *)
(* placed twice, however often the graph was changed and levelized again.   *)
LevelsAreTopological ==
    stage # "modified" =>
        /\ \A e \in EdgeIds : \A l, k \in DOMAIN levels :
              (OnLevel(srcOf[e], l) /\ OnLevel(sinkOf[e], k)) => l < k
        /\ \A l, k \in DOMAIN levels : \A p \in DOMAIN levels[l], q \in DOMAIN levels[k] :
              levels[l][p] = levels[k][q] => l = k /\ p = q
===============================================================================
