------------------------------ MODULE GraphLayout ------------------------------
(***************************************************************************)
(* The memory layout optimizations of a levelized TimingGraph: edges, then  *)
(* nodes, are renumbered in the order a traversal of the levels meets them. *)
(* The maps from old to new ids are handed to the caller, whose own tables  *)
(* still use the old ids.                                                   *)
(***************************************************************************)
EXTENDS TimingGraph, SequencesExt

VARIABLES edgeMap, nodeMap   \* old id -> new id, 0 for the -1 of an id left out

layoutVars == <<edgeMap, nodeMap>>

LayoutInit == edgeMap = <<>> /\ nodeMap = <<>>

(* The ids in the order given, inverted; an id that is not in it maps to 0. *)
Renumbering(ids, order) ==
    [id \in ids |-> IF \E k \in DOMAIN order : order[k] = id
                    THEN CHOOSE k \in DOMAIN order : order[k] = id ELSE 0]

Renumbered(seq, map) == [k \in DOMAIN seq |-> map[seq[k]]]
Permuted(seq, order) == [k \in DOMAIN order |-> seq[order[k]]]
AllRenumbered(seqs, map) == [k \in DOMAIN seqs |-> Renumbered(seqs[k], map)]

TraversalOrder == FlattenSeq(levels)
EdgeOrder == FlattenSeq([k \in DOMAIN TraversalOrder |-> outEdges[TraversalOrder[k]]])

(* Mutant: the in-edges keep the old ids.                                   *)
optimize_edge_layout_out_edges_only ==
    /\ stage = "levelized"
    /\ edgeMap' = Renumbering(EdgeIds, EdgeOrder)
    /\ srcOf' = Permuted(srcOf, EdgeOrder)
    /\ sinkOf' = Permuted(sinkOf, EdgeOrder)
    /\ outEdges' = AllRenumbered(outEdges, edgeMap')
    /\ UNCHANGED <<inEdges, nodes, levelData, stage, loopState, nodeMap>>

optimize_edge_layout ==
    /\ stage = "levelized"
    /\ edgeMap' = Renumbering(EdgeIds, EdgeOrder)
    /\ srcOf' = Permuted(srcOf, EdgeOrder)
    /\ sinkOf' = Permuted(sinkOf, EdgeOrder)
    /\ outEdges' = AllRenumbered(outEdges, edgeMap')
    /\ inEdges' = AllRenumbered(inEdges, edgeMap')
    /\ UNCHANGED <<nodes, levelData, stage, loopState, nodeMap>>

(* Mutant: the levels keep the old ids.                                     *)
optimize_node_layout_old_levels ==
    /\ stage = "levelized"
    /\ nodeMap' = Renumbering(NodeIds, TraversalOrder)
    /\ nodes' = Permuted(nodes, TraversalOrder)
    /\ outEdges' = Permuted(outEdges, TraversalOrder)
    /\ inEdges' = Permuted(inEdges, TraversalOrder)
    /\ primaryOutputs' = Renumbered(primaryOutputs, nodeMap')
    /\ srcOf' = Renumbered(srcOf, nodeMap')
    /\ sinkOf' = Renumbered(sinkOf, nodeMap')
    /\ UNCHANGED <<levels, nodeLevels, logicalInputs, logicalOutputs, stage, loopState, edgeMap>>

(* node_levels_, logical_inputs_ and logical_outputs_ keep the old ids.     *)
optimize_node_layout ==
    /\ stage = "levelized"
    /\ nodeMap' = Renumbering(NodeIds, TraversalOrder)
    /\ nodes' = Permuted(nodes, TraversalOrder)
    /\ outEdges' = Permuted(outEdges, TraversalOrder)
    /\ inEdges' = Permuted(inEdges, TraversalOrder)
    /\ levels' = AllRenumbered(levels, nodeMap')
    /\ primaryOutputs' = Renumbered(primaryOutputs, nodeMap')
    /\ srcOf' = Renumbered(srcOf, nodeMap')
    /\ sinkOf' = Renumbered(sinkOf, nodeMap')
    /\ UNCHANGED <<nodeLevels, logicalInputs, logicalOutputs, stage, loopState, edgeMap>>
===============================================================================
