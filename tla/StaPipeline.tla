------------------------------ MODULE StaPipeline ------------------------------
(***************************************************************************)
(* tatum_sta from the netlist to the analysis: the parser adds the nodes,   *)
(* then the edges of each node in turn; add_ff_clock_to_source_sink_edges   *)
(* ties the clock pin of every logic block to its flip-flops; the graph is  *)
(* levelized, its layout optimized and the edge delays moved along; then    *)
(* the timing is calculated, several times.  esta builds its graph without  *)
(* the layout step.  A caller may have levelized the graph before the clock *)
(* edges were added.                                                        *)
(***************************************************************************)
EXTENDS GraphLayout, SetupTraversal

CONSTANT Netlists   \* records [nodes, blocks, fanouts, constraints]: fanouts[n]
                    \* is a sequence of [sink, delay], blocks[n] the logical
                    \* block of node n

(* One entry per node in each table; no block has two clock pins.           *)
ASSUME NetlistsAssumption ==
    \A nl \in Netlists :
        /\ nl.nodes \in Seq(NodeData)
        /\ nl.blocks \in [DOMAIN nl.nodes -> Int]
        /\ nl.fanouts \in [DOMAIN nl.nodes -> Seq([sink : Nat, delay : Nat])]
        /\ \A pair \in DOMAIN nl.constraints : nl.constraints[pair] \in Int
        /\ \A m, n \in DOMAIN nl.nodes :
              nl.nodes[m].type = "FF_CLOCK" /\ nl.nodes[n].type = "FF_CLOCK"
                  /\ nl.blocks[m] = nl.blocks[n] => m = n

VARIABLES netlist, flow,   \* the input and the build, fixed
          todo,            \* the edges still to be added
          step             \* "load", "fixup", "levelize", "edges", "analyze"

vars == <<graphVars, layoutVars, traversalVars, netlist, flow, todo, step>>

input == <<netlist, flow>>

Loaded(nl) ==
    FlattenSeq([n \in DOMAIN nl.nodes |->
        [k \in DOMAIN nl.fanouts[n] |->
            [src |-> n, sink |-> nl.fanouts[n][k].sink, delay |-> nl.fanouts[n][k].delay]]])

(* The nodes of a graph whose longest path up has fewer than k edges, from  *)
(* the nodes' sources.                                                      *)
NodesUpTo(sources, k) ==
    FoldLeft(LAMBDA above, i : {n \in DOMAIN sources : sources[n] \subseteq above},
             {}, [i \in 1..k |-> i])

HasLoop(nl) ==
    LET ids == DOMAIN nl.nodes
        fans(m, n)   == \E k \in DOMAIN nl.fanouts[m] : nl.fanouts[m][k].sink = n
        clocks(m, n) == /\ nl.blocks[m] = nl.blocks[n] /\ nl.nodes[m].type = "FF_CLOCK"
                        /\ nl.nodes[n].type \in {"FF_SOURCE", "FF_SINK"}
        sources == [n \in ids |-> {m \in ids : fans(m, n) \/ clocks(m, n)}]
    IN NodesUpTo(sources, Len(nl.nodes)) # ids

(* VPR breaks combinational loops, and no clock is derived from itself, so  *)
(* only graphs without a loop are laid out anew; BLIF circuits may have one.*)
Init ==
    /\ GraphInit /\ LayoutInit /\ TraversalInit
    /\ netlist \in Netlists
    /\ flow \in [layout : BOOLEAN, early : BOOLEAN]
    /\ flow.layout => ~HasLoop(netlist)
    /\ constraints = netlist.constraints
    /\ todo = Loaded(netlist) /\ delays = <<>> /\ step = "load"

LoadNode ==
    /\ step = "load" /\ Len(nodes) < Len(netlist.nodes)
    /\ add_node(netlist.nodes[Len(nodes) + 1])
    /\ UNCHANGED <<layoutVars, traversalVars, input, todo, step>>

LoadEdge ==
    /\ step \in {"load", "fixup"} /\ Len(nodes) = Len(netlist.nodes) /\ todo # <<>>
    /\ add_edge(Head(todo).src, Head(todo).sink)
    /\ delays' = Append(delays, Head(todo).delay)
    /\ todo' = Tail(todo)
    /\ UNCHANGED <<layoutVars, constraints, tagVars, walkVars, input, step>>

LevelizeEarly ==
    /\ step = "load" /\ Len(nodes) = Len(netlist.nodes) /\ todo = <<>>
    /\ flow.early /\ stage = "modified"
    /\ BeginLevelize
    /\ UNCHANGED <<layoutVars, traversalVars, input, todo, step>>

Ascending(S) ==
    [i \in 1..Cardinality(S) |-> CHOOSE n \in S : Cardinality({m \in S : m < n}) = i - 1]

(* The blocks with a clock pin in order; the pin's edges to the FF_SOURCEs, *)
(* then to the FF_SINKs of its block.                                       *)
ClockEdges ==
    LET ofType(type)    == {n \in NodeIds : nodes[n].type = type}
        ofBlock(b, type) == Ascending({n \in ofType(type) : netlist.blocks[n] = b})
        pins(b)          == ofBlock(b, "FF_SOURCE") \o ofBlock(b, "FF_SINK")
        edges(b) == [k \in DOMAIN pins(b) |->
                        [src |-> ofBlock(b, "FF_CLOCK")[1], sink |-> pins(b)[k], delay |-> 0]]
        blocks == Ascending({netlist.blocks[n] : n \in ofType("FF_CLOCK")})
    IN FlattenSeq([k \in DOMAIN blocks |-> edges(blocks[k])])

add_ff_clock_to_source_sink_edges ==
    /\ step = "load" /\ Len(nodes) = Len(netlist.nodes) /\ todo = <<>>
    /\ stage = IF flow.early THEN "levelized" ELSE "modified"
    /\ todo' = ClockEdges
    /\ step' = "fixup"
    /\ UNCHANGED <<graphVars, layoutVars, traversalVars, input>>

Levelize ==
    /\ step = "fixup" /\ todo = <<>>
    /\ BeginLevelize
    /\ step' = "levelize"
    /\ UNCHANGED <<layoutVars, traversalVars, input, todo>>

WalkGraph ==
    /\ LevelizeStep
    /\ UNCHANGED <<layoutVars, traversalVars, input, todo, step>>

(* Mutant: the delays are not moved along.                                  *)
OptimizeEdgesOnly ==
    /\ step = "levelize" /\ flow.layout
    /\ optimize_edge_layout
    /\ step' = "edges"
    /\ UNCHANGED <<traversalVars, input, todo>>

OptimizeEdges ==
    /\ step = "levelize" /\ flow.layout
    /\ optimize_edge_layout
    /\ delays' = [new \in DOMAIN delays |->
                     delays[CHOOSE old \in DOMAIN delays : edgeMap'[old] = new]]
    /\ step' = "edges"
    /\ UNCHANGED <<constraints, tagVars, walkVars, input, todo>>

OptimizeNodes ==
    /\ step = "edges"
    /\ optimize_node_layout
    /\ step' = "analyze"
    /\ UNCHANGED <<traversalVars, input, todo>>

KeepLayout ==
    /\ step = "levelize" /\ stage = "levelized" /\ ~flow.layout
    /\ step' = "analyze"
    /\ UNCHANGED <<graphVars, layoutVars, traversalVars, input, todo>>

Analyze ==
    /\ step = "analyze"
    /\ StartAnalysis \/ calculate_timing
    /\ UNCHANGED <<layoutVars, input, todo, step>>

Next == \/ LoadNode \/ LoadEdge \/ LevelizeEarly \/ add_ff_clock_to_source_sink_edges
        \/ Levelize \/ WalkGraph \/ OptimizeEdges \/ OptimizeNodes \/ KeepLayout
        \/ Analyze

(* One program run; the runtime schedules every iteration of a cilk_for.    *)
Spec == Init /\ [][Next]_vars /\ WF_vars(Next)
===============================================================================
