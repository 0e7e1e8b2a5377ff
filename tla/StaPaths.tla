-------------------------------- MODULE StaPaths --------------------------------
(***************************************************************************)
(* What the pipeline of StaPipeline promises, stated on the paths of the    *)
(* netlist that was read, in its own numbering.                             *)
(***************************************************************************)
EXTENDS StaPipeline

Orig == DOMAIN netlist.nodes
TypeOf(n) == netlist.nodes[n].type

(* The edges of the netlist, those from clock pins to flip-flops included.  *)
FanoutEdges ==
    UNION {{[src |-> m, sink |-> netlist.fanouts[m][k].sink,
             delay |-> netlist.fanouts[m][k].delay, nth |-> k] :
                k \in DOMAIN netlist.fanouts[m]} : m \in Orig}
BlockEdges ==
    {[src |-> p[1], sink |-> p[2], delay |-> 0, nth |-> 0] :
        p \in {q \in Orig \X Orig : /\ netlist.blocks[q[1]] = netlist.blocks[q[2]]
                                    /\ TypeOf(q[1]) = "FF_CLOCK"
                                    /\ TypeOf(q[2]) \in {"FF_SOURCE", "FF_SINK"}}}
Edges == FanoutEdges \cup BlockEdges
EdgesInto(n) == {e \in Edges : e.sink = n}
EdgesFrom(n) == {e \in Edges : e.src = n}

(* The nodes that are not on or behind a combinational loop, and for each   *)
(* the number of edges of the longest path that ends in it.                 *)
UpTo(k) == NodesUpTo([n \in Orig |-> {e.src : e \in EdgesInto(n)}], k)
LoopFree == UpTo(Len(netlist.nodes))
Depths ==
    LET upTo == [k \in 0..Len(netlist.nodes) |-> UpTo(k)]
    IN [n \in LoopFree |-> Min({k \in DOMAIN upTo : n \in upTo[k]}) - 1]

(* The clock paths and the data paths that end in a node.  They start where *)
(* no edge ends.                                                            *)
Starts(n) == {[domain |-> d, launch |-> n, delay |-> 0] :
                 d \in {x \in {netlist.nodes[n].domain} \ {InvalidDomain} : EdgesInto(n) = {}}}
IsClockSource(n) == \/ TypeOf(n) = "CLOCK_SOURCE"
                    \/ TypeOf(n) = "INPAD_SOURCE" /\ netlist.nodes[n].clockSource

Extended(paths, e) == {[p EXCEPT !.delay = @ + e.delay] : p \in paths}
ClockEdgesInto(n) == {e \in EdgesInto(n) : TypeOf(e.src) # "FF_SOURCE"}

ClockPaths ==
    LET to[n \in LoopFree] ==
          (IF IsClockSource(n) THEN Starts(n) ELSE {})
              \cup UNION {Extended(to[e.src], e) : e \in ClockEdgesInto(n)}
    IN to

DataPaths ==
    LET clock == ClockPaths
        LaunchedAt(n) == UNION {{[p EXCEPT !.launch = n] : p \in Extended(clock[e.src], e)} :
                                   e \in ClockEdgesInto(n)}
        to[n \in LoopFree] ==
          (IF TypeOf(n) = "INPAD_SOURCE" /\ ~IsClockSource(n) THEN Starts(n) ELSE {})
              \cup (IF TypeOf(n) = "FF_SOURCE" THEN LaunchedAt(n) ELSE {})
              \cup UNION {Extended(to[e.src], e) : e \in EdgesInto(n)}
    IN to

(* The required times of domain d at the ends of paths from node n, less    *)
(* the delays there.                                                        *)
DelaysTo(paths, d) == {p.delay : p \in {q \in paths : q.domain = d}}

RequiredAtSink(n, d, data, clock) ==
    CASE TypeOf(n) = "OUTPAD_SINK" ->
            {IF constraints[pair] < 0 THEN Max({0} \cup {p.delay : p \in data[n]})
             ELSE constraints[pair] : pair \in {<<d, netlist.nodes[n].domain>>} \cap DOMAIN constraints}
      [] TypeOf(n) = "FF_SINK" ->
            UNION {{Max(DelaysTo(clock[n], c)) + constraints[<<d, c>>]} :
                      c \in {c \in Domains : /\ DelaysTo(clock[n], c) # {}
                                             /\ <<d, c>> \in DOMAIN constraints}}
      [] OTHER -> {}

RequiredFrom(d) ==
    LET data == DataPaths
        clock == ClockPaths
        from[n \in LoopFree] ==
          IF DelaysTo(data[n], d) = {} THEN {}
          ELSE RequiredAtSink(n, d, data, clock) \cup
               (IF TypeOf(n) = "FF_CLOCK" THEN {}
                ELSE UNION {{r - e.delay : r \in from[e.sink]} :
                              e \in {x \in EdgesFrom(n) : x.sink \in LoopFree}})
    IN from
-------------------------------------------------------------------------------
(* The graph's id of a node of the netlist, once the layout is settled.     *)
NewId(n) == IF nodeMap = <<>> THEN n ELSE nodeMap[n]

(* Ids, levels and tags stay in range, and no loop position runs past its   *)
(* level.                                                                   *)
TypeOK ==
    /\ nodes \in Seq(NodeData) /\ Len(outEdges) = Len(nodes) /\ Len(inEdges) = Len(nodes)
    /\ Len(delays) = Len(srcOf) /\ Len(sinkOf) = Len(srcOf)
    /\ \A e \in EdgeIds : srcOf[e] \in NodeIds /\ sinkOf[e] \in NodeIds
    /\ \A n \in NodeIds : /\ \A i \in DOMAIN outEdges[n] : outEdges[n][i] \in EdgeIds
                          /\ \A i \in DOMAIN inEdges[n] : inEdges[n][i] \in EdgeIds
    /\ \A l \in DOMAIN levels : \A p \in DOMAIN levels[l] : levels[l][p] \in NodeIds
    /\ stage = "levelizing" => level \in DOMAIN levels /\ pos <= Len(levels[level]) + 1
    /\ phase \in {"idle", "pre", "fwd", "bck", "done", "aborted"}
    /\ phase # "idle" =>
          /\ lev \in DOMAIN levels
          /\ \A n \in NodeIds :
                /\ DOMAIN dataTags[n] \subseteq Domains /\ DOMAIN clockTags[n] \subseteq Domains
                /\ \A d \in DOMAIN dataTags[n] : dataTags[n][d].arr \in Nat

(* levelize() places exactly the nodes that are not on or behind a loop,    *)
(* each on the level of its longest path, and finds exactly the sinks among *)
(* them as primary outputs; also when the graph was levelized before its    *)
(* clock edges were added.                                                  *)
LevelsAreDepths ==
    (step = "levelize" /\ stage = "levelized") =>
        LET depths == Depths IN
        /\ \A n \in Orig : \A l \in DOMAIN levels :
              OnLevel(n, l) <=> n \in DOMAIN depths /\ l = depths[n] + 1
        /\ \A n \in DOMAIN depths : nodeLevels[n] = depths[n]
        /\ primaryOutputs \in SetToSeqs({n \in DOMAIN depths : EdgesFrom(n) = {} /\ is_sink(TypeOf(n))})

(* Renumbering is an isomorphism: every edge keeps its ends, its delay and  *)
(* its place in their edge lists, every node its data and its level.        *)
LayoutIsRenaming ==
    (step = "analyze" /\ phase = "idle") =>
        LET depths == Depths
        IN /\ {<<nodes[NewId(n)], n>> : n \in Orig} = {<<netlist.nodes[n], n>> : n \in Orig}
           /\ Cardinality({NewId(n) : n \in Orig}) = Len(netlist.nodes)
           /\ \A n \in DOMAIN depths : OnLevel(NewId(n), depths[n] + 1)
           /\ \A n \in Orig : LET m == NewId(n) IN
                /\ \A i \in DOMAIN outEdges[m] : srcOf[outEdges[m][i]] = m
                /\ \A i \in DOMAIN inEdges[m] : sinkOf[inEdges[m][i]] = m
                /\ Len(inEdges[m]) = Cardinality(EdgesInto(n))
                /\ \A k \in DOMAIN netlist.fanouts[n] :
                      /\ sinkOf[outEdges[m][k]] = NewId(netlist.fanouts[n][k].sink)
                      /\ delays[outEdges[m][k]] = netlist.fanouts[n][k].delay

(* After both optimizations a walk of the levels reads the nodes, and the   *)
(* out-edges of the nodes, in the order they are stored.                    *)
StoredInTraversalOrder ==
    (step = "analyze" /\ flow.layout) =>
        /\ TraversalOrder = [k \in NodeIds |-> k]
        /\ EdgeOrder = [k \in EdgeIds |-> k]

(* The times of a finished analysis are those of the netlist's paths: a     *)
(* node off the loops has a tag for every domain a path to it was launched  *)
(* in, with the latest arrival and the earliest required time; a node on or *)
(* behind a loop has none.                                                  *)
TimesMatchPaths ==
    phase = "done" =>
        LET data  == DataPaths
            clock == ClockPaths
        IN /\ \A n \in LoopFree : LET m == NewId(n) IN
                /\ DOMAIN clockTags[m] = {p.domain : p \in clock[n]}
                /\ \A d \in DOMAIN clockTags[m] : clockTags[m][d].arr = Max(DelaysTo(clock[n], d))
                /\ DOMAIN dataTags[m] = {p.domain : p \in data[n]}
                /\ \A d \in DOMAIN dataTags[m] : dataTags[m][d].arr = Max(DelaysTo(data[n], d))
           /\ \A d \in Domains : LET required == RequiredFrom(d) IN
                \A n \in LoopFree : d \in DOMAIN dataTags[NewId(n)] =>
                    dataTags[NewId(n)][d].req = EarliestOf(required[n])
           /\ \A n \in Orig \ LoopFree : dataTags[NewId(n)] = NoTags /\ clockTags[NewId(n)] = NoTags

(* The launch node of a tag is one from which a path really has the tag's   *)
(* arrival time.                                                            *)
LaunchExplainsArrival ==
    phase = "done" =>
        LET data == DataPaths IN
        \A n \in LoopFree : \A d \in DOMAIN dataTags[NewId(n)] :
            \E p \in data[n] : /\ p.domain = d /\ p.delay = dataTags[NewId(n)][d].arr
                               /\ NewId(p.launch) = dataTags[NewId(n)][d].launch

(* A node that no edge ends in is no source, or two clocks reach the clock  *)
(* pin of a flip-flop with an output.                                       *)
Undriven(n) ==
    EdgesInto(n) = {} /\ TypeOf(n) \notin {"INPAD_SOURCE", "CLOCK_SOURCE", "CONSTANT_GEN_SOURCE"}
LaunchesTwoClocks(n) ==
    /\ TypeOf(n) = "FF_SOURCE"
    /\ \E e \in ClockEdgesInto(n) : Cardinality({p.domain : p \in ClockPaths[e.src]}) > 1

(* The analysis aborts only for one of these two reasons, and then always.  *)
AbortsForCause ==
    phase \in {"done", "aborted"} =>
        (phase = "aborted" <=> \E n \in LoopFree : Undriven(n) \/ LaunchesTwoClocks(n))

(* Whose tags the next step of node n's handler reads.                      *)
ReadBy(n) ==
    IF phase = "fwd" THEN {srcOf[inEdges[n][i]] : i \in DOMAIN inEdges[n]}
    ELSE IF phase = "bck" THEN {sinkOf[outEdges[n][i]] : i \in DOMAIN outEdges[n]} ELSE {}

(* SerialTimingAnalyzer's thread-safety note: a handler's step writes no    *)
(* tags that a handler which may run beside it, or it itself later, reads.  *)
NoDataRaces ==
    [][\A n \in NodeIds : (phase = phase' /\ phase \in {"fwd", "bck"}
                               /\ <<dataTags[n], clockTags[n]>> # <<dataTags'[n], clockTags'[n]>>)
          => \A m \in Running : n \notin ReadBy(m)]_vars

(* The tool finishes its analyses or stops at an assertion.                 *)
Ends == phase = "aborted" \/ (phase = "done" /\ run = Len(Thresholds))
Terminates == <>Ends

(* SetupAnalysisMode.tpp:167-170 speaks of all the clocks that may drive a  *)
(* flip-flop, TimingTag.hpp:15-19 of several clocks in one traversal.       *)
NeverAborts == phase # "aborted"
===============================================================================
