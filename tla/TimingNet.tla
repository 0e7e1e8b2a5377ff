------------------------------- MODULE TimingNet -------------------------------
(***************************************************************************)
(* A levelized timing graph, as BlifTimingGraphBuilder leaves it for the   *)
(* analyses: typed nodes joined by edges, a logic function per node, and   *)
(* the results of the standard static timing analysis (STA) that runs      *)
(* before the extended one.                                                *)
(*                                                                         *)
(* Nodes are numbered so that every edge goes from a smaller number to a   *)
(* larger one.  The i-th in-edge of node n comes from Fanin[n][i]; the     *)
(* logic function of n is its on-set, a set of valuations of the positions *)
(* of its data edges.                                                      *)
(***************************************************************************)
EXTENDS Integers, Sequences, FiniteSetsExt

CONSTANTS NumNodes,   \* nodes are 1..NumNodes
          Type,       \* the TN_Type of each node
          Fanin,      \* the source nodes of its in-edges, in edge order
          OnSet       \* the on-set of its logic function

Node == 1..NumNodes

PrimaryTypes == {"INPAD_SOURCE", "CLOCK_SOURCE", "CONSTANT_GEN_SOURCE"}

NodeTypes == PrimaryTypes \cup
    {"INPAD_OPIN", "OUTPAD_IPIN", "OUTPAD_SINK", "PRIMITIVE_IPIN",
     "PRIMITIVE_OPIN", "FF_IPIN", "FF_OPIN", "FF_SINK", "FF_SOURCE", "FF_CLOCK"}

(* Edges from an FF_CLOCK never carry data arrivals.                       *)
DataEdges(n) == {i \in DOMAIN Fanin[n] : Type[Fanin[n][i]] # "FF_CLOCK"}

InputVectors(n) == [DataEdges(n) -> BOOLEAN]

(* What the builder creates: the sources are exactly the nodes without     *)
(* in-edges, a clock source feeding only the pin of its input; a           *)
(* flip-flop's data edge precedes its clock edge, and its FF_CLOCK feeds   *)
(* only its FF_SOURCE and FF_SINK.                                         *)
AsBuilt(n) ==
    /\ \A i \in DOMAIN Fanin[n] : Fanin[n][i] < n
    /\ Fanin[n] = <<>> <=> Type[n] \in PrimaryTypes
    /\ OnSet[n] \subseteq InputVectors(n)
    /\ Type[n] = "FF_SOURCE" => Len(Fanin[n]) = 1 /\ Type[Fanin[n][1]] = "FF_CLOCK"
    /\ Type[n] = "FF_SINK" => DataEdges(n) = {1}
    /\ \A i \in DOMAIN Fanin[n] :
          /\ Type[Fanin[n][i]] = "CLOCK_SOURCE" => Type[n] = "INPAD_OPIN"
          /\ Type[Fanin[n][i]] = "FF_CLOCK" => Type[n] \in {"FF_SOURCE", "FF_SINK"}

ASSUME NetAssumption ==
    /\ NumNodes \in Nat \ {0}
    /\ Type \in [Node -> NodeTypes]
    /\ Fanin \in [Node -> Seq(Node)]
    /\ \A n \in Node : AsBuilt(n)

(* The nodes only a clock reaches.                                         *)
ClockNet == {n \in Node : \/ Type[n] \in {"CLOCK_SOURCE", "FF_CLOCK"}
                          \/ \E i \in DOMAIN Fanin[n] : Type[Fanin[n][i]] = "CLOCK_SOURCE"}

(* Clocks come straight from inputs, and are read by latches only.  The    *)
(* analysis needs this of the circuit and does not check it: it keeps one  *)
(* tag set per input with data, in edge order, and indexes them by edge.   *)
ASSUME ClockNetAssumption ==
    \A n \in Node : \A i \in DOMAIN Fanin[n] :
        Fanin[n][i] \in ClockNet <=> n \in ClockNet \/ Type[Fanin[n][i]] = "FF_CLOCK"

LogicalInputs == {n \in Node : Type[n] \in {"INPAD_SOURCE", "FF_SOURCE"}}

(* The level levelize() gives a node.                                      *)
Level[n \in Node] ==
    IF Fanin[n] = <<>> THEN 0
    ELSE 1 + Max({Level[Fanin[n][i]] : i \in DOMAIN Fanin[n]})
-------------------------------------------------------------------------------
(***************************************************************************)
(* The standard analysis (setup mode).  A time is a set of at most one     *)
(* number, {} standing for NaN.  Single clock domain, default (negative)   *)
(* clock constraint.  delay[n][i] is the delay of the i-th in-edge of n.   *)
(***************************************************************************)
DefaultConstraint == -1

Latest(S)   == IF S = {} THEN {} ELSE {Max(S)}
Earliest(S) == IF S = {} THEN {} ELSE {Min(S)}

Pulled(times, delay, n, edges) ==
    UNION {{t + delay[n][i] : t \in times[Fanin[n][i]]} : i \in edges}

ClockArrivals(delay) ==
    LET arr[n \in Node] ==
          IF Type[n] = "CLOCK_SOURCE" THEN {0}
          ELSE Latest(Pulled(arr, delay, n,
                  {i \in DOMAIN Fanin[n] : Type[Fanin[n][i]] # "FF_SOURCE"}))
    IN arr

(* A clock arrival launches the data of an FF_SOURCE.  Constant generators *)
(* launch nothing.                                                         *)
DataArrivals(delay, clk) ==
    LET arr[n \in Node] ==
          IF Type[n] = "INPAD_SOURCE" THEN {0}
          ELSE Latest(Pulled(arr, delay, n, DOMAIN Fanin[n]) \cup
                      (IF Type[n] = "FF_SOURCE"
                       THEN Pulled(clk, delay, n, DOMAIN Fanin[n]) ELSE {}))
    IN arr

(* An output without a constraint is required at its own latest arrival;   *)
(* a flip-flop at its clock arrival plus the constraint, default or not.   *)
SinkRequired(n, clk, arr) ==
    CASE Type[n] = "OUTPAD_SINK" -> {Max({0} \cup arr[n])}
      [] Type[n] = "FF_SINK"     -> {c + DefaultConstraint : c \in clk[n]}
      [] OTHER                   -> {}

Fanouts(n) == {e \in Node \X (1..NumNodes) :
                  e[2] \in DOMAIN Fanin[e[1]] /\ Fanin[e[1]][e[2]] = n}

RequiredTimes(delay, clk, arr) ==
    LET req[n \in Node] ==
          IF arr[n] = {} THEN {}
          ELSE Earliest(SinkRequired(n, clk, arr) \cup
                 (IF Type[n] = "FF_CLOCK" THEN {}
                  ELSE UNION {{r - delay[e[1]][e[2]] : r \in req[e[1]]} :
                                 e \in Fanouts(n)}))
    IN req

(* What calculate_timing() of the STA analyzer leaves on every node.       *)
StaTags(delay) ==
    LET clk == ClockArrivals(delay)
        arr == DataArrivals(delay, clk)
    IN [arrival |-> arr, required |-> RequiredTimes(delay, clk, arr)]
===============================================================================
