------------------------------ MODULE MCTagsExact ------------------------------
(* A sequential circuit with a flip-flop loop broken at the flip-flop, a    *)
(* constant input and a reconvergent fanout:                                *)
(*    g = k AND (a XOR q),   q's flip-flop stores g,   output h = g AND a.  *)
EXTENDS MaxDelays, ConditionFunctions

MCNumNodes == 19

MCType == <<
    "INPAD_SOURCE",         \*  1  a
    "CLOCK_SOURCE",         \*  2  clk
    "CONSTANT_GEN_SOURCE",  \*  3  k = 1
    "INPAD_OPIN",           \*  4  a
    "INPAD_OPIN",           \*  5  clk
    "FF_CLOCK",             \*  6
    "FF_SOURCE",            \*  7
    "FF_OPIN",              \*  8  q
    "PRIMITIVE_IPIN",       \*  9  g.k
    "PRIMITIVE_IPIN",       \* 10  g.a
    "PRIMITIVE_IPIN",       \* 11  g.q
    "PRIMITIVE_OPIN",       \* 12  g
    "FF_IPIN",              \* 13
    "FF_SINK",              \* 14
    "PRIMITIVE_IPIN",       \* 15  h.g
    "PRIMITIVE_IPIN",       \* 16  h.a
    "PRIMITIVE_OPIN",       \* 17  h
    "OUTPAD_IPIN",          \* 18
    "OUTPAD_SINK">>         \* 19

MCFanin == << <<>>, <<>>, <<>>, <<1>>, <<2>>, <<5>>, <<6>>, <<7>>, <<3>>, <<4>>, <<8>>,
              <<9, 10, 11>>, <<12>>, <<13, 6>>, <<12>>, <<4>>, <<15, 16>>, <<17>>, <<18>> >>

Identity == {x \in [{1} -> BOOLEAN] : x[1]}
MCOnSet == [n \in 1..MCNumNodes |->
    CASE n = 12 -> {x \in [1..3 -> BOOLEAN] : x[1] /\ x[2] # x[3]}
      [] n = 17 -> {x \in [1..2 -> BOOLEAN] : x[1] /\ x[2]}
      [] n = 3  -> {<<>>}
      [] n \in {1, 2, 6, 7} -> {}
      [] OTHER  -> Identity]

(* Interconnect and cell delays per in-edge; the edges into the gates are   *)
(* chosen so that inputs arrive apart, in either order, and together.       *)
DelaysWith(a, q) == [n \in 1..MCNumNodes |->
    CASE n = 10 -> <<a>>
      [] n = 8  -> <<q>>
      [] n = 12 -> <<2, 1, 1>>
      [] n = 6  -> <<2>>
      [] n = 17 -> <<1, 2>>
      [] n = 14 -> <<1, 0>>
      [] OTHER  -> [i \in DOMAIN MCFanin[n] |-> 0]]

MCDelayModels == {DelaysWith(1, 1), DelaysWith(3, 1), DelaysWith(0, 2)}

MCOptions == {[maxPerm |-> 0, coarse |-> c, fine |-> f, slack |-> s] :
                 c \in {0, 3}, f \in {0, 2}, s \in {0, 2}}
MCSizeTRange == 2^20
MCNVarsPerInput == 3
===============================================================================
