------------------------------ MODULE MCTagsAlias ------------------------------
(* One gate, g = a AND b AND c, whose net feeds an output and an inverter:   *)
(* two handlers that reduce the same tag set.                                *)
EXTENDS TagCoverage

MCNumNodes == 16

MCType == <<
    "INPAD_SOURCE", "INPAD_SOURCE", "INPAD_SOURCE",        \*  1- 3  a, b, c
    "INPAD_OPIN", "INPAD_OPIN", "INPAD_OPIN",              \*  4- 6
    "PRIMITIVE_IPIN", "PRIMITIVE_IPIN", "PRIMITIVE_IPIN",  \*  7- 9
    "PRIMITIVE_OPIN",                                      \* 10     g
    "OUTPAD_IPIN", "OUTPAD_SINK",                          \* 11-12  output g
    "PRIMITIVE_IPIN", "PRIMITIVE_OPIN",                    \* 13-14  NOT g
    "OUTPAD_IPIN", "OUTPAD_SINK">>                         \* 15-16  output NOT g

MCFanin == << <<>>, <<>>, <<>>, <<1>>, <<2>>, <<3>>, <<4>>, <<5>>, <<6>>, <<7, 8, 9>>,
              <<10>>, <<11>>, <<10>>, <<13>>, <<14>>, <<15>> >>

Identity == {x \in [{1} -> BOOLEAN] : x[1]}
MCOnSet == [n \in 1..MCNumNodes |->
    CASE n = 10 -> {x \in [1..3 -> BOOLEAN] : x[1] /\ x[2] /\ x[3]}
      [] n = 14 -> {x \in [{1} -> BOOLEAN] : ~x[1]}
      [] n \in 1..3 -> {}
      [] OTHER -> Identity]

(* Falling tags of g arrive at 4, 3 and 6, in the order they are found.      *)
MCDelayModels == {[n \in 1..MCNumNodes |->
    CASE n = 7 -> <<4>> [] n = 8 -> <<3>> [] n = 9 -> <<6>>
      [] OTHER -> [i \in DOMAIN MCFanin[n] |-> 0]]}

MCOptions == {[maxPerm |-> 5, coarse |-> 2, fine |-> 0, slack |-> 0]}
MCSizeTRange == 2^20
===============================================================================
