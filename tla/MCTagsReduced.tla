----------------------------- MODULE MCTagsReduced -----------------------------
(* Two gates with a common input, the first one's net also feeding an        *)
(* output:  g = a AND b,  h = g XOR b.  The inputs arrive far enough apart   *)
(* for tags of one transition to differ, and their number to exceed the      *)
(* permutation limits.                                                       *)
EXTENDS MaxDelays

MCNumNodes == 14

MCType == <<
    "INPAD_SOURCE",    \*  1  a
    "INPAD_SOURCE",    \*  2  b
    "INPAD_OPIN",      \*  3  a
    "INPAD_OPIN",      \*  4  b
    "PRIMITIVE_IPIN",  \*  5  g.a
    "PRIMITIVE_IPIN",  \*  6  g.b
    "PRIMITIVE_OPIN",  \*  7  g
    "PRIMITIVE_IPIN",  \*  8  h.g
    "PRIMITIVE_IPIN",  \*  9  h.b
    "PRIMITIVE_OPIN",  \* 10  h
    "OUTPAD_IPIN",     \* 11  h
    "OUTPAD_SINK",     \* 12
    "OUTPAD_IPIN",     \* 13  g
    "OUTPAD_SINK">>    \* 14

MCFanin == << <<>>, <<>>, <<1>>, <<2>>, <<3>>, <<4>>, <<5, 6>>, <<7>>, <<4>>, <<8, 9>>,
              <<10>>, <<11>>, <<7>>, <<13>> >>

Identity == {x \in [{1} -> BOOLEAN] : x[1]}
MCOnSet == [n \in 1..MCNumNodes |->
    CASE n = 7  -> {x \in [1..2 -> BOOLEAN] : x[1] /\ x[2]}
      [] n = 10 -> {x \in [1..2 -> BOOLEAN] : x[1] # x[2]}
      [] n \in {1, 2} -> {}
      [] OTHER  -> Identity]

DelaysWith(ga, gb) == [n \in 1..MCNumNodes |->
    CASE n = 5  -> <<ga>>
      [] n = 6  -> <<gb>>
      [] n = 10 -> <<1, 2>>
      [] OTHER  -> [i \in DOMAIN MCFanin[n] |-> 0]]

MCDelayModels == {DelaysWith(3, 4), DelaysWith(1, 6)}

MCOptions == {[maxPerm |-> p, coarse |-> c, fine |-> t[1], slack |-> t[2]] :
                 p \in {1, 5, 20}, c \in {1, 3}, t \in {<<0, 0>>, <<2, 3>>}}
MCSizeTRange == 2^20

(* Tags of one transition at 3 and 4, found in either order, and a fine bin  *)
(* that holds both sides of the threshold.                                   *)
MCStraddlingDelays == {DelaysWith(3, 4), DelaysWith(4, 3)}
MCStraddlingOptions ==
    {[maxPerm |-> 0, coarse |-> 1, fine |-> 5, slack |-> s] : s \in 1..3}

(* The default bin size, zero, with a limit on the permutations.             *)
MCDefaultBinOptions ==
    {[maxPerm |-> p, coarse |-> 0, fine |-> 0, slack |-> 0] : p \in {5, 20}}
===============================================================================
