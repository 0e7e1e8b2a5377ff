----------------------------- MODULE MCStaPipeline -----------------------------
(* Every combinational graph of three nodes with up to two out-edges each,   *)
(* loops and parallel edges included, and a few sequential netlists whose    *)
(* nodes are numbered against the direction of their edges.                  *)
EXTENDS StaPaths

MCDomains == {1, 2}
MCThresholds == <<100, 1>>

(* The out-edges of node n; the delays vary with both ends and the place.    *)
Fanout(n, sinks) == [k \in DOMAIN sinks |-> [sink |-> sinks[k], delay |-> (n + 2 * sinks[k] + k) % 4]]

Shape(targets) ==
    [nodes |-> [n \in DOMAIN targets |->
        [type |-> IF \A m \in DOMAIN targets : n \notin ToSet(targets[m]) THEN "INPAD_SOURCE"
                  ELSE IF targets[n] = <<>> THEN "OUTPAD_SINK" ELSE "PRIMITIVE_OPIN",
         domain |-> IF targets[n] = <<>> THEN 1 ELSE n % 3, clockSource |-> FALSE]],
     blocks |-> [n \in DOMAIN targets |-> 0],
     fanouts |-> [n \in DOMAIN targets |-> Fanout(n, targets[n])],
     constraints |-> (<<1, 1>> :> 5) @@ (<<2, 1>> :> -1)]

(* A net without in-edges is an input, one without out-edges an output; two  *)
(* of three nodes have a clock domain.                                       *)
UpToTwo(S) == {<<>>} \cup {<<a>> : a \in S} \cup (S \X S)
SmallNets == {Shape(<<a, b, c>>) : a, b, c \in UpToTwo(1..3)}

(* node(type, domain, clockSource), block, out-edges                         *)
Net(rows, con) ==
    [nodes |-> [n \in DOMAIN rows |-> [type |-> rows[n][1], domain |-> rows[n][2],
                                       clockSource |-> rows[n][3] = "clk"]],
     blocks |-> [n \in DOMAIN rows |-> rows[n][4]],
     fanouts |-> [n \in DOMAIN rows |-> Fanout(n, rows[n][5])],
     constraints |-> con]

AllPairs == (<<1, 1>> :> 6) @@ (<<1, 2>> :> 3) @@ (<<2, 2>> :> 7) @@ (<<2, 1>> :> -1)

(* Two flip-flops on two clocks; B captures what A launches, and an output   *)
(* sees both, an input and a constant.                                       *)
TwoDomains == Net(<<
    <<"OUTPAD_SINK", 1, "", 0, <<>>>>,           \*  1
    <<"PRIMITIVE_OPIN", 0, "", 0, <<1>>>>,       \*  2  g
    <<"FF_SINK", 2, "", 2, <<>>>>,               \*  3  B.D
    <<"FF_SOURCE", 2, "", 2, <<2>>>>,            \*  4  B.Q
    <<"FF_CLOCK", 2, "", 2, <<>>>>,              \*  5
    <<"FF_SINK", 1, "", 1, <<>>>>,               \*  6  A.D
    <<"FF_SOURCE", 1, "", 1, <<3, 2>>>>,         \*  7  A.Q
    <<"FF_CLOCK", 1, "", 1, <<>>>>,              \*  8
    <<"CLOCK_SOURCE", 2, "", 0, <<5>>>>,         \*  9
    <<"CONSTANT_GEN_SOURCE", 0, "", 0, <<2>>>>,  \* 10
    <<"INPAD_SOURCE", 1, "clk", 0, <<8>>>>,      \* 11
    <<"INPAD_SOURCE", 1, "", 0, <<6, 2>>>>       \* 12
    >>, AllPairs)

(* A gated clock: data reaches a clock pin.                                  *)
GatedClock == Net(<<
    <<"FF_SINK", 1, "", 1, <<>>>>,
    <<"FF_SOURCE", 1, "", 1, <<1, 7>>>>,
    <<"FF_CLOCK", 1, "", 1, <<>>>>,
    <<"PRIMITIVE_OPIN", 0, "", 0, <<3>>>>,
    <<"INPAD_SOURCE", 2, "", 0, <<4>>>>,
    <<"CLOCK_SOURCE", 1, "", 0, <<4>>>>,
    <<"OUTPAD_SINK", 1, "", 0, <<>>>>
    >>, AllPairs)

(* Two clocks at one clock pin, of a flip-flop with or without an output.    *)
TwoClocks(output) == Net(<<
    <<"FF_SINK", 1, "", 1, <<>>>>,
    <<IF output THEN "FF_SOURCE" ELSE "FF_OPIN", 1, "", 1, <<1>>>>,
    <<"FF_CLOCK", 1, "", 1, <<>>>>,
    <<"PRIMITIVE_OPIN", 0, "", 0, <<3>>>>,
    <<"CLOCK_SOURCE", 1, "", 0, <<4>>>>,
    <<"CLOCK_SOURCE", 2, "", 0, <<4>>>>,
    <<"INPAD_SOURCE", 2, "", 0, IF output THEN <<1>> ELSE <<2, 1>>>>
    >>, AllPairs)

(* A net that nothing drives.                                                *)
Dangling == Net(<<
    <<"PRIMITIVE_OPIN", 0, "", 0, <<3>>>>,
    <<"INPAD_SOURCE", 1, "", 0, <<3>>>>,
    <<"OUTPAD_SINK", 1, "", 0, <<>>>>
    >>, AllPairs)

(* Nets only an echo file can hold: sources that are driven, which start no  *)
(* path then, and a flip-flop behind another, of which two clocks take part. *)
DrivenSources == Net(<<
    <<"FF_SOURCE", 1, "", 0, <<2>>>>,
    <<"FF_SOURCE", 2, "", 0, <<5>>>>,
    <<"CLOCK_SOURCE", 1, "", 0, <<1>>>>,
    <<"CLOCK_SOURCE", 2, "", 0, <<1, 6>>>>,
    <<"INPAD_SOURCE", 1, "", 0, <<7>>>>,
    <<"CLOCK_SOURCE", 1, "", 0, <<7>>>>,
    <<"OUTPAD_SINK", 2, "", 0, <<>>>>
    >>, AllPairs)

MCNetlists == SmallNets \cup {TwoDomains, GatedClock, TwoClocks(TRUE), TwoClocks(FALSE),
                              Dangling, DrivenSources}
MCTwoClocks == {TwoClocks(FALSE), TwoClocks(TRUE)}
===============================================================================
