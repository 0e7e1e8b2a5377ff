----------------------------- MODULE SetupTraversal -----------------------------
(***************************************************************************)
(* calculate_timing() of tatum's setup analysis (SetupAnalysisMode) for     *)
(* several clock domains.  The levels of the graph are walked forward for   *)
(* arrival times and backward for required times.  SerialTimingAnalyzer     *)
(* takes the nodes of a level in order; ParallelLevelizedTimingAnalyzer     *)
(* runs a level with more nodes than its threshold as a cilk_for, whose     *)
(* iterations interleave edge by edge and are joined at the level's end.    *)
(*                                                                          *)
(* A node's tags are a function from the clock domains it has a tag for; a  *)
(* required time is a set of at most one number, {} standing for NaN.  No   *)
(* tag is without an arrival time.                                          *)
(***************************************************************************)
EXTENDS TimingGraph, FiniteSetsExt

CONSTANT Thresholds   \* parallel_threshold_fwd_ and _bck_ of the successive
                      \* analyses; a serial one has a threshold no level exceeds

ASSUME ThresholdsAssumption == Thresholds \in Seq(Nat)

VARIABLES
    delays,      \* the edge delays of the delay calculator
    constraints, \* setup_clock_constraints_: <<source, sink domain>> -> time
    dataTags,    \* setup_data_tags_
    clockTags,   \* setup_clock_tags_
    phase,       \* "idle", "pre", "fwd", "bck", "done", or "aborted" by an ASSERT
    run,         \* how many analyses were started
    lev,         \* the level being walked
    progress,    \* the edges of each of its nodes already processed
    finished     \* its nodes whose handlers have returned

tagVars == <<dataTags, clockTags>>
walkVars == <<phase, run, lev, progress, finished>>
traversalVars == <<delays, constraints, tagVars, walkVars>>

NoTags == [d \in {} |-> 0]

TraversalInit ==
    /\ dataTags = <<>> /\ clockTags = <<>>
    /\ phase = "idle" /\ run = 0
    /\ lev = 1 /\ progress = <<>> /\ finished = {}

EarliestOf(times) == IF times = {} THEN {} ELSE {Min(times)}

(* TimingTags::max_arr for every tag pulled over an edge of the delay       *)
(* given.  Mutant: only the first arrival of a domain sets the launch node. *)
LaterKeepsLaunch(tags, pulled, delay) ==
    [d \in DOMAIN tags \cup DOMAIN pulled |->
        IF d \in DOMAIN pulled
               => d \in DOMAIN tags /\ tags[d].arr >= pulled[d].arr + delay
        THEN tags[d]
        ELSE IF d \in DOMAIN tags THEN [tags[d] EXCEPT !.arr = pulled[d].arr + delay]
        ELSE [pulled[d] EXCEPT !.arr = @ + delay, !.req = {}]]

Later(tags, pulled, delay) ==
    [d \in DOMAIN tags \cup DOMAIN pulled |->
        IF d \in DOMAIN pulled
               => d \in DOMAIN tags /\ tags[d].arr >= pulled[d].arr + delay
        THEN tags[d]
        ELSE [arr |-> pulled[d].arr + delay, launch |-> pulled[d].launch,
              req |-> IF d \in DOMAIN tags THEN tags[d].req ELSE {}]]

MinReq(tag, times) == [tag EXCEPT !.req = EarliestOf(@ \cup times)]
-------------------------------------------------------------------------------
Walk(p, l) ==
    /\ phase' = p /\ lev' = l /\ finished' = {}
    /\ progress' = [n \in NodeIds |-> 0]

(* A new analyzer, or reset_timing() of one that has run.                   *)
StartAnalysis ==
    /\ stage = "levelized" /\ phase \in {"idle", "done"} /\ run < Len(Thresholds)
    /\ run' = run + 1
    /\ dataTags' = [n \in NodeIds |-> NoTags]
    /\ clockTags' = [n \in NodeIds |-> NoTags]
    /\ Walk("pre", 1)
    /\ UNCHANGED <<graphVars, delays, constraints>>

InParallel == phase # "pre" /\ Len(levels[lev]) > Thresholds[run]

(* The nodes of the level whose handlers may take their next step.          *)
Running ==
    {n \in NodeIds : \E p \in DOMAIN levels[lev] :
        /\ levels[lev][p] = n /\ n \notin finished
        /\ InParallel \/ \A q \in 1..(p - 1) : levels[lev][q] \in finished}

Step(n) == /\ progress' = [progress EXCEPT ![n] = @ + 1]
           /\ UNCHANGED <<graphVars, delays, constraints, phase, run, lev, finished>>

Return(n) == /\ finished' = finished \cup {n}
             /\ UNCHANGED <<graphVars, delays, constraints, phase, run, lev, progress>>

Abort == /\ phase' = "aborted"
         /\ UNCHANGED <<graphVars, delays, constraints, tagVars, run, lev, progress, finished>>

(* add_tag ignores the invalid domain.                                      *)
SourceTags(n) ==
    [d \in {nodes[n].domain} \ {InvalidDomain} |-> [arr |-> 0, launch |-> n, req |-> {}]]

DefinesClock(n) == \/ nodes[n].type = "CLOCK_SOURCE"
                   \/ nodes[n].type = "INPAD_SOURCE" /\ nodes[n].clockSource

pre_traverse_node(n) ==
    /\ phase = "pre" /\ n \in Running
    /\ \/ /\ nodes[n].type = "CONSTANT_GEN_SOURCE"
          /\ UNCHANGED tagVars /\ Return(n)
       \/ /\ DefinesClock(n) /\ clockTags[n] = NoTags
          /\ clockTags' = [clockTags EXCEPT ![n] = SourceTags(n)]
          /\ UNCHANGED dataTags /\ Return(n)
       \/ /\ nodes[n].type = "INPAD_SOURCE" /\ ~nodes[n].clockSource
          /\ clockTags[n] = NoTags
          /\ dataTags' = [dataTags EXCEPT ![n] = SourceTags(n)]
          /\ UNCHANGED clockTags /\ Return(n)
       \/ /\ nodes[n].type # "CONSTANT_GEN_SOURCE"
          /\ \/ nodes[n].type \notin {"CLOCK_SOURCE", "INPAD_SOURCE"}
             \/ clockTags[n] # NoTags
          /\ Abort
-------------------------------------------------------------------------------
(* The clock arrivals an edge carries; at an FF_SOURCE they were already    *)
(* converted to data arrivals.                                              *)
ClockTagsOver(e) == IF nodes[srcOf[e]].type = "FF_SOURCE" THEN NoTags ELSE clockTags[srcOf[e]]

Launched(n, e) ==
    IF nodes[n].type = "FF_SOURCE"
    THEN [d \in DOMAIN ClockTagsOver(e) |-> [ClockTagsOver(e)[d] EXCEPT !.launch = n]]
    ELSE NoTags

(* Mutant: the assertion is also made where no data is launched.           *)
LaunchesLinkedTagAnywhere(n, e) == Cardinality(DOMAIN ClockTagsOver(e)) > 1

(* The copy of a clock tag that is to launch data is still linked to the    *)
(* tag after it, which the code asserts it is not.                          *)
LaunchesLinkedTag(n, e) ==
    nodes[n].type = "FF_SOURCE" /\ Cardinality(DOMAIN ClockTagsOver(e)) > 1

forward_traverse_edge(n) ==
    /\ phase = "fwd" /\ n \in Running /\ progress[n] < Len(inEdges[n])
    /\ LET e == inEdges[n][progress[n] + 1]
       IN IF LaunchesLinkedTag(n, e) THEN Abort
          ELSE /\ clockTags' = [clockTags EXCEPT ![n] = Later(@, ClockTagsOver(e), delays[e])]
               /\ dataTags' = [dataTags EXCEPT ![n] =
                     Later(Later(@, Launched(n, e), delays[e]), dataTags[srcOf[e]], delays[e])]
               /\ Step(n)

(* An output without a constraint is required at the latest of its data     *)
(* arrivals.                                                                *)
OutputRequired(n, d) ==
    {IF constraints[pair] < 0 THEN Max({0} \cup {dataTags[n][x].arr : x \in DOMAIN dataTags[n]})
     ELSE constraints[pair] : pair \in {<<d, nodes[n].domain>>} \cap DOMAIN constraints}

(* A flip-flop takes the most restrictive constraint over all its clocks.   *)
CaptureRequired(n, d) ==
    {clockTags[n][c].arr + constraints[<<d, c>>] :
        c \in {c \in DOMAIN clockTags[n] : <<d, c>> \in DOMAIN constraints}}

SinkRequirements(n, d) ==
    CASE nodes[n].type = "OUTPAD_SINK" -> OutputRequired(n, d)
      [] nodes[n].type = "FF_SINK"     -> CaptureRequired(n, d)
      [] OTHER                         -> {}

forward_traverse_finalize_node(n) ==
    /\ phase = "fwd" /\ n \in Running /\ progress[n] = Len(inEdges[n])
    /\ dataTags' = [dataTags EXCEPT ![n] =
          [d \in DOMAIN @ |-> MinReq(@[d], SinkRequirements(n, d))]]
    /\ UNCHANGED clockTags
    /\ Return(n)

(* Required times are pulled from the tags of the same domain.              *)
backward_traverse_edge(n) ==
    /\ phase = "bck" /\ n \in Running /\ nodes[n].type # "FF_CLOCK"
    /\ progress[n] < Len(outEdges[n])
    /\ LET e    == outEdges[n][progress[n] + 1]
           sink == dataTags[sinkOf[e]]
       IN dataTags' = [dataTags EXCEPT ![n] =
             [d \in DOMAIN @ |-> IF d \in DOMAIN sink
                                 THEN MinReq(@[d], {r - delays[e] : r \in sink[d].req})
                                 ELSE @[d]]]
    /\ UNCHANGED clockTags
    /\ Step(n)

(* Nothing is done upstream of an FF_CLOCK.                                 *)
backward_traverse_return(n) ==
    /\ phase = "bck" /\ n \in Running
    /\ nodes[n].type = "FF_CLOCK" \/ progress[n] = Len(outEdges[n])
    /\ UNCHANGED tagVars
    /\ Return(n)
-------------------------------------------------------------------------------
LevelDone == phase \in {"pre", "fwd", "bck"} /\ \A p \in DOMAIN levels[lev] : levels[lev][p] \in finished

(* Mutant: a loop counter without sign never gets below the first level.    *)
NextLevelUnsigned ==
    /\ LevelDone
    /\ CASE phase # "bck" /\ lev < Len(levels) -> Walk("fwd", lev + 1)
         [] phase # "bck" /\ lev = Len(levels) /\ lev > 1 -> Walk("bck", lev - 1)
         [] OTHER -> Walk("bck", IF lev > 1 THEN lev - 1 ELSE 1)
    /\ UNCHANGED <<graphVars, delays, constraints, tagVars, run>>

(* The cilk_for joins its iterations before the next level.                 *)
NextLevel ==
    /\ LevelDone
    /\ CASE phase # "bck" /\ lev < Len(levels) -> Walk("fwd", lev + 1)
         [] phase # "bck" /\ lev = Len(levels) /\ lev > 1 -> Walk("bck", lev - 1)
         [] phase = "bck" /\ lev > 1 -> Walk("bck", lev - 1)
         [] OTHER -> Walk("done", 1)
    /\ UNCHANGED <<graphVars, delays, constraints, tagVars, run>>

Handler(n) == \/ pre_traverse_node(n)
              \/ forward_traverse_edge(n) \/ forward_traverse_finalize_node(n)
              \/ backward_traverse_edge(n) \/ backward_traverse_return(n)

calculate_timing == NextLevel \/ \E n \in NodeIds : Handler(n)
===============================================================================
