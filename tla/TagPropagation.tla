---------------------------- MODULE TagPropagation -----------------------------
(***************************************************************************)
(* The forward traversal of the extended analysis (ExtSetupAnalysisMode    *)
(* driven by SerialTimingAnalyzer).  Every node collects tags: a           *)
(* transition, an arrival time and the switching scenarios (tuples of      *)
(* input tags) that cause it.  Tags are shared objects; tags[n] holds the  *)
(* ones created at node n, and a reference <<n, i>> names tags[n][i].      *)
(*                                                                         *)
(* A node is evaluated one permutation of its input tags at a time.  When  *)
(* there would be too many permutations, its input tag sets are first      *)
(* merged at growing delay bin sizes.                                      *)
(***************************************************************************)
EXTENDS TimingNet, TagReducer

CONSTANTS DelayModels,   \* the delays an edge delay calculator may hold
          Options,       \* command-line settings: a set of records
                         \* [maxPerm, coarse, fine, slack]
          SizeTRange     \* the number of values of a size_t

ASSUME OptionsAssumption ==
    /\ Options \subseteq [maxPerm : Nat, coarse : Nat, fine : Nat, slack : Nat]
    /\ \A d \in DelayModels, n \in Node : d[n] \in [DOMAIN Fanin[n] -> Nat]
    /\ SizeTRange \in Nat \ {0}

VARIABLES
    delay, opts,   \* the delay calculator and the settings, fixed
    sta,           \* the STA analyzer the tag reducer consults, fixed
    tags,          \* the tag objects created at each node
    dataTags,      \* setup_data_tags_: each node's set, references in order
    clocked,       \* the nodes whose setup_clock_tags_ holds the clock tag
                   \* (its arrival is 0: the clock network has no delay)
    visited,       \* the nodes whose handler has returned
    node,          \* the node in forward_traverse_finalize_node, or NoNode
    phase,         \* its stage: "reduce", then "eval"
    srcs,          \* src_data_tag_sets: one sequence of references per input
    scale,         \* input_scale_factors, one rational [num, den] per input
    its, done      \* iterators_ and done_ of the permutation generator

vars == <<delay, opts, sta, tags, dataTags, clocked, visited, node, phase,
          srcs, scale, its, done>>

NoNode == 0

Dynamic == {"RISE", "FALL"}
Static  == {"HIGH", "LOW"}
Transitions == Dynamic \cup Static

Launch(trans) == [trans |-> trans, arr |-> 0, scen |-> {}]
LaunchTags == <<Launch("RISE"), Launch("FALL"), Launch("HIGH"), Launch("LOW")>>

References(n, seq) == [i \in DOMAIN seq |-> <<n, i>>]

SettleTags(n, seq) ==
    /\ tags' = [tags EXCEPT ![n] = seq]
    /\ dataTags' = [dataTags EXCEPT ![n] = References(n, seq)]

(* delay_bin_size_scale_fac, 1.2, by which a bin size grows every time.    *)
ScaleFac == [num |-> 6, den |-> 5]
Increased(factor) == [num |-> factor.num * ScaleFac.num, den |-> factor.den * ScaleFac.den]

NodeWorkspace == <<node, phase, srcs, scale, its, done>>
Configuration == <<delay, opts, sta>>
-------------------------------------------------------------------------------
Init ==
    /\ delay \in DelayModels
    /\ opts \in Options
    /\ sta = StaTags(delay)
    /\ tags = [n \in Node |-> <<>>]
    /\ dataTags = [n \in Node |-> <<>>]
    /\ clocked = {} /\ visited = {}
    /\ node = NoNode /\ phase = "idle"
    /\ srcs = <<>> /\ scale = <<>> /\ its = <<>> /\ done = FALSE

(* pre_traverse_node: a primary input starts with one tag per transition,  *)
(* a constant generator with its static value, a clock with a clock tag.   *)
PreTraverse(n) ==
    /\ Level[n] = 0 /\ n \notin visited
    /\ visited' = visited \cup {n}
    /\ \/ /\ Type[n] = "INPAD_SOURCE"
          /\ SettleTags(n, LaunchTags)
          /\ UNCHANGED clocked
       \/ /\ Type[n] = "CONSTANT_GEN_SOURCE"
          /\ SettleTags(n, <<Launch(IF OnSet[n] = {} THEN "LOW" ELSE "HIGH")>>)
          /\ UNCHANGED clocked
       \/ /\ Type[n] = "CLOCK_SOURCE"
          /\ clocked' = clocked \cup {n}
          /\ UNCHANGED <<tags, dataTags>>
    /\ UNCHANGED <<NodeWorkspace, Configuration>>

(* Mutant: a node is taken up again.                                       *)
ReadyAgain(n) == /\ node = NoNode /\ Level[n] > 0
                 /\ \A m \in Node : Level[m] < Level[n] => m \in visited

(* Nodes are visited level by level, in any order within a level.          *)
Ready(n) == /\ node = NoNode
            /\ n \notin visited /\ Level[n] > 0
            /\ \A m \in Node : Level[m] < Level[n] => m \in visited

(* The inputs that have data tags; the k-th of them; their sets in turn.   *)
WithData(n) == {i \in DOMAIN Fanin[n] : dataTags[Fanin[n][i]] # <<>>}
Nth(set, k) == CHOOSE i \in set : Cardinality({j \in set : j <= i}) = k

InputSets(n) ==
    [k \in 1..Cardinality(WithData(n)) |-> dataTags[Fanin[n][Nth(WithData(n), k)]]]

ClockArrives(n) == \E i \in DOMAIN Fanin[n] : Fanin[n][i] \in clocked

(* The clock tag travels on, except that an FF_SOURCE turns it into data   *)
(* and an FF_SINK drops it.                                                *)
PropagateClock(n) ==
    clocked' = IF ClockArrives(n) /\ Type[n] \notin {"FF_SOURCE", "FF_SINK"}
               THEN clocked \cup {n} ELSE clocked

(* A node none of whose inputs has data tags: clock network, FF_SOURCE.    *)
TraverseClockNode(n) ==
    /\ Ready(n) /\ InputSets(n) = <<>>
    /\ PropagateClock(n)
    /\ IF Type[n] = "FF_SOURCE" /\ ClockArrives(n)
       THEN SettleTags(n, LaunchTags) ELSE UNCHANGED <<tags, dataTags>>
    /\ visited' = visited \cup {n}
    /\ UNCHANGED <<NodeWorkspace, Configuration>>

(* The first part of the handler of a node with data inputs, up to         *)
(* reduce_permutations().                                                  *)
BeginNode(n) ==
    /\ Ready(n) /\ InputSets(n) # <<>>
    /\ PropagateClock(n)
    /\ node' = n /\ phase' = "reduce"
    /\ srcs' = InputSets(n)
    /\ scale' = [i \in DOMAIN srcs' |-> ScaleFac]
    /\ UNCHANGED <<tags, dataTags, visited, its, done, Configuration>>
-------------------------------------------------------------------------------
Sizes(sets) == [i \in DOMAIN sets |-> Len(sets[i])]

NumPermutations(sets) ==
    FoldLeft(LAMBDA product, set : (product * Len(set)) % SizeTRange, 1, sets)

(* The generator over the input tag sets; it takes no choice of sizes and  *)
(* keeps no history here.                                                  *)
Generator == INSTANCE TagPermutationGenerator
                WITH SizesChoices <- {}, sizes <- Sizes(srcs), iterators <- its,
                     done <- done, returned <- {}

(* Mutant: a limit of zero is taken for a limit.                           *)
TooManyForZero == NumPermutations(srcs) > opts.maxPerm

TooMany == opts.maxPerm # 0 /\ NumPermutations(srcs) > opts.maxPerm

(* max_element: the first of the inputs with the most tags.                *)
MostTags == CHOOSE i \in DOMAIN srcs :
                \A j \in DOMAIN srcs : /\ Len(srcs[j]) <= Len(srcs[i])
                                       /\ j < i => Len(srcs[j]) < Len(srcs[i])

(* Read once before the loop, but merging input tags never changes it.     *)
MaxTagDelay == Max({0} \cup {At(tags, t).arr : t \in UNION {ToSet(s) : s \in ToSet(srcs)}})

Scaled(size, factor) == [num |-> size * factor.num, den |-> factor.den]
Bin(size) == [num |-> size, den |-> 1]

NewBin == Scaled(opts.coarse, scale[MostTags])
GivesUp == NewBin.num > MaxTagDelay * NewBin.den

Threshold(n) == {req - opts.slack : req \in sta.required[n]}

Coarsened(size) == MergeTags(tags, srcs[MostTags], size, size,
                             Threshold(Fanin[node][MostTags]))

(* Mutant: the bin size does not grow.                                     *)
ReduceInputSameBin ==
    /\ phase = "reduce" /\ TooMany /\ ~GivesUp
    /\ tags' = Coarsened(NewBin).heap
    /\ srcs' = [srcs EXCEPT ![MostTags] = Coarsened(NewBin).merged]
    /\ UNCHANGED <<dataTags, clocked, visited, node, phase, scale, its, done, Configuration>>

(* One pass of the loop of reduce_permutations().  The scale factor of a   *)
(* zero bin size is not counted: its product stays zero.                   *)
ReduceInput ==
    /\ phase = "reduce" /\ TooMany /\ ~GivesUp
    /\ tags' = Coarsened(NewBin).heap
    /\ srcs' = [srcs EXCEPT ![MostTags] = Coarsened(NewBin).merged]
    /\ scale' = [scale EXCEPT ![MostTags] = IF opts.coarse = 0 THEN @ ELSE Increased(@)]
    /\ UNCHANGED <<dataTags, clocked, visited, node, phase, its, done, Configuration>>

(* The generator over the reduced sets is returned.                        *)
StartEvaluation ==
    /\ phase = "reduce" /\ (~TooMany \/ GivesUp)
    /\ phase' = "eval"
    /\ its' = Generator!First(Sizes(srcs)) /\ done' = FALSE
    /\ UNCHANGED <<tags, dataTags, clocked, visited, node, srcs, scale, Configuration>>
-------------------------------------------------------------------------------
FinalValue(trans) == trans \in {"RISE", "HIGH"}

EdgeDelay(n, i, trans) == IF trans \in Dynamic THEN delay[n][i] ELSE 0

(* The orders std::sort may leave the inputs in: ties are unspecified.     *)
SortedOrders(in) ==
    {o \in [1..Cardinality(DOMAIN in) -> DOMAIN in] :
        /\ \A j, k \in DOMAIN o : j < k => o[j] # o[k] /\ in[o[j]].arr <= in[o[k]].arr}

(* The node function restricted by the first k inputs of order o.          *)
Restricted(n, in, o, k) ==
    {x \in InputVectors(n) :
        [i \in DOMAIN x |-> IF \E j \in 1..k : o[j] = i
                            THEN FinalValue(in[i].trans) ELSE x[i]] \in OnSet[n]}

(* The inputs whose restriction changes the function; once it is constant  *)
(* no later input does.                                                    *)
Unfiltered(n, in, o) ==
    {o[k] : k \in {k \in DOMAIN o :
                      Restricted(n, in, o, k) # Restricted(n, in, o, k - 1)}}

(* Mutants: one static input makes the output static; the latest input     *)
(* arrival and the largest delay are taken apart.                          *)
ResponseStaticIfAny(n, in, unfiltered) ==
    LET moves == \A i \in unfiltered : in[i].trans \in Dynamic
        trans == IF [i \in DOMAIN in |-> FinalValue(in[i].trans)] \in OnSet[n]
                 THEN IF moves THEN "RISE" ELSE "HIGH"
                 ELSE IF moves THEN "FALL" ELSE "LOW"
    IN [trans |-> trans,
        arr   |-> Max({0} \cup {in[i].arr + EdgeDelay(n, i, trans) : i \in unfiltered})]

ResponseSeparateMaxima(n, in, unfiltered) ==
    LET moves == \E i \in unfiltered : in[i].trans \in Dynamic
        trans == IF [i \in DOMAIN in |-> FinalValue(in[i].trans)] \in OnSet[n]
                 THEN IF moves THEN "RISE" ELSE "HIGH"
                 ELSE IF moves THEN "FALL" ELSE "LOW"
    IN [trans |-> trans,
        arr   |-> Max({0} \cup {in[i].arr : i \in unfiltered}) +
                  Max({0} \cup {EdgeDelay(n, i, trans) : i \in unfiltered})]

(* The output transition is static when only static inputs were applied;   *)
(* the arrival time is the latest over the unfiltered inputs.              *)
Response(n, in, unfiltered) ==
    LET moves == \E i \in unfiltered : in[i].trans \in Dynamic
        trans == IF [i \in DOMAIN in |-> FinalValue(in[i].trans)] \in OnSet[n]
                 THEN IF moves THEN "RISE" ELSE "HIGH"
                 ELSE IF moves THEN "FALL" ELSE "LOW"
    IN [trans |-> trans,
        arr   |-> Max({0} \cup {in[i].arr + EdgeDelay(n, i, trans) : i \in unfiltered})]

(* What node n may answer when its data inputs have the transitions and    *)
(* arrivals in[i], over the orders they may be applied in.                 *)
Responses(n, in) ==
    {Response(n, in, u) : u \in {Unfiltered(n, in, o) : o \in SortedOrders(in)}}

(* Mutants: a scenario of a known tag is dropped; arrivals are not compared. *)
AddScenarioDropped(seq, response, scenario) ==
    IF \E k \in DOMAIN seq : seq[k].trans = response.trans /\ seq[k].arr = response.arr
    THEN seq
    ELSE Append(seq, [trans |-> response.trans, arr |-> response.arr, scen |-> {scenario}])

AddScenarioAnyArrival(seq, response, scenario) ==
    LET same == {k \in DOMAIN seq : seq[k].trans = response.trans}
    IN IF same = {}
       THEN Append(seq, [trans |-> response.trans, arr |-> response.arr,
                         scen |-> {scenario}])
       ELSE [seq EXCEPT ![Min(same)].scen = @ \cup {scenario}]

(* ExtTimingTags::max_arr(tag): a tag of the same transition and arrival   *)
(* takes the scenario, else a new tag is appended.                         *)
AddScenario(seq, response, scenario) ==
    LET same == {k \in DOMAIN seq : /\ seq[k].trans = response.trans
                                    /\ seq[k].arr = response.arr}
    IN IF same = {}
       THEN Append(seq, [trans |-> response.trans, arr |-> response.arr,
                         scen |-> {scenario}])
       ELSE [seq EXCEPT ![Min(same)].scen = @ \cup {scenario}]

(* One pass of the evaluation loop: next(), then the scenario is added to  *)
(* the node's output tags.                                                 *)
EvaluatePermutation ==
    /\ phase = "eval" /\ ~done
    /\ LET refs == [i \in DataEdges(node) |-> srcs[i][its[i]]]
       IN \E in \in {[i \in DataEdges(node) |-> At(tags, refs[i])]} :
          \E response \in Responses(node, in) :
             tags' = [tags EXCEPT ![node] = AddScenario(@, response, refs)]
    /\ its' = Generator!Advanced(Sizes(srcs), its)
    /\ done' = Generator!Overflows(Sizes(srcs), its)
    /\ UNCHANGED <<dataTags, clocked, visited, node, phase, srcs, scale, Configuration>>

(* The handler's end: the output tags are merged by the node's own bins.   *)
FinishNode ==
    /\ phase = "eval" /\ done
    /\ LET m == MergeTags(tags, References(node, tags[node]),
                          Bin(opts.coarse), Bin(opts.fine), Threshold(node))
       IN tags' = m.heap /\ dataTags' = [dataTags EXCEPT ![node] = m.merged]
    /\ visited' = visited \cup {node}
    /\ node' = NoNode /\ phase' = "idle"
    /\ srcs' = <<>> /\ scale' = <<>> /\ its' = <<>> /\ done' = FALSE
    /\ UNCHANGED <<clocked, Configuration>>

Next == \/ \E n \in Node : PreTraverse(n) \/ TraverseClockNode(n) \/ BeginNode(n)
        \/ ReduceInput \/ StartEvaluation \/ EvaluatePermutation \/ FinishNode

(* calculate_timing() is one sequential loop: it never stops by itself.    *)
Spec == Init /\ [][Next]_vars /\ WF_vars(Next)
===============================================================================
