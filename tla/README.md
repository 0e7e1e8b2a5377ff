# A TLA+ model of ESTA, the extended static timing analyser

ESTA (`src/src/esta`, `src/src/libesta`, on top of the timing library in
`src/libs/tatum`) computes not one worst delay of a circuit but the probability
of every delay. This directory models the part that decides what is computed:
the timing graph and its levels, the standard analysis on it, the propagation
and merging of *tags*, the enumeration that drives it, the cache its results are
kept in, and the simulation its results are compared with. The modules are
model-checked with TLC; most of their safety is also proved with TLAPS for every
value of their constants: the cache, the enumeration, the tags of the extended
analysis and what they stand for, the levels of the graph, the race freedom of
the standard analysis, and the extraction of the simulation's table.

## 1. The system

A run of `esta` (`main.cpp`) is one sequential pipeline:

1. A BLIF netlist becomes a levelized **timing graph** (`BlifTimingGraphBuilder`,
   `TimingGraph`): typed nodes (pins), edges with delays from an SDF file, and a
   logic function (a BDD) per node.
2. The **standard analysis** (STA: `SerialTimingAnalyzer` with
   `SetupAnalysisMode`) leaves an arrival and a required time on every node.
3. The **extended analysis** (ESTA: the same traversal with
   `ExtSetupAnalysisMode`) leaves a set of *tags* on every node. A tag is a
   transition (RISE, FALL, HIGH, LOW), an arrival time, and the *switching
   scenarios* that cause it: tuples of tags of the node's inputs.
   Per node, the **tag permutation generator** enumerates the choices of one tag
   per input. When there are too many, `reduce_permutations` first lets the
   **tag reducer** merge input tags at growing delay bins; at the end the node's
   own tags are merged too, more finely beyond a slack threshold that comes from
   the STA results.
4. The **switching-function evaluator** (`SharpSatBddEvaluator`) follows a tag's
   scenarios back to the primary inputs and counts the input transitions that
   satisfy them (#SAT). Its share of all transitions is the tag's probability.
   Intermediate functions are kept in an **object cache**.
5. Reporting prints histograms, asserts that probabilities add up to one, and
   computes the maximum delay of the whole circuit (`circuit_max_delays`).

`tatum_sta` is the standalone driver of the timing library: it loads a graph that
VPR wrote, ties clock pins to flip-flops (`add_ff_clock_to_source_sink_edges`),
levelizes, optimizes the memory layout of edges and nodes, and runs the standard
analysis several times, serially and in parallel.

`vcd_extract` is a separate program that turns a simulation trace into a table
of transitions and delays to compare ESTA with. The trace comes from an
exhaustive testbench that `esta_flow.py` generates.

| component | state | operations | hard behaviour | what makes it correct |
|---|---|---|---|---|
| extended analysis | tag sets per node, shared tag objects, the node being evaluated | `pre_traverse_node`, `forward_traverse_finalize_node`, `reduce_permutations` | aliasing of tags between nodes, order of ties, termination of the reduction | every circuit scenario in exactly one tag, with its transition and delay; bounded error; termination; only the current node changes |
| tag permutation generator | one iterator per input, `done_` | constructor, `next`, `done` | carries, overflow | every permutation once |
| tag reducer | none (tags are merged in place) | `merge_tags` (three), `merge_max_tags` | first-match binning, threshold | nothing lost, error below one bin |
| object cache | map, list of keys with stored iterators, capacity | `insert`, `contains`, `value`, `set_capacity`, `clear` | eviction inside an overwrite, iterator identity, capacity changes | list and map in step, bound, contract |
| standard analysis | lists of tags, one per clock domain, on every node | `pre_traverse_node`, `forward_traverse_edge`, `_finalize_node`, `backward_traverse_edge` | several clocks, unconstrained paths, launch nodes | times are the extremes over paths; bounds every extended arrival |
| timing graph | nodes, edges, levels | `add_node`, `add_edge`, `levelize`, layout optimisation | combinational loops, changes after a levelization, renumbering | levels are depths; a new layout is a renaming |
| `tatum_sta` | graph, edge delays | load, clock edges, levelize, layout, analyses | delays kept outside the graph | all of it gives the times of the netlist's paths, and ends |
| delay calculators | delay per edge and output transition | `max_edge_delay` | | |
| evaluator | memo, BDD variables | `count_sat_fraction`, `build_bdd_xfunc`, condition functions | memo that outlives a merge | a tag's function is what its scenarios say |
| VCD extraction | clock-edge state machine, value maps | `set_time`, `add_transition` | order within a timestep, end of file | every row is a measurement, one row per pair of input vectors |
| testbench | a counter of vector pairs | clock edges, finish condition | off by one state at the end | every pair of vectors is simulated, then it stops |
| parallel analyzers | as the serial ones | parallel loops over a level | data races | handlers touch their own node only |
| circuit maximum | list of maximum tags | `circuit_max_delays`, `merge_max_tags` | overlapping scenarios of outputs | every scenario at its latest delay |
| builder, parsers, SDF, printing, scripts | | | data conversion and I/O | |

`PROJECT.json` lists all components with their status, the hazards at their
source lines, and the correspondence of every definition to source lines.

## 2. The modules

    CacheContract  <=  ObjectCache  <-  ObjectCacheHistory  <-  MCObjectCache
                                             ^--  ObjectCacheProofs

    PermutationEnumeration  <=  TagPermutationGenerator  <-  MCTagPermutationGenerator
                                       ^   ^--  TagPermutationGeneratorProofs
                                       |
    TimingNet, TagReducer  <-  TagPropagation  <-  TagCoverage  <-  MaxDelays, ConditionFunctions
    MaxDelays, ConditionFunctions  <-  MCTagsExact
    MaxDelays  <-  MCTagsReduced            TagCoverage  <-  MCTagsAlias
    TagCoverage, FoldInduction  <-  TagProofs  <-  TagScenarioProofs
    MaxDelays, TagPermutationGeneratorProofs  <-  TagScenarioProofs

    TimingGraph  <-  GraphLayout, SetupTraversal  <-  StaPipeline  <-  StaPaths
    StaPaths  <-  MCStaPipeline
    StaPaths, FoldInduction  <-  StaPipelineProofs  <-  StaPathProofs

    VcdExtractor  <-  VcdTestbench  <-  MCVcdTestbench
    VcdTestbench, FoldInduction  <-  VcdTestbenchProofs

(`<-` is EXTENDS or INSTANCE, `<=` is "is implemented by".)

**ObjectCache** (`object_cache.hpp/.tpp`). `lookup` is `object_lookup_`, `order`
is `key_access_order_`. Stored list iterators are modelled by their identity: a
list node is a key with a generation bit, because `set_most_recently_used`
inserts a new node before it erases the old one. One action per operation;
`insert` is `RejectInsert`, `InsertNew` or `Overwrite`, each with the eviction
that precedes it. `ObjectCacheHistory` records what the client did.
**CacheContract** is what a client may rely on whatever the eviction policy.

**TagPermutationGenerator** (`TagPermutationGenerator.cpp`). `Next` is `next()`
with its `advance()`, enabled while `~done`, the way its only caller calls it.
**PermutationEnumeration** is a set that is handed out one element at a time.

**TimingNet** is a graph of the shape the builder produces (`AsBuilt`) and
the STA results on it, as recursive functions: forward for arrivals, backward
for required times, with the driver's constraint of -1 in its two different
readings at outputs and flip-flops. `ClockNetAssumption` names something the
analysis needs of the circuit and never checks: clocks come straight from inputs
and only latches read them. `forward_traverse_finalize_node` keeps one tag set
per input *that has data* and then indexes these sets by *edge*; a gate that
reads a clock would shift them.

**TagReducer** has `merge_tags` as an operator on a heap of tags. Tags are
shared objects in the code (`shared_ptr`), and `ExtTimingTags::max_arr` modifies
them in place; the model has references `<<node, index>>` into a heap so that a
merge is seen by everyone who holds the tag.

**TagPropagation** is the forward traversal. `PreTraverse` is
`pre_traverse_node`. The handler of a node is `TraverseClockNode` (no data
inputs) or `BeginNode`, then one `ReduceInput` per pass of the loop in
`reduce_permutations`, `StartEvaluation`, one `EvaluatePermutation` per pass of
the evaluation loop, and `FinishNode`. The generator's `First`, `Advanced` and
`Overflows` are taken from TagPermutationGenerator.

**TagCoverage** says what tags mean. `Covered` follows scenarios back to the
logical inputs as `build_bdd_xfunc` does, with the set of satisfying input
transitions in place of a BDD. The properties of the traversal are here.

**MaxDelays** is `circuit_max_delays` with `merge_max_tags`: the tags of all
outputs become tags of one transition, are merged in a copy, and are taken from
the latest to the earliest, each for the scenarios no later one has.
**ConditionFunctions** is how `SharpSatBddEvaluator` deals the minterms of an
input's BDD variables to its four transitions when inputs are not uniform: round
robin, grouped, and grouped in Gray order.

**TimingGraph** (`TimingGraph.cpp`) has the graph's parallel arrays, `add_node`,
`add_edge`, and `levelize()` one node of its first loop (`CountFanin`) and one
out-edge of its second (`TraverseEdge`) at a time. Once a graph is levelized it
may be changed and levelized anew, as in the code. **GraphLayout** is the two
layout optimisations, each one step over all arrays; `node_levels_` and the
logical inputs and outputs keep their old ids, as they do in the code.

**SetupTraversal** is `SetupAnalysisMode` under `calculate_timing()`: a handler
is a call per edge and a return, so that the handlers of one level interleave
when the level is longer than the parallel analyzer's threshold. A serial
analysis is one whose threshold no level exceeds. The tags of a node are a
function from clock domains. The assertion on a tag's `next()` is a step to
`"aborted"`. **StaPipeline** is `tatum_sta` from the netlist to its last
analysis; without the layout step it is also how `esta` builds its graph.
**StaPaths** states what the pipeline promises on the paths of the netlist as it
was read, in its own numbering: a reference that knows neither levels nor tags.

**VcdExtractor** (`vcd_extract.cpp`) is the callbacks of the VCD grammar with the
state machine of clock edges. **VcdTestbench** composes it with the testbench of
`create_testbench()` and a device whose outputs change as they like. `state` is two
vectors of one bit per input, the first input in the highest bit.

### What the models abstract

- Arrival times and delays are natural numbers (the builder rounds SDF values).
  Bin sizes are exact rationals in place of doubles: `scale[i]` is the factor of
  input `i`, a power of 6/5 as a numerator and a denominator.
- One delay per edge for rising and falling outputs (asserted by the builder for
  gates and nets); static outputs and the clock network have none, as in
  `PreCalcTransDelayCalculator`.
- A logic function is its on-set, a BDD restriction acts on that set.
- The nodes of a level are taken in any order and ties in arrival are sorted in
  any order. The code fixes both (the first by insertion, the second by
  `std::sort`, unspecified), so properties hold for every outcome.
- The scenarios of a tag are a set; the code's vector keeps the order found.
- The tag modules have a single clock domain, the only case the extended
  analysis supports; SetupTraversal has several. Constant generators have an
  invalid domain; it only makes `update_arr` skip them, and their tags arrive at
  0 in any case.
- `ReduceInput` does not count the growth of a scale factor that multiplies a
  bin size of zero: the product is zero at every pass. This keeps the state
  space of the endless case finite.
- The maximum tag delay is read once in the code; merging inputs does not change
  the maximum, so the model reads it at each pass.
- A required time is a set of at most one number, empty for NaN.
- The layout optimisations are single steps; nothing else runs meanwhile.
- The simulator writes the changes of one time step in any order. What the
  language leaves to it is chosen at the start: whether the inputs have been
  driven when the values of time 0 are dumped, and whether an `always` block
  sees the counter before or after another one of the same edge advanced it.
- In VcdTestbench the history of a signal is cut to what the next row needs.
- Counters, timers and printing are left out.

## 3. The runs

| run | instance | states | shows |
|---|---|---|---|
| `cache` | 3 keys, 2 values, capacities 0, 1, 2, 4 | 69 680 | `ListMatchesMap`, `CapacityRespected`, `NewestWritesKept`, `HoldsLatestValues`, `ImplementsContract` |
| `cache_lru` | same | | `EvictsLeastRecentlyUsed` is violated |
| `permutations` | all size vectors of 1-3 inputs with 1-3 tags | 297 | `ReturnedIsThePast`, `ImplementsEnumeration` |
| `tags_exact` | 19-node sequential circuit, 3 delay assignments, 8 settings without a limit; 3 variables per input | 17 388 | `EveryScenarioOnce`, `TransitionsAreSound`, `MatchesSimulation`, `FullyMerged`, `MaxDelayOfEveryScenario`, `InputsArePartitioned`, `OnlyCurrentNode` |
| `tags_reduced` | 14-node circuit, 2 delay assignments, 12 settings with limits 1, 5, 20 | 6 944 | `CoversEveryScenario`, `TransitionsAreSound`, `ArrivalsWithinSta`, `MaxDelayOfEveryScenario`, `MergingIsBounded`, `EveryNodeVisited` |
| `sta_pipeline` | all 2 197 graphs of three nodes with up to two out-edges each; six netlists with two clock domains; with and without layout and an early levelization; a serial and a parallel analysis | 140 484 | `FaninIsExact`, `LevelsAreTopological`, `LevelsAreDepths`, `LayoutIsRenaming`, `StoredInTraversalOrder`, `TimesMatchPaths`, `LaunchExplainsArrival`, `AbortsForCause`, `NoDataRaces`, `Terminates` |
| `vcd` | one input, two outputs, clock of two units per phase | 439 926 | `RowsMatchSimulation`, `EveryPairOnce`, `NeverFails`, `SimulationStops` |
| `tags_alias` | one 3-input gate read by an output and an inverter | | `OutputProbabilityIsOne` is violated |
| `tags_hang` | 14-node circuit, default bin size, limits 5, 20 | | `EveryNodeVisited` is violated |
| `tags_threshold` | 14-node circuit, fine bin across the threshold | | `NeverAcrossThreshold` is violated |
| `tags_giveup` | as `tags_reduced` | | `GivesUpWhenIrreducible` is violated |
| `sta_two_clocks` | a flip-flop, with and without an output, clocked by a gate of two clocks | | `NeverAborts` is violated |

**Why the bounds are enough.** Three keys are the fewest for which the front, a
middle and the tail of the list differ, so an overwrite can hit each; the
capacities include none (0), a bound of one, a bound below the number of keys
and one above it. Three inputs make a first, a middle and a last digit of the
counter, sizes 1 to 3 a digit that carries at once, at the next step and later.
The circuit of `tags_exact` has every node type the builder creates,
reconvergent fanout, a flip-flop and a constant; its delays make inputs of a
gate arrive in either order and together, so that filtering and ties happen;
bins of 3 with a slack of 2 merge some tags of a set and not others. In
`tags_reduced` a limit of 20 is met at a two-input gate after one or two passes
or given up there, depending on the delays; 5 is met only at the pins; 1 can
never be met, as tags of different transitions stay apart. The loop so ends in
each of its ways, and reduced tags are read by a second gate that shares an
input.

The three-node graphs of `sta_pipeline` include every self-loop, cycle, parallel
edge, reconvergence, isolated node and level structure that three nodes allow;
a count that is off, a node placed twice or a loop that is followed needs no
more. The sequential netlists are numbered against the direction of their edges,
so that the layout moves every node, and have what the small ones lack: data
between two clock domains, a constant, a gated clock whose pin data reaches,
two clocks at one pin with and without the launching edge, a net nothing drives,
and sources that are driven: an echo file can hold these, and a driven source
starts no path. The thresholds run
every level serially in the first analysis and every level of two or more nodes
in parallel in the second, which starts on what the first one left. In `vcd` two
units per phase are the fewest in which an output can change with an edge,
between edges, and not at all; `MaxQuiet` of five lets it stay quiet for longer
than a whole clock cycle. With two variables per input every transition
gets one minterm; three give counts of up to five, dealt in several rounds.

**Fairness.** `EveryNodeVisited`, `Terminates` and the liveness part of
`ImplementsEnumeration` assume weak fairness of the whole next-state relation:
`calculate_timing()`, `levelize()` and the evaluation loop are straight loops of
one thread, which do not stop while a step is left to take, and the iterations of
a `cilk_for` all run before it is joined. `SimulationStops` assumes that the
simulator goes on until it meets `$stop` and that the parser reads on.
`CHECK_DEADLOCK FALSE` stands where the program really ends: the generator when
it is exhausted, the traversal when every node is visited, `tatum_sta` after its
last analysis or at an assertion, the extractor at the end of its file. The cache
never ends.

**What was found.** Six runs show the code doing something other than it says;
`PROJECT.json` quotes the lines.

1. `tags_alias`: reducing the inputs of one node changes the tags of the net
   they come from, for everyone else who reads it; the probabilities of an
   output then exceed one. The reduced set itself stays right
   (`CoversEveryScenario`): the damage is double counting, never loss.
   `OnlyCurrentNode` accordingly holds without a permutation limit only.
2. `tags_hang`: with `-m` set and the coarse bin left at 0, the reduction loops
   for ever.
3. `tags_threshold`: "do not merge tags across the threshold" is enforced in one
   direction only.
4. `tags_giveup`: a bin larger than every delay can still reduce; the limit is
   given up on one pass too early.
5. `cache_lru`: the eviction order is by last write; reads are not accesses.
6. `sta_two_clocks`: the setup analysis asserts that a copied clock tag has no
   successor, which is false for all but the last clock of a pin: two clocks at
   the clock pin of a flip-flop stop the analysis. `AbortsForCause`, which
   holds and is proved, says that nothing else does, save a node that nothing
   drives and is no source.

`ObjectCacheHistory!NewestWritesKept` is the order the cache really has.

## 4. The proofs

**ObjectCacheProofs**, for any finite set of keys, any values and any set of
capacities (`CacheAssumption`):

- `TypeCorrect`, `ListAlwaysMatchesMap`, `CapacityAlwaysRespected` follow from
  the inductive invariant `IInv == TypeOK /\ ListMatchesMap /\ CapacityRespected`
  (`InvariantHolds`). The bound alone is not inductive: an eviction makes room
  only because the key at the tail is in the map, and this needs the list and
  the map to be in step. The argument is carried by a relation `Linked(list,
  keys, map)` with one lemma per change of a list: a prefix (eviction, new
  capacity), a new front (insertion), a move to the front (overwrite).
  `LinkedLength` turns lengths into cardinalities.
- `ContractImplemented`: the cache implements `CacheContract` under the mapping
  that forgets the list. `StoreIsWrite` gives the abstract write the tail's key
  as the entry it may lose; reads and rejected insertions are stutters.

- `LatestValuesHeld` (`HoldsLatestValues`). The invariant adds that every key
  present was once inserted; an insertion may evict, even the key it overwrites,
  but whatever it keeps is unchanged (`StoredIsGiven`).
- `NewestAreKept` (`NewestWritesKept`): the list is a prefix of the keys in the
  order of their last write. The invariant `WInv` adds that the keys written are
  listed once each, so that a second write of a key moves it to the front of the
  list and of the history alike, from the same place or from beyond the list's
  end. This is the order the eviction really follows, where a least recently
  *used* one is documented (finding 5).

**TagPermutationGeneratorProofs**, for any number of inputs and any sizes
(`SizesAssumption`: no empty set, which the analysis guarantees because an input
without tags contributes no set):

- `TypeCorrect` and `NothingSkipped` from `IInv == TypeOK /\ ReturnedIsThePast`.
  The heart is `AdvancePassesOne`: what precedes the advanced iterators is what
  preceded them before and they themselves, where the order is that of the last
  input that differs. `OverflowIsTheEnd` shows the overflow to be the largest
  permutation.
- `EnumerationImplemented`: initial states and steps are those of
  `PermutationEnumeration`. Its weak fairness is checked by TLC only.

**StaPipelineProofs**, first of the timing graph alone, for every sequence of
`add_node`, `add_edge` and `levelize()` calls, on graphs of any size, loops and
parallel edges included (`DomainsAssumption`: the invalid domain is not a domain):

- `CountersAreExact` (`FaninIsExact`) and `LevelsGoUp` (`LevelsAreTopological`)
  from the inductive invariant `IInv` (`GraphInvariant`). It says that the edge
  lists hold every edge exactly once at either end (`GraphOK`), what the first
  loop of `levelize()` has counted so far, and of the second loop that every node
  is in at most one place, that a node's counter is the number of in-edges not
  followed yet, and that both ends of a followed edge are ordered. Topological
  levels alone are not inductive: that a node is placed behind *all* its sources
  follows only from its counter, and the counter is exact only if no edge is
  followed twice, hence if no node is placed twice, hence from the counter. The
  step that follows an edge therefore shows that exactly that edge leaves the
  sink's set of waited-for edges; the rest is cardinality.

Then of the program, for any netlists, constraints, domains and thresholds
(`NetlistsAssumption`: every node has its row in each table, constraints are
whole numbers, and no block has two clock pins, which
`add_ff_clock_to_source_sink_edges` verifies;
`ThresholdsAssumption`):

- `DepthsAreExact` (`LevelsAreDepths`), for every netlist and with the layout or
  without. Its invariant `BInv` says, while the graph is built, which edges are
  stored: those of the fanouts and the blocks that are not still to be added
  (`LoadedOK`); and of levelize(), that a node of a level has a source on the
  level before (`DepthOK`), that the primary outputs are the sinks the walk has
  left (`OutputsOK`), and that in the end a node is placed exactly if all its
  sources are (`EndOK`). A node is then on level `l` exactly if the fold
  `UpTo(l)` takes it up and `UpTo(l - 1)` does not (`LevelsAreUpTo`), and the
  levels are no more than the nodes (`LevelsWithinNodes`), so that the bound of
  the fold loses none.
- `PipelineCountersAreExact` carries the invariant of the graph through loading,
  an early levelization, the clock edges, the layout and the analyses, and
  `PipelineLevelsGoUp` the order of the levels. The layout is the hard part. Both
  optimizations take their new order from a walk of the levels; that order is a
  permutation of the ids only if every node is placed exactly once
  (`LevelsPermuteNodes`) and every edge is listed exactly once at its source
  (`OutEdgesPermuteEdges`). The first holds because no graph with a loop is laid
  out (`WithoutLoopPlaced`, from `DepthsAreExact`'s lemmas), the second is part of
  `IInv`. Renumbering by a permutation then keeps each conjunct of `IInv`
  (`EdgesMoved`, `NodesMoved`).
- `WalkFollowsStorage` (`StoredInTraversalOrder`), what the two optimizations are
  for: after each one the order it stored by is the identity, and the second one
  keeps what the first did.
- `LayoutRenames` (`LayoutIsRenaming`): the graph analysed is the netlist read,
  renumbered. Its invariant has two halves. While the graph is built (`TInv`),
  the edges stored and after them those still to be added are one sequence that
  holds each of the netlist's edges once, the fanouts of a node in their order and
  the clock edges last (`TraceOK`); the edge lists ascend, so that the fanouts are
  the first out-edges of their node (`FanoutsComeFirst`). From then on (`RInv`)
  the graph is the netlist's under the map `Settled` from old to new numbers
  (`Renamed`), which either optimization composes with its own permutation
  (`RenamedEdges`, with the delays that `main` moves along, and `RenamedNodes`).
- `RaceFree` (`NoDataRaces`): a handler writes its own node's tags only
  (`HandlerFacts`), reads those of nodes an edge away, and all handlers that run
  at one time are on one level; no edge joins two nodes of a level
  (`NoEdgeWithinLevel`). This is the argument the parallel analyzer rests on. The
  invariant of these three, `PInv`, adds to `IInv` and `BInv` what the layout
  leaves in place and that the level being walked is one of the graph's.

**StaPathProofs**, for the same netlists, loops included, and any number of
analyses, serial or parallel:

- `TimesAreThePaths` (`TimesMatchPaths`), in three parts. *Handlers*: let `clk`,
  `dat` and `rq` give each node sets of paths and of required times that satisfy
  the equations of the graph analysed (`Solves`): the paths of a node are those of
  its in-edges' sources, each longer by the edge's delay, or the one it starts
  itself; its required times those of its out-edges' sinks, each earlier by the
  delay, and its constraints. Then the tags of a node *fit* those sets (`Fits`:
  one tag per domain, with the latest delay and a launch node that has it; the
  least required time) as far as its edges are traversed, which is the invariant
  `TimesOK`: per node and phase, `At` says how much of its edges the handler has
  been over. What a finished analysis leaves is not inductive by itself: a
  handler takes the tags of its neighbours for complete, which they are because
  their level was walked before, forwards for arrivals and backwards for required
  times. *Paths*: that `ClockPaths`, `DataPaths` and `RequiredFrom`, functions
  defined by recursion over the netlist, satisfy such equations is `FlowExists`,
  an induction over the depth of the nodes off the loops, which is their level
  (`Ordered`); `FlowFinite` makes the sets finite, so that they have a greatest
  and a least member. *Layout*: by `Renamed` of StaPipelineProofs
  the edges of a node of the graph analysed are those of its original
  (`EdgesMatch`), and the netlist's paths, moved to the new numbers (`Renders`),
  solve the graph's equations (`RendersSolves`). The invariant `TimesInv` says
  that from the first analysis on the tags fit every solution of the equations;
  it quantifies over all of them, which TLC cannot evaluate.
- `LaunchNodesAreExplained` (`LaunchExplainsArrival`), from the same invariant,
  is why `Fits` keeps the launch node of a path with the latest delay and not of
  the first met.
- `AbortsOnlyForCause` (`AbortsForCause`), in both directions. A node has a cause
  to stop at (`Cause`) in terms of the paths of the graph analysed; `TimesOK`
  says that nodes passed have none, and that an aborted analysis has met one.
  `CauseMoved` carries it to the netlist.
- `TypeCorrect` (`TypeOK`). What it needs beyond the invariants above is that
  levels name nodes while the graph is changed again after an early levelization
  (`OldNodesStay`), and that an abort leaves well-typed tags (`AbortKeepsTags`);
  that tags are typed while an analysis runs follows from `TimesOK`
  (`RunningIsTyped`).

**FoldInduction** holds lemmas only, and says nothing of the program: it is the
way recursion over data is reasoned about here. The
library's induction theorems take an operator as a parameter, which the provers
cannot instantiate; `NaturalInduction` says the same of a *set* of numbers, and
is proved from the library's facts about cardinality. From it follow that the
function a fold of the community modules chooses exists (`FoldExists`), so that
a fold satisfies its own equation, and that a function on `1..n` defined from its
earlier values exists (`RecursionExists`), so that a recursive definition does.
`RankInduction` and `FlowExists` say the same of a function on the nodes of a graph
whose edges go up in rank. The rest are the corollaries the other modules use: folds that keep an invariant
of their state, folds that append, greatest and least members.

**VcdTestbenchProofs**, for any inputs and outputs, clock period and initial
values (`SignalsAssumption`, `PortsAssumption`: the ports have different names;
`HalfPeriodAssumption`):

- `ExtractorTypes`, `ExtractionNeverFails` (`NeverFails`) and, of a design with at
  least one output, `RowsAreMeasurements` (`RowsMatchSimulation`). The invariant
  (`SimulationInvariant`) ties what the extractor holds to the simulation it has
  read so far: the values before this time step, those of it, and the state of
  the clock machine. The maximum of the delays is a fold, whence FoldInduction.
- `EveryPairIsMeasured` (`EveryPairOnce`), from a second invariant, `PairsInv`. It
  counts the falling edges (`Falls`, with `rolled_over` as the bit above `state`)
  and says which vectors the count has applied, which of them the extractor holds
  and that the rows written are the pairs of the first counts, each once. That
  these pairs are all pairs of vectors, and no two of them the same
  (`PairFacts`), is arithmetic: by induction over the width, a vector is known by
  its bits and every choice of bits is a vector (`VectorsAreBits`), and by
  division a state is known by its two vectors. Counting modulo `States` from 1 to
  `States` meets every state; the last pair is written only because the testbench
  stops one full cycle after it (`FinishesEarly`, its mutant, stops before).

**TagProofs**, for any circuit of the builder's shape (`NetAssumption`,
`ClockNetAssumption`), any delays and any settings (`OptionsAssumption`):

- `TagTypes` (`TypeOK`) from the inductive invariant `TInv` (`TagInvariant`). It
  says that every scenario of a tag gives every data edge of its node a tag of
  that edge's source (`HeapOK`), which nodes have data and which the clock
  (`VisitsOK`: exactly the visited ones outside and inside the clock net), and
  that the workspace of a handler is in step with its stage and its iterators in
  range (`WorkspaceOK`). Types alone are not inductive: that a handler finds one
  tag set per data edge, in edge order, needs `VisitsOK` of its inputs, hence
  that levels are visited in order, hence `ClockNetAssumption`.
- Merging is summed up by `MergeOutcome`: a merge of a set of tags of one node
  leaves a heap that has `Grown` (same references and transitions, arrivals
  never earlier and always arrivals of the same node, scenarios only gained, and
  only from tags of the same transition), in which every tag of the set lives on
  in a collected one. It is an invariant of the fold over the set.
- For sets that hold no tag twice `MergeFacts` says exactly what a merge makes of
  them: every tag of the set has one *home* among the collected tags, a collected
  tag has the scenarios of the tags at home there and no others, is in their bin
  and on their side of the threshold, and no two collected tags are still in one
  bin. The invariant of the fold is `MergedInto` (where each tag went) with
  `Apart` (the collected ones stay apart).
- `HandlersAreLocal` (`OnlyCurrentNode`), with no permutation limit. With one
  the property is false, which is finding 1.

**TagScenarioProofs**, under the same assumptions:

- `TransitionsSound` (`TransitionsAreSound`). The invariant `SoundTags` is local:
  every scenario of a tag makes the node's logic answer with the tag's
  transition. That it holds of a response is `ResponseSound`: the inputs left
  unfiltered determine the function, by an induction over the order in which the
  inputs are applied, so that an output that is static for the unfiltered inputs
  is static for all. It survives merging, which adds scenarios of the same
  transition only and does not change that of an input. `SoundTagsHold` then
  follows a circuit scenario from the logical inputs to the node.
- `EveryScenarioCovered` (`CoversEveryScenario`). The invariant `CoverInv` says
  that the tag sets of visited nodes cover all scenarios, that the sets in the
  workspace of a handler still do, however often they were reduced, and that
  every permutation the generator has passed is in the scenarios of a tag
  (`PassedCollected`). Its last permutation is passed when `done` is true, by
  the lemmas of TagPermutationGeneratorProofs, which are instantiated here. This
  holds although reducing changes the tags of other nodes (finding 1): what such
  a tag stands for only grows.
- `NeverLaterThanSta` (`ArrivalsWithinSta`). The invariant `StaInv` bounds every
  tag, collected or not, by the standard arrival of its node; it needs the
  equations of `ClockArrivals` and `DataArrivals` (`RecursionExists`) and that a
  clock reaches every launching flip-flop (`ClockReaches`), without which the
  standard analysis would have no arrival to compare with.

- `MergingBounded` (`MergingIsBounded`), for any limit: a step that merges moves
  no tag by a bin or more. Its invariants are `DistinctSets` (no set holds a tag
  twice, or a tag could be taken by itself), `ScaleOK` (scale factors are
  fractions) and `StaInv`; `ThresholdType` finds the required times of the
  standard analysis to be finite sets of integers, by a recursion from the last
  node to the first.
- `NothingLeftToMerge` (`FullyMerged`), if no setting has a permutation limit
  (`\A o \in Options : o.maxPerm = 0`). Collecting compares a tag with the
  collected ones only, whose arrivals change as they take others; `Apart` shows
  that no two of them meet in one bin later, because taking keeps a tag in its
  bin (`TakingStays`).
- `EveryScenarioInOneTag` (`EveryScenarioOnce`), under the same hypothesis. The
  invariant `OnceInv` says that no two tags of a visited node share a scenario
  over the tags its inputs were left with, that the sets being evaluated are
  those of the inputs, and that scenarios are only added for permutations the
  generator has passed (`OnlyPassed`), of which the next one is never one
  (`CurrentIsNew`). `CoveredOnce` carries it from scenarios of a node to
  scenarios of the circuit, node by node.
- `ExactWithoutBins` (`MatchesSimulation`), for any limit. The invariant
  `ExactTags` says of settings without bins that every scenario of a tag
  leads the node to exactly the tag's transition and arrival: a response depends
  on the transitions and arrivals of the inputs alone (`ResponsesOfTimes`), and
  merging with bins of size 0 joins only tags that agree in both
  (`CollectInTime`, `MergedInTime`). `ExactTagsHold` carries it to the
  scenarios of the circuit, node by node; that the recursive definition of the
  simulation has a solution is `SimulatedEquation`.

`NothingLeftToMerge` and `EveryScenarioInOneTag` are those of the exact
analysis. With a permutation limit the reduction of one node's inputs goes on
changing the tags of nodes that are done (finding 1), and two tags of such a
node may then be in one bin.

- `EveryScenarioReportedOnce` (`MaxDelayOfEveryScenario`), with any limit, of a
  circuit with an output (without one there are no delays, and nothing to be
  latest). It follows the tags through `circuit_max_delays`: collected they are those of the outputs, joined
  where equally late (`MaxTagsAre`, two nested folds); `merge_max_tags` puts each
  into one less than a bin later and leaves no two equally late
  (`MergedMaxTagsAre`, which carries the lemmas of TagProofs over to tags of the
  transition MAX, by giving them another: `Lift`); sorting loses none
  (`DescendingIsSorted`: the number of later tags is a permutation). In
  `DelaysReported` the first of the sorted tags that has a scenario is the one it
  is reported at, because it takes it away from the later ones, the inferred last
  one included. That some tag has it is `CoverInv`, and that the standard
  analysis gives a threshold at all is `StaInv`.

Model-checked only: liveness, for fairness and ENABLED are beyond the prover
(`EveryNodeVisited`, `Terminates`, `SimulationStops`, and the fairness of
`PermutationEnumeration` in `ImplementsEnumeration`); and
`InputsArePartitioned`, whose module uses Bitwise, from which no theorem can be
reached. Every other property of the passing runs is a theorem.

## 5. What is not modelled, and the plan

Not modelled, and not planned:

- Parsers and grammars, SDF annotation, option handling, printing, CSV output,
  the scripts that run external tools and plot: data conversion and I/O.
- The BDD package and the counting recursions over its nodes; a Boolean function
  is a set here. The cell characterisation, which prints a table of one function.
- Hold analysis: its handlers do not take the parameters the analyzers pass, so
  that no analyzer can be instantiated with it.
- `ParallelNoDependancyTimingAnalyzer`, whose own header says not to use it, and
  `gen_tag_permutations`, which has no caller.
- Floating-point rounding, and separate rise and fall delays of latches.
- VCD files that the testbench does not write. It sets a time before it dumps the
  first value and changes the clock once in a time step, so that neither a value
  ahead of the first timestamp nor a rise and a fall under one timestamp is met;
  `NeverFails` and `TypeOK` say nothing of either.
- The memoising recursion of `build_bdd_xfunc`: it runs when no tag changes any
  more, so that a memo cannot be stale and `Covered` is what it computes. The
  BDD cache wired to nothing (see the hazards) has no state to model.
- Most of the lines of the repository are the vendored Boost headers under
  `libs/tatum/lib` and other third-party libraries; the models are of the
  program's own code.

What is left is to model more of the components marked `partly`.
