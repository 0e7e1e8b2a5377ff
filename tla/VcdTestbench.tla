------------------------------ MODULE VcdTestbench ------------------------------
(***************************************************************************)
(* The exhaustive simulation that create_testbench() sets up, feeding the   *)
(* extractor: a counter of two input vectors steps through every pair of    *)
(* them, applying the second vector at a rising and the first at a falling  *)
(* clock edge.  The device under test is left open: in every time step any  *)
(* of its outputs may change.  The simulator writes the changes of a time   *)
(* step in any order, each signal once.                                     *)
(*                                                                          *)
(* wave, lastRise and lastFall are history: the signals' changes as         *)
(* <<time, value>>; of those before the last high phase of the clock only   *)
(* the last one, and after the phase has been measured only the last at all.*)
(***************************************************************************)
EXTENDS VcdExtractor

CONSTANTS HalfPeriod,  \* CLOCK_DELAY
          MaxQuiet     \* bound: no output keeps its value for longer than this

ASSUME HalfPeriodAssumption == HalfPeriod \in Nat \ {0} /\ MaxQuiet \in Nat \ {0}

(* The ports of a module have different names.                              *)
ASSUME PortsAssumption == \A j, k \in DOMAIN Inputs : Inputs[j] = Inputs[k] => j = k

VARIABLES
    time, clock,       \* of the simulation
    state, rolled_over, finished,
    inputs,            \* the applied values
    outputs,
    pending,           \* changes of this time step that are not written yet
    early,             \* the advanced state is seen by the statement after it
    simulation,        \* "dump", "run" or "stopped"
    wave, lastRise, lastFall

benchVars == <<time, clock, state, rolled_over, finished, inputs, outputs, pending, early,
               simulation>>
history == <<wave, lastRise, lastFall>>
vars == <<extractorVars, benchVars, history>>

W == Len(Inputs)

(* 2^k, of the widths that occur.                                           *)
Power2[k \in 0..W] == IF k = 0 THEN 1 ELSE 2 * Power2[k - 1]

(* state is 2 * W bits wide: an input vector above another one.             *)
Vectors == Power2[W]
States == Vectors * Vectors

Bit(vector, k) == (vector \div Power2[k]) % 2

(* The inputs are concatenated, the first one to the highest bit.           *)
Position(i) == W - (CHOOSE k \in DOMAIN Inputs : Inputs[k] = i)
Bits(vector) == [i \in ToSet(Inputs) |-> IF Bit(vector, Position(i)) = 1 THEN "1" ELSE "0"]

prev_state(s) == Bits(s % Vectors)
next_state(s) == Bits(s \div Vectors)

Init ==
    /\ ExtractorInit
    /\ time = 0 /\ clock = "1" /\ state = 0 /\ rolled_over = FALSE /\ finished = FALSE
    /\ inputs \in {[i \in ToSet(Inputs) |-> "x"], next_state(0)}
    /\ outputs = [o \in ToSet(Outputs) |-> "x"]
    /\ pending = {} /\ early \in BOOLEAN /\ simulation = "dump"
    /\ wave = [id \in Signals |-> <<>>] /\ lastRise = 0 /\ lastFall = 0

(* Every signal's value, of those of the inputs, the outputs and the clock. *)
Values(ins, outs, clk) ==
    [id \in Signals |-> IF id \in ToSet(Inputs) THEN ins[id]
                        ELSE IF id \in ToSet(Outputs) THEN outs[id] ELSE clk]

(* The values that differ, as changes of the signals.                       *)
Changes(old, new) == {<<id, new[id]>> : id \in {i \in DOMAIN old : old[i] # new[i]}}

(* Every signal's value at time 0; whether the clock's first edge has been  *)
(* seen by then is up to the simulator.                                     *)
DumpVars ==
    /\ simulation = "dump"
    /\ set_time(0)
    /\ pending' = {<<id, Values(inputs, outputs, clock)[id]>> : id \in Signals}
    /\ wave' = [id \in Signals |-> <<<<0, Values(inputs, outputs, clock)[id]>>>>]
    /\ simulation' = "run"
    /\ UNCHANGED <<time, clock, state, rolled_over, finished, inputs, outputs, early, lastRise, lastFall>>

Write ==
    /\ simulation = "run" /\ ~failed
    /\ \E change \in pending :
          /\ add_transition(change[1], change[2])
          /\ pending' = pending \ {change}
    /\ UNCHANGED <<time, clock, state, rolled_over, finished, inputs, outputs, early, simulation, history>>

(* Mutant: finished one state too early, without the last transition.       *)
FinishesEarly == rolled_over /\ state = 0

Finishes == rolled_over /\ state = 1

Posedge ==
    /\ clock' = "1"
    /\ inputs' = next_state(state)
    /\ finished' = (finished \/ Finishes)
    /\ UNCHANGED <<state, rolled_over>>

(* {rolled_over,state} += 1.                                                *)
Negedge ==
    /\ clock' = "0"
    /\ state' = (state + 1) % States
    /\ rolled_over' = (rolled_over # (state' = 0))
    /\ inputs' = prev_state(IF early THEN state' ELSE state)
    /\ UNCHANGED finished

KeepInputs == UNCHANGED <<clock, inputs, state, rolled_over, finished>>

(* The next time step in which anything changes, at the latest that of the  *)
(* next clock edge.                                                         *)
Advance ==
    /\ simulation = "run" /\ pending = {} /\ ~failed /\ ~finished
    /\ \E t \in (time + 1)..((time \div HalfPeriod + 1) * HalfPeriod) :
          /\ time' = t
          /\ IF t % HalfPeriod # 0 THEN KeepInputs
             ELSE IF clock = "1" THEN Negedge ELSE Posedge
          /\ outputs' \in [ToSet(Outputs) -> Value]
          /\ \A o \in ToSet(Outputs) : outputs[o] # "x" => outputs'[o] # "x"
          /\ pending' = Changes(Values(inputs, outputs, clock), Values(inputs', outputs', clock'))
          /\ pending' # {}
          /\ \A o \in ToSet(Outputs) :
                outputs'[o] # outputs[o] \/ t < Last(wave[o])[1] + MaxQuiet
          /\ set_time(t)
          /\ lastRise' = IF clock = "0" /\ clock' = "1" THEN t ELSE lastRise
          /\ lastFall' = IF clock = "1" /\ clock' = "0" THEN t ELSE lastFall
          /\ wave' = [id \in Signals |->
                (IF clock = "0" THEN <<Last(wave[id])>> ELSE wave[id]) \o
                (IF \E change \in pending' : change[1] = id
                 THEN <<<<t, Values(inputs', outputs', clock')[id]>>>> ELSE <<>>)]
    /\ UNCHANGED <<early, simulation>>

(* The simulator stops when it sees finished, in the step of a rising edge; *)
(* the parser reaches the end of the file.                                  *)
Stop ==
    /\ simulation = "run" /\ finished /\ \A change \in pending : change[1] # Clock
    /\ simulation' = "stopped"
    /\ UNCHANGED <<extractorVars, time, clock, state, rolled_over, finished, inputs, outputs,
                   pending, early, history>>

Next == DumpVars \/ Write \/ Advance \/ Stop

Spec == Init /\ [][Next]_vars /\ WF_vars(Next)
-------------------------------------------------------------------------------
(* Recorded times are past times of the simulation.                         *)
TypeOK ==
    /\ state_ \in {"INITIAL", "CLOCK_RISE", "CLOCK_FALL", "MEASURE", "SETUP"}
    /\ DOMAIN previous = Signals /\ DOMAIN current \subseteq Signals
    /\ \A id \in Signals : previous[id].val \in Value /\ previous[id].time <= time
    /\ \A id \in DOMAIN current : current[id] \in [val : Value, time : {time}]
    /\ IsABag(written)

Before(id, t) == LET changes == {k \in DOMAIN wave[id] : wave[id][k][1] < t}
                 IN wave[id][CHOOSE k \in changes : \A j \in changes : j <= k]

(* What the last high phase of the clock shows: the values just before its  *)
(* two edges, and how long after the first an output last changed.          *)
MeasuredRow ==
    LET trans(id) == transition(Before(id, lastRise)[2], Before(id, lastFall)[2])
        delay(o)  == IF Before(o, lastFall)[1] < lastRise THEN 0
                     ELSE Before(o, lastFall)[1] - lastRise
        delays    == {delay(o) : o \in ToSet(Outputs)}
        max       == CHOOSE d \in delays : \A e \in delays : e <= d
        column(d) == [delay |-> d, sim_time |-> lastRise + d]
    IN [ins |-> [i \in ToSet(Inputs) |-> trans(i)], outs |-> [o \in ToSet(Outputs) |-> trans(o)],
        delays |-> [o \in ToSet(Outputs) |-> column(delay(o))], max |-> column(max)]

(* Every row is the measurement of the last high phase, whatever the order  *)
(* in which the changes of its time steps are written and whatever changes  *)
(* together with the clock.                                                 *)
RowsMatchSimulation == [][written' # written => row' = MeasuredRow]_vars

(* The testbench's "covers the last transition for full coverage": of every *)
(* pair of input vectors exactly one row has been written when the          *)
(* simulation stops, although finish() drops a measurement that is still    *)
(* open.                                                                    *)
EveryPairOnce ==
    simulation = "stopped" =>
        written = SetToBag([ToSet(Inputs) -> {"R", "F", "H", "L"}])

(* No clock edge is met in a state that does not expect it, and no          *)
(* measurement is finalized that was not begun.                             *)
NeverFails == ~failed

(* The testbench stops the simulation after all its pairs.                  *)
SimulationStops == <>(simulation = "stopped")
===============================================================================
