------------------------------ MODULE VcdExtractor ------------------------------
(***************************************************************************)
(* vcd_extract: reads the value changes of a simulation line by line and    *)
(* writes one row per measurement, from just before a rising to just before *)
(* a falling edge of the simulation clock.  A time step's changes are       *)
(* collected and only become the previous values with the next timestamp,   *)
(* at which the measurement of the edge seen in the step also begins or     *)
(* ends.                                                                    *)
(*                                                                          *)
(* Signals stand for their VCD identifiers.  A row is visible in the state  *)
(* right after it was written; of the rows before, it is kept how many had  *)
(* the same input columns.                                                  *)
(***************************************************************************)
EXTENDS Integers, SequencesExt, Bags

CONSTANTS Clock,     \* the simulation clock
          Inputs,    \* inputs_ and outputs_, in the order of their columns
          Outputs

Signals == {Clock} \cup ToSet(Inputs) \cup ToSet(Outputs)

ASSUME SignalsAssumption ==
    /\ Inputs \in Seq(ToSet(Inputs)) /\ Outputs \in Seq(ToSet(Outputs))
    /\ Clock \notin ToSet(Inputs) \cup ToSet(Outputs)

Value == {"0", "1", "x"}

VARIABLES
    state_,            \* State
    current, previous, \* id_to_current_value_ and id_to_previous_value_: [val, time]
    initial,           \* id_to_measure_initial_value_, without the times
    current_time_, clock_rise_time_,
    row, written,      \* the row this line completed; all rows by their input columns
    failed             \* an assert failed or "Unrecognized_transition" was thrown

extractorVars == <<state_, current, previous, initial, current_time_,
                   clock_rise_time_, row, written, failed>>

Nothing == [id \in {} |-> 0]

(* A map's entries replaced or extended by another's.                       *)
Updated(old, new) ==
    [id \in DOMAIN old \cup DOMAIN new |-> IF id \in DOMAIN new THEN new[id] ELSE old[id]]

(* An uninitialized time, later than any that is simulated.                 *)
Garbage == 10 ^ 6

(* add_var has been called for every signal.                                *)
ExtractorInit ==
    /\ state_ = "INITIAL"
    /\ current = Nothing /\ previous = [id \in Signals |-> [val |-> "x", time |-> 0]]
    /\ initial = Nothing
    /\ current_time_ = Garbage /\ clock_rise_time_ = Garbage
    /\ row = Nothing /\ written = EmptyBag /\ failed = FALSE
-------------------------------------------------------------------------------
(* Any other value is unrecognized.                                         *)
transition(from, to) ==
    CASE from = "x" \/ to = "x"  -> "X"
      [] from = "1" /\ to = "1" -> "H"
      [] from = "1" /\ to = "0" -> "F"
      [] from = "0" /\ to = "1" -> "R"
      [] from = "0" /\ to = "0" -> "L"
      [] OTHER -> "unrecognized"

output_delay(changed) ==
    IF changed < clock_rise_time_ THEN [delay |-> 0, sim_time |-> clock_rise_time_]
    ELSE [delay |-> changed - clock_rise_time_, sim_time |-> changed]

(* The MAX columns: the last output with the largest delay.                 *)
LatestOutput(delays) ==
    FoldLeft(LAMBDA max, o : IF delays[o].delay >= max.delay THEN delays[o] ELSE max,
             [delay |-> 0, sim_time |-> 0], Outputs)

write_transition ==
    LET trans(id) == transition(IF id \in DOMAIN initial THEN initial[id] ELSE "",
                                previous[id].val)
        ins    == [i \in ToSet(Inputs) |-> trans(i)]
        outs   == [o \in ToSet(Outputs) |-> trans(o)]
        delays == [o \in ToSet(Outputs) |-> output_delay(previous[o].time)]
    IN IF "unrecognized" \in Range(ins) \cup Range(outs)
       THEN failed' = TRUE /\ row' = Nothing /\ UNCHANGED written
       ELSE /\ row' = [ins |-> ins, outs |-> outs, delays |-> delays,
                       max |-> LatestOutput(delays)]
            /\ written' = written (+) SetToBag({ins})
            /\ UNCHANGED failed

(* Mutant: the values of the edge's own time step are taken.                *)
initialize_measure_at_edge ==
    /\ initial' = [id \in Signals |-> Updated(previous, current)[id].val]
    /\ clock_rise_time_' = current_time_
    /\ state_' = "MEASURE"
    /\ row' = Nothing /\ UNCHANGED <<written, failed>>

initialize_measure ==
    /\ initial' = [id \in Signals |-> previous[id].val]
    /\ clock_rise_time_' = current_time_
    /\ state_' = "MEASURE"
    /\ row' = Nothing /\ UNCHANGED <<written, failed>>

(* The final values, id_to_measure_final_value_, are the previous values,   *)
(* and only read here.                                                      *)
finalize_measure ==
    /\ write_transition
    /\ state_' = "SETUP"
    /\ UNCHANGED <<initial, clock_rise_time_>>

KeepMeasure == row' = Nothing /\ UNCHANGED <<state_, initial, clock_rise_time_, written, failed>>

(* Mutant: the time does not advance.                                       *)
set_time_stands_still(time) ==
    /\ CASE state_ = "CLOCK_RISE" -> initialize_measure
         [] state_ = "CLOCK_FALL" -> finalize_measure
         [] OTHER -> KeepMeasure
    /\ previous' = Updated(previous, current)
    /\ current' = Nothing
    /\ UNCHANGED current_time_

set_time(time) ==
    /\ CASE state_ = "CLOCK_RISE" -> initialize_measure
         [] state_ = "CLOCK_FALL" -> finalize_measure
         [] OTHER -> KeepMeasure
    /\ current_time_' = time
    /\ previous' = Updated(previous, current)
    /\ current' = Nothing

(* Mutant: no protection from falling edges during startup.                 *)
ClockEdgeUnprotected(val) ==
    CASE previous[Clock].val = "0" /\ val = "1" -> state_' = "CLOCK_RISE" /\ UNCHANGED failed
      [] previous[Clock].val = "1" /\ val = "0" -> state_' = "CLOCK_FALL" /\ UNCHANGED failed
      [] OTHER -> failed' = (state_ # "INITIAL") /\ UNCHANGED state_

(* A change that is not an edge is only expected before the first edge.     *)
ClockEdge(val) ==
    CASE previous[Clock].val = "0" /\ val = "1" -> state_' = "CLOCK_RISE" /\ UNCHANGED failed
      [] previous[Clock].val = "1" /\ val = "0" ->
            /\ state_' = IF state_ # "INITIAL" THEN "CLOCK_FALL" ELSE state_
            /\ UNCHANGED failed
      [] OTHER -> failed' = (state_ # "INITIAL") /\ UNCHANGED state_

add_transition(id, val) ==
    /\ IF id = Clock THEN ClockEdge(val) ELSE UNCHANGED <<state_, failed>>
    /\ current' = Updated(current, [j \in {id} |-> [val |-> val, time |-> current_time_]])
    /\ row' = Nothing
    /\ UNCHANGED <<previous, initial, current_time_, clock_rise_time_, written>>
===============================================================================
