--------------------------- MODULE VcdTestbenchProofs ---------------------------
(***************************************************************************)
(* Proofs about the extractor fed by the testbench's simulation, for any    *)
(* number of inputs and outputs, any clock period and any outputs: it never *)
(* fails, every row is the measurement of the high phase of the clock that  *)
(* has just ended, and the run ends with one row for every pair of input    *)
(* vectors.                                                                 *)
(***************************************************************************)
EXTENDS VcdTestbench, FoldInduction

(* A change <<time, value>> as the extractor stores it.                     *)
Seen(change) == [val |-> change[2], time |-> change[1]]

(* The signal changed in the current time step.                             *)
Changed(id) == Last(wave[id])[1] = time

(* The types, and that nothing has failed.                                  *)
Basic ==
    /\ time \in Nat /\ lastRise \in Nat /\ lastFall \in Nat /\ clock \in {"0", "1"}
    /\ lastRise <= time /\ lastFall <= time
    /\ inputs \in [ToSet(Inputs) -> Value] /\ outputs \in [ToSet(Outputs) -> Value]
    /\ previous \in [Signals -> [val : Value, time : Nat]]
    /\ \A id \in Signals : previous[id].time <= time
    /\ DOMAIN current \subseteq Signals
    /\ state_ \in {"INITIAL", "CLOCK_RISE", "CLOCK_FALL", "MEASURE", "SETUP"}
    /\ simulation \in {"dump", "run", "stopped"}
    /\ IsABag(written) /\ failed = FALSE

(* Before the values of time 0 are written.                                 *)
Undumped ==
    /\ time = 0 /\ clock = "1" /\ lastRise = 0 /\ state_ = "INITIAL" /\ current = Nothing
    /\ \A id \in Signals : previous[id].val = "x"

(* The changes of a signal are in the order of their times, none of them in *)
(* the future, and the last of the clock is the clock's value.              *)
Waves ==
    /\ wave \in [Signals -> Seq(Nat \X Value) \ {<<>>}]
    /\ \A id \in Signals : Last(wave[id])[1] <= time
    /\ \A id \in Signals : \A j, k \in DOMAIN wave[id] : j < k => wave[id][j][1] < wave[id][k][1]
    /\ Last(wave[Clock])[2] = clock

(* The extractor follows the simulation: of the signals that changed in     *)
(* this time step those that are not pending are current, and the previous  *)
(* values are those before the step.                                        *)
Follows ==
    /\ current_time_ = time
    /\ pending = {<<id, Last(wave[id])[2]>> :
                   id \in {i \in Signals : Changed(i) /\ i \notin DOMAIN current}}
    /\ \A id \in DOMAIN current : Changed(id) /\ current[id] = Seen(Last(wave[id]))
    /\ \A id \in Signals : ~Changed(id) => previous[id] = Seen(Last(wave[id]))
    /\ \A id \in Signals : Changed(id) /\ time > 0 =>
         Len(wave[id]) > 1 /\ previous[id] = Seen(wave[id][Len(wave[id]) - 1])
    /\ time = 0 => \A id \in Signals : previous[id].val = "x"

(* The extractor's state is that of the clock: which edges it has seen, and *)
(* that a measurement was begun at the last rise with the values that the   *)
(* signals' first kept changes hold.                                        *)
Phase ==
    /\ time = 0 => clock = "1" /\ state_ = "INITIAL" /\ lastRise = 0
    /\ time > 0 /\ Changed(Clock) => previous[Clock].val = IF clock = "1" THEN "0" ELSE "1"
    /\ time > 0 /\ Changed(Clock) => IF clock = "1" THEN lastRise = time ELSE lastFall = time
    /\ lastRise > 0 /\ (clock = "1" \/ Changed(Clock)) =>
         \A id \in Signals : \A k \in DOMAIN wave[id] : wave[id][k][1] < lastRise <=> k = 1
    /\ state_ \in IF time > 0 /\ Changed(Clock)
                  THEN IF Clock \in DOMAIN current
                       THEN IF clock = "1" THEN {"CLOCK_RISE"} ELSE {"INITIAL", "CLOCK_FALL"}
                       ELSE IF clock = "1" THEN {"INITIAL", "SETUP"} ELSE {"INITIAL", "MEASURE"}
                  ELSE IF clock = "1" THEN {"INITIAL", "MEASURE"} ELSE {"INITIAL", "SETUP"}
    /\ state_ \in {"CLOCK_RISE", "MEASURE", "CLOCK_FALL"} => lastRise > 0
    /\ state_ \in {"MEASURE", "CLOCK_FALL"} =>
         /\ clock_rise_time_ = lastRise
         /\ initial = [id \in Signals |-> wave[id][1][2]]

(* The inductive invariant.                                                 *)
VInv == Basic /\ IF simulation = "dump" THEN Undumped ELSE Waves /\ Follows /\ Phase
-------------------------------------------------------------------------------
(* Every signal has the value of its input, its output or the clock.        *)
LEMMA ValuesType ==
    ASSUME NEW i \in [ToSet(Inputs) -> Value], NEW o \in [ToSet(Outputs) -> Value],
           NEW c \in Value
    PROVE  Values(i, o, c) \in [Signals -> Value] /\ Values(i, o, c)[Clock] = c
  BY SignalsAssumption DEF Values, Signals

(* A vector's bits are values of the inputs.                                *)
LEMMA BitValues == ASSUME NEW v PROVE Bits(v) \in [ToSet(Inputs) -> Value]
  BY DEF Bits, Value

(* The simulation starts undumped.                                          *)
LEMMA SimulationInitially == Init => VInv
  <1> SUFFICES ASSUME Init PROVE VInv
    OBVIOUS
  <1>1. inputs \in [ToSet(Inputs) -> Value]
    BY BitValues DEF Init, next_state, Value
  <1>2. IsABag(written)
    BY DEF Init, ExtractorInit, EmptyBag, SetToBag, IsABag
  <1> QED
    BY <1>1, <1>2 DEF Init, ExtractorInit, VInv, Basic, Undumped, Value, Nothing

(* The values of time 0 make every signal pending.                          *)
LEMMA DumpStep ==
    ASSUME VInv, DumpVars
    PROVE  VInv'
  <1>1. Basic /\ Undumped /\ simulation = "dump"
    BY DEF VInv, DumpVars
  <1> DEFINE V == Values(inputs, outputs, clock)
  <1>2. V \in [Signals -> Value] /\ V[Clock] = clock
    BY <1>1, ValuesType DEF Basic, Value
  <1>3. /\ KeepMeasure /\ current_time_' = 0 /\ current' = Nothing
        /\ previous' = previous
    BY <1>1 DEF DumpVars, set_time, Basic, Undumped, Nothing, Updated
  <1>4. /\ wave' = [id \in Signals |-> << <<0, V[id]>> >>]
        /\ pending' = {<<id, V[id]>> : id \in Signals}
    BY <1>2 DEF DumpVars, Signals
  <1> HIDE DEF V
  <1>5. Basic'
    BY <1>1, <1>3 DEF Basic, KeepMeasure, DumpVars, Nothing, Undumped
  <1>6. \A id \in Signals : /\ wave'[id] = << <<0, V[id]>> >>
                            /\ Last(wave'[id]) = <<0, V[id]>>
                            /\ DOMAIN wave'[id] = {1}
                            /\ wave'[id] \in Seq(Nat \X Value) \ {<<>>}
    BY <1>2, <1>4 DEF Last
  <1>7. Waves'
    <2>1. wave' \in [Signals -> Seq(Nat \X Value) \ {<<>>}]
      BY <1>4, <1>6
    <2>2. time' = 0 /\ clock' = clock
      BY <1>1 DEF DumpVars, Undumped
    <2>3. \A id \in Signals : Last(wave'[id])[1] <= 0 /\ Last(wave'[id])[2] = V[id]
      BY <1>6
    <2>4. Clock \in Signals
      BY DEF Signals
    <2> QED
      BY <1>2, <1>6, <2>1, <2>2, <2>3, <2>4 DEF Waves
  <1>8. Follows'
    <2>1. time' = 0 /\ time = 0
      BY <1>1 DEF DumpVars, Undumped
    <2>2. \A id \in Signals : Changed(id)' /\ Last(wave'[id])[2] = V[id]
      BY <1>6, <2>1 DEF Changed
    <2>3. DOMAIN current' = {}
      BY <1>3 DEF Nothing
    <2>4. Signals = {i \in Signals : Changed(i)' /\ i \notin DOMAIN current'}
      BY <2>2, <2>3
    <2>5. pending' = {<<id, Last(wave'[id])[2]>> :
                       id \in {i \in Signals : Changed(i)' /\ i \notin DOMAIN current'}}
      BY <1>4, <2>2, <2>4
    <2> QED
      BY <1>1, <1>3, <2>1, <2>2, <2>3, <2>5 DEF Follows, Undumped
  <1>9. Phase'
    BY <1>1, <1>3 DEF Phase, DumpVars, Undumped, KeepMeasure
  <1> QED
    BY <1>5, <1>7, <1>8, <1>9 DEF VInv, DumpVars

(* Writing a change keeps the phase: the change of the clock is the edge    *)
(* its previous value calls for.                                            *)
LEMMA WriteStep ==
    ASSUME VInv, Write
    PROVE  VInv'
  <1>1. Basic /\ Waves /\ Follows /\ Phase /\ simulation = "run"
    BY DEF VInv, Write
  <1>2. PICK id \in Signals :
            /\ Changed(id) /\ id \notin DOMAIN current
            /\ add_transition(id, Last(wave[id])[2])
            /\ pending' = pending \ {<<id, Last(wave[id])[2]>>}
    BY <1>1 DEF Write, Follows
  <1>3. /\ DOMAIN current' = DOMAIN current \cup {id}
        /\ current'[id] = Seen(Last(wave[id]))
        /\ \A j \in DOMAIN current : current'[j] = current[j]
    BY <1>1, <1>2 DEF add_transition, Follows, Updated, Seen, Changed
  <1>4. UNCHANGED <<time, clock, inputs, outputs, simulation, wave, lastRise, lastFall,
                    previous, initial, current_time_, clock_rise_time_, written>>
    BY <1>2 DEF Write, add_transition, history
  <1>5. /\ failed' = FALSE
        /\ state_' = IF id # Clock \/ time = 0 THEN state_
                     ELSE IF clock = "1" THEN "CLOCK_RISE"
                     ELSE IF state_ = "INITIAL" THEN "INITIAL" ELSE "CLOCK_FALL"
    <2>1. CASE id # Clock
      BY <1>1, <1>2, <2>1 DEF add_transition, Basic
    <2>2. CASE id = Clock
      <3>1. ClockEdge(clock)
        BY <1>1, <1>2, <2>2 DEF add_transition, Waves
      <3>2. CASE time = 0
        <4>1. previous[Clock].val = "x" /\ state_ = "INITIAL"
          BY <1>1, <3>2 DEF Follows, Phase, Signals
        <4> QED
          BY <1>1, <3>1, <3>2, <4>1 DEF ClockEdge, Basic
      <3>3. CASE time # 0
        <4>1. previous[Clock].val = IF clock = "1" THEN "0" ELSE "1"
          BY <1>1, <1>2, <2>2, <3>3 DEF Phase, Basic
        <4> QED
          BY <1>1, <2>2, <3>1, <3>3, <4>1 DEF ClockEdge, Basic
      <3> QED
        BY <3>2, <3>3
    <2> QED
      BY <2>1, <2>2
  <1>6. Basic'
    BY <1>1, <1>3, <1>4, <1>5 DEF Basic
  <1>7. Waves'
    BY <1>1, <1>4 DEF Waves
  <1>8. \A j : Changed(j)' <=> Changed(j)
    BY <1>4 DEF Changed
  <1>9. Follows'
    BY <1>1, <1>2, <1>3, <1>4, <1>8 DEF Follows
  <1>10. Phase'
    <2>1. state_' \in {"CLOCK_RISE", "MEASURE", "CLOCK_FALL"} => lastRise > 0
      BY <1>1, <1>2, <1>5 DEF Phase, Basic
    <2>2. state_' \in {"MEASURE", "CLOCK_FALL"} =>
            /\ clock_rise_time_ = lastRise
            /\ initial = [j \in Signals |-> wave[j][1][2]]
      BY <1>1, <1>2, <1>5 DEF Phase, Basic
    <2> QED
      BY <1>1, <1>2, <1>3, <1>4, <1>5, <1>8, <2>1, <2>2 DEF Phase, Basic
  <1> QED
    BY <1>4, <1>6, <1>7, <1>9, <1>10, <1>1 DEF VInv

(* With all changes of a time step written, the values the next timestamp   *)
(* makes the previous ones are the last of every signal.                    *)
LEMMA PreviousIsLast ==
    ASSUME Basic, Waves, Follows, pending = {}, NEW t, set_time(t), NEW id \in Signals
    PROVE  /\ Updated(previous, current)[id] = Seen(Last(wave[id]))
           /\ previous'[id] = Seen(Last(wave[id]))
           /\ Changed(id) <=> id \in DOMAIN current
  <1>1. Changed(id) => id \in DOMAIN current
    BY DEF Follows
  <1>2. previous' = Updated(previous, current) /\ id \in DOMAIN previous
    BY DEF set_time, Basic
  <1> QED
    BY <1>1, <1>2 DEF Follows, Updated

(* A step of the simulation keeps all or the last of a signal's changes and *)
(* may add one.                                                             *)
Grows(old, base, added, new, t, v) ==
    /\ old \in Seq(Nat \X Value) /\ old # <<>>
    /\ \A j, k \in DOMAIN old : j < k => old[j][1] < old[k][1]
    /\ t \in Nat /\ v \in Value /\ Last(old)[1] < t
    /\ base = old \/ base = <<Last(old)>>
    /\ added = <<>> \/ added = << <<t, v>> >>
    /\ new = base \o added

(* They stay ordered, and are the kept ones followed by the new one.        *)
LEMMA ChangesGrow ==
    ASSUME NEW old, NEW base, NEW added, NEW new, NEW t, NEW v,
           Grows(old, base, added, new, t, v)
    PROVE  /\ new \in Seq(Nat \X Value) \ {<<>>}
           /\ Last(new) = IF added = <<>> THEN Last(old) ELSE <<t, v>>
           /\ added # <<>> => Len(new) > 1 /\ new[Len(new) - 1] = Last(old)
           /\ Last(new)[1] <= t
           /\ \A j, k \in DOMAIN new : j < k => new[j][1] < new[k][1]
           /\ 1 \in DOMAIN base
           /\ DOMAIN base \subseteq DOMAIN new
           /\ \A k \in DOMAIN new :
                IF k \in DOMAIN base THEN new[k] = base[k] ELSE new[k] = <<t, v>>
  <1> /\ old \in Seq(Nat \X Value) /\ old # <<>>
      /\ \A j, k \in DOMAIN old : j < k => old[j][1] < old[k][1]
      /\ t \in Nat /\ v \in Value /\ Last(old)[1] < t
      /\ base = old \/ base = <<Last(old)>>
      /\ added = <<>> \/ added = << <<t, v>> >>
      /\ new = base \o added
    BY DEF Grows
  <1> DEFINE L == Last(old)
  <1>1. /\ L = old[Len(old)] /\ Len(old) \in Nat \ {0} /\ DOMAIN old = 1..Len(old)
        /\ L \in Nat \X Value /\ L[1] \in Nat /\ L[1] < t
    BY DEF Last
  <1> HIDE DEF L
  <1>2. /\ base \in Seq(Nat \X Value) /\ Len(base) \in Nat \ {0}
        /\ base[Len(base)] = L /\ DOMAIN base = 1..Len(base)
        /\ \A j, k \in 1..Len(base) : j < k => base[j][1] < base[k][1]
    <2>1. CASE base = old
      BY <1>1, <2>1
    <2>2. CASE base = <<L>>
      <3>1. base \in Seq(Nat \X Value) /\ Len(base) = 1 /\ base[1] = L /\ DOMAIN base = 1..1
        BY <1>1, <2>2
      <3> QED
        BY <3>1
    <2> QED
      BY <2>1, <2>2 DEF L
  <1> DEFINE n == Len(base)
  <1>3. /\ n \in Nat \ {0} /\ base[n] = L
        /\ \A j, k \in 1..n : j < k => base[j][1] < base[k][1]
    BY <1>2
  <1>4. \A k \in 1..n : base[k] \in Nat \X Value
    BY <1>2
  <1> HIDE DEF n
  <1>5. ASSUME NEW k \in 1..n PROVE base[k][1] \in Nat /\ base[k][1] < t
    <2>1. base[k] \in Nat \X Value
      BY <1>4
    <2>2. base[k][1] \in Nat
      BY <2>1
    <2>3. k = n \/ k < n
      BY <1>3
    <2>4. CASE k = n
      BY <1>1, <1>3, <2>2, <2>4
    <2>5. CASE k < n
      <3>1. n \in 1..n
        BY <1>3
      <3>2. base[k][1] < L[1]
        BY <1>3, <2>5, <3>1
      <3> QED
        BY <1>1, <2>2, <3>2
    <2> QED
      BY <2>3, <2>4, <2>5
  <1>6. CASE added = <<>>
    <2>1. new = base
      BY <1>2, <1>6
    <2> QED
      BY <1>1, <1>2, <1>3, <1>5, <1>6, <2>1 DEF Last, L, n
  <1>7. CASE added = << <<t, v>> >>
    <2>1. /\ Len(new) = n + 1
          /\ new \in Seq(Nat \X Value)
          /\ \A k \in 1..n : new[k] = base[k]
          /\ new[n + 1] = <<t, v>>
      <3>1. <<t, v>> \in Nat \X Value
        OBVIOUS
      <3>2. base \in Seq(Nat \X Value)
        BY <1>2
      <3>3. new = Append(base, <<t, v>>)
        BY <1>7, <3>1, <3>2
      <3> QED
        BY <1>3, <3>1, <3>2, <3>3 DEF n
    <2>2. \A j, k \in 1..(n + 1) : j < k => new[j][1] < new[k][1]
      <3> SUFFICES ASSUME NEW j \in 1..(n + 1), NEW k \in 1..(n + 1), j < k
                   PROVE  new[j][1] < new[k][1]
        OBVIOUS
      <3>1. CASE k \in 1..n
        <4>1. j \in 1..n
          BY <1>3, <3>1
        <4> QED
          BY <4>1, <3>1, <2>1, <1>3
      <3>2. CASE k = n + 1
        <4>1. j \in 1..n
          BY <1>3, <3>2
        <4>2. new[j][1] < t
          BY <4>1, <2>1, <1>5
        <4>3. new[k][1] = t
          BY <3>2, <2>1
        <4> QED
          BY <4>2, <4>3
      <3>3. k \in 1..n \/ k = n + 1
        BY <1>3
      <3> QED
        BY <3>1, <3>2, <3>3
    <2>3. added # <<>>
      BY <1>7
    <2>4. Last(new) = <<t, v>>
      BY <2>1 DEF Last
    <2>5. Len(new) - 1 = n
      BY <1>3, <2>1
    <2>6. DOMAIN new = 1..(n + 1)
      BY <1>3, <2>1
    <2>7. \A k \in DOMAIN new :
            IF k \in DOMAIN base THEN new[k] = base[k] ELSE new[k] = <<t, v>>
      BY <1>2, <1>3, <2>1, <2>6 DEF n
    <2>8. new # <<>> /\ Len(new) > 1
      BY <1>3, <2>1
    <2>9. new[Len(new) - 1] = L
      BY <1>3, <2>1, <2>5
    <2>10. new \in Seq(Nat \X Value) \ {<<>>}
      BY <2>1, <2>8
    <2>11. Last(new)[1] <= t
      BY <2>4
    <2>12. 1 \in DOMAIN base /\ DOMAIN base \subseteq DOMAIN new
      BY <1>2, <1>3, <2>6 DEF n
    <2>13. \A j, k \in DOMAIN new : j < k => new[j][1] < new[k][1]
      BY <2>2, <2>6
    <2>14. Last(new) = (IF added = <<>> THEN Last(old) ELSE <<t, v>>)
      BY <2>3, <2>4
    <2>15. added # <<>> => Len(new) > 1 /\ new[Len(new) - 1] = Last(old)
      BY <2>8, <2>9 DEF L
    <2> QED
      BY <2>7, <2>10, <2>11, <2>12, <2>13, <2>14, <2>15
  <1> QED
    BY <1>6, <1>7

(* A measurement that ends was begun with the values before the rising edge *)
(* and is written: neither value of a signal is unrecognized.               *)
LEMMA MeasurementEnds ==
    ASSUME Basic, Waves, Phase, state_ = "CLOCK_FALL", finalize_measure
    PROVE  LET trans(id) == transition(wave[id][1][2], previous[id].val)
               delays == [o \in ToSet(Outputs) |-> output_delay(previous[o].time)]
           IN  /\ failed' = failed /\ state_' = "SETUP"
               /\ written' = written (+) SetToBag({row'.ins})
               /\ row' = [ins |-> [i \in ToSet(Inputs) |-> trans(i)],
                          outs |-> [o \in ToSet(Outputs) |-> trans(o)],
                          delays |-> delays, max |-> LatestOutput(delays)]
  <1>1. initial = [id \in Signals |-> wave[id][1][2]]
    BY DEF Phase
  <1>2. ASSUME NEW id \in Signals PROVE wave[id][1][2] \in Value /\ previous[id].val \in Value
    BY DEF Waves, Basic
  <1>3. ASSUME NEW a \in Value, NEW b \in Value PROVE transition(a, b) # "unrecognized"
    BY DEF transition, Value
  <1>4. ToSet(Inputs) \subseteq Signals /\ ToSet(Outputs) \subseteq Signals
    BY DEF Signals
  <1> DEFINE measured(id) == transition(IF id \in DOMAIN initial THEN initial[id] ELSE "",
                                        previous[id].val)
             ins == [i \in ToSet(Inputs) |-> measured(i)]
             outs == [o \in ToSet(Outputs) |-> measured(o)]
             delays == [o \in ToSet(Outputs) |-> output_delay(previous[o].time)]
  <1>5. \A id \in Signals : /\ measured(id) = transition(wave[id][1][2], previous[id].val)
                            /\ measured(id) # "unrecognized"
    BY <1>1, <1>2, <1>3
  <1>6. "unrecognized" \notin Range(ins) \cup Range(outs)
    BY <1>4, <1>5 DEF Range
  <1>7. /\ failed' = failed /\ state_' = "SETUP" /\ written' = written (+) SetToBag({ins})
        /\ row' = [ins |-> ins, outs |-> outs, delays |-> delays, max |-> LatestOutput(delays)]
    BY <1>6 DEF finalize_measure, write_transition
  <1>8. /\ ins = [i \in ToSet(Inputs) |-> transition(wave[i][1][2], previous[i].val)]
        /\ outs = [o \in ToSet(Outputs) |-> transition(wave[o][1][2], previous[o].val)]
    BY <1>4, <1>5
  <1> HIDE DEF ins, outs
  <1> QED
    BY <1>7, <1>8

(* The extractor's part of a time step: a measurement begins or ends as the *)
(* last edge demands, with the values before the edge.                      *)
LEMMA MeasureStep ==
    ASSUME VInv, pending = {}, simulation = "run", NEW t, set_time(t)
    PROVE  /\ state_' = CASE state_ = "CLOCK_RISE" -> "MEASURE"
                          [] state_ = "CLOCK_FALL" -> "SETUP"
                          [] OTHER -> state_
           /\ failed' = FALSE /\ IsABag(written')
           /\ state_' = "MEASURE" =>
                /\ clock_rise_time_' = lastRise
                /\ initial' = [id \in Signals |-> wave[id][1][2]]
           /\ state_' # "CLOCK_FALL"
  <1>1. Basic /\ Waves /\ Follows /\ Phase
    BY DEF VInv
  <1>2. CASE state_ = "CLOCK_RISE"
    <2>1. initialize_measure
      BY <1>2 DEF set_time
    <2>2. time > 0 /\ Changed(Clock) /\ clock = "1" /\ lastRise = time
      BY <1>1, <1>2 DEF Phase, Basic
    <2>3. ASSUME NEW id \in Signals PROVE previous[id].val = wave[id][1][2]
      <3> DEFINE w == wave[id]
                 n == Len(w)
      <3>1. /\ n \in Nat \ {0} /\ DOMAIN w = 1..n /\ Last(w) = w[n]
            /\ \A k \in 1..n : w[k] \in Nat \X Value
        BY <1>1 DEF Waves, Last
      <3>2. \A k \in 1..n : w[k][1] < time <=> k = 1
        BY <1>1, <2>2, <3>1 DEF Phase
      <3>3. \A j, k \in 1..n : j < k => w[j][1] < w[k][1]
        BY <1>1, <3>1 DEF Waves
      <3>4. /\ w[n][1] \in Nat /\ w[n][1] <= time
            /\ Changed(id) <=> w[n][1] = time
            /\ Changed(id) => n > 1 /\ previous[id] = Seen(w[n - 1])
            /\ ~Changed(id) => previous[id] = Seen(w[n])
        <4>1. w[n][1] \in Nat /\ Last(wave[id]) = w[n]
          BY <3>1
        <4>2. Last(wave[id])[1] <= time
          BY <1>1 DEF Waves
        <4> HIDE DEF n, w
        <4> QED
          BY <1>1, <2>2, <4>1, <4>2 DEF Follows, Changed, n, w
      <3> HIDE DEF n, w
      <3>5. n \in 1..n /\ (n > 1 => n - 1 \in 1..n /\ n - 1 < n)
        BY <3>1
      <3>6. CASE Changed(id)
        <4>1. w[n - 1][1] < time
          BY <3>3, <3>4, <3>5, <3>6
        <4>2. n - 1 = 1
          BY <3>2, <3>4, <3>5, <3>6, <4>1
        <4> QED
          BY <3>4, <3>6, <4>2 DEF Seen, w
      <3>7. CASE ~Changed(id)
        <4>1. w[n][1] < time
          BY <1>1, <3>4, <3>7 DEF Basic
        <4>2. n = 1
          BY <3>2, <3>5, <4>1
        <4> QED
          BY <3>4, <3>7, <4>2 DEF Seen, w
      <3> QED
        BY <3>6, <3>7
    <2>4. initial' = [id \in Signals |-> wave[id][1][2]]
      BY <2>1, <2>3 DEF initialize_measure
    <2>5. clock_rise_time_' = lastRise
      BY <1>1, <2>1, <2>2 DEF initialize_measure, Follows
    <2> QED
      BY <1>1, <1>2, <2>1, <2>4, <2>5 DEF initialize_measure, Basic
  <1>3. CASE state_ = "CLOCK_FALL"
    <2>1. finalize_measure
      BY <1>3 DEF set_time
    <2>5. /\ failed' = failed /\ state_' = "SETUP"
          /\ \E ins : written' = written (+) SetToBag({ins})
      BY <1>1, <1>3, <2>1, MeasurementEnds
    <2>6. IsABag(written')
      BY <1>1, <2>5 DEF Basic, IsABag, (+), SetToBag, BagToSet
    <2> QED
      BY <1>1, <1>3, <2>5, <2>6 DEF Basic
  <1>4. CASE state_ \notin {"CLOCK_RISE", "CLOCK_FALL"}
    <2>1. KeepMeasure
      BY <1>4 DEF set_time
    <2> QED
      BY <1>1, <1>4, <2>1 DEF KeepMeasure, Basic, Phase
  <1> QED
    BY <1>2, <1>3, <1>4

(* A new time step makes the last values the previous ones, ends or begins  *)
(* a measurement and may flip the clock.                                    *)
LEMMA AdvanceStep ==
    ASSUME VInv, Advance
    PROVE  VInv'
  <1>1. Basic /\ Waves /\ Follows /\ Phase /\ simulation = "run" /\ simulation' = "run"
    BY DEF VInv, Advance
  <1> DEFINE V == Values(inputs, outputs, clock)
             U == Values(inputs', outputs', clock')
             Flips == {i \in Signals : V[i] # U[i]}
             base(id) == IF clock = "0" THEN <<Last(wave[id])>> ELSE wave[id]
             added(t, id) == IF id \in Flips THEN << <<t, U[id]>> >> ELSE <<>>
  <1>2. PICK t \in Nat :
          /\ t > time /\ time' = t /\ set_time(t)
          /\ IF t % HalfPeriod # 0 THEN KeepInputs ELSE IF clock = "1" THEN Negedge ELSE Posedge
          /\ outputs' \in [ToSet(Outputs) -> Value]
          /\ pending' = Changes(V, U)
          /\ lastRise' = IF clock = "0" /\ clock' = "1" THEN t ELSE lastRise
          /\ lastFall' = IF clock = "1" /\ clock' = "0" THEN t ELSE lastFall
          /\ wave' = [id \in Signals |->
                (IF clock = "0" THEN <<Last(wave[id])>> ELSE wave[id]) \o
                (IF \E change \in pending' : change[1] = id
                 THEN <<<<t, U[id]>>>> ELSE <<>>)]
    <2>1. \A t \in (time + 1)..((time \div HalfPeriod + 1) * HalfPeriod) : t \in Nat /\ t > time
      BY <1>1, HalfPeriodAssumption DEF Basic
    <2> QED
      BY <2>1 DEF Advance
  <1>3. clock' \in {"0", "1"} /\ inputs' \in [ToSet(Inputs) -> Value]
    BY <1>1, <1>2, BitValues DEF KeepInputs, Negedge, Posedge, Basic, next_state, prev_state
  <1>4. /\ V \in [Signals -> Value] /\ V[Clock] = clock
        /\ U \in [Signals -> Value] /\ U[Clock] = clock'
    BY <1>1, <1>2, <1>3, ValuesType DEF Basic, Value
  <1> HIDE DEF V, U
  <1>5. pending' = {<<id, U[id]>> : id \in Flips}
    BY <1>2, <1>4 DEF Changes
  <1>6. Clock \in Signals /\ (Clock \in Flips <=> clock # clock')
    BY <1>4 DEF Signals
  <1> HIDE DEF Flips
  <1>7. \A id \in Signals : wave'[id] = base(id) \o added(t, id)
    <2>1. \A id : (\E change \in pending' : change[1] = id) <=> id \in Flips
      <3>1. ASSUME NEW id \in Flips PROVE \E change \in pending' : change[1] = id
        <4>1. <<id, U[id]>> \in pending' /\ <<id, U[id]>>[1] = id
          BY <1>5
        <4> QED
          BY <4>1
      <3>2. ASSUME NEW change \in pending' PROVE change[1] \in Flips
        <4>1. PICK i \in Flips : change = <<i, U[i]>>
          BY <1>5
        <4> QED
          BY <4>1
      <3> QED
        BY <3>1, <3>2
    <2> QED
      BY <1>2, <2>1
  <1>8. ASSUME NEW id \in Signals
        PROVE  /\ wave'[id] \in Seq(Nat \X Value) \ {<<>>}
               /\ Last(wave'[id]) = IF id \in Flips THEN <<t, U[id]>> ELSE Last(wave[id])
               /\ id \in Flips =>
                    Len(wave'[id]) > 1 /\ wave'[id][Len(wave'[id]) - 1] = Last(wave[id])
               /\ Last(wave'[id])[1] <= t
               /\ \A j, k \in DOMAIN wave'[id] : j < k => wave'[id][j][1] < wave'[id][k][1]
               /\ 1 \in DOMAIN base(id) /\ DOMAIN base(id) \subseteq DOMAIN wave'[id]
               /\ \A k \in DOMAIN wave'[id] :
                    IF k \in DOMAIN base(id) THEN wave'[id][k] = base(id)[k]
                    ELSE wave'[id][k][1] = t
               /\ Last(wave[id])[1] < t
    <2>1. Last(wave[id])[1] \in Nat /\ Last(wave[id])[1] <= time
      BY <1>1 DEF Waves, Last
    <2>2. Last(wave[id])[1] < t
      BY <1>1, <1>2, <2>1 DEF Basic
    <2>3. /\ wave[id] \in Seq(Nat \X Value) /\ wave[id] # <<>> /\ U[id] \in Value
          /\ \A j, k \in DOMAIN wave[id] : j < k => wave[id][j][1] < wave[id][k][1]
      BY <1>1, <1>4 DEF Waves
    <2> DEFINE b == base(id)
               a == added(t, id)
               old == wave[id]
               new == wave'[id]
               v == U[id]
    <2>4. /\ b = old \/ b = <<Last(old)>>
          /\ a = <<>> \/ a = << <<t, v>> >>
          /\ a # <<>> <=> id \in Flips
          /\ new = b \o a
      BY <1>7
    <2>5. /\ old \in Seq(Nat \X Value) /\ old # <<>> /\ v \in Value
          /\ \A j, k \in DOMAIN old : j < k => old[j][1] < old[k][1]
          /\ Last(old)[1] < t
      BY <2>2, <2>3
    <2> HIDE DEF a, b, old, new, v
    <2>10. Grows(old, b, a, new, t, v)
      BY <2>4, <2>5 DEF Grows
    <2>6. /\ new \in Seq(Nat \X Value) \ {<<>>}
          /\ Last(new) = IF a = <<>> THEN Last(old) ELSE <<t, v>>
          /\ a # <<>> => Len(new) > 1 /\ new[Len(new) - 1] = Last(old)
          /\ Last(new)[1] <= t
          /\ \A j, k \in DOMAIN new : j < k => new[j][1] < new[k][1]
          /\ 1 \in DOMAIN b
          /\ DOMAIN b \subseteq DOMAIN new
          /\ \A k \in DOMAIN new : IF k \in DOMAIN b THEN new[k] = b[k] ELSE new[k] = <<t, v>>
      BY <2>10, ChangesGrow, SMT
    <2>7. \A k \in DOMAIN new : IF k \in DOMAIN b THEN new[k] = b[k] ELSE new[k][1] = t
      BY <2>6
    <2>8. Last(new) = IF id \in Flips THEN <<t, v>> ELSE Last(old)
      BY <2>4, <2>6
    <2>9. id \in Flips => Len(new) > 1 /\ new[Len(new) - 1] = Last(old)
      BY <2>4, <2>6
    <2> QED
      BY <2>5, <2>6, <2>7, <2>8, <2>9 DEF b, old, new, v
  <1>17. \A id \in Signals : /\ Last(wave[id]) \in Nat \X Value
                            /\ Last(wave[id])[1] \in Nat /\ Last(wave[id])[1] < t
    <2> SUFFICES ASSUME NEW id \in Signals
                 PROVE  /\ Last(wave[id]) \in Nat \X Value
                        /\ Last(wave[id])[1] \in Nat /\ Last(wave[id])[1] < t
      OBVIOUS
    <2>1. Last(wave[id]) \in Nat \X Value
      BY <1>1 DEF Waves, Last
    <2>2. Last(wave[id])[1] < t
      BY <1>8
    <2> QED
      BY <2>1, <2>2
  <1>18. ASSUME NEW id \in Signals
         PROVE  /\ id \in Flips => Last(wave'[id])[1] = t /\ Last(wave'[id])[2] = U[id]
                /\ id \notin Flips => Last(wave'[id]) = Last(wave[id])
    <2>1. Last(wave'[id]) = IF id \in Flips THEN <<t, U[id]>> ELSE Last(wave[id])
      BY <1>8
    <2> QED
      BY <2>1
  <1>19. Last(wave[Clock])[2] = clock
    BY <1>1 DEF Waves
  <1>9. Waves'
    <2>1. wave' \in [Signals -> Seq(Nat \X Value) \ {<<>>}]
      BY <1>2, <1>8
    <2>2. \A id \in Signals : Last(wave'[id])[1] <= t
      BY <1>8
    <2>3. \A id \in Signals : \A j, k \in DOMAIN wave'[id] :
            j < k => wave'[id][j][1] < wave'[id][k][1]
      BY <1>8
    <2>4. Last(wave'[Clock])[2] = clock'
      <3>1. CASE Clock \in Flips
        BY <1>4, <1>6, <1>18, <3>1
      <3>2. CASE Clock \notin Flips
        <4>1. Last(wave'[Clock]) = Last(wave[Clock]) /\ clock' = clock
          BY <1>6, <1>18, <3>2
        <4> QED
          BY <1>19, <4>1
      <3> QED
        BY <3>1, <3>2
    <2> QED
      BY <1>2, <2>1, <2>2, <2>3, <2>4 DEF Waves
  <1>10. \A id \in Signals : Changed(id)' <=> id \in Flips
    <2> SUFFICES ASSUME NEW id \in Signals PROVE Changed(id)' <=> id \in Flips
      OBVIOUS
    <2>1. Last(wave[id])[1] # t
      BY <1>17
    <2> QED
      BY <1>2, <1>18, <2>1 DEF Changed
  <1>11. /\ pending = {} /\ current' = Nothing /\ current_time_' = t
         /\ previous' = Updated(previous, current)
    BY <1>2 DEF Advance, set_time
  <1>12. \A id \in Signals : previous'[id] = Seen(Last(wave[id]))
    BY <1>1, <1>2, <1>11, PreviousIsLast
  <1>13. Follows'
    <2>1. DOMAIN current' = {}
      BY <1>11 DEF Nothing
    <2>2. Flips = {i \in Signals : Changed(i)' /\ i \notin DOMAIN current'}
      BY <1>10, <2>1 DEF Flips
    <2>3. \A id \in Flips : Last(wave'[id])[2] = U[id]
      BY <1>18 DEF Flips
    <2>4. pending' = {<<id, Last(wave'[id])[2]>> : id \in Flips}
      BY <1>5, <2>3
    <2>5. \A id \in Signals : ~Changed(id)' => previous'[id] = Seen(Last(wave'[id]))
      BY <1>8, <1>10, <1>12
    <2>6. \A id \in Signals : Changed(id)' =>
            Len(wave'[id]) > 1 /\ previous'[id] = Seen(wave'[id][Len(wave'[id]) - 1])
      BY <1>8, <1>10, <1>12
    <2>7. time' = t /\ t # 0
      BY <1>1, <1>2 DEF Basic
    <2>8. pending' = {<<id, Last(wave'[id])[2]>> :
                       id \in {i \in Signals : Changed(i)' /\ i \notin DOMAIN current'}}
      BY <2>2, <2>4
    <2> HIDE <2>2, <2>4
    <2> QED
      BY <1>11, <2>1, <2>5, <2>6, <2>7, <2>8 DEF Follows
  <1>14. /\ state_' = CASE state_ = "CLOCK_RISE" -> "MEASURE"
                        [] state_ = "CLOCK_FALL" -> "SETUP"
                        [] OTHER -> state_
         /\ failed' = FALSE /\ IsABag(written')
         /\ state_' = "MEASURE" =>
                /\ clock_rise_time_' = lastRise
                /\ initial' = [id \in Signals |-> wave[id][1][2]]
         /\ state_' # "CLOCK_FALL"
    BY <1>1, <1>2, <1>11, MeasureStep
  <1>15. Basic'
    <2>1. \A id \in Signals : /\ previous'[id] \in [val : Value, time : Nat]
                              /\ previous'[id].time <= t
      <3> SUFFICES ASSUME NEW id \in Signals
                   PROVE  /\ previous'[id] \in [val : Value, time : Nat]
                          /\ previous'[id].time <= t
        OBVIOUS
      <3>1. previous'[id] = Seen(Last(wave[id]))
        BY <1>12
      <3>2. PICK n \in Nat, v \in Value : Last(wave[id]) = <<n, v>>
        BY <1>17
      <3> QED
        BY <1>17, <3>1, <3>2 DEF Seen
    <2>2. previous' \in [Signals -> [val : Value, time : Nat]]
      <3>1. DOMAIN previous' = Signals
        BY <1>1, <1>11 DEF Updated, Basic
      <3>2. previous' = [id \in DOMAIN previous' |-> previous'[id]]
        BY <1>11 DEF Updated
      <3> QED
        BY <2>1, <3>1, <3>2
    <2>3. /\ lastRise' \in Nat /\ lastFall' \in Nat /\ lastRise' <= t /\ lastFall' <= t
      BY <1>1, <1>2 DEF Basic
    <2>4. state_' \in {"INITIAL", "CLOCK_RISE", "CLOCK_FALL", "MEASURE", "SETUP"}
      BY <1>1, <1>14 DEF Basic
    <2> QED
      BY <1>1, <1>2, <1>3, <1>11, <1>14, <2>1, <2>2, <2>3, <2>4 DEF Basic, Nothing
  <1>16. Phase'
    <2>1. t > 0 /\ lastRise \in Nat /\ lastRise <= time
      BY <1>1, <1>2 DEF Basic
    <2>2. Changed(Clock)' <=> clock # clock'
      BY <1>6, <1>10
    <2>3. previous'[Clock].val = clock
      <3>1. previous'[Clock] = Seen(Last(wave[Clock]))
        BY <1>6, <1>12
      <3> QED
        BY <1>19, <3>1 DEF Seen
    <2>4. /\ Changed(Clock) <=> Clock \in DOMAIN current
          /\ clock \in {"0", "1"}
      BY <1>1, <1>2, <1>6, <1>11, PreviousIsLast DEF Basic
    <2>5. ASSUME lastRise' > 0, clock' = "1" \/ Changed(Clock)', NEW id \in Signals,
                 NEW k \in DOMAIN wave'[id]
          PROVE  wave'[id][k][1] < lastRise' <=> k = 1
      <3>1. IF k \in DOMAIN base(id) THEN wave'[id][k] = base(id)[k] ELSE wave'[id][k][1] = t
        BY <1>8, <2>5
      <3>2. 1 \in DOMAIN base(id)
        BY <1>8
      <3>3. CASE clock = "0"
        <4>1. clock' = "1" /\ lastRise' = t
          BY <1>2, <1>3, <2>2, <2>5, <3>3
        <4>2. base(id) = <<Last(wave[id])>>
          BY <3>3
        <4>3. k = 1 => wave'[id][k][1] < t
          BY <1>17, <3>1, <3>2, <4>2
        <4>4. k # 1 => wave'[id][k][1] = t
          <5>1. DOMAIN base(id) = {1}
            BY <4>2
          <5> QED
            BY <3>1, <5>1
        <4> QED
          BY <4>1, <4>3, <4>4
      <3>4. CASE clock = "1"
        <4>1. lastRise' = lastRise /\ lastRise > 0 /\ base(id) = wave[id]
          BY <1>2, <2>5, <3>4
        <4>2. \A j \in DOMAIN wave[id] : wave[id][j][1] < lastRise <=> j = 1
          BY <1>1, <3>4, <4>1 DEF Phase
        <4>3. CASE k \in DOMAIN base(id)
          BY <3>1, <4>1, <4>2, <4>3
        <4>4. CASE k \notin DOMAIN base(id)
          <5>1. wave'[id][k][1] = t /\ k # 1
            BY <3>1, <3>2, <4>4
          <5>2. ~(t < lastRise)
            BY <1>1, <1>2, <2>1 DEF Basic
          <5> QED
            BY <4>1, <5>1, <5>2
        <4> QED
          BY <4>3, <4>4
      <3> QED
        BY <2>4, <3>3, <3>4
    <2>6. state_' \in IF clock = "1" THEN {"INITIAL", "MEASURE"} ELSE {"INITIAL", "SETUP"}
      BY <1>1, <1>14, <2>4 DEF Phase, Basic
    <2>7. state_' = "MEASURE" => lastRise > 0 /\ lastRise' = lastRise /\ clock = "1"
      BY <1>1, <1>2, <1>14, <2>4, <2>6 DEF Phase, Basic
    <2>8. state_' = "MEASURE" =>
                /\ clock_rise_time_' = lastRise'
                /\ initial' = [id \in Signals |-> wave'[id][1][2]]
      <3> SUFFICES ASSUME state_' = "MEASURE"
                   PROVE  /\ clock_rise_time_' = lastRise'
                          /\ initial' = [id \in Signals |-> wave'[id][1][2]]
        OBVIOUS
      <3>1. \A id \in Signals : base(id) = wave[id]
        BY <2>7
      <3>2. ASSUME NEW id \in Signals PROVE wave'[id][1] = wave[id][1]
        <4>1. 1 \in DOMAIN wave[id] /\ 1 \in DOMAIN wave'[id]
          BY <1>8, <3>1
        <4> QED
          BY <1>8, <3>1, <4>1
      <3> QED
        BY <1>14, <2>7, <3>2
    <2>9. DOMAIN current' = {} /\ time' = t
      BY <1>2, <1>11 DEF Nothing
    <2>10. Changed(Clock)' => IF clock' = "1" THEN lastRise' = t ELSE lastFall' = t
      BY <1>2, <1>3, <2>2, <2>4
    <2>11. Changed(Clock)' => previous'[Clock].val = IF clock' = "1" THEN "0" ELSE "1"
      BY <1>3, <2>2, <2>3, <2>4
    <2>12. state_' \in IF Changed(Clock)'
                       THEN IF clock' = "1" THEN {"INITIAL", "SETUP"} ELSE {"INITIAL", "MEASURE"}
                       ELSE IF clock' = "1" THEN {"INITIAL", "MEASURE"} ELSE {"INITIAL", "SETUP"}
      BY <1>3, <2>2, <2>4, <2>6
    <2>13. lastRise' > 0 /\ (clock' = "1" \/ Changed(Clock)') =>
             \A id \in Signals : \A k \in DOMAIN wave'[id] : wave'[id][k][1] < lastRise' <=> k = 1
      BY <2>5
    <2>14. state_' \in {"CLOCK_RISE", "MEASURE", "CLOCK_FALL"} => state_' = "MEASURE"
      BY <2>6
    <2> HIDE <2>5
    <2> QED
      BY <2>1, <2>7, <2>8, <2>9, <2>10, <2>11, <2>12, <2>13, <2>14 DEF Phase
  <1> QED
    BY <1>1, <1>9, <1>13, <1>15, <1>16 DEF VInv
-------------------------------------------------------------------------------
(* The MAX columns are those of an output whose delay is the largest.       *)
LEMMA LatestIsLargest ==
    ASSUME Outputs # <<>>, NEW rise \in Nat, NEW d \in [ToSet(Outputs) -> Nat], NEW delays,
           delays = [o \in ToSet(Outputs) |-> [delay |-> d[o], sim_time |-> rise + d[o]]]
    PROVE  \E o \in ToSet(Outputs) : /\ LatestOutput(delays) = delays[o]
                                     /\ \A p \in ToSet(Outputs) : d[p] <= d[o]
  <1> DEFINE n == Len(Outputs)
             S == [delay : Nat, sim_time : Nat]
             base == [delay |-> 0, sim_time |-> 0]
             Later(max, k) == IF delays[Outputs[k]].delay >= max.delay THEN delays[Outputs[k]] ELSE max
             step == [p \in S \X (1..n) |-> Later(p[1], p[2])]
             fold(iter) == [s \in SUBSET DOMAIN Outputs |->
                             IF s = {} THEN base ELSE Later(iter[s \ {Max(s)}], Max(s))]
             latest == CHOOSE iter : iter = fold(iter)
  <1>1. /\ n \in Nat \ {0} /\ DOMAIN Outputs = 1..n
        /\ \A k \in 1..n : Outputs[k] \in ToSet(Outputs)
        /\ \A o \in ToSet(Outputs) : \E k \in 1..n : o = Outputs[k]
    BY SignalsAssumption DEF ToSet
  <1>2. \A k \in 1..n : /\ delays[Outputs[k]] \in S
                        /\ delays[Outputs[k]].delay = d[Outputs[k]]
    BY <1>1
  <1>3. LatestOutput(delays) = latest[DOMAIN Outputs]
    BY DEF LatestOutput, FoldLeft, MapThenFoldSet
  <1> HIDE DEF n
  <1>4. base \in S /\ step \in [S \X (1..n) -> S]
    BY <1>2
  <1>5. \A v \in S, k \in 1..n : Later(v, k) \in S /\ step[<<v, k>>] = Later(v, k)
    BY <1>2
  <1> HIDE DEF S, step, base, Later
  <1>6. latest = fold(latest)
    <2>0. PICK iter : FoldsOver(iter, S, n, base, step)
      <3>1. StepsWithin(S, n, base, step)
        BY <1>1, <1>4 DEF StepsWithin
      <3> QED
        BY <3>1, FoldExists
    <2>1. /\ iter \in [SUBSET (1..n) -> S]
          /\ \A s \in SUBSET (1..n) :
               iter[s] = IF s = {} THEN base ELSE step[<<iter[s \ {Max(s)}], Max(s)>>]
      BY <2>0 DEF FoldsOver
    <2>2. ASSUME NEW s \in SUBSET (1..n), s # {}
          PROVE  step[<<iter[s \ {Max(s)}], Max(s)>>] = Later(iter[s \ {Max(s)}], Max(s))
      <3>1. Max(s) \in 1..n
        <4>1. n \in Nat
          BY <1>1
        <4> QED
          BY <2>2, <4>1, MaxOfInterval
      <3>2. iter[s \ {Max(s)}] \in S
        BY <2>1
      <3> QED
        BY <1>5, <3>1, <3>2
    <2>3. iter = fold(iter)
      BY <1>1, <2>1, <2>2
    <2> HIDE DEF fold
    <2> QED
      BY <2>3
  <1> HIDE DEF latest
  <1>7. latest[1..0] = base
    <2>1. 1..0 = {} /\ 1..0 \in SUBSET (1..n)
      OBVIOUS
    <2> QED
      BY <1>1, <1>6, <2>1
  <1>8. ASSUME NEW k \in Nat, k + 1 <= n PROVE latest[1..(k + 1)] = Later(latest[1..k], k + 1)
    <2>1. 1..(k + 1) \in SUBSET DOMAIN Outputs
      BY <1>1, <1>8
    <2>2. 1..(k + 1) # {} /\ Max(1..(k + 1)) = k + 1 /\ (1..(k + 1)) \ {k + 1} = 1..k
      BY PrefixMax
    <2> QED
      BY <1>6, <2>1, <2>2
  <1> DEFINE Largest(k) == {j \in 1..k : /\ latest[1..k] = delays[Outputs[j]]
                                        /\ \A i \in 1..k : d[Outputs[i]] <= d[Outputs[j]]}
             Q == {k \in Nat : k + 1 <= n => Largest(k + 1) # {}}
  <1>9. 0 \in Q
    <2>1. latest[1..1] = Later(base, 1) /\ 1 \in 1..n
      <3>1. 0 \in Nat /\ 0 + 1 <= n /\ 0 + 1 = 1 /\ 1 \in 1..n
        BY <1>1
      <3>2. latest[1..(0 + 1)] = Later(latest[1..0], 0 + 1)
        BY <1>8, <3>1
      <3> QED
        BY <1>7, <3>1, <3>2
    <2>2. Later(base, 1) = delays[Outputs[1]]
      <3>1. d[Outputs[1]] \in Nat
        BY <1>1, <2>1
      <3> QED
        BY <1>2, <2>1, <3>1 DEF Later, base
    <2>3. \A i \in 1..1 : d[Outputs[i]] <= d[Outputs[1]]
      BY <1>1, <2>1
    <2>4. 1 \in Largest(1) /\ 0 + 1 = 1
      BY <2>1, <2>2, <2>3
    <2> HIDE DEF Largest
    <2> QED
      BY <2>4
  <1>10. ASSUME NEW k \in Nat, k \in Q PROVE k + 1 \in Q
    <2> SUFFICES ASSUME (k + 1) + 1 <= n PROVE Largest((k + 1) + 1) # {}
      <3> HIDE DEF Largest
      <3> QED
        OBVIOUS
    <2>0. (k + 1) + 1 = k + 2
      OBVIOUS
    <2> SUFFICES \E j \in 1..(k + 2) : /\ latest[1..(k + 2)] = delays[Outputs[j]]
                                       /\ \A i \in 1..(k + 2) : d[Outputs[i]] <= d[Outputs[j]]
      BY <2>0
    <2>1. PICK j \in 1..(k + 1) : /\ latest[1..(k + 1)] = delays[Outputs[j]]
                                  /\ \A i \in 1..(k + 1) : d[Outputs[i]] <= d[Outputs[j]]
      <3>1. k + 1 <= n
        BY <1>1, <2>0
      <3>2. Largest(k + 1) # {}
        <4> HIDE DEF Largest
        <4> QED
          BY <1>10, <3>1
      <3> QED
        BY <3>2
    <2>2. latest[1..(k + 2)] = Later(delays[Outputs[j]], k + 2)
      <3>1. k + 1 \in Nat /\ (k + 1) + 1 <= n
        BY <2>0
      <3> QED
        BY <1>8, <2>0, <2>1, <3>1
    <2>3. /\ j \in 1..n /\ k + 2 \in 1..n /\ k + 2 \in 1..(k + 2) /\ j \in 1..(k + 2)
          /\ \A i \in 1..(k + 2) : i \in 1..(k + 1) \/ i = k + 2
          /\ \A i \in 1..(k + 2) : i \in 1..n
      BY <1>1, <2>0
    <2>4. \A i \in 1..n : d[Outputs[i]] \in Nat
      BY <1>1
    <2>5. CASE d[Outputs[k + 2]] >= d[Outputs[j]]
      <3>1. latest[1..(k + 2)] = delays[Outputs[k + 2]]
        BY <1>2, <2>2, <2>3, <2>5 DEF Later
      <3>2. \A i \in 1..(k + 2) : d[Outputs[i]] <= d[Outputs[k + 2]]
        BY <2>1, <2>3, <2>4, <2>5
      <3> QED
        BY <2>3, <3>1, <3>2
    <2>6. CASE ~(d[Outputs[k + 2]] >= d[Outputs[j]])
      <3>1. latest[1..(k + 2)] = delays[Outputs[j]]
        BY <1>2, <2>2, <2>3, <2>6 DEF Later
      <3>2. \A i \in 1..(k + 2) : d[Outputs[i]] <= d[Outputs[j]]
        BY <2>1, <2>3, <2>4, <2>6
      <3> QED
        BY <2>3, <3>1, <3>2
    <2> QED
      BY <2>5, <2>6
  <1> HIDE DEF Q
  <1>11. n - 1 \in Q
    <2>1. n - 1 \in Nat
      BY <1>1
    <2> QED
      BY <1>9, <1>10, <2>1, NaturalInduction
  <1>13. n - 1 + 1 = n /\ n <= n
    BY <1>1
  <1>14. Largest(n) # {}
    <2> HIDE DEF Largest
    <2> QED
      BY <1>11, <1>13 DEF Q
  <1>12. PICK j \in 1..n : /\ latest[1..n] = delays[Outputs[j]]
                           /\ \A i \in 1..n : d[Outputs[i]] <= d[Outputs[j]]
    BY <1>14
  <1> QED
    BY <1>1, <1>3, <1>12

(* What is known of a signal just before the two edges of the high phase    *)
(* that a measurement ends.                                                 *)
LEMMA BeforeEdges ==
    ASSUME Basic, Waves, Follows, Phase, state_ = "CLOCK_FALL", NEW id \in Signals
    PROVE  /\ Before(id, lastRise) = wave[id][1]
           /\ Before(id, lastFall)[2] = previous[id].val
           /\ Before(id, lastFall)[1] = previous[id].time
  <1> DEFINE w == wave[id]
             n == Len(w)
  <1>1. /\ time > 0 /\ lastFall = time /\ time \in Nat
        /\ \A k \in DOMAIN w : w[k][1] < lastRise <=> k = 1
    BY DEF Phase, Basic
  <1>2. /\ n \in Nat \ {0} /\ DOMAIN w = 1..n /\ Last(w) = w[n]
        /\ \A k \in 1..n : w[k] \in Nat \X Value
        /\ \A j, k \in 1..n : j < k => w[j][1] < w[k][1]
    BY DEF Waves, Last
  <1>3. /\ Last(w)[1] <= time
        /\ Changed(id) <=> Last(w)[1] = time
        /\ Changed(id) => n > 1 /\ previous[id] = Seen(w[n - 1])
        /\ ~Changed(id) => previous[id] = Seen(Last(w))
    BY <1>1 DEF Waves, Follows, Changed
  <1> HIDE DEF w, n
  <1>4. \A k \in 1..n : w[k][1] \in Nat
    BY <1>2
  <1>5. Before(id, lastRise) = w[1]
    <2>1. {k \in DOMAIN w : w[k][1] < lastRise} = {1}
      BY <1>1, <1>2
    <2>2. (CHOOSE k \in {1} : \A j \in {1} : j <= k) = 1
      OBVIOUS
    <2> QED
      BY <2>1, <2>2 DEF Before, w
  <1> DEFINE m == IF Changed(id) THEN n - 1 ELSE n
  <1>6. m \in 1..n /\ previous[id] = Seen(w[m])
    BY <1>2, <1>3
  <1>7. \A k \in 1..n : w[k][1] < time <=> k <= m
    <2> SUFFICES ASSUME NEW k \in 1..n PROVE w[k][1] < time <=> k <= m
      OBVIOUS
    <2>1. w[k][1] \in Nat /\ w[n][1] \in Nat /\ w[n][1] <= time /\ n \in 1..n
      BY <1>2, <1>3, <1>4
    <2>2. k < n => w[k][1] < w[n][1]
      BY <1>2, <2>1
    <2>3. k = n \/ k < n
      BY <1>2
    <2>4. CASE Changed(id)
      <3>1. w[n][1] = time /\ m = n - 1
        BY <1>2, <1>3, <2>4
      <3> QED
        BY <1>1, <1>2, <2>1, <2>2, <2>3, <3>1
    <2>5. CASE ~Changed(id)
      <3>1. w[n][1] < time /\ m = n
        BY <1>1, <1>2, <1>3, <2>1, <2>5
      <3> QED
        BY <1>1, <1>2, <2>1, <2>2, <2>3, <3>1
    <2> QED
      BY <2>4, <2>5
  <1> HIDE DEF m
  <1>8. Before(id, lastFall) = w[m]
    <2> DEFINE changes == {k \in DOMAIN w : w[k][1] < lastFall}
    <2>1. \A k : k \in changes <=> k \in 1..n /\ k <= m
      BY <1>1, <1>2, <1>7
    <2> HIDE DEF changes
    <2>2. m \in changes /\ \A j \in changes : j <= m /\ j \in Int
      BY <1>6, <2>1
    <2>3. \A k \in changes : (\A j \in changes : j <= k) => k = m
      <3>1. m \in Int
        BY <1>6
      <3> QED
        BY <2>2, <3>1
    <2>4. (CHOOSE k \in changes : \A j \in changes : j <= k) = m
      BY <2>2, <2>3
    <2> QED
      BY <2>4 DEF Before, changes, w
  <1> QED
    BY <1>5, <1>6, <1>8 DEF Seen, w

(* A measurement that ends writes what the simulation showed.               *)
LEMMA RowIsMeasured ==
    ASSUME Basic, Waves, Follows, Phase, Outputs # <<>>, state_ = "CLOCK_FALL", finalize_measure
    PROVE  row' = MeasuredRow
  <1> DEFINE Out == ToSet(Outputs)
             d == [o \in Out |-> IF previous[o].time < lastRise THEN 0
                                ELSE previous[o].time - lastRise]
             delays == [o \in Out |-> output_delay(previous[o].time)]
             trans(id) == transition(wave[id][1][2], previous[id].val)
             column(t) == [delay |-> t, sim_time |-> lastRise + t]
  <1>1. /\ clock_rise_time_ = lastRise /\ lastRise \in Nat
        /\ \A id \in Signals : previous[id].time \in Nat
        /\ ToSet(Inputs) \subseteq Signals /\ Out \subseteq Signals
    BY DEF Phase, Basic, Signals
  <1>2. d \in [Out -> Nat]
    BY <1>1
  <1>3. delays = [o \in Out |-> column(d[o])]
    BY <1>1 DEF output_delay
  <1>4. PICK last \in Out : /\ LatestOutput(delays) = delays[last]
                           /\ \A o \in Out : d[o] <= d[last]
    <2>1. delays = [o \in Out |-> [delay |-> d[o], sim_time |-> lastRise + d[o]]]
      BY <1>3
    <2> HIDE DEF delays, d
    <2> QED
      BY <1>1, <1>2, <2>1, LatestIsLargest
  <1>5. row' = [ins |-> [i \in ToSet(Inputs) |-> trans(i)], outs |-> [o \in Out |-> trans(o)],
                delays |-> delays, max |-> LatestOutput(delays)]
    BY MeasurementEnds
  <1> DEFINE delay(o) == IF Before(o, lastFall)[1] < lastRise THEN 0
                         ELSE Before(o, lastFall)[1] - lastRise
             shown(id) == transition(Before(id, lastRise)[2], Before(id, lastFall)[2])
             all == {delay(o) : o \in Out}
             max == CHOOSE t \in all : \A e \in all : e <= t
  <1>6. MeasuredRow = [ins |-> [i \in ToSet(Inputs) |-> shown(i)], outs |-> [o \in Out |-> shown(o)],
                       delays |-> [o \in Out |-> column(delay(o))], max |-> column(max)]
    BY DEF MeasuredRow
  <1>7. \A id \in Signals : shown(id) = trans(id)
    BY BeforeEdges
  <1>8. \A o \in Out : delay(o) = d[o]
    BY <1>1, BeforeEdges
  <1> HIDE DEF delays, trans, shown, delay, d
  <1>9. max = d[last]
    <2>1. all = {d[o] : o \in Out}
      BY <1>8
    <2> HIDE DEF all
    <2>2. d[last] \in all /\ \A e \in all : e \in Nat /\ e <= d[last]
      BY <1>2, <1>4, <2>1
    <2>3. \A t \in all : (\A e \in all : e <= t) => t = d[last]
      BY <2>2
    <2> QED
      BY <2>2, <2>3
  <1> HIDE DEF max
  <1>10. /\ [i \in ToSet(Inputs) |-> shown(i)] = [i \in ToSet(Inputs) |-> trans(i)]
         /\ [o \in Out |-> shown(o)] = [o \in Out |-> trans(o)]
    BY <1>1, <1>7
  <1>11. [o \in Out |-> column(delay(o))] = delays /\ column(max) = LatestOutput(delays)
    BY <1>3, <1>4, <1>8, <1>9
  <1> HIDE DEF column
  <1> QED
    BY <1>5, <1>6, <1>10, <1>11
-------------------------------------------------------------------------------
(* Every step keeps the invariant.                                          *)
LEMMA SimulationStep == VInv /\ [Next]_vars => VInv'
  <1> SUFFICES ASSUME VInv, [Next]_vars PROVE VInv'
    OBVIOUS
  <1>1. ASSUME Stop PROVE VInv'
    BY <1>1 DEF Stop, VInv, Basic, Waves, Follows, Phase, Changed, extractorVars, history
  <1>2. CASE UNCHANGED vars
    BY <1>2 DEF vars, extractorVars, benchVars, history, VInv, Basic, Undumped, Waves, Follows,
                Phase, Changed
  <1>3. CASE Next
    BY <1>1, <1>3, DumpStep, WriteStep, AdvanceStep DEF Next
  <1> QED
    BY <1>2, <1>3

(* The invariant holds.                                                     *)
THEOREM SimulationInvariant == Spec => []VInv
  BY SimulationInitially, SimulationStep, PTL DEF Spec

(* The extractor only keeps values and times that the simulation has shown, *)
(* and counts its rows.                                                     *)
THEOREM ExtractorTypes == Spec => []TypeOK
  <1>1. VInv => TypeOK
    <2> SUFFICES ASSUME VInv PROVE TypeOK
      OBVIOUS
    <2>1. Basic
      BY DEF VInv
    <2>2. ASSUME NEW id \in DOMAIN current PROVE current[id] \in [val : Value, time : {time}]
      <3>1. Waves /\ Follows
        BY <2>2 DEF VInv, Undumped, Nothing
      <3>2. id \in Signals /\ current[id] = Seen(Last(wave[id])) /\ Last(wave[id])[1] = time
        BY <2>1, <3>1 DEF Basic, Follows, Changed
      <3>3. Last(wave[id]) \in Nat \X Value
        BY <3>1, <3>2 DEF Waves, Last
      <3>4. Last(wave[id])[2] \in Value
        BY <3>3
      <3> QED
        BY <3>2, <3>4 DEF Seen
    <2>3. \A id \in Signals : previous[id].val \in Value
      BY <2>1 DEF Basic
    <2> QED
      BY <2>1, <2>2, <2>3 DEF Basic, TypeOK
  <1> QED
    BY <1>1, SimulationInvariant, PTL

(* No clock edge meets a state that does not expect it, and no value of a   *)
(* measurement is unrecognized.                                             *)
THEOREM ExtractionNeverFails == Spec => []NeverFails
  <1>1. VInv => NeverFails
    BY DEF VInv, Basic, NeverFails
  <1> QED
    BY <1>1, SimulationInvariant, PTL

(* Every row written is the measurement of the high phase that has just     *)
(* ended, for any number of inputs and outputs, any clock period, any       *)
(* behaviour of the outputs and any order of the changes of a time step.    *)
THEOREM RowsAreMeasurements == Outputs # <<>> /\ Spec => RowsMatchSimulation
  <1>1. ASSUME Outputs # <<>>, VInv, [Next]_vars, written' # written PROVE row' = MeasuredRow
    <2>1. \/ DumpVars \/ Advance
      BY <1>1 DEF Next, Write, Stop, add_transition, vars, extractorVars
    <2>2. CASE DumpVars
      BY <1>1, <2>2 DEF DumpVars, VInv, Undumped, set_time, KeepMeasure
    <2>3. CASE Advance
      <3>1. Basic /\ Waves /\ Follows /\ Phase
        BY <1>1, <2>3 DEF Advance, VInv
      <3>2. \E t : set_time(t)
        BY <2>3 DEF Advance
      <3>3. state_ = "CLOCK_FALL" /\ finalize_measure
        BY <1>1, <3>1, <3>2 DEF set_time, initialize_measure, KeepMeasure, Basic
      <3> QED
        BY <1>1, <3>1, <3>3, RowIsMeasured
    <2> QED
      BY <2>1, <2>2, <2>3
  <1>2. CASE Outputs # <<>>
    <2>1. VInv /\ [Next]_vars => [written' # written => row' = MeasuredRow]_vars
      BY <1>1, <1>2
    <2> QED
      BY <2>1, SimulationInvariant, PTL DEF Spec, RowsMatchSimulation
  <1> QED
    BY <1>2
-------------------------------------------------------------------------------
(* Falling edges so far: state, with rolled_over as the bit above it.       *)
Falls == state + (IF rolled_over THEN States ELSE 0)

(* The inputs before and after the rising edge that follows the n-th        *)
(* falling edge, and what is measured of them.                              *)
Applied(n) == prev_state((IF early THEN n ELSE n - 1) % States)
Switched(n) == next_state(n % States)
Pair(n) == [i \in ToSet(Inputs) |-> transition(Applied(n)[i], Switched(n)[i])]

(* The rising edges whose measurement is written.                           *)
Measured == 1..(IF clock = "0" /\ state_ \in {"MEASURE", "CLOCK_FALL"} THEN Falls - 2 ELSE Falls - 1)

(* The testbench's own state: at most one vector is taken a second time.    *)
Counting ==
    /\ early \in BOOLEAN /\ rolled_over \in BOOLEAN /\ finished \in BOOLEAN
    /\ state \in 0..(States - 1)
    /\ finished => rolled_over /\ state = 1 /\ clock = "1"
    /\ simulation = "stopped" => finished
    /\ W > 0 /\ rolled_over => state <= 1
    /\ Finishes /\ clock = "1" => finished

(* Before anything is written.                                              *)
Unmeasured == state = 0 /\ rolled_over = FALSE /\ written = EmptyBag

(* The vectors that are applied and those that the extractor holds are      *)
(* those of the count.                                                      *)
PairsFollow ==
    /\ \A i \in ToSet(Inputs) : Last(wave[i])[2] = inputs[i]
    /\ time = 0 => Falls = 0
    /\ lastRise > 0 => Falls >= IF clock = "1" THEN 1 ELSE 2
    /\ clock = "0" => Falls >= 1 /\ inputs = Applied(Falls)
    /\ clock = "1" /\ Falls >= 1 =>
         /\ inputs = Switched(Falls)
         /\ \A i \in ToSet(Inputs) : wave[i][1][2] = Applied(Falls)[i]
    /\ clock = "0" /\ Changed(Clock) /\ Falls >= 2 => \A i \in ToSet(Inputs) :
         wave[i][1][2] = Applied(Falls - 1)[i] /\ previous[i].val = Switched(Falls - 1)[i]
    /\ state_ = "INITIAL" =>
         IF clock = "1" THEN Falls = 0 \/ (Falls = 1 /\ Changed(Clock) /\ Clock \notin DOMAIN current)
         ELSE Falls = 1
    /\ written = SetToBag({Pair(n) : n \in Measured})

(* The inductive invariant behind EveryPairOnce.                            *)
PairsInv == Counting /\ IF simulation = "dump" THEN Unmeasured ELSE W > 0 => PairsFollow
-------------------------------------------------------------------------------
(* The equation that defines Power2, and its range.                         *)
LEMMA PowerEquation ==
    /\ Power2 \in [0..W -> Nat \ {0}] /\ Power2[0] = 1
    /\ \A k \in 0..W : k > 0 => Power2[k] = 2 * Power2[k - 1]
  <1> DEFINE Powers(m) == {g \in [0..m -> Nat \ {0}] :
                             g[0] = 1 /\ \A k \in 1..m : g[k] = 2 * g[k - 1]}
             Q == {m \in Nat : Powers(m) # {}}
             equation(f) == [k \in 0..W |-> IF k = 0 THEN 1 ELSE 2 * f[k - 1]]
  <1>1. W \in Nat
    BY SignalsAssumption DEF W
  <1>2. 0 \in Q
    <2>1. [k \in 0..0 |-> 1] \in Powers(0)
      OBVIOUS
    <2> QED
      BY <2>1
  <1>3. ASSUME NEW m \in Nat, m \in Q PROVE m + 1 \in Q
    <2>1. PICK g : g \in Powers(m)
      BY <1>3
    <2> DEFINE h == [k \in 0..(m + 1) |-> IF k = m + 1 THEN 2 * g[m] ELSE g[k]]
    <2>2. \A k \in 0..(m + 1) : k # m + 1 => k \in 0..m
      OBVIOUS
    <2>3. g \in [0..m -> Nat \ {0}] /\ g[0] = 1 /\ \A k \in 1..m : g[k] = 2 * g[k - 1]
      BY <2>1
    <2>4. h \in [0..(m + 1) -> Nat \ {0}]
      <3>1. g[m] \in Nat \ {0} /\ 2 * g[m] \in Nat \ {0}
        BY <2>3
      <3> QED
        BY <2>2, <2>3, <3>1
    <2>5. h[0] = 1
      BY <2>3
    <2>6. \A k \in 1..(m + 1) : h[k] = 2 * h[k - 1]
      BY <2>3
    <2>7. h \in Powers(m + 1)
      BY <2>4, <2>5, <2>6
    <2> HIDE DEF Powers
    <2> QED
      BY <2>7
  <1>4. PICK g : g \in Powers(W)
    <2>1. W \in Q
      <3> HIDE DEF Q
      <3> QED
        BY <1>1, <1>2, <1>3, NaturalInduction
    <2> QED
      BY <2>1
  <1>5. /\ g = [k \in 0..W |-> g[k]]
        /\ \A k \in 0..W : g[k] = IF k = 0 THEN 1 ELSE 2 * g[k - 1]
    BY <1>1, <1>4
  <1>6. g = equation(g)
    BY <1>5
  <1>7. Power2 = CHOOSE f : f = equation(f)
    BY DEF Power2
  <1> HIDE DEF equation
  <1>8. Power2 = equation(Power2)
    BY <1>6, <1>7
  <1>9. /\ Power2[0] = 1
        /\ \A k \in 0..W : k > 0 => Power2[k] = 2 * Power2[k - 1]
        /\ DOMAIN Power2 = 0..W /\ Power2 = [k \in 0..W |-> Power2[k]]
    BY <1>1, <1>8 DEF equation
  <1> DEFINE R == {k \in Nat : k <= W => Power2[k] \in Nat \ {0}}
  <1>10. 0 \in R
    BY <1>9
  <1>11. ASSUME NEW k \in Nat, k \in R PROVE k + 1 \in R
    <2> SUFFICES ASSUME k + 1 <= W PROVE Power2[k + 1] \in Nat \ {0}
      OBVIOUS
    <2>1. k <= W /\ k + 1 \in 0..W /\ k + 1 > 0 /\ (k + 1) - 1 = k
      BY <1>1
    <2>2. Power2[k + 1] = 2 * Power2[k] /\ Power2[k] \in Nat \ {0}
      BY <1>9, <1>11, <2>1
    <2> QED
      BY <2>2
  <1>12. \A k \in 0..W : Power2[k] \in Nat \ {0}
    <2>1. \A k \in Nat : k \in R
      <3> HIDE DEF R
      <3> QED
        BY <1>10, <1>11, NaturalInduction
    <2> QED
      BY <1>1, <2>1
  <1> QED
    BY <1>9, <1>12

(* A number and its quotient by two.                                        *)
LEMMA Halves ==
    ASSUME NEW v \in Nat, NEW p \in Nat \ {0}
    PROVE  /\ v \div 2 \in Nat /\ v % 2 \in {0, 1} /\ v = 2 * (v \div 2) + (v % 2)
           /\ (v \div 2) \div p = v \div (2 * p)
           /\ v < 2 * p => v \div 2 < p
  OBVIOUS

(* Dividing by any number but zero.                                         *)
LEMMA Division ==
    ASSUME NEW v \in Nat, NEW p \in Nat \ {0}
    PROVE  v \div p \in Nat /\ v % p \in 0..(p - 1) /\ v = p * (v \div p) + (v % p)
  OBVIOUS

(* The quotient and the remainder of a sum of a multiple and a remainder.   *)
LEMMA Quotient ==
    ASSUME NEW p \in Nat \ {0}, NEW q \in Nat, NEW r \in 0..(p - 1)
    PROVE  (p * q + r) \div p = q /\ (p * q + r) % p = r
  OBVIOUS

(* Bits of a number and of its half.                                        *)
LEMMA BitFacts ==
    ASSUME NEW v \in Nat
    PROVE  /\ Bit(v, 0) = v % 2
           /\ \A k \in 1..W : Bit(v, k) = Bit(v \div 2, k - 1)
  <1>1. W \in Nat
    BY SignalsAssumption DEF W
  <1>2. v \div 1 = v
    OBVIOUS
  <1>3. ASSUME NEW k \in 1..W PROVE v \div Power2[k] = (v \div 2) \div Power2[k - 1]
    <2>1. k \in 0..W /\ k - 1 \in 0..W /\ k > 0
      BY <1>1
    <2>2. Power2[k] = 2 * Power2[k - 1] /\ Power2[k - 1] \in Nat \ {0}
      BY <2>1, PowerEquation
    <2> QED
      BY <2>2, Halves
  <1> QED
    BY <1>2, <1>3, PowerEquation DEF Bit

(* A vector of n bits is determined by them, and any bits make a vector.    *)
LEMMA VectorsAreBits ==
    ASSUME NEW n \in 0..W
    PROVE  /\ \A v, w \in 0..(Power2[n] - 1) : (\A k \in 0..(n - 1) : Bit(v, k) = Bit(w, k)) => v = w
           /\ \A b \in [0..(n - 1) -> {0, 1}] : \E v \in 0..(Power2[n] - 1) :
                \A k \in 0..(n - 1) : Bit(v, k) = b[k]
  <1> DEFINE Unique(m) == \A v, w \in 0..(Power2[m] - 1) :
                            (\A k \in 0..(m - 1) : Bit(v, k) = Bit(w, k)) => v = w
             Made(m) == \A b \in [0..(m - 1) -> {0, 1}] : \E v \in 0..(Power2[m] - 1) :
                          \A k \in 0..(m - 1) : Bit(v, k) = b[k]
             Q == {m \in Nat : m <= W => Unique(m) /\ Made(m)}
  <1>1. W \in Nat
    BY SignalsAssumption DEF W
  <1>2. 0 \in Q
    <2>1. Power2[0] - 1 = 0 /\ 0..0 = {0} /\ 0..(0 - 1) = {}
      BY PowerEquation
    <2> QED
      BY <2>1
  <1>3. ASSUME NEW m \in Nat, m \in Q PROVE m + 1 \in Q
    <2> SUFFICES ASSUME m + 1 <= W PROVE Unique(m + 1) /\ Made(m + 1)
      <3> HIDE DEF Unique, Made
      <3> QED
        OBVIOUS
    <2>1. Unique(m) /\ Made(m)
      <3>1. m <= W
        BY <1>1
      <3> HIDE DEF Unique, Made
      <3> QED
        BY <1>3, <3>1
    <2> DEFINE p == Power2[m]
    <2>2. p \in Nat \ {0} /\ Power2[m + 1] = 2 * p /\ (m + 1) - 1 = m
      <3>1. m \in 0..W /\ m + 1 \in 0..W /\ m + 1 > 0 /\ (m + 1) - 1 = m
        BY <1>1
      <3> QED
        BY <3>1, PowerEquation
    <2> HIDE DEF p
    <2>3. \A k \in 0..(m - 1) : k + 1 \in 0..m /\ k + 1 \in 1..W /\ (k + 1) - 1 = k
      BY <1>1
    <2>4. ASSUME NEW v \in 0..(2 * p - 1)
          PROVE  /\ v \in Nat /\ v \div 2 \in 0..(p - 1) /\ v % 2 \in {0, 1}
                 /\ v = 2 * (v \div 2) + (v % 2)
                 /\ Bit(v, 0) = v % 2
                 /\ \A k \in 0..(m - 1) : Bit(v, k + 1) = Bit(v \div 2, k)
      <3>1. v \in Nat /\ v < 2 * p
        BY <2>2
      <3>2. /\ v \div 2 \in Nat /\ v \div 2 < p /\ v % 2 \in {0, 1} /\ v = 2 * (v \div 2) + (v % 2)
        BY <2>2, <3>1, Halves
      <3>3. Bit(v, 0) = v % 2 /\ \A k \in 0..(m - 1) : Bit(v, k + 1) = Bit(v \div 2, k)
        BY <2>3, <3>1, BitFacts
      <3> QED
        BY <2>2, <3>1, <3>2, <3>3
    <2>5. Unique(m + 1)
      <3> SUFFICES ASSUME NEW v \in 0..(2 * p - 1), NEW w \in 0..(2 * p - 1),
                          \A k \in 0..m : Bit(v, k) = Bit(w, k)
                   PROVE  v = w
        BY <2>2
      <3>1. \A k \in 0..(m - 1) : Bit(v \div 2, k) = Bit(w \div 2, k)
        BY <2>3, <2>4
      <3>2. v \div 2 = w \div 2
        BY <2>1, <2>4, <3>1 DEF p
      <3>3. v % 2 = w % 2
        BY <2>4
      <3>4. v = 2 * (v \div 2) + (v % 2) /\ w = 2 * (w \div 2) + (w % 2)
        BY <2>4
      <3> QED
        BY <3>2, <3>3, <3>4
    <2>6. Made(m + 1)
      <3> SUFFICES ASSUME NEW b \in [0..m -> {0, 1}]
                   PROVE  \E v \in 0..(2 * p - 1) : \A k \in 0..m : Bit(v, k) = b[k]
        BY <2>2
      <3> DEFINE c == [k \in 0..(m - 1) |-> b[k + 1]]
      <3>1. c \in [0..(m - 1) -> {0, 1}]
        BY <2>3
      <3>2. PICK w \in 0..(p - 1) : \A k \in 0..(m - 1) : Bit(w, k) = c[k]
        <4> HIDE DEF c
        <4> QED
          BY <2>1, <3>1 DEF p
      <3> DEFINE v == 2 * w + b[0]
      <3>3. b[0] \in {0, 1} /\ w \in Nat /\ p \in Nat
        BY <2>2
      <3>4. v \in 0..(2 * p - 1) /\ v \div 2 = w /\ v % 2 = b[0]
        <4>1. b[0] \in 0..(2 - 1) /\ 2 \in Nat \ {0} /\ w <= p - 1
          BY <3>2, <3>3
        <4>2. v \div 2 = w /\ v % 2 = b[0]
          BY <3>3, <4>1, Quotient
        <4> QED
          BY <3>3, <4>1, <4>2
      <3> HIDE DEF v
      <3>5. Bit(v, 0) = b[0] /\ \A k \in 0..(m - 1) : Bit(v, k + 1) = b[k + 1]
        BY <2>4, <3>2, <3>4
      <3>6. ASSUME NEW k \in 0..m PROVE Bit(v, k) = b[k]
        <4>1. k = 0 \/ (k - 1 \in 0..(m - 1) /\ (k - 1) + 1 = k)
          OBVIOUS
        <4> QED
          BY <3>5, <4>1
      <3> QED
        BY <3>4, <3>6
    <2> HIDE DEF Unique, Made
    <2> QED
      BY <2>5, <2>6
  <1> HIDE DEF Q
  <1>4. n \in Q
    BY <1>1, <1>2, <1>3, NaturalInduction
  <1> QED
    BY <1>1, <1>4 DEF Q
-------------------------------------------------------------------------------
(* Every bit of a vector belongs to one input.                              *)
LEMMA PositionFacts ==
    /\ \A i \in ToSet(Inputs) : Position(i) \in 0..(W - 1) /\ Inputs[W - Position(i)] = i
    /\ \A k \in 0..(W - 1) : Inputs[W - k] \in ToSet(Inputs) /\ Position(Inputs[W - k]) = k
  <1>1. W \in Nat /\ DOMAIN Inputs = 1..W
    BY SignalsAssumption DEF W
  <1>2. ToSet(Inputs) = {Inputs[k] : k \in 1..W}
    BY <1>1 DEF ToSet
  <1>3. ASSUME NEW k \in 1..W
        PROVE  (CHOOSE j \in DOMAIN Inputs : Inputs[j] = Inputs[k]) = k
    BY <1>1, PortsAssumption
  <1>4. \A k \in 1..W : Position(Inputs[k]) = W - k /\ W - k \in 0..(W - 1) /\ W - (W - k) = k
    <2> SUFFICES ASSUME NEW k \in 1..W
                 PROVE  Position(Inputs[k]) = W - k /\ W - k \in 0..(W - 1) /\ W - (W - k) = k
      OBVIOUS
    <2>1. Position(Inputs[k]) = W - k
      BY <1>3 DEF Position
    <2>2. W - k \in 0..(W - 1) /\ W - (W - k) = k
      BY <1>1
    <2> QED
      BY <2>1, <2>2
  <1>5. \A k \in 0..(W - 1) : W - k \in 1..W /\ W - (W - k) = k
    BY <1>1
  <1>6. ASSUME NEW i \in ToSet(Inputs)
        PROVE  Position(i) \in 0..(W - 1) /\ Inputs[W - Position(i)] = i
    <2>1. PICK k \in 1..W : i = Inputs[k]
      BY <1>2
    <2> QED
      BY <1>4, <2>1
  <1> QED
    BY <1>2, <1>4, <1>5, <1>6

(* The inputs' values are determined by their vector, and any values have   *)
(* one.                                                                     *)
LEMMA BitsFacts ==
    /\ Vectors \in Nat \ {0}
    /\ \A v : Bits(v) \in [ToSet(Inputs) -> {"0", "1"}]
    /\ \A v, w \in 0..(Vectors - 1) : Bits(v) = Bits(w) => v = w
    /\ \A a \in [ToSet(Inputs) -> {"0", "1"}] : \E v \in 0..(Vectors - 1) : Bits(v) = a
  <1>1. W \in Nat /\ W \in 0..W /\ Vectors = Power2[W]
    BY SignalsAssumption DEF W, Vectors
  <1>2. Vectors \in Nat \ {0}
    BY <1>1, PowerEquation
  <1>3. ASSUME NEW v \in 0..(Vectors - 1), NEW k \in 0..(W - 1) PROVE Bit(v, k) \in {0, 1}
    <2>1. Power2[k] \in Nat \ {0} /\ v \in Nat
      BY <1>1, <1>2, PowerEquation
    <2>2. v \div Power2[k] \in Nat
      BY <2>1, Division
    <2> QED
      BY <2>2, Halves DEF Bit
  <1>4. ASSUME NEW v \in 0..(Vectors - 1), NEW w \in 0..(Vectors - 1), Bits(v) = Bits(w) PROVE v = w
    <2>1. ASSUME NEW k \in 0..(W - 1) PROVE Bit(v, k) = Bit(w, k)
      <3> DEFINE i == Inputs[W - k]
      <3>1. i \in ToSet(Inputs) /\ Position(i) = k
        BY PositionFacts
      <3>2. /\ Bits(v)[i] = (IF Bit(v, k) = 1 THEN "1" ELSE "0")
            /\ Bits(w)[i] = (IF Bit(w, k) = 1 THEN "1" ELSE "0")
        BY <3>1 DEF Bits
      <3> QED
        BY <1>3, <1>4, <3>2
    <2> QED
      BY <1>1, <2>1, VectorsAreBits
  <1>5. ASSUME NEW a \in [ToSet(Inputs) -> {"0", "1"}]
        PROVE  \E v \in 0..(Vectors - 1) : Bits(v) = a
    <2> DEFINE b == [k \in 0..(W - 1) |-> IF a[Inputs[W - k]] = "1" THEN 1 ELSE 0]
    <2>1. b \in [0..(W - 1) -> {0, 1}]
      OBVIOUS
    <2>2. PICK v \in 0..(Vectors - 1) : \A k \in 0..(W - 1) : Bit(v, k) = b[k]
      <3> HIDE DEF b
      <3> QED
        BY <1>1, <2>1, VectorsAreBits
    <2>3. ASSUME NEW i \in ToSet(Inputs) PROVE (IF Bit(v, Position(i)) = 1 THEN "1" ELSE "0") = a[i]
      <3>1. Position(i) \in 0..(W - 1) /\ Inputs[W - Position(i)] = i
        BY PositionFacts
      <3>2. Bit(v, Position(i)) = IF a[i] = "1" THEN 1 ELSE 0
        BY <2>2, <3>1
      <3>3. a[i] \in {"0", "1"}
        OBVIOUS
      <3> QED
        BY <3>2, <3>3
    <2>4. Bits(v) = a
      BY <2>3 DEF Bits
    <2> QED
      BY <2>4
  <1> QED
    BY <1>2, <1>4, <1>5 DEF Bits

(* A state is its two vectors.                                              *)
LEMMA StateFacts ==
    /\ States \in Nat \ {0} /\ States = Vectors * Vectors
    /\ \A s \in 0..(States - 1) :
         /\ s % Vectors \in 0..(Vectors - 1) /\ s \div Vectors \in 0..(Vectors - 1)
         /\ s = Vectors * (s \div Vectors) + (s % Vectors)
    /\ \A n \in Nat : n % States \in 0..(States - 1) /\ (n % States) % Vectors = n % Vectors
  <1> DEFINE p == Vectors
  <1>1. p \in Nat \ {0}
    BY BitsFacts
  <1>2. States = p * p
    BY DEF States
  <1> HIDE DEF p
  <1>3. States \in Nat \ {0}
    BY <1>1, <1>2
  <1>4. ASSUME NEW s \in 0..(States - 1)
        PROVE  s % p \in 0..(p - 1) /\ s \div p \in 0..(p - 1) /\ s = p * (s \div p) + (s % p)
    <2>1. s \in Nat /\ s < p * p
      BY <1>2, <1>3
    <2>2. s \div p \in Nat /\ s % p \in 0..(p - 1) /\ s = p * (s \div p) + (s % p)
      BY <1>1, <2>1, Division
    <2>3. ASSUME NEW q \in Nat, NEW r \in 0..(p - 1), s = p * q + r PROVE q < p
      <3>1. p * q < p * p
        BY <1>1, <2>1, <2>3
      <3>2. q >= p => p * q >= p * p
        BY <1>1
      <3> QED
        BY <1>1, <3>1, <3>2
    <2>4. s \div p < p
      BY <2>2, <2>3
    <2>5. s \div p \in 0..(p - 1)
      BY <1>1, <2>2, <2>4
    <2> QED
      BY <2>2, <2>5
  <1>5. ASSUME NEW n \in Nat PROVE n % States \in 0..(States - 1) /\ (n % States) % p = n % p
    <2> DEFINE q == n \div States
               r == n % States
    <2>1. q \in Nat /\ r \in 0..(States - 1) /\ n = States * q + r
      BY <1>3, Division
    <2> HIDE DEF q, r
    <2> DEFINE a == r \div p
               b == r % p
    <2>0. r \in Nat
      BY <1>3, <2>1
    <2>2. a \in Nat /\ b \in 0..(p - 1) /\ r = p * a + b
      BY <1>1, <2>0, Division
    <2> HIDE DEF a, b
    <2>3. n = p * (p * q + a) + b
      <3>1. n = (p * p) * q + (p * a + b)
        BY <1>2, <2>1, <2>2
      <3> QED
        BY <1>1, <2>0, <2>1, <2>2, <3>1
    <2>4. p * q + a \in Nat
      BY <1>1, <2>1, <2>2
    <2>5. n % p = b /\ r % p = b
      <3>1. (p * (p * q + a) + b) % p = b
        BY <1>1, <2>2, <2>4, Quotient
      <3>2. (p * a + b) % p = b
        BY <1>1, <2>2, Quotient
      <3> QED
        BY <2>2, <2>3, <3>1, <3>2
    <2> QED
      BY <2>1, <2>5 DEF r
  <1> QED
    BY <1>2, <1>3, <1>4, <1>5 DEF p
-------------------------------------------------------------------------------
(* Counting on modulo a number.                                             *)
LEMMA Successor ==
    ASSUME NEW x \in Nat, NEW p \in Nat \ {0}
    PROVE  (x + 1) % p = IF x % p = p - 1 THEN 0 ELSE (x % p) + 1
  <1> DEFINE q == x \div p
             r == x % p
  <1>1. q \in Nat /\ r \in 0..(p - 1) /\ x = p * q + r
    BY Division
  <1> HIDE DEF q, r
  <1>2. CASE r = p - 1
    <2>1. x + 1 = p * (q + 1) + 0 /\ q + 1 \in Nat /\ 0 \in 0..(p - 1)
      BY <1>1, <1>2
    <2>2. (p * (q + 1) + 0) % p = 0
      BY <2>1, Quotient
    <2> QED
      BY <1>2, <2>1, <2>2 DEF r
  <1>3. CASE r # p - 1
    <2>1. x + 1 = p * q + (r + 1) /\ r + 1 \in 0..(p - 1)
      BY <1>1, <1>3
    <2>2. (p * q + (r + 1)) % p = r + 1
      BY <1>1, <2>1, Quotient
    <2> QED
      BY <1>3, <2>1, <2>2 DEF r
  <1> QED
    BY <1>2, <1>3

(* The count of falling edges that the vector applied at the n-th is of.    *)
Applier(n) == IF early THEN n ELSE n - 1

(* The n-th measurement is of the vectors of two numbers, which no other    *)
(* has, and any two are those of some measurement.                          *)
LEMMA CountFacts ==
    ASSUME early \in BOOLEAN
    PROVE  /\ \A n \in 1..States :
                /\ Applier(n) % Vectors \in 0..(Vectors - 1)
                /\ (n % States) \div Vectors \in 0..(Vectors - 1)
                /\ Applied(n) = Bits(Applier(n) % Vectors)
                /\ Switched(n) = Bits((n % States) \div Vectors)
           /\ \A m, n \in 1..States :
                /\ Applier(m) % Vectors = Applier(n) % Vectors
                /\ (m % States) \div Vectors = (n % States) \div Vectors
                => m = n
           /\ \A v, w \in 0..(Vectors - 1) : \E n \in 1..States :
                Applier(n) % Vectors = v /\ (n % States) \div Vectors = w
  <1> DEFINE p == Vectors
  <1>1. p \in Nat \ {0} /\ States \in Nat \ {0} /\ States = p * p
    BY BitsFacts, StateFacts
  <1>2. \A s \in 0..(States - 1) :
          /\ s % p \in 0..(p - 1) /\ s \div p \in 0..(p - 1)
          /\ s = p * (s \div p) + (s % p)
    BY StateFacts
  <1>3. \A n \in Nat : n % States \in 0..(States - 1) /\ (n % States) % p = n % p
    BY StateFacts
  <1>4. \A n \in 1..States : Applier(n) \in Nat /\ n \in Nat
    BY <1>1 DEF Applier
  <1>5. ASSUME NEW n \in 1..States
        PROVE  /\ Applier(n) % p \in 0..(p - 1) /\ (n % States) \div p \in 0..(p - 1)
               /\ Applied(n) = Bits(Applier(n) % p) /\ Switched(n) = Bits((n % States) \div p)
    <2>1. Applier(n) % p \in 0..(p - 1)
      BY <1>1, <1>4, Division
    <2>2. (Applier(n) % States) % p = Applier(n) % p
      BY <1>3, <1>4
    <2> QED
      BY <1>2, <1>3, <1>4, <2>1, <2>2 DEF Applied, Switched, Applier, prev_state, next_state
  <1> HIDE DEF p
  <1>6. \A n \in 1..States : n % States = IF n = States THEN 0 ELSE n
    <2> SUFFICES ASSUME NEW n \in 1..States PROVE n % States = IF n = States THEN 0 ELSE n
      OBVIOUS
    <2>1. n - 1 \in Nat /\ (n - 1) + 1 = n /\ n - 1 \in 0..(States - 1)
      BY <1>1
    <2>2. (n - 1) % States = n - 1
      <3>1. (States * 0 + (n - 1)) % States = n - 1
        BY <1>1, <2>1, Quotient
      <3>2. States * 0 + (n - 1) = n - 1
        BY <1>1
      <3> QED
        BY <3>1, <3>2
    <2>3. n % States = IF n - 1 = States - 1 THEN 0 ELSE (n - 1) + 1
      BY <1>1, <2>1, <2>2, Successor
    <2> QED
      BY <1>1, <2>3
  <1>7. ASSUME NEW n \in 1..States, ~early
        PROVE  n % p = IF Applier(n) % p = p - 1 THEN 0 ELSE (Applier(n) % p) + 1
    <2>1. Applier(n) = n - 1 /\ n - 1 \in Nat /\ (n - 1) + 1 = n
      BY <1>7 DEF Applier
    <2>2. ((n - 1) + 1) % p = IF (n - 1) % p = p - 1 THEN 0 ELSE ((n - 1) % p) + 1
      BY <1>1, <2>1, Successor
    <2> QED
      BY <2>1, <2>2
  <1>8. ASSUME NEW m \in 1..States, NEW n \in 1..States, Applier(m) % p = Applier(n) % p,
               (m % States) \div p = (n % States) \div p
        PROVE  m = n
    <2>1. m % p = n % p
      BY <1>7, <1>8 DEF Applier
    <2>2. (m % States) % p = (n % States) % p
      BY <1>3, <1>4, <2>1
    <2>3. m % States = n % States
      <3>1. m % States \in 0..(States - 1) /\ n % States \in 0..(States - 1)
        BY <1>3, <1>4
      <3>2. /\ m % States = p * ((m % States) \div p) + ((m % States) % p)
            /\ n % States = p * ((n % States) \div p) + ((n % States) % p)
        BY <1>2, <3>1
      <3> QED
        BY <1>8, <2>2, <3>2
    <2>4. /\ m % States = IF m = States THEN 0 ELSE m
          /\ n % States = IF n = States THEN 0 ELSE n
      BY <1>6
    <2> HIDE <1>6
    <2> QED
      BY <1>1, <2>3, <2>4
  <1>9. ASSUME NEW v \in 0..(p - 1), NEW w \in 0..(p - 1)
        PROVE  \E n \in 1..States : Applier(n) % p = v /\ (n % States) \div p = w
    <2> DEFINE u == IF early THEN v ELSE IF v = p - 1 THEN 0 ELSE v + 1
               s == p * w + u
               n == IF s = 0 THEN States ELSE s
    <2>1. u \in 0..(p - 1) /\ w \in Nat /\ v \in Nat
      BY <1>1
    <2> HIDE DEF u
    <2>2. s \in Nat /\ s < States
      <3>1. p * w + u < p * (w + 1) /\ p * (w + 1) <= p * p
        <4>1. p * (w + 1) = p * w + p
          BY <1>1, <2>1
        <4>2. p * w \in Nat /\ u < p
          BY <1>1, <2>1
        <4>3. w + 1 <= p /\ w + 1 \in Nat
          BY <1>1, <2>1
        <4>4. p * (w + 1) <= p * p
          BY <1>1, <4>3
        <4> QED
          BY <1>1, <2>1, <4>1, <4>2, <4>4
      <3> QED
        BY <1>1, <2>1, <3>1
    <2>3. s \div p = w /\ s % p = u
      BY <1>1, <2>1, Quotient
    <2> HIDE DEF s
    <2>4. n \in 1..States /\ n % States = s
      <3>1. n \in 1..States
        BY <1>1, <2>2
      <3> QED
        BY <1>6, <2>2, <3>1
    <2> HIDE DEF n
    <2>5. (n % States) \div p = w /\ n % p = u
      BY <1>3, <1>4, <2>3, <2>4
    <2>6. Applier(n) % p = v
      <3>1. CASE early
        BY <2>5, <3>1 DEF Applier, u
      <3>2. CASE ~early
        <4>1. Applier(n) % p \in 0..(p - 1)
          BY <1>5, <2>4 DEF p
        <4>2. u = IF v = p - 1 THEN 0 ELSE v + 1
          BY <3>2 DEF u
        <4>3. u = IF Applier(n) % p = p - 1 THEN 0 ELSE (Applier(n) % p) + 1
          BY <1>7, <2>4, <2>5, <3>2
        <4> QED
          BY <1>1, <2>1, <4>1, <4>2, <4>3
      <3> QED
        BY <3>1, <3>2
    <2> QED
      BY <2>4, <2>5, <2>6
  <1> QED
    BY <1>5, <1>8, <1>9 DEF p

(* What can be measured of the inputs.                                      *)
Columns == [ToSet(Inputs) -> {"R", "F", "H", "L"}]

(* Every pair of vectors has its own input columns, and there are no other. *)
LEMMA PairFacts ==
    ASSUME early \in BOOLEAN
    PROVE  /\ \A m, n \in 1..States : Pair(m) = Pair(n) => m = n
           /\ {Pair(n) : n \in 1..States} = Columns
  <1>1. ASSUME NEW x \in {"0", "1"}, NEW y \in {"0", "1"}
        PROVE  /\ transition(x, y) \in {"R", "F", "H", "L"}
               /\ x = IF transition(x, y) \in {"F", "H"} THEN "1" ELSE "0"
               /\ y = IF transition(x, y) \in {"R", "H"} THEN "1" ELSE "0"
    BY DEF transition
  <1>2. \A n \in 1..States : /\ Applied(n) \in [ToSet(Inputs) -> {"0", "1"}]
                             /\ Switched(n) \in [ToSet(Inputs) -> {"0", "1"}]
    BY BitsFacts, CountFacts
  <1>3. ASSUME NEW m \in 1..States, NEW n \in 1..States, Pair(m) = Pair(n) PROVE m = n
    <2>1. ASSUME NEW i \in ToSet(Inputs)
          PROVE  Applied(m)[i] = Applied(n)[i] /\ Switched(m)[i] = Switched(n)[i]
      <3>1. transition(Applied(m)[i], Switched(m)[i]) = transition(Applied(n)[i], Switched(n)[i])
        <4>1. Pair(m)[i] = Pair(n)[i]
          BY <1>3
        <4> QED
          BY <4>1 DEF Pair
      <3>2. /\ Applied(m)[i] \in {"0", "1"} /\ Switched(m)[i] \in {"0", "1"}
            /\ Applied(n)[i] \in {"0", "1"} /\ Switched(n)[i] \in {"0", "1"}
        BY <1>2
      <3> QED
        BY <1>1, <3>1, <3>2
    <2>2. Applied(m) = Applied(n) /\ Switched(m) = Switched(n)
      BY <1>2, <2>1
    <2>3. /\ Applier(m) % Vectors = Applier(n) % Vectors
          /\ (m % States) \div Vectors = (n % States) \div Vectors
      BY <2>2, BitsFacts, CountFacts
    <2> QED
      BY <2>3, CountFacts
  <1>4. ASSUME NEW n \in 1..States PROVE Pair(n) \in Columns
    BY <1>1, <1>2 DEF Pair, Columns
  <1>5. ASSUME NEW f \in Columns PROVE \E n \in 1..States : f = Pair(n)
    <2> DEFINE x == [i \in ToSet(Inputs) |-> IF f[i] \in {"F", "H"} THEN "1" ELSE "0"]
               y == [i \in ToSet(Inputs) |-> IF f[i] \in {"R", "H"} THEN "1" ELSE "0"]
    <2>1. x \in [ToSet(Inputs) -> {"0", "1"}] /\ y \in [ToSet(Inputs) -> {"0", "1"}]
      OBVIOUS
    <2>2. \A i \in ToSet(Inputs) : transition(x[i], y[i]) = f[i]
      BY DEF Columns, transition
    <2> HIDE DEF x, y
    <2>3. PICK v \in 0..(Vectors - 1), w \in 0..(Vectors - 1) : Bits(v) = x /\ Bits(w) = y
      BY <2>1, BitsFacts
    <2>4. PICK n \in 1..States : Applier(n) % Vectors = v /\ (n % States) \div Vectors = w
      BY CountFacts
    <2>5. Applied(n) = x /\ Switched(n) = y
      BY <2>3, <2>4, CountFacts
    <2>6. Pair(n) = [i \in ToSet(Inputs) |-> f[i]]
      BY <2>2, <2>5 DEF Pair
    <2> QED
      BY <2>6 DEF Columns
  <1> QED
    BY <1>3, <1>4, <1>5
-------------------------------------------------------------------------------
(* A bag of the members of a set, each once, and one that is not in it.     *)
LEMMA OneMore ==
    ASSUME NEW S, NEW x, x \notin S
    PROVE  SetToBag(S) (+) SetToBag({x}) = SetToBag(S \cup {x})
  BY DEF SetToBag, (+)

(* Nothing is measured at first.                                            *)
LEMMA PairsInitially == Init => PairsInv
  <1> SUFFICES ASSUME Init PROVE PairsInv
    OBVIOUS
  <1>1. States \in Nat \ {0}
    BY StateFacts
  <1>2. Counting
    <2>1. /\ early \in BOOLEAN /\ rolled_over = FALSE /\ finished = FALSE /\ state = 0
          /\ simulation = "dump"
      BY DEF Init
    <2>2. state \in 0..(States - 1) /\ simulation # "stopped"
      BY <1>1, <2>1
    <2> QED
      BY <2>1, <2>2 DEF Counting, Finishes
  <1>3. Unmeasured /\ simulation = "dump"
    BY DEF Init, ExtractorInit, Unmeasured
  <1> QED
    BY <1>2, <1>3 DEF PairsInv

(* The values of time 0 are the inputs that are applied.                    *)
LEMMA PairsDumped == VInv /\ PairsInv /\ DumpVars => PairsInv'
  <1> SUFFICES ASSUME VInv, PairsInv, DumpVars PROVE PairsInv'
    OBVIOUS
  <1>1. Basic /\ Undumped /\ Counting /\ Unmeasured /\ simulation' = "run"
    BY DEF VInv, PairsInv, DumpVars
  <1>2. /\ KeepMeasure /\ UNCHANGED <<clock, state, rolled_over, finished, inputs, early, lastRise>>
    BY <1>1 DEF DumpVars, set_time, Undumped
  <1>3. Counting'
    BY <1>1, <1>2 DEF Counting, Finishes, KeepMeasure
  <1>4. ASSUME NEW i \in ToSet(Inputs) PROVE Last(wave'[i])[2] = inputs'[i]
    <2>1. i \in Signals /\ Values(inputs, outputs, clock)[i] = inputs[i]
      BY <1>4 DEF Signals, Values
    <2>2. wave'[i] = << <<0, inputs[i]>> >>
      BY <2>1 DEF DumpVars
    <2> QED
      BY <1>2, <2>2 DEF Last
  <1>5. Falls' = 0
    BY <1>1, <1>2 DEF Falls, Unmeasured
  <1>6. clock' = "1" /\ lastRise' = 0 /\ state_' = "INITIAL" /\ written' = EmptyBag
    BY <1>1, <1>2 DEF Undumped, Unmeasured, KeepMeasure
  <1>7. Measured' = {}
    BY <1>5, <1>6 DEF Measured
  <1>8. written' = SetToBag({Pair(n)' : n \in Measured'})
    BY <1>6, <1>7 DEF EmptyBag
  <1>9. PairsFollow'
    BY <1>2, <1>4, <1>5, <1>6, <1>8 DEF PairsFollow
  <1> QED
    BY <1>1, <1>3, <1>9 DEF PairsInv

(* A change of the clock that is written is the edge its value calls for.   *)
LEMMA WrittenEdge ==
    ASSUME VInv, Write
    PROVE  /\ UNCHANGED <<time, clock, state, rolled_over, finished, inputs, early, wave, lastRise,
                          previous, written>>
           /\ \/ state_' = state_ /\ (Clock \in DOMAIN current' <=> Clock \in DOMAIN current)
              \/ clock = "1" /\ time = 0 /\ state_' = state_
              \/ clock = "1" /\ time > 0 /\ state_' = "CLOCK_RISE"
              \/ clock = "0" /\ state_ = "MEASURE" /\ state_' = "CLOCK_FALL"
              \/ clock = "0" /\ state_ = "INITIAL" /\ state_' = "INITIAL"
  <1>1. Basic /\ Waves /\ Follows /\ Phase
    BY DEF VInv, Write
  <1>2. UNCHANGED <<time, clock, state, rolled_over, finished, inputs, early, wave, lastRise,
                    previous, written>>
    BY DEF Write, add_transition, history
  <1>3. PICK change \in pending : add_transition(change[1], change[2])
    BY DEF Write
  <1>4. PICK id \in Signals : /\ change = <<id, Last(wave[id])[2]>>
                              /\ Changed(id) /\ id \notin DOMAIN current
    BY <1>1, <1>3 DEF Follows
  <1>5. /\ DOMAIN current' = DOMAIN current \cup {id}
        /\ IF id = Clock THEN ClockEdge(Last(wave[id])[2]) ELSE state_' = state_
    BY <1>3, <1>4 DEF add_transition, Updated
  <1>6. CASE id # Clock
    BY <1>2, <1>5, <1>6
  <1>7. CASE id = Clock
    <2>1. ClockEdge(clock) /\ Changed(Clock) /\ Clock \notin DOMAIN current
      BY <1>1, <1>4, <1>5, <1>7 DEF Waves
    <2>2. CASE time = 0
      <3>1. previous[Clock].val = "x" /\ clock = "1"
        BY <1>1, <2>2 DEF Follows, Phase, Signals
      <3> QED
        BY <1>2, <2>1, <2>2, <3>1 DEF ClockEdge
    <2>3. CASE time > 0
      <3>1. previous[Clock].val = IF clock = "1" THEN "0" ELSE "1"
        BY <1>1, <2>1, <2>3 DEF Phase
      <3>2. state_ \in IF clock = "1" THEN {"INITIAL", "SETUP"} ELSE {"INITIAL", "MEASURE"}
        BY <1>1, <2>1, <2>3 DEF Phase
      <3> QED
        BY <1>1, <1>2, <2>1, <2>3, <3>1, <3>2 DEF ClockEdge, Basic
    <2> QED
      BY <1>1, <2>2, <2>3 DEF Basic
  <1> QED
    BY <1>6, <1>7

(* Writing a change of a time step measures nothing.                        *)
LEMMA PairsWritten == VInv /\ PairsInv /\ Write => PairsInv'
  <1> SUFFICES ASSUME VInv, PairsInv, Write PROVE PairsInv'
    OBVIOUS
  <1>1. Basic /\ Phase /\ Counting /\ simulation = "run" /\ simulation' = "run"
    BY DEF VInv, PairsInv, Write
  <1>2. /\ UNCHANGED <<time, clock, state, rolled_over, finished, inputs, early, wave, lastRise,
                       previous, written>>
        /\ \/ state_' = state_ /\ (Clock \in DOMAIN current' <=> Clock \in DOMAIN current)
           \/ clock = "1" /\ time = 0 /\ state_' = state_
           \/ clock = "1" /\ time > 0 /\ state_' = "CLOCK_RISE"
           \/ clock = "0" /\ state_ = "MEASURE" /\ state_' = "CLOCK_FALL"
           \/ clock = "0" /\ state_ = "INITIAL" /\ state_' = "INITIAL"
    BY WrittenEdge
  <1>3. Counting'
    BY <1>1, <1>2 DEF Counting, Finishes
  <1>4. ASSUME PairsFollow PROVE PairsFollow'
    <2>1. Falls' = Falls /\ Changed(Clock)' = Changed(Clock)
      BY <1>2 DEF Falls, Changed
    <2>2. Measured' = Measured
      BY <1>2, <2>1 DEF Measured
    <2>3. \A n : Pair(n)' = Pair(n)
      BY <1>2 DEF Pair, Applied, Switched
    <2>4. written' = SetToBag({Pair(n)' : n \in Measured'})
      BY <1>2, <1>4, <2>2, <2>3 DEF PairsFollow
    <2>5. state_' = "INITIAL" =>
            IF clock' = "1"
            THEN Falls' = 0 \/ (Falls' = 1 /\ Changed(Clock)' /\ Clock \notin DOMAIN current')
            ELSE Falls' = 1
      BY <1>2, <1>4, <2>1 DEF PairsFollow
    <2>6. Applied(Falls)' = Applied(Falls) /\ Applied(Falls - 1)' = Applied(Falls - 1)
          /\ Switched(Falls)' = Switched(Falls) /\ Switched(Falls - 1)' = Switched(Falls - 1)
      BY <1>2, <2>1 DEF Applied, Switched
    <2> QED
      BY <1>2, <1>4, <2>1, <2>4, <2>5, <2>6 DEF PairsFollow
  <1> QED
    BY <1>1, <1>3, <1>4 DEF PairsInv
-------------------------------------------------------------------------------
(* What the extractor gets of the inputs in a new time step.                *)
LEMMA InputsFollow ==
    ASSUME VInv, Advance, \A i \in ToSet(Inputs) : Last(wave[i])[2] = inputs[i]
    PROVE  /\ \A i \in ToSet(Inputs) :
                /\ Last(wave'[i])[2] = inputs'[i]
                /\ previous'[i].val = inputs[i]
                /\ wave'[i][1] = IF clock = "0" THEN Last(wave[i]) ELSE wave[i][1]
           /\ Changed(Clock)' <=> clock # clock'
           /\ current' = Nothing
  <1> DEFINE V == Values(inputs, outputs, clock)
             U == Values(inputs', outputs', clock')
             base(id) == IF clock = "0" THEN <<Last(wave[id])>> ELSE wave[id]
  <1>1. /\ Basic /\ Waves /\ Follows /\ pending = {}
        /\ Waves' /\ Follows'
    BY AdvanceStep DEF VInv, Advance
  <1>2. PICK t : set_time(t) /\ current' = Nothing
    BY DEF Advance, set_time
  <1>3. pending' = Changes(V, U) /\ DOMAIN V = Signals
    BY DEF Advance, Values
  <1>4. /\ \A i \in ToSet(Inputs) : i \in Signals /\ V[i] = inputs[i] /\ U[i] = inputs'[i]
        /\ Clock \in Signals /\ V[Clock] = clock /\ U[Clock] = clock'
    BY SignalsAssumption DEF Values, Signals
  <1> HIDE DEF V, U
  <1>5. /\ pending' = {<<id, U[id]>> : id \in {i \in Signals : V[i] # U[i]}}
        /\ pending' = {<<id, Last(wave'[id])[2]>> : id \in {i \in Signals : Changed(i)'}}
    <2>1. DOMAIN current' = {}
      BY <1>2 DEF Nothing
    <2> QED
      BY <1>1, <1>3, <2>1 DEF Changes, Follows
  <1>6. ASSUME NEW id \in Signals
        PROVE  /\ Changed(id)' <=> V[id] # U[id]
               /\ V[id] # U[id] => Last(wave'[id])[2] = U[id]
    <2>1. ASSUME V[id] # U[id] PROVE Changed(id)' /\ Last(wave'[id])[2] = U[id]
      <3>1. <<id, U[id]>> \in pending'
        BY <1>5, <2>1
      <3>2. PICK j \in Signals : Changed(j)' /\ <<id, U[id]>> = <<j, Last(wave'[j])[2]>>
        BY <1>5, <3>1
      <3> QED
        BY <3>2
    <2>2. ASSUME Changed(id)' PROVE V[id] # U[id]
      <3>1. <<id, Last(wave'[id])[2]>> \in pending'
        BY <1>5, <2>2
      <3> QED
        BY <1>5, <3>1
    <2> QED
      BY <2>1, <2>2
  <1>7. ASSUME NEW i \in ToSet(Inputs)
        PROVE  previous'[i].val = inputs[i] /\ Last(wave'[i])[2] = inputs'[i]
    <2>1. previous'[i] = Seen(Last(wave[i]))
      BY <1>1, <1>2, <1>4, PreviousIsLast
    <2>2. previous'[i].val = inputs[i]
      BY <2>1 DEF Seen
    <2>3. CASE V[i] # U[i]
      BY <1>4, <1>6, <2>2, <2>3
    <2>4. CASE V[i] = U[i]
      <3>1. previous'[i] = Seen(Last(wave'[i]))
        BY <1>1, <1>4, <1>6, <2>4 DEF Follows
      <3>2. previous'[i].val = Last(wave'[i])[2]
        BY <3>1 DEF Seen
      <3> QED
        BY <1>4, <2>2, <2>4, <3>2
    <2> QED
      BY <2>3, <2>4
  <1>8. ASSUME NEW i \in ToSet(Inputs)
        PROVE  wave'[i][1] = IF clock = "0" THEN Last(wave[i]) ELSE wave[i][1]
    <2> DEFINE u == IF \E change \in pending' : change[1] = i THEN << <<time', U[i]>> >> ELSE <<>>
    <2>1. wave'[i] = base(i) \o u
      <3>1. PICK now : /\ time' = now
                       /\ wave' = [id \in Signals |->
                            (IF clock = "0" THEN <<Last(wave[id])>> ELSE wave[id]) \o
                            (IF \E change \in pending' : change[1] = id
                             THEN <<<<now, Values(inputs', outputs', clock')[id]>>>> ELSE <<>>)]
        BY DEF Advance
      <3> QED
        BY <1>4, <3>1 DEF U
    <2>2. wave[i] \in Seq(Nat \X Value) /\ wave[i] # <<>>
      BY <1>1, <1>4 DEF Waves
    <2>3. Last(wave[i]) \in Nat \X Value
      BY <2>2 DEF Last
    <2>4. base(i) \in Seq(Nat \X Value) /\ Len(base(i)) > 0
      BY <2>2, <2>3
    <2>5. u \in Seq({<<time', U[i]>>})
      OBVIOUS
    <2>6. (base(i) \o u)[1] = base(i)[1]
      <3> HIDE DEF u, base
      <3> QED
        BY <2>4, <2>5
    <2>7. base(i)[1] = IF clock = "0" THEN Last(wave[i]) ELSE wave[i][1]
      OBVIOUS
    <2> HIDE DEF u
    <2> QED
      BY <2>1, <2>6, <2>7
  <1> QED
    BY <1>2, <1>4, <1>6, <1>7, <1>8

(* A measurement that ends in a new time step is the next pair.             *)
LEMMA MeasuredPairs ==
    ASSUME VInv, Counting, PairsFollow, W > 0, Advance
    PROVE  /\ state_' = CASE state_ = "CLOCK_RISE" -> "MEASURE"
                          [] state_ = "CLOCK_FALL" -> "SETUP"
                          [] OTHER -> state_
           /\ state_' \in IF clock = "1" THEN {"INITIAL", "MEASURE"} ELSE {"INITIAL", "SETUP"}
           /\ state_ = "INITIAL" => Falls = IF clock = "1" THEN 0 ELSE 1
           /\ written' = SetToBag({Pair(n) : n \in 1..(Falls - 1)})
  <1>1. Basic /\ Waves /\ Follows /\ Phase /\ simulation = "run" /\ pending = {}
    BY DEF VInv, Advance
  <1>2. PICK t : set_time(t)
    BY DEF Advance
  <1>3. state_' = CASE state_ = "CLOCK_RISE" -> "MEASURE"
                    [] state_ = "CLOCK_FALL" -> "SETUP"
                    [] OTHER -> state_
    BY <1>1, <1>2, MeasureStep
  <1>4. Changed(Clock) <=> Clock \in DOMAIN current
    BY <1>1, <1>2, PreviousIsLast DEF Signals
  <1>5. /\ state_ \in IF clock = "1" THEN {"INITIAL", "CLOCK_RISE", "MEASURE"}
                      ELSE {"INITIAL", "CLOCK_FALL", "SETUP"}
        /\ state_ = "CLOCK_FALL" => Changed(Clock) /\ lastRise > 0
    BY <1>1, <1>4 DEF Phase, Basic
  <1>6. /\ Falls \in Nat /\ Falls <= States + 1
    <2>1. States \in Nat \ {0} /\ state \in 0..(States - 1)
      BY StateFacts DEF Counting
    <2>2. CASE rolled_over
      <3>1. Falls = state + States /\ state <= 1
        BY <2>2 DEF Counting, Falls
      <3> QED
        BY <2>1, <3>1
    <2>3. CASE ~rolled_over
      <3>1. Falls = state + 0
        BY <2>3 DEF Falls
      <3> QED
        BY <2>1, <3>1
    <2> QED
      BY <2>2, <2>3
  <1>7. CASE state_ = "CLOCK_FALL"
    <2>1. clock = "0" /\ Falls >= 2 /\ finalize_measure
      <3>1. clock = "0" /\ lastRise > 0
        BY <1>1, <1>5, <1>7 DEF Basic
      <3>2. Falls >= 2
        BY <3>1 DEF PairsFollow
      <3>3. finalize_measure
        BY <1>2, <1>7 DEF set_time
      <3> QED
        BY <3>1, <3>2, <3>3
    <2>2. /\ written' = written (+) SetToBag({row'.ins})
          /\ row'.ins = [i \in ToSet(Inputs) |-> transition(wave[i][1][2], previous[i].val)]
      BY <1>1, <1>7, <2>1, MeasurementEnds
    <2>3. row'.ins = Pair(Falls - 1)
      BY <1>5, <1>7, <2>1, <2>2 DEF PairsFollow, Pair
    <2>4. written = SetToBag({Pair(n) : n \in 1..(Falls - 2)})
      BY <1>7, <2>1 DEF PairsFollow, Measured
    <2>5. /\ Falls - 1 \in 1..States /\ \A n \in 1..(Falls - 2) : n \in 1..States /\ n # Falls - 1
          /\ 1..(Falls - 1) = (1..(Falls - 2)) \cup {Falls - 1}
      <3>1. States \in Nat
        BY StateFacts
      <3> QED
        BY <1>6, <2>1, <3>1
    <2>6. Pair(Falls - 1) \notin {Pair(n) : n \in 1..(Falls - 2)}
      BY <2>5, PairFacts DEF Counting
    <2>7. {Pair(n) : n \in 1..(Falls - 1)} = {Pair(n) : n \in 1..(Falls - 2)} \cup {Pair(Falls - 1)}
      BY <2>5
    <2>8. written' = SetToBag({Pair(n) : n \in 1..(Falls - 1)})
      BY <2>2, <2>3, <2>4, <2>6, <2>7, OneMore
    <2> QED
      BY <1>3, <1>7, <2>1, <2>8
  <1>8. CASE state_ # "CLOCK_FALL"
    <2>1. written' = written
      BY <1>2, <1>8 DEF set_time, initialize_measure, KeepMeasure
    <2>2. Measured = 1..(Falls - 1)
      BY <1>5, <1>8 DEF Measured
    <2> QED
      BY <1>3, <1>4, <1>5, <1>8, <2>1, <2>2 DEF PairsFollow
  <1> QED
    BY <1>7, <1>8
-------------------------------------------------------------------------------
(* The state is the count of falling edges modulo the number of states.     *)
LEMMA StateIsCount ==
    ASSUME NEW s \in 0..(States - 1), NEW b \in BOOLEAN,
           NEW n, n = s + (IF b THEN States ELSE 0)
    PROVE  n \in Nat /\ n % States = s
  <1>1. States \in Nat \ {0}
    BY StateFacts
  <1>2. (States * 0 + s) % States = s /\ (States * 1 + s) % States = s
    BY <1>1, Quotient
  <1>3. States * 0 + s = s + 0 /\ States * 1 + s = s + States
    BY <1>1
  <1>4. n \in {s + 0, s + States}
    OBVIOUS
  <1> QED
    BY <1>1, <1>2, <1>3, <1>4

(* A falling edge counts on by one.                                         *)
LEMMA FallCounts ==
    ASSUME Counting, W > 0, ~finished, clock = "1", Negedge
    PROVE  /\ Falls' = Falls + 1 /\ rolled_over' \in BOOLEAN /\ state' \in 0..(States - 1)
           /\ rolled_over' => state' <= 1
  <1>1. States \in Nat /\ States >= 4
    <2>1. W \in 0..W /\ W - 1 \in 0..W
      BY SignalsAssumption DEF W
    <2>2. Vectors = 2 * Power2[W - 1] /\ Power2[W - 1] \in Nat \ {0}
      BY <2>1, PowerEquation DEF Vectors
    <2>3. Vectors \in Nat /\ Vectors >= 2
      BY <2>2
    <2> QED
      BY <2>3 DEF States
  <1>2. state \in 0..(States - 1) /\ state' = (state + 1) % States
    BY DEF Counting, Negedge
  <1>3. state' = IF state = States - 1 THEN 0 ELSE state + 1
    <2>1. States \in Nat \ {0} /\ state \in Nat
      BY <1>1, <1>2
    <2>2. (States * 0 + state) % States = state /\ States * 0 + state = state
      BY <1>2, <2>1, Quotient
    <2>3. state % States = state
      BY <2>2
    <2>4. (state + 1) % States = IF state % States = States - 1 THEN 0 ELSE (state % States) + 1
      BY <2>1, Successor
    <2> QED
      BY <1>2, <2>3, <2>4
  <1>4. rolled_over' = (rolled_over # (state' = 0))
    BY DEF Negedge
  <1>5. CASE rolled_over
    <2>1. state = 0
      BY <1>2, <1>5 DEF Counting, Finishes
    <2>2. state' = 1
      BY <1>1, <1>3, <2>1
    <2>3. rolled_over' = TRUE
      <3>1. rolled_over = TRUE /\ (state' = 0) = FALSE
        BY <1>5, <2>2 DEF Counting
      <3> QED
        BY <1>4, <3>1
    <2>4. Falls = state + States /\ Falls' = state' + States
      BY <1>5, <2>3 DEF Falls
    <2> QED
      BY <1>1, <2>1, <2>2, <2>3, <2>4
  <1>6. CASE ~rolled_over
    <2>1. rolled_over = FALSE
      BY <1>6 DEF Counting
    <2>2. CASE state = States - 1
      <3>1. state' = 0 /\ rolled_over' = TRUE
        BY <1>3, <1>4, <2>1, <2>2
      <3>2. Falls = state + 0 /\ Falls' = state' + States
        BY <2>1, <3>1 DEF Falls
      <3> QED
        BY <1>1, <1>2, <2>2, <3>1, <3>2
    <2>3. CASE state # States - 1
      <3>1. state' = state + 1 /\ state' # 0
        BY <1>2, <1>3, <2>3
      <3>2. rolled_over' = FALSE
        BY <1>4, <2>1, <3>1
      <3>3. Falls = state + 0 /\ Falls' = state' + 0
        BY <2>1, <3>2 DEF Falls
      <3>4. Falls' = Falls + 1 /\ state' \in 0..(States - 1)
        BY <1>1, <1>2, <2>3, <3>1, <3>3
      <3> QED
        BY <3>2, <3>4
    <2> QED
      BY <2>2, <2>3
  <1> QED
    BY <1>5, <1>6

(* A new time step counts on and applies the next vector at an edge.        *)
LEMMA PairsAdvanced == VInv /\ PairsInv /\ W > 0 /\ Advance => PairsInv'
  <1> SUFFICES ASSUME VInv, PairsInv, W > 0, Advance PROVE PairsInv'
    OBVIOUS
  <1>1. /\ Basic /\ Phase /\ Counting /\ PairsFollow /\ ~finished
        /\ simulation = "run" /\ simulation' = "run" /\ UNCHANGED early
    BY DEF VInv, PairsInv, Advance
  <1>2. PICK t \in Int :
                 /\ t > time /\ time' = t /\ time \in Nat
                 /\ IF t % HalfPeriod # 0 THEN KeepInputs ELSE IF clock = "1" THEN Negedge ELSE Posedge
                 /\ lastRise' = IF clock = "0" /\ clock' = "1" THEN t ELSE lastRise
    <2>1. \A t \in (time + 1)..((time \div HalfPeriod + 1) * HalfPeriod) : t > time
      BY <1>1, HalfPeriodAssumption DEF Basic
    <2>2. time \in Nat
      BY <1>1 DEF Basic
    <2> QED
      BY <2>1, <2>2 DEF Advance
  <1>3. /\ \A i \in ToSet(Inputs) :
             /\ Last(wave'[i])[2] = inputs'[i]
             /\ previous'[i].val = inputs[i]
             /\ wave'[i][1] = IF clock = "0" THEN Last(wave[i]) ELSE wave[i][1]
        /\ Changed(Clock)' <=> clock # clock'
        /\ current' = Nothing
        /\ \A i \in ToSet(Inputs) : Last(wave[i])[2] = inputs[i]
    BY <1>1, InputsFollow DEF PairsFollow
  <1>4. /\ state_' = CASE state_ = "CLOCK_RISE" -> "MEASURE"
                       [] state_ = "CLOCK_FALL" -> "SETUP"
                       [] OTHER -> state_
        /\ state_' \in IF clock = "1" THEN {"INITIAL", "MEASURE"} ELSE {"INITIAL", "SETUP"}
        /\ state_ = "INITIAL" => Falls = IF clock = "1" THEN 0 ELSE 1
        /\ written' = SetToBag({Pair(n) : n \in 1..(Falls - 1)})
    BY <1>1, MeasuredPairs
  <1>5. Falls \in Nat /\ Falls % States = state /\ clock \in {"0", "1"}
    <2>1. state \in 0..(States - 1) /\ rolled_over \in BOOLEAN
      BY <1>1 DEF Counting
    <2>2. Falls \in Nat /\ Falls % States = state
      BY <2>1, StateIsCount DEF Falls
    <2> QED
      BY <1>1, <2>2 DEF Basic
  <1>6. \A n : Pair(n)' = Pair(n) /\ Applied(n)' = Applied(n) /\ Switched(n)' = Switched(n)
    BY <1>1 DEF Pair, Applied, Switched
  <1>7. \A n : n = Falls' => Applied(n)' = Applied(n) /\ Switched(n)' = Switched(n)
    BY <1>6
  <1>8. ASSUME Counting', Measured' = 1..(Falls - 1), Falls' \in Nat,
               time' > 0,
               lastRise' > 0 => Falls' >= IF clock' = "1" THEN 1 ELSE 2,
               clock' = "0" => Falls' >= 1 /\ inputs' = Applied(Falls'),
               clock' = "1" /\ Falls' >= 1 =>
                 /\ inputs' = Switched(Falls')
                 /\ \A i \in ToSet(Inputs) : wave'[i][1][2] = Applied(Falls')[i],
               clock' = "0" /\ clock # clock' /\ Falls' >= 2 => \A i \in ToSet(Inputs) :
                 wave'[i][1][2] = Applied(Falls' - 1)[i] /\ previous'[i].val = Switched(Falls' - 1)[i],
               state_' = "INITIAL" =>
                 IF clock' = "1" THEN Falls' = 0 \/ (Falls' = 1 /\ clock # clock') ELSE Falls' = 1
        PROVE  PairsInv'
    <2>1. written' = SetToBag({Pair(n)' : n \in Measured'})
      BY <1>4, <1>6, <1>8
    <2>2. \A n, m : n = Falls' /\ m = Falls' - 1 =>
            /\ Applied(n)' = Applied(n) /\ Switched(n)' = Switched(n)
            /\ Applied(m)' = Applied(m) /\ Switched(m)' = Switched(m)
      BY <1>6
    <2>3. DOMAIN current' = {}
      BY <1>3 DEF Nothing
    <2>4. /\ Applied(Falls)' = Applied(Falls') /\ Switched(Falls)' = Switched(Falls')
          /\ Applied(Falls - 1)' = Applied(Falls' - 1) /\ Switched(Falls - 1)' = Switched(Falls' - 1)
      BY <1>1 DEF Applied, Switched
    <2>5. PairsFollow'
      BY <1>3, <1>8, <2>1, <2>3, <2>4 DEF PairsFollow
    <2> QED
      BY <1>1, <1>8, <2>5 DEF PairsInv
  <1>9. CASE KeepInputs
    <2>1. UNCHANGED <<clock, inputs, state, rolled_over, finished>>
      BY <1>9 DEF KeepInputs
    <2>2. Counting' /\ Falls' = Falls /\ lastRise' = lastRise
      BY <1>1, <1>2, <2>1 DEF Counting, Finishes, Falls
    <2>3. Measured' = 1..(Falls - 1)
      BY <1>4, <1>5, <2>1, <2>2 DEF Measured
    <2>4. state_' = "INITIAL" => Falls = IF clock = "1" THEN 0 ELSE 1
      BY <1>4
    <2>5. /\ lastRise > 0 => Falls >= IF clock = "1" THEN 1 ELSE 2
          /\ clock = "0" => Falls >= 1 /\ inputs = Applied(Falls)
          /\ clock = "1" /\ Falls >= 1 =>
               inputs = Switched(Falls) /\ \A i \in ToSet(Inputs) : wave[i][1][2] = Applied(Falls)[i]
      BY <1>1 DEF PairsFollow
    <2>6. clock = "1" => \A i \in ToSet(Inputs) : wave'[i][1] = wave[i][1]
      BY <1>3
    <2> QED
      BY <1>2, <1>5, <1>8, <2>1, <2>2, <2>3, <2>4, <2>5, <2>6
  <1>10. CASE clock = "1" /\ Negedge
    <2>1. /\ clock' = "0" /\ inputs' = prev_state(IF early THEN state' ELSE state)
          /\ finished' = finished /\ lastRise' = lastRise
      BY <1>2, <1>10 DEF Negedge
    <2>2. /\ Falls' = Falls + 1 /\ rolled_over' \in BOOLEAN /\ state' \in 0..(States - 1)
          /\ rolled_over' => state' <= 1
      BY <1>1, <1>10, FallCounts
    <2>3. Counting'
      BY <1>1, <2>1, <2>2 DEF Counting
    <2>4. (Falls + 1) % States = state'
      <3>1. Falls' = state' + (IF rolled_over' THEN States ELSE 0)
        BY DEF Falls
      <3> QED
        BY <2>2, <3>1, StateIsCount
    <2>5. inputs' = Applied(Falls')
      <3>1. Falls' - 1 = Falls
        BY <1>5, <2>2
      <3> QED
        BY <1>5, <2>1, <2>2, <2>4, <3>1 DEF Applied
    <2>6. Measured' = 1..(Falls - 1)
      <3>1. CASE state_' = "MEASURE"
        BY <1>5, <2>1, <2>2, <3>1 DEF Measured
      <3>2. CASE state_' = "INITIAL"
        <4>1. Falls = 0
          BY <1>4, <1>10, <3>2
        <4>2. Measured' = 1..(1 - 1)
          BY <2>1, <2>2, <3>2, <4>1 DEF Measured
        <4> QED
          BY <4>1, <4>2
      <3> QED
        BY <1>4, <1>10, <3>1, <3>2
    <2>7. lastRise > 0 => Falls >= 1
      BY <1>1, <1>10 DEF PairsFollow
    <2>8. Falls >= 1 =>
            /\ inputs = Switched(Falls)
            /\ \A i \in ToSet(Inputs) : wave[i][1][2] = Applied(Falls)[i]
      BY <1>1, <1>10 DEF PairsFollow
    <2>9. state_' = "INITIAL" => Falls = 0
      BY <1>4, <1>10
    <2>10. /\ Falls' - 1 = Falls /\ Falls' \in Nat /\ (Falls' >= 2 => Falls >= 1) /\ Falls' >= 1
           /\ (Falls >= 1 => Falls' >= 2)
      BY <1>5, <2>2
    <2>11. Falls' >= 2 => \A i \in ToSet(Inputs) :
             wave'[i][1][2] = Applied(Falls)[i] /\ previous'[i].val = Switched(Falls)[i]
      BY <1>3, <1>10, <2>8, <2>10
    <2>12. time' > 0
      BY <1>2
    <2>13. state_' = "INITIAL" => Falls' = 1
      BY <2>2, <2>9
    <2> QED
      BY <1>8, <2>1, <2>3, <2>5, <2>6, <2>7, <2>10, <2>11, <2>12, <2>13
  <1>11. CASE clock = "0" /\ Posedge
    <2>1. /\ clock' = "1" /\ inputs' = next_state(state) /\ finished' = (finished \/ Finishes)
          /\ UNCHANGED <<state, rolled_over>>
      BY <1>11 DEF Posedge
    <2>2. Falls' = Falls
      BY <2>1 DEF Falls
    <2>3. Counting'
      BY <1>1, <2>1 DEF Counting, Finishes
    <2>4. Measured' = 1..(Falls - 1)
      BY <2>1, <2>2 DEF Measured
    <2>5. inputs' = Switched(Falls)
      BY <1>5, <2>1 DEF Switched
    <2>6. Falls >= 1 /\ inputs = Applied(Falls)
      BY <1>1, <1>11 DEF PairsFollow
    <2>7. \A i \in ToSet(Inputs) : wave'[i][1][2] = Applied(Falls)[i]
      BY <1>3, <1>11, <2>6
    <2>8. state_' = "INITIAL" => Falls = 1
      BY <1>4, <1>11
    <2> QED
      BY <1>2, <1>5, <1>8, <1>11, <2>1, <2>2, <2>3, <2>4, <2>5, <2>6, <2>7, <2>8
  <1> QED
    BY <1>2, <1>5, <1>9, <1>10, <1>11
-------------------------------------------------------------------------------
(* Without inputs the testbench counts modulo one and never finishes.       *)
LEMMA NeverFinishes ==
    ASSUME Counting, W = 0, Advance
    PROVE  Counting'
  <1>1. States = 1
    BY PowerEquation DEF States, Vectors
  <1>2. state = 0 /\ finished = FALSE /\ simulation' # "stopped" /\ early' = early
    BY <1>1 DEF Counting, Advance
  <1>3. KeepInputs \/ Negedge \/ Posedge
    BY DEF Advance
  <1>4. state' = 0 /\ finished' = FALSE /\ rolled_over' \in BOOLEAN
    <2>1. CASE KeepInputs
      BY <1>2, <2>1 DEF KeepInputs, Counting
    <2>2. CASE Posedge
      BY <1>2, <2>2 DEF Posedge, Counting, Finishes
    <2>3. CASE Negedge
      <3>1. (0 + 1) % 1 = 0
        OBVIOUS
      <3> QED
        BY <1>1, <1>2, <2>3, <3>1 DEF Negedge
    <2> QED
      BY <1>3, <2>1, <2>2, <2>3
  <1>5. state' \in 0..(States - 1) /\ ~(W > 0) /\ early' \in BOOLEAN
    BY <1>1, <1>2, <1>4 DEF Counting
  <1>6. ~Finishes'
    BY <1>4 DEF Finishes
  <1> QED
    BY <1>2, <1>4, <1>5, <1>6 DEF Counting

(* Every step keeps the invariant.                                          *)
LEMMA PairsStep == VInv /\ PairsInv /\ [Next]_vars => PairsInv'
  <1> SUFFICES ASSUME VInv, PairsInv, [Next]_vars PROVE PairsInv'
    OBVIOUS
  <1>1. ASSUME Advance PROVE PairsInv'
    <2>1. W \in Nat
      BY SignalsAssumption DEF W
    <2>2. CASE W = 0
      <3>1. simulation' = "run"
        BY <1>1 DEF Advance
      <3> QED
        BY <1>1, <2>2, <3>1, NeverFinishes DEF PairsInv
    <2> QED
      BY <1>1, <2>1, <2>2, PairsAdvanced
  <1>2. ASSUME UNCHANGED <<time, clock, state, rolled_over, finished, inputs, early, wave, lastRise,
                           previous, written, state_, current>>,
               \/ simulation' = simulation
               \/ simulation = "run" /\ finished /\ simulation' = "stopped"
        PROVE  PairsInv'
    <2>1. Counting'
      BY <1>2 DEF PairsInv, Counting, Finishes
    <2>2. Unmeasured => Unmeasured'
      BY <1>2 DEF Unmeasured
    <2>3. PairsFollow => PairsFollow'
      BY <1>2 DEF PairsFollow, Falls, Applied, Switched, Pair, Measured, Changed
    <2> QED
      BY <1>2, <2>1, <2>2, <2>3 DEF PairsInv
  <1>3. CASE Stop
    BY <1>2, <1>3 DEF Stop, extractorVars, history
  <1>4. CASE UNCHANGED vars
    BY <1>2, <1>4 DEF vars, extractorVars, benchVars, history
  <1> QED
    BY <1>1, <1>3, <1>4, PairsDumped, PairsWritten DEF Next

(* For any inputs, outputs and clock period: when the simulation stops, the *)
(* rows have every pair of input vectors exactly once.                      *)
THEOREM EveryPairIsMeasured == Spec => []EveryPairOnce
  <1>1. VInv /\ PairsInv => EveryPairOnce
    <2> SUFFICES ASSUME VInv, PairsInv, simulation = "stopped"
                 PROVE  written = SetToBag(Columns)
      BY DEF EveryPairOnce, Columns
    <2>1. Counting /\ rolled_over = TRUE /\ state = 1 /\ clock = "1"
      BY DEF PairsInv, Counting
    <2>2. W > 0
      <3>1. W \in Nat
        BY SignalsAssumption DEF W
      <3>2. W = 0 => States = 1
        BY PowerEquation DEF States, Vectors
      <3>3. 1 \in 0..(States - 1)
        BY <2>1 DEF Counting
      <3> QED
        BY <3>1, <3>2, <3>3
    <2>3. written = SetToBag({Pair(n) : n \in Measured})
      BY <2>2 DEF PairsInv, PairsFollow
    <2>4. Measured = 1..States
      <3>1. Falls = 1 + States /\ States \in Nat
        BY <2>1, StateFacts DEF Falls
      <3>2. Falls - 1 = States
        BY <3>1
      <3> QED
        BY <2>1, <3>2 DEF Measured
    <2> QED
      BY <2>1, <2>3, <2>4, PairFacts DEF Counting
  <1>2. Init => VInv /\ PairsInv
    BY SimulationInitially, PairsInitially
  <1>3. VInv /\ PairsInv /\ [Next]_vars => (VInv /\ PairsInv)'
    BY SimulationStep, PairsStep
  <1> QED
    BY <1>1, <1>2, <1>3, PTL DEF Spec
===============================================================================
