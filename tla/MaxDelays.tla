------------------------------- MODULE MaxDelays -------------------------------
(***************************************************************************)
(* The delay of the whole circuit (circuit_max_delays): the tags of all    *)
(* outputs become tags of one transition, MAX, are merged like those of a  *)
(* node, and are taken from the latest to the earliest, each for the       *)
(* circuit scenarios that no later one has.  The scenarios of the earliest *)
(* are not computed but inferred to be the rest.                           *)
(***************************************************************************)
EXTENDS TagCoverage

(* The nodes levelize() lists as outputs.                                  *)
PrimaryOutputs == {n \in Node : Type[n] \in {"OUTPAD_SINK", "FF_SINK"} /\ Fanouts(n) = {}}

(* max_arr() of a copy of tag, whose transition is now MAX.                *)
AddMaxTag(seq, tag) ==
    LET same == {k \in DOMAIN seq : seq[k].arr = tag.arr}
    IN IF same = {} THEN Append(seq, [tag EXCEPT !.trans = "MAX"])
       ELSE [seq EXCEPT ![Min(same)].scen = @ \cup tag.scen]

AddTagsOf(seq, n) == FoldLeft(LAMBDA s, t : AddMaxTag(s, At(tags, t)), seq, dataTags[n])

MaxTags(outputs) == FoldLeft(AddTagsOf, <<>>, outputs)

(* merge_max_tags: the slack is taken off the largest required time.       *)
MaxThreshold == Max({0} \cup UNION {sta.required[n] : n \in Node}) - opts.slack

MergedMaxTags(outputs) ==
    LET heap == <<MaxTags(outputs)>>
        m == MergeTags(heap, References(1, heap[1]),
                       Bin(opts.coarse), Bin(opts.fine), {MaxThreshold})
    IN [k \in DOMAIN m.merged |-> At(m.heap, m.merged[k])]

(* Mutant: from the earliest to the latest.                                *)
DescendingAscending(seq) ==
    [i \in DOMAIN seq |->
        seq[CHOOSE k \in DOMAIN seq :
                Cardinality({j \in DOMAIN seq : seq[j].arr < seq[k].arr}) = i - 1]]

(* std::sort by arrival, of tags no two of which are equally late: merging *)
(* leaves no others.                                                       *)
Descending(seq) ==
    [i \in DOMAIN seq |->
        seq[CHOOSE k \in DOMAIN seq :
                Cardinality({j \in DOMAIN seq : seq[j].arr > seq[k].arr}) = i - 1]]

(* Mutant: covered_terms lags one tag behind.                              *)
CoveredTermsLate(functions, k) == UNION {functions[j] : j \in 1..(k - 2)}

(* covered_terms when the k-th tag is reached.                             *)
CoveredTerms(functions, k) == UNION {functions[j] : j \in 1..(k - 1)}

(* The delays and what they are reported for; covered is Covered.          *)
CircuitMaxDelays(covered, outputs) ==
    LET sorted == Descending(MergedMaxTags(outputs))
        functions == [k \in DOMAIN sorted |-> Satisfying(covered, sorted[k].scen)]
    IN [k \in DOMAIN sorted |->
          [arr |-> sorted[k].arr,
           scenarios |-> (IF k = Len(sorted) THEN CircuitScenarios ELSE functions[k])
                            \ CoveredTerms(functions, k)]]
-------------------------------------------------------------------------------
OutputArrivals(covered, a) ==
    {At(tags, t).arr : t \in {u \in UNION {ToSet(dataTags[n]) : n \in PrimaryOutputs} :
                                 a \in ScenariosOf(covered, u)}}

(* Every scenario of the circuit is reported once, at the latest arrival   *)
(* any output has in it or less than a bin later, whatever the order of    *)
(* the outputs: overlaps of the outputs' tags are counted at their latest  *)
(* only, and the inferred rest belongs to the last delay.                  *)
MaxDelayOfEveryScenario ==
    Finished => LET covered == Covered IN
        \A outputs \in SetToSeqs(PrimaryOutputs) :
            \E delays \in {CircuitMaxDelays(covered, outputs)} :
                \A a \in CircuitScenarios :
                    LET latest == Max(OutputArrivals(covered, a))
                        at == {k \in DOMAIN delays : a \in delays[k].scenarios}
                    IN /\ Cardinality(at) = 1
                       /\ \A k \in at : LET late == delays[k].arr - latest IN
                             late = 0 \/ (late > 0 /\ late * WiderBin.den < WiderBin.num)
===============================================================================
