-------------------------- MODULE ConditionFunctions ---------------------------
(***************************************************************************)
(* The non-uniform condition functions of SharpSatBddEvaluator.  A logical *)
(* input is encoded by NVarsPerInput BDD variables; each transition gets a *)
(* random number of their minterms and so its probability.  A Boolean      *)
(* function is the set of its minterms.                                    *)
(***************************************************************************)
EXTENDS TagCoverage, Bitwise

CONSTANT NVarsPerInput

(* With a single variable the counts run out before LOW (the constructor   *)
(* asserts).                                                               *)
ASSUME VarsAssumption == NVarsPerInput \in Nat \ {0, 1}

NumMinterms == 2^NVarsPerInput
Minterms == 0..(NumMinterms - 1)

TransitionOrder == <<"RISE", "FALL", "HIGH", "LOW">>

MostMinterms(free) == Max({free - 3, 1})

(* The counts the constructor may draw: RISE, FALL and HIGH in turn from   *)
(* what is free, LOW gets the rest.                                        *)
AssignedMintermCounts ==
    {c \in [ToSet(TransitionOrder) -> 1..NumMinterms] :
        /\ c["RISE"] <= MostMinterms(NumMinterms)
        /\ c["FALL"] <= MostMinterms(NumMinterms - c["RISE"])
        /\ c["HIGH"] <= MostMinterms(NumMinterms - c["RISE"] - c["FALL"])
        /\ c["LOW"] = NumMinterms - c["RISE"] - c["FALL"] - c["HIGH"]}

(* Mutant: a transition misses its last turn.                              *)
RoundRobinShort(counts) ==
    FlattenSeq([round \in 1..NumMinterms |->
                   SelectSeq(TransitionOrder, LAMBDA trans : counts[trans] > round)])

(* Who gets the minterms in turn: one each per round, while it is owed any. *)
RoundRobin(counts) ==
    FlattenSeq([round \in 1..NumMinterms |->
                   SelectSeq(TransitionOrder, LAMBDA trans : counts[trans] >= round)])

(* The largest power of two in n, and what a count still owes after the    *)
(* rounds before the given one.                                            *)
LargestPower(n) ==
    IF n = 0 THEN 0 ELSE 2^Max({k \in 0..NVarsPerInput : 2^k <= n})

Owed(count, round) ==
    LET left[r \in 1..round] ==
          IF r = 1 THEN count ELSE left[r - 1] - LargestPower(left[r - 1])
    IN left[round]

(* In blocks, the largest power of two of what it is owed per round.       *)
Grouped(counts, order) ==
    FlattenSeq([round \in 1..(NVarsPerInput + 1) |->
        FlattenSeq([i \in DOMAIN order |->
            [k \in 1..LargestPower(Owed(counts[order[i]], round)) |-> order[i]]])])

(* Largest count first, equal counts in any order.                         *)
DescendingOrders(counts) ==
    {order \in SetToSeqs(DOMAIN counts) :
        \A i, j \in DOMAIN order : i < j => counts[order[i]] >= counts[order[j]]}

BinaryToGray(minterm) == minterm ^^ (minterm \div 2)

(* The k-th turn is about the k-th minterm of the given order.             *)
Dealt(turns, minterms) ==
    [trans \in ToSet(TransitionOrder) |->
        {minterms[k - 1] : k \in {j \in DOMAIN turns : turns[j] = trans}}]

(* The functions each of the three kinds may create for the counts.        *)
CreatedFunctions(counts) ==
    LET binary == [m \in Minterms |-> m]
        gray   == [m \in Minterms |-> BinaryToGray(m)]
    IN {Dealt(RoundRobin(counts), binary)} \cup
       {Dealt(Grouped(counts, o), code) : o \in DescendingOrders(counts), code \in {binary, gray}}
-------------------------------------------------------------------------------
EveryMintermOnce ==
    \A counts \in AssignedMintermCounts : \A f \in CreatedFunctions(counts) :
        /\ \A m \in Minterms : Cardinality({t \in DOMAIN f : m \in f[t]}) = 1
        /\ \A t \in DOMAIN f : f[t] \subseteq Minterms /\ Cardinality(f[t]) = counts[t]

(* The evaluator that is made once the analysis has ended: however an      *)
(* input's counts are drawn and dealt out, every minterm means exactly one *)
(* transition and every transition has as many as it was assigned, so that *)
(* the tags of a node, which have every scenario once, also have every     *)
(* valuation of the variables once, and the printed probabilities.         *)
InputsArePartitioned ==
    Finished => /\ Transitions = ToSet(TransitionOrder)
                /\ EveryMintermOnce
===============================================================================
