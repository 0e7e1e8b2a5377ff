------------------------ MODULE TagPermutationGenerator ------------------------
(***************************************************************************)
(* TagPermutationGenerator: the lazy enumeration of every choice of one    *)
(* tag per input that drives the evaluation of a timing graph node.  The   *)
(* generator keeps one iterator per input and counts with them, input 1    *)
(* fastest.  An iterator is a position 1..NumTags(i); the tags themselves  *)
(* do not matter here.                                                     *)
(***************************************************************************)
EXTENDS Integers, Sequences

CONSTANT SizesChoices   \* the vectors of tag-set sizes a node may be given

(* A node is evaluated only when some input has tags, and an input without *)
(* tags contributes no set: no generator is built over an empty set.       *)
ASSUME SizesAssumption ==
    \A s \in SizesChoices : s \in Seq(Nat \ {0}) /\ s # <<>>

VARIABLES
    sizes,       \* input_tag_sets_: the number of tags of each set
    iterators,   \* iterators_
    done,        \* done_
    returned     \* history: the permutations next() has returned

vars == <<sizes, iterators, done, returned>>

Inputs == DOMAIN sizes

Permutations == {p \in [Inputs -> UNION {1..sizes[i] : i \in Inputs}] :
                    \A i \in Inputs : p[i] \in 1..sizes[i]}

(* The iterators when every one stands at begin(). *)
First(szs) == [i \in DOMAIN szs |-> 1]

(* advance() walks the inputs in order and steps an iterator only on a     *)
(* carry; a carry reaches input i when every earlier iterator wraps.       *)
(* Mutant: the walk does not stop at an iterator that did not wrap.        *)
CarryAlways(szs, its, i) == i > Len(szs) => its[Len(szs)] = szs[Len(szs)]

CarryInto(szs, its, i) == \A j \in 1..(i - 1) : its[j] = szs[j]

(* Mutant: an iterator steps past its end.                                 *)
AdvancedPastEnd(szs, its) ==
    [i \in DOMAIN szs |-> IF CarryInto(szs, its, i) THEN its[i] + 1 ELSE its[i]]

Advanced(szs, its) ==
    [i \in DOMAIN szs |->
        IF ~CarryInto(szs, its, i) THEN its[i]
        ELSE IF its[i] = szs[i] THEN 1 ELSE its[i] + 1]

(* Mutant: the last input's carry is noticed when it is reached.           *)
OverflowsEarly(szs, its) == CarryInto(szs, its, Len(szs))

(* A carry out of the last input: iteration has finished.                  *)
Overflows(szs, its) == CarryInto(szs, its, Len(szs) + 1)
-------------------------------------------------------------------------------
Init == /\ sizes \in SizesChoices
        /\ iterators = First(sizes)
        /\ done = FALSE
        /\ returned = {}

(* next(), which the caller's loop calls only while ~done(). *)
Next == /\ ~done
        /\ returned' = returned \cup {iterators}
        /\ iterators' = Advanced(sizes, iterators)
        /\ done' = Overflows(sizes, iterators)
        /\ UNCHANGED sizes

Spec == Init /\ [][Next]_vars /\ WF_vars(Next)
-------------------------------------------------------------------------------
(* The order of enumeration: p comes before q when they differ last at an  *)
(* input where p is smaller.                                               *)
Precedes(p, q) ==
    \E i \in Inputs : /\ p[i] < q[i]
                      /\ \A j \in Inputs : j > i => p[j] = q[j]

(* Every iterator always points at a tag of its set.                       *)
TypeOK ==
    /\ sizes \in Seq(Nat \ {0}) /\ sizes # <<>>
    /\ iterators \in Permutations
    /\ done \in BOOLEAN
    /\ returned \subseteq Permutations

(* What advance() has passed is exactly what next() has returned: before   *)
(* the overflow, the permutations that precede the iterators; after it,    *)
(* all of them.  So no transition scenario of a node is skipped, and       *)
(* done() is never reported early.                                         *)
ReturnedIsThePast ==
    returned = IF done THEN Permutations
                       ELSE {p \in Permutations : Precedes(p, iterators)}

(* The generator implements the abstract enumeration: next() never returns *)
(* a permutation twice (a scenario evaluated twice would be added twice to *)
(* its output tag), done() is true exactly when all have been returned,    *)
(* and the caller's loop ends.                                             *)
Enumeration == INSTANCE PermutationEnumeration
                 WITH remaining <- Permutations \ returned, exhausted <- done

ImplementsEnumeration == Enumeration!Spec
================================================================================
