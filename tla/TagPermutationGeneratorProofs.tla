--------------------- MODULE TagPermutationGeneratorProofs ---------------------
(***************************************************************************)
(* Proofs about TagPermutationGenerator for any number of inputs and any   *)
(* number of tags on each: what next() has returned is at every moment     *)
(* what precedes the iterators, and so no permutation is skipped, repeated *)
(* or cut off by the overflow.                                             *)
(***************************************************************************)
EXTENDS TagPermutationGenerator, WellFoundedInduction, TLAPS

(* ReturnedIsThePast is inductive once the iterators are known to point at *)
(* tags of their sets.                                                     *)
IInv == TypeOK /\ ReturnedIsThePast

SizesOK == sizes \in Seq(Nat \ {0}) /\ sizes # <<>>
-------------------------------------------------------------------------------
(* A set of naturals that is not empty has a least element.                *)
LEMMA LeastNatural ==
    ASSUME NEW T, T \subseteq Nat, T # {}
    PROVE  \E m \in T : \A n \in T : m <= n
  <1>1. PICK m \in T : \A n \in T : ~(<<n, m>> \in OpToRel(<, Nat))
    BY WFMin, NatLessThanWellFounded
  <1>2. \A n \in T : ~(n < m)
    BY <1>1 DEF OpToRel
  <1> QED
    BY <1>2

(* The inputs are numbered from one, and each has at least one tag.        *)
LEMMA InputsAreAnInterval ==
    ASSUME SizesOK
    PROVE  /\ Len(sizes) \in Nat \ {0} /\ Inputs = 1..Len(sizes)
           /\ \A i \in Inputs : sizes[i] \in Nat \ {0}
  BY DEF SizesOK, Inputs

(* A permutation has a position within its set for every input.            *)
LEMMA Positions ==
    ASSUME SizesOK, NEW p \in Permutations, NEW i \in Inputs
    PROVE  p[i] \in Nat /\ 1 <= p[i] /\ p[i] <= sizes[i] /\ sizes[i] \in Nat
  BY InputsAreAnInterval DEF Permutations

(* A function on the inputs with such positions is a permutation.          *)
LEMMA InPermutations ==
    ASSUME NEW p, p = [i \in Inputs |-> p[i]], \A i \in Inputs : p[i] \in 1..sizes[i]
    PROVE  p \in Permutations
  BY DEF Permutations

(* Two permutations that differ differ last at some input.                 *)
LEMMA LastDifference ==
    ASSUME SizesOK, NEW p \in Permutations, NEW q \in Permutations, p # q
    PROVE  \E l \in Inputs : p[l] # q[l] /\ \A j \in Inputs : j > l => p[j] = q[j]
  <1> DEFINE N == Len(sizes)
             T == {n \in 0..N : \E i \in Inputs : i + n = N /\ p[i] # q[i]}
  <1>1. N \in Nat /\ Inputs = 1..N
    BY InputsAreAnInterval
  <1>2. \E i \in Inputs : p[i] # q[i]
    BY DEF Permutations
  <1>3. \A i \in Inputs : N - i \in 0..N /\ i + (N - i) = N
    BY <1>1
  <1>4. T # {} /\ T \subseteq Nat
    <2>1. PICK i \in Inputs : p[i] # q[i]
      BY <1>2
    <2>2. N - i \in T
      BY <1>3, <2>1
    <2>3. 0..N \subseteq Nat
      BY <1>1
    <2> QED
      BY <2>2, <2>3
  <1>5. PICK m \in T : \A n \in T : m <= n
    BY <1>4, LeastNatural
  <1>6. PICK l \in Inputs : l + m = N /\ p[l] # q[l]
    BY <1>5
  <1>7. ASSUME NEW j \in Inputs, j > l, p[j] # q[j] PROVE FALSE
    <2>1. N - j \in T
      BY <1>3, <1>7
    <2>2. m <= N - j
      BY <1>5, <2>1
    <2> QED
      BY <1>1, <1>4, <1>6, <1>7, <2>2
  <1> QED
    BY <1>6, <1>7

(* No permutation precedes itself.                                         *)
LEMMA PrecedesIsIrreflexive ==
    ASSUME SizesOK, NEW p \in Permutations PROVE ~Precedes(p, p)
  BY Positions DEF Precedes
-------------------------------------------------------------------------------
(* advance() without an overflow: some input k is the first that can step; *)
(* the ones before it wrap to the begin of their sets, the later ones stay.*)
LEMMA AdvanceSteps ==
    ASSUME SizesOK, NEW its \in Permutations, ~Overflows(sizes, its)
    PROVE  \E k \in Inputs :
              /\ its[k] < sizes[k] /\ \A j \in Inputs : j < k => its[j] = sizes[j]
              /\ Advanced(sizes, its)[k] = its[k] + 1
              /\ \A j \in Inputs : j < k => Advanced(sizes, its)[j] = 1
              /\ \A j \in Inputs : j > k => Advanced(sizes, its)[j] = its[j]
  <1> DEFINE N == Len(sizes)
             T == {i \in 1..N : its[i] # sizes[i]}
  <1>1. N \in Nat \ {0} /\ Inputs = 1..N /\ DOMAIN sizes = 1..N
    BY InputsAreAnInterval DEF Inputs
  <1>2. T # {} /\ T \subseteq Nat
    BY <1>1 DEF Overflows, CarryInto
  <1>3. PICK k \in T : \A i \in T : k <= i
    BY <1>2, LeastNatural
  <1>4. k \in Inputs /\ its[k] < sizes[k]
    BY <1>1, <1>3, Positions
  <1>5. \A j \in Inputs : j < k => its[j] = sizes[j]
    BY <1>1, <1>3
  <1>6. \A i \in Inputs : Advanced(sizes, its)[i] =
           IF ~CarryInto(sizes, its, i) THEN its[i]
           ELSE IF its[i] = sizes[i] THEN 1 ELSE its[i] + 1
    BY <1>1 DEF Advanced
  <1>7. \A i \in Inputs : i <= k => CarryInto(sizes, its, i)
    BY <1>1, <1>5, <1>4 DEF CarryInto
  <1>8. \A i \in Inputs : i > k => ~CarryInto(sizes, its, i)
    BY <1>1, <1>3, <1>4 DEF CarryInto
  <1>9. its[k] # sizes[k]
    BY <1>3
  <1> QED
    BY <1>1, <1>4, <1>5, <1>6, <1>7, <1>8, <1>9

(* advance() leaves every iterator at a tag of its set.                    *)
LEMMA AdvancedIsPermutation ==
    ASSUME SizesOK, NEW its \in Permutations
    PROVE  Advanced(sizes, its) \in Permutations
  <1> DEFINE adv == Advanced(sizes, its)
  <1>1. adv = [i \in Inputs |-> adv[i]]
    BY DEF Advanced, Inputs
  <1>2. ASSUME NEW i \in Inputs PROVE adv[i] \in 1..sizes[i]
    <2>1. adv[i] \in {its[i], 1} \/ (its[i] # sizes[i] /\ adv[i] = its[i] + 1)
      BY DEF Advanced, Inputs
    <2>2. sizes[i] \in Nat \ {0}
      BY InputsAreAnInterval
    <2> QED
      BY <2>1, <2>2, Positions
  <1> QED
    BY <1>1, <1>2, InPermutations

(* One step of advance() passes exactly the permutation it leaves.         *)
LEMMA AdvancePassesOne ==
    ASSUME SizesOK, NEW its \in Permutations, ~Overflows(sizes, its),
           NEW p \in Permutations
    PROVE  Precedes(p, Advanced(sizes, its)) <=> Precedes(p, its) \/ p = its
  <1> DEFINE adv == Advanced(sizes, its)
  <1>1. PICK k \in Inputs :
           /\ its[k] < sizes[k] /\ \A j \in Inputs : j < k => its[j] = sizes[j]
           /\ adv[k] = its[k] + 1
           /\ \A j \in Inputs : j < k => adv[j] = 1
           /\ \A j \in Inputs : j > k => adv[j] = its[j]
    BY AdvanceSteps
  <1> HIDE DEF adv
  <1>2. Inputs \subseteq Int /\ \A i \in Inputs : /\ p[i] \in Nat /\ 1 <= p[i] /\ p[i] <= sizes[i]
                            /\ its[i] \in Nat /\ sizes[i] \in Nat
    BY Positions, InputsAreAnInterval
  <1>3. ASSUME p = its PROVE Precedes(p, adv)
    <2>1. p[k] < adv[k] /\ \A j \in Inputs : j > k => p[j] = adv[j]
      BY <1>1, <1>2, <1>3
    <2> QED
      BY <2>1 DEF Precedes
  <1>4. ASSUME Precedes(p, its) PROVE Precedes(p, adv)
    <2>1. PICK i \in Inputs : p[i] < its[i] /\ \A j \in Inputs : j > i => p[j] = its[j]
      BY <1>4 DEF Precedes
    <2>2. CASE i > k
      <3>1. p[i] < adv[i] /\ \A j \in Inputs : j > i => p[j] = adv[j]
        BY <1>1, <1>2, <2>1, <2>2
      <3> QED
        BY <3>1 DEF Precedes
    <2>3. CASE i <= k
      <3>1. p[k] <= its[k]
        BY <1>1, <1>2, <2>1, <2>3
      <3>2. p[k] < adv[k] /\ \A j \in Inputs : j > k => p[j] = adv[j]
        BY <1>1, <1>2, <2>1, <2>3, <3>1
      <3> QED
        BY <3>2 DEF Precedes
    <2> QED
      BY <1>2, <2>2, <2>3
  <1>5. ASSUME Precedes(p, adv), p # its PROVE Precedes(p, its)
    <2>1. PICK i \in Inputs : p[i] < adv[i] /\ \A j \in Inputs : j > i => p[j] = adv[j]
      BY <1>5 DEF Precedes
    <2>2. i >= k
      BY <1>1, <1>2, <2>1
    <2>3. CASE i > k
      <3>1. p[i] < its[i] /\ \A j \in Inputs : j > i => p[j] = its[j]
        BY <1>1, <1>2, <2>1, <2>3
      <3> QED
        BY <3>1 DEF Precedes
    <2>4. CASE i = k
      <3>1. p[k] <= its[k] /\ \A j \in Inputs : j > k => p[j] = its[j]
        BY <1>1, <1>2, <2>1, <2>4
      <3>2. PICK l \in Inputs : p[l] # its[l] /\ \A j \in Inputs : j > l => p[j] = its[j]
        BY <1>5, LastDifference
      <3>3. p[l] < its[l]
        <4>1. l <= k
          BY <1>2, <3>1, <3>2
        <4> QED
          BY <1>1, <1>2, <3>1, <3>2, <4>1
      <3> QED
        BY <3>2, <3>3 DEF Precedes
    <2> QED
      BY <1>2, <2>2, <2>3, <2>4
  <1> QED
    BY <1>3, <1>4, <1>5 DEF adv

(* At an overflow only the permutation that is left was still to come.     *)
LEMMA OverflowIsTheEnd ==
    ASSUME SizesOK, NEW its \in Permutations, Overflows(sizes, its),
           NEW p \in Permutations, p # its
    PROVE  Precedes(p, its)
  <1>1. \A i \in Inputs : its[i] = sizes[i]
    BY InputsAreAnInterval DEF Overflows, CarryInto
  <1>2. PICK l \in Inputs : p[l] # its[l] /\ \A j \in Inputs : j > l => p[j] = its[j]
    BY LastDifference
  <1>3. p[l] < its[l]
    BY <1>1, <1>2, Positions
  <1> QED
    BY <1>2, <1>3 DEF Precedes

(* Nothing precedes the iterators when all of them stand at begin().       *)
LEMMA FirstIsFirst ==
    ASSUME SizesOK
    PROVE  /\ First(sizes) \in Permutations
           /\ \A p \in Permutations : ~Precedes(p, First(sizes))
  <1>1. \A i \in Inputs : First(sizes)[i] = 1 /\ 1 \in 1..sizes[i]
    BY InputsAreAnInterval DEF First, Inputs
  <1>2. First(sizes) = [i \in Inputs |-> First(sizes)[i]]
    BY DEF First, Inputs
  <1>3. First(sizes) \in Permutations
    BY <1>1, <1>2, InPermutations
  <1> QED
    BY <1>1, <1>3, Positions DEF Precedes
-------------------------------------------------------------------------------
(* A generator just constructed satisfies the invariant.                   *)
LEMMA InvariantInitially == Init => IInv
  <1> SUFFICES ASSUME Init PROVE IInv
    OBVIOUS
  <1>1. SizesOK
    BY SizesAssumption DEF Init, SizesOK
  <1> QED
    BY <1>1, FirstIsFirst DEF Init, IInv, TypeOK, ReturnedIsThePast, SizesOK

(* A call of next() keeps the invariant: what it returns is the one        *)
(* permutation advance() passes.                                           *)
LEMMA InvariantStep == IInv /\ [Next]_vars => IInv'
  <1> SUFFICES ASSUME IInv, [Next]_vars PROVE IInv'
    OBVIOUS
  <1>1. CASE Next
    <2>1. SizesOK /\ iterators \in Permutations /\ returned \subseteq Permutations
      BY DEF IInv, TypeOK, SizesOK
    <2>2. /\ ~done /\ returned' = returned \cup {iterators}
          /\ iterators' = Advanced(sizes, iterators)
          /\ done' = Overflows(sizes, iterators) /\ sizes' = sizes
      BY <1>1 DEF Next
    <2>3. returned = {p \in Permutations : Precedes(p, iterators)}
      BY <2>2 DEF IInv, ReturnedIsThePast
    <2>4. Permutations' = Permutations /\ Inputs' = Inputs
      BY <2>2 DEF Permutations, Inputs
    <2>5. TypeOK'
      <3>1. done' \in BOOLEAN
        BY <2>2 DEF Overflows, CarryInto
      <3> QED
        BY <2>1, <2>2, <2>4, <3>1, AdvancedIsPermutation DEF TypeOK, SizesOK
    <2>6. CASE Overflows(sizes, iterators)
      <3>1. returned' = Permutations
        BY <2>1, <2>2, <2>3, <2>6, OverflowIsTheEnd
      <3> QED
        BY <2>2, <2>4, <2>5, <2>6, <3>1 DEF IInv, ReturnedIsThePast
    <2>7. CASE ~Overflows(sizes, iterators)
      <3>1. \A p \in Permutations :
               Precedes(p, iterators)' <=> Precedes(p, Advanced(sizes, iterators))
        BY <2>2, <2>4 DEF Precedes
      <3>2. returned' = {p \in Permutations : Precedes(p, Advanced(sizes, iterators))}
        BY <2>1, <2>2, <2>3, <2>7, AdvancePassesOne
      <3>3. returned' = {p \in Permutations : Precedes(p, iterators)'}
        BY <3>1, <3>2
      <3> QED
        BY <2>2, <2>4, <2>5, <2>7, <3>3 DEF IInv, ReturnedIsThePast
    <2> QED
      BY <2>6, <2>7
  <1>2. CASE UNCHANGED vars
    <2>1. /\ sizes' = sizes /\ iterators' = iterators /\ done' = done
          /\ returned' = returned
      BY <1>2 DEF vars
    <2>2. Permutations' = Permutations /\ Inputs' = Inputs
      BY <2>1 DEF Permutations, Inputs
    <2>3. \A p \in Permutations : Precedes(p, iterators)' <=> Precedes(p, iterators)
      BY <2>1, <2>2 DEF Precedes
    <2>4. {p \in Permutations : Precedes(p, iterators)'} = {p \in Permutations : Precedes(p, iterators)}
      BY <2>3
    <2> QED
      BY <2>1, <2>2, <2>4 DEF IInv, TypeOK, ReturnedIsThePast
  <1> QED
    BY <1>1, <1>2

(* The inductive invariant of the generator holds, for any sizes.          *)
THEOREM InvariantHolds == Spec => []IInv
  BY InvariantInitially, InvariantStep, PTL DEF Spec

(* For any sizes every iterator always points at a tag of its set.         *)
THEOREM TypeCorrect == Spec => []TypeOK
  <1>1. IInv => TypeOK
    BY DEF IInv
  <1> QED
    BY <1>1, InvariantHolds, PTL

(* For any sizes: what next() has returned is what precedes the iterators, *)
(* and all permutations when done() is true.                               *)
THEOREM NothingSkipped == Spec => []ReturnedIsThePast
  <1>1. IInv => ReturnedIsThePast
    BY DEF IInv
  <1> QED
    BY <1>1, InvariantHolds, PTL
-------------------------------------------------------------------------------
(* A generator just constructed has every permutation left, and there is   *)
(* at least one.                                                           *)
LEMMA EnumerationInitially == Init => Enumeration!Init
  <1> SUFFICES ASSUME Init PROVE Enumeration!Init
    OBVIOUS
  <1>1. SizesOK
    BY SizesAssumption DEF Init, SizesOK
  <1> QED
    BY <1>1, FirstIsFirst DEF Init, Enumeration!Init

(* A call of next() takes one permutation that was left, and sees done()   *)
(* exactly when it was the last.                                           *)
LEMMA EnumerationStep == IInv /\ IInv' /\ [Next]_vars => [Enumeration!Take]_(Enumeration!vars)
  <1> SUFFICES ASSUME IInv, IInv', [Next]_vars
               PROVE  [Enumeration!Take]_(Enumeration!vars)
    OBVIOUS
  <1>1. CASE Next
    <2>1. SizesOK /\ iterators \in Permutations
      BY DEF IInv, TypeOK, SizesOK
    <2>2. ~done /\ returned' = returned \cup {iterators} /\ sizes' = sizes
      BY <1>1 DEF Next
    <2>3. Permutations' = Permutations
      BY <2>2 DEF Permutations, Inputs
    <2>4. iterators \in Permutations \ returned
      BY <2>1, <2>2, PrecedesIsIrreflexive DEF IInv, ReturnedIsThePast
    <2>5. Permutations' \ returned' = (Permutations \ returned) \ {iterators}
      BY <2>2, <2>3
    <2>6. done' = (Permutations' \ returned' = {})
      <3>1. done' => Permutations' \ returned' = {}
        BY DEF IInv, ReturnedIsThePast
      <3>2. ASSUME ~done' PROVE iterators' \in Permutations' \ returned'
        <4>1. SizesOK' /\ iterators' \in Permutations'
          BY DEF IInv, TypeOK, SizesOK
        <4>2. ~Precedes(iterators, iterators)'
          BY <4>1, InputsAreAnInterval, <2>1, <2>2, <2>3, PrecedesIsIrreflexive DEF Precedes, Inputs
        <4> QED
          BY <3>2, <4>1, <4>2 DEF IInv, ReturnedIsThePast
      <3>3. done' \in BOOLEAN
        BY DEF IInv, TypeOK
      <3> QED
        BY <3>1, <3>2, <3>3
    <2> QED
      BY <2>2, <2>4, <2>5, <2>6 DEF Enumeration!Take
  <1>2. CASE UNCHANGED vars
    BY <1>2 DEF vars, Enumeration!vars, Permutations, Inputs
  <1> QED
    BY <1>1, <1>2

(* For any sizes the generator hands out each permutation at most once and *)
(* says it is done exactly when none is left.  (That it gets there is      *)
(* liveness and is left to TLC.)                                           *)
THEOREM EnumerationImplemented ==
    Spec => Enumeration!Init /\ [][Enumeration!Take]_(Enumeration!vars)
  BY InvariantHolds, EnumerationInitially, EnumerationStep, PTL DEF Spec
================================================================================
