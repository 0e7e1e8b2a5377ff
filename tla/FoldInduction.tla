---------------------------- MODULE FoldInduction ----------------------------
(***************************************************************************)
(* Induction over the natural numbers for a set instead of a predicate,     *)
(* and, by it, what the folds of the community modules compute: the        *)
(* function that a fold over 1..n chooses exists, so it satisfies the       *)
(* equation it is chosen by.  The same for a graph: induction over a rank   *)
(* of its nodes, and sets that flow along its edges.                        *)
(***************************************************************************)
EXTENDS Integers, SequencesExt, SequenceTheorems, FiniteSetTheorems, TLAPS

(* A set with zero and every successor of its members holds all natural     *)
(* numbers: were n not in it, the successor function would map the numbers  *)
(* below, all in the set, into one number less.                             *)
LEMMA NaturalInduction ==
    ASSUME NEW S, 0 \in S, \A n \in Nat : n \in S => n + 1 \in S
    PROVE  \A n \in Nat : n \in S
  <1> SUFFICES ASSUME NEW n \in Nat, n \notin S PROVE FALSE
    OBVIOUS
  <1> DEFINE A == {m \in 0..n : \A k \in 0..m : k \in S}
             f == [m \in A |-> m + 1]
  <1>1. 0 \in A
    OBVIOUS
  <1>2. ASSUME NEW m \in A PROVE m + 1 \in A \ {0}
    <2>1. m \in S /\ m \in Nat /\ m <= n
      OBVIOUS
    <2>2. m + 1 \in 0..n
      BY <2>1
    <2>3. ASSUME NEW k \in 0..(m + 1) PROVE k \in S
      <3>1. CASE k <= m
        BY <3>1
      <3>2. CASE k = m + 1
        BY <3>2, <2>1
      <3> QED
        BY <3>1, <3>2, <2>1
    <2> QED
      BY <2>1, <2>2, <2>3
  <1>3. IsFiniteSet(A)
    <2>1. IsFiniteSet(0..n) /\ A \in SUBSET (0..n)
      BY FS_Interval
    <2> QED
      BY <2>1, FS_Subset
  <1>4. IsFiniteSet(A \ {0}) /\ Cardinality(A \ {0}) = Cardinality(A) - 1
    BY <1>1, <1>3, FS_RemoveElement
  <1>5. f \in [A -> A \ {0}]
    BY <1>2
  <1>6. Cardinality(A) \in Nat
    BY <1>3, FS_CardinalityType
  <1> HIDE DEF A, f
  <1>7. Cardinality(A \ {0}) < Cardinality(A)
    BY <1>4, <1>6
  <1>8. \E x, y \in A : x # y /\ f[x] = f[y]
    BY <1>3, <1>4, <1>5, <1>7, FS_PigeonHole
  <1> QED
    BY <1>8 DEF A, f

(* The maximum of a set of numbers from 1 to n.                             *)
LEMMA MaxOfInterval ==
    ASSUME NEW n \in Nat, NEW s \in SUBSET (1..n), s # {}
    PROVE  Max(s) \in s /\ \A y \in s : y <= Max(s)
  <1> DEFINE Q == {m \in Nat : \A u \in SUBSET (1..m) : u # {} => \E x \in u : \A y \in u : x >= y}
  <1>1. 0 \in Q
    <2>1. 1..0 = {}
      OBVIOUS
    <2> QED
      BY <2>1
  <1>2. ASSUME NEW m \in Nat, m \in Q PROVE m + 1 \in Q
    <2> SUFFICES ASSUME NEW u \in SUBSET (1..(m + 1)), u # {}
                 PROVE  \E x \in u : \A y \in u : x >= y
      OBVIOUS
    <2>1. CASE m + 1 \in u
      BY <2>1
    <2>2. CASE m + 1 \notin u
      <3>1. u \in SUBSET (1..m)
        BY <2>2
      <3> QED
        BY <1>2, <3>1
    <2> QED
      BY <2>1, <2>2
  <1> HIDE DEF Q
  <1>3. n \in Q
    BY <1>1, <1>2, NaturalInduction
  <1>4. \E x \in s : \A y \in s : x >= y
    BY <1>3 DEF Q
  <1>5. Max(s) \in s /\ \A y \in s : Max(s) >= y
    BY <1>4 DEF Max
  <1> QED
    BY <1>5

(* The last of the positions 1..k+1, and those before it.                   *)
LEMMA PrefixMax ==
    ASSUME NEW k \in Nat
    PROVE  /\ 1..(k + 1) # {} /\ Max(1..(k + 1)) = k + 1
           /\ (1..(k + 1)) \ {k + 1} = 1..k
  <1>1. 1..(k + 1) # {} /\ k + 1 \in 1..(k + 1)
    OBVIOUS
  <1>2. Max(1..(k + 1)) \in 1..(k + 1) /\ k + 1 <= Max(1..(k + 1))
    <2>1. k + 1 \in Nat /\ 1..(k + 1) \in SUBSET (1..(k + 1))
      OBVIOUS
    <2> QED
      BY <1>1, <2>1, MaxOfInterval
  <1> QED
    BY <1>1, <1>2

(* A fold over the positions 1..n that stays in S; the function it chooses, *)
(* of the sets of positions that are left.                                  *)
StepsWithin(S, n, base, step) == n \in Nat /\ base \in S /\ step \in [S \X (1..n) -> S]

FoldsOver(iter, S, n, base, step) ==
    /\ iter \in [SUBSET (1..n) -> S]
    /\ \A s \in SUBSET (1..n) :
         iter[s] = IF s = {} THEN base ELSE step[<<iter[s \ {Max(s)}], Max(s)>>]

(* Such a function exists.                                                  *)
LEMMA FoldExists ==
    ASSUME NEW S, NEW n, NEW base, NEW step, StepsWithin(S, n, base, step)
    PROVE  \E iter : FoldsOver(iter, S, n, base, step)
  <1> n \in Nat /\ base \in S /\ step \in [S \X (1..n) -> S]
    BY DEF StepsWithin
  <1> DEFINE Folds(m) ==
               {h \in [SUBSET (1..m) -> S] : \A s \in SUBSET (1..m) :
                  h[s] = IF s = {} THEN base ELSE step[<<h[s \ {Max(s)}], Max(s)>>]}
             Q == {m \in Nat : m <= n => Folds(m) # {}}
  <1>1. 0 \in Q
    <2> DEFINE h == [s \in SUBSET (1..0) |-> base]
    <2>1. h \in Folds(0)
      OBVIOUS
    <2> QED
      BY <2>1
  <1>2. ASSUME NEW m \in Nat, m \in Q PROVE m + 1 \in Q
    <2> SUFFICES ASSUME m + 1 <= n PROVE Folds(m + 1) # {}
      <3> HIDE DEF Folds
      <3> QED
        OBVIOUS
    <2>1. PICK g : g \in Folds(m)
      <3> HIDE DEF Folds
      <3>1. m <= n
        OBVIOUS
      <3> QED
        BY <1>2, <3>1
    <2>5. g \in [SUBSET (1..m) -> S]
      BY <2>1
    <2> DEFINE h == [s \in SUBSET (1..(m + 1)) |->
                      IF m + 1 \in s THEN step[<<g[s \ {m + 1}], m + 1>>] ELSE g[s]]
    <2>2. \A s \in SUBSET (1..(m + 1)) : s \ {m + 1} \in SUBSET (1..m)
      OBVIOUS
    <2>3. h \in [SUBSET (1..(m + 1)) -> S]
      <3> SUFFICES ASSUME NEW s \in SUBSET (1..(m + 1)) PROVE h[s] \in S
        OBVIOUS
      <3>1. CASE m + 1 \in s
        <4>1. <<g[s \ {m + 1}], m + 1>> \in S \X (1..n)
          <5>1. g[s \ {m + 1}] \in S
            BY <2>2, <2>5
          <5> QED
            BY <5>1
        <4> QED
          BY <3>1, <4>1
      <3>2. CASE m + 1 \notin s
        <4>1. s \in SUBSET (1..m)
          BY <3>2
        <4> QED
          BY <2>5, <3>2, <4>1
      <3> QED
        BY <3>1, <3>2
    <2>4. ASSUME NEW s \in SUBSET (1..(m + 1))
          PROVE  h[s] = IF s = {} THEN base ELSE step[<<h[s \ {Max(s)}], Max(s)>>]
      <3>1. CASE m + 1 \in s
        <4>1. Max(s) \in s /\ m + 1 <= Max(s)
          <5>1. m + 1 \in Nat /\ s # {}
            BY <3>1
          <5> QED
            BY <3>1, <5>1, MaxOfInterval
        <4>2. Max(s) = m + 1
          <5>1. Max(s) \in 1..(m + 1)
            BY <4>1
          <5> QED
            BY <4>1, <5>1
        <4>3. h[s \ {m + 1}] = g[s \ {m + 1}]
          BY <2>2
        <4> QED
          BY <3>1, <4>2, <4>3
      <3>2. CASE m + 1 \notin s
        <4>1. s \in SUBSET (1..m)
          BY <3>2
        <4>2. h[s] = g[s]
          BY <3>2
        <4>3. s # {} => h[s \ {Max(s)}] = g[s \ {Max(s)}]
          BY <3>2
        <4>4. g[s] = IF s = {} THEN base ELSE step[<<g[s \ {Max(s)}], Max(s)>>]
          BY <2>1, <4>1
        <4> QED
          BY <4>2, <4>3, <4>4
      <3> QED
        BY <3>1, <3>2
    <2> QED
      BY <2>3, <2>4
  <1> HIDE DEF Q
  <1>3. n \in Q
    BY <1>1, <1>2, NaturalInduction
  <1>4. Folds(n) # {}
    <2> HIDE DEF Folds
    <2> QED
      BY <1>3 DEF Q
  <1> QED
    BY <1>4 DEF FoldsOver
-------------------------------------------------------------------------------
(* What such a function says of the prefixes of the positions.              *)
LEMMA FoldPrefix ==
    ASSUME NEW S, NEW n, NEW base, NEW step, StepsWithin(S, n, base, step),
           NEW iter, FoldsOver(iter, S, n, base, step)
    PROVE  /\ iter[1..0] = base /\ \A k \in 0..n : iter[1..k] \in S
           /\ \A k \in Nat : k + 1 <= n => iter[1..(k + 1)] = step[<<iter[1..k], k + 1>>]
  <1> n \in Nat /\ iter \in [SUBSET (1..n) -> S]
    BY DEF StepsWithin, FoldsOver
  <1>1. 1..0 = {} /\ \A k \in 0..n : 1..k \in SUBSET (1..n)
    OBVIOUS
  <1>2. iter[1..0] = base
    BY <1>1 DEF FoldsOver
  <1>3. ASSUME NEW k \in Nat, k + 1 <= n PROVE iter[1..(k + 1)] = step[<<iter[1..k], k + 1>>]
    <2>1. 1..(k + 1) \in SUBSET (1..n)
      BY <1>3
    <2>2. 1..(k + 1) # {} /\ Max(1..(k + 1)) = k + 1 /\ (1..(k + 1)) \ {k + 1} = 1..k
      BY PrefixMax
    <2> QED
      BY <2>1, <2>2 DEF FoldsOver
  <1> QED
    BY <1>1, <1>2, <1>3

(* The least member of a set of natural numbers.                            *)
LEMMA LeastMember ==
    ASSUME NEW T \in SUBSET Nat, T # {}
    PROVE  Min(T) \in T /\ \A y \in T : Min(T) <= y
  <1>1. \E x \in T : \A y \in T : x <= y
    <2> SUFFICES ASSUME \A x \in T : \E y \in T : y < x PROVE FALSE
      OBVIOUS
    <2> DEFINE Q == {m \in Nat : \A k \in 0..m : k \notin T}
    <2>1. 0 \in Q
      OBVIOUS
    <2>2. ASSUME NEW m \in Nat, m \in Q PROVE m + 1 \in Q
      <3>1. \A k \in 0..m : k \notin T
        BY <2>2
      <3>2. m + 1 \notin T
        BY <3>1
      <3> QED
        BY <3>1, <3>2
    <2> HIDE DEF Q
    <2>3. \A m \in Nat : m \in Q
      BY <2>1, <2>2, NaturalInduction
    <2>4. \A m \in Nat : m \notin T
      <3> TAKE m \in Nat
      <3>1. m \in 0..m /\ m \in Q
        BY <2>3
      <3> QED
        BY <3>1 DEF Q
    <2> QED
      BY <2>4
  <1> QED
    BY <1>1 DEF Min

(* The greatest member of a finite set of numbers.                          *)
LEMMA GreatestMember ==
    ASSUME NEW T \in SUBSET Int, IsFiniteSet(T), T # {}
    PROVE  Max(T) \in T /\ \A y \in T : y <= Max(T)
  <1> DEFINE Q == {m \in Nat : \A u \in SUBSET T :
                      u # {} /\ Cardinality(u) = m => \E x \in u : \A y \in u : x >= y}
  <1>1. 0 \in Q
    <2>1. \A u \in SUBSET T : IsFiniteSet(u) /\ (Cardinality(u) = 0 => u = {})
      BY FS_Subset, FS_EmptySet
    <2> QED
      BY <2>1
  <1>2. ASSUME NEW m \in Nat, m \in Q PROVE m + 1 \in Q
    <2> SUFFICES ASSUME NEW u \in SUBSET T, u # {}, Cardinality(u) = m + 1
                 PROVE  \E x \in u : \A y \in u : x >= y
      OBVIOUS
    <2>1. PICK z \in u : TRUE
      OBVIOUS
    <2>2. u \ {z} \in SUBSET T /\ Cardinality(u \ {z}) = m
      <3>1. IsFiniteSet(u)
        BY FS_Subset
      <3>2. Cardinality(u \ {z}) = Cardinality(u) - 1
        BY <3>1, FS_RemoveElement
      <3> QED
        BY <3>2
    <2>3. CASE u \ {z} = {}
      BY <2>1, <2>3
    <2>4. CASE u \ {z} # {}
      <3>1. PICK x \in u \ {z} : \A y \in u \ {z} : x >= y
        BY <1>2, <2>2, <2>4
      <3> QED
        BY <2>1, <3>1
    <2> QED
      BY <2>3, <2>4
  <1> HIDE DEF Q
  <1>3. Cardinality(T) \in Nat
    BY FS_CardinalityType
  <1>4. Cardinality(T) \in Q
    BY <1>1, <1>2, <1>3, NaturalInduction
  <1>5. \E x \in T : \A y \in T : x >= y
    BY <1>4 DEF Q
  <1> QED
    BY <1>5 DEF Max
-------------------------------------------------------------------------------
(* A function on 1..n each of whose values is made of the ones before it:   *)
(* step[k] takes the first k - 1 values to the k-th.                        *)
MadeOfEarlier(n, V, step) ==
    n \in Nat /\ \A k \in 1..n : step[k] \in [[1..(k - 1) -> V] -> V]

Obeys(f, n, V, step) ==
    /\ f \in [1..n -> V]
    /\ \A k \in 1..n : f[k] = step[k][[j \in 1..(k - 1) |-> f[j]]]

(* There is such a function, whatever the steps.                             *)
LEMMA RecursionExists ==
    ASSUME NEW n, NEW V, NEW step, MadeOfEarlier(n, V, step)
    PROVE  \E f : Obeys(f, n, V, step)
  <1> n \in Nat
    BY DEF MadeOfEarlier
  <1> DEFINE Starts(m) == {f \in [1..m -> V] : \A k \in 1..m : f[k] = step[k][[j \in 1..(k - 1) |-> f[j]]]}
             Q == {m \in Nat : m <= n => Starts(m) # {}}
  <1>1. 0 \in Q
    <2>1. [k \in 1..0 |-> 0] \in Starts(0)
      OBVIOUS
    <2> QED
      BY <2>1
  <1>2. ASSUME NEW m \in Nat, m \in Q PROVE m + 1 \in Q
    <2> SUFFICES ASSUME m + 1 <= n PROVE Starts(m + 1) # {}
      <3> HIDE DEF Starts
      <3> QED
        OBVIOUS
    <2>1. PICK f : f \in Starts(m)
      <3> HIDE DEF Starts
      <3>1. m <= n
        OBVIOUS
      <3> QED
        BY <1>2, <3>1
    <2>2. f \in [1..m -> V]
      BY <2>1
    <2> DEFINE g == [k \in 1..(m + 1) |-> IF k = m + 1 THEN step[m + 1][f] ELSE f[k]]
    <2>3. step[m + 1][f] \in V
      <3>1. m + 1 \in 1..n /\ (m + 1) - 1 = m
        OBVIOUS
      <3>2. step[m + 1] \in [[1..m -> V] -> V]
        BY <3>1 DEF MadeOfEarlier
      <3> QED
        BY <2>2, <3>2
    <2>4. g \in [1..(m + 1) -> V]
      BY <2>2, <2>3
    <2>5. ASSUME NEW k \in 1..(m + 1) PROVE g[k] = step[k][[j \in 1..(k - 1) |-> g[j]]]
      <3>1. [j \in 1..(k - 1) |-> g[j]] = [j \in 1..(k - 1) |-> f[j]]
        OBVIOUS
      <3>2. CASE k = m + 1
        <4>1. [j \in 1..(k - 1) |-> f[j]] = f
          BY <2>2, <3>2
        <4> QED
          BY <3>1, <3>2, <4>1
      <3>3. CASE k \in 1..m
        <4>1. f[k] = step[k][[j \in 1..(k - 1) |-> f[j]]]
          BY <2>1, <3>3
        <4>2. g[k] = f[k]
          BY <3>3
        <4> HIDE DEF g
        <4> QED
          BY <3>1, <4>1, <4>2
      <3> QED
        BY <3>2, <3>3
    <2> QED
      BY <2>4, <2>5
  <1> HIDE DEF Q
  <1>3. n \in Q
    BY <1>1, <1>2, NaturalInduction
  <1>4. Starts(n) # {}
    <2> HIDE DEF Starts
    <2> QED
      BY <1>3 DEF Q
  <1> QED
    BY <1>4 DEF Obeys
-------------------------------------------------------------------------------
(* A function that is what its equation says wherever its earlier values    *)
(* are of the right kind obeys the steps.                                   *)
LEMMA ObeysByEquation ==
    ASSUME NEW n, NEW V, NEW step, MadeOfEarlier(n, V, step), NEW f, f = [k \in 1..n |-> f[k]],
           \A k \in 1..n : (\A j \in 1..(k - 1) : f[j] \in V) => f[k] = step[k][[j \in 1..(k - 1) |-> f[j]]]
    PROVE  Obeys(f, n, V, step)
  <1> n \in Nat /\ \A k \in 1..n : step[k] \in [[1..(k - 1) -> V] -> V]
    BY DEF MadeOfEarlier
  <1> DEFINE Q == {m \in Nat : \A k \in 1..n : k <= m => f[k] \in V}
  <1>1. 0 \in Q
    OBVIOUS
  <1>2. ASSUME NEW m \in Nat, m \in Q PROVE m + 1 \in Q
    <2> SUFFICES ASSUME NEW k \in 1..n, k = m + 1 PROVE f[k] \in V
      BY <1>2
    <2>1. \A j \in 1..(k - 1) : f[j] \in V
      BY <1>2
    <2>2. [j \in 1..(k - 1) |-> f[j]] \in [1..(k - 1) -> V]
      BY <2>1
    <2> QED
      BY <2>1, <2>2
  <1> HIDE DEF Q
  <1>3. \A m \in Nat : m \in Q
    BY <1>1, <1>2, NaturalInduction
  <1>4. ASSUME NEW k \in 1..n PROVE f[k] \in V
    <2>1. k \in Nat /\ k <= k /\ k \in Q
      BY <1>3
    <2> QED
      BY <2>1 DEF Q
  <1>5. f \in [1..n -> V]
    BY <1>4
  <1>6. ASSUME NEW k \in 1..n PROVE f[k] = step[k][[j \in 1..(k - 1) |-> f[j]]]
    <2>1. \A j \in 1..(k - 1) : f[j] \in V
      BY <1>4
    <2> QED
      BY <2>1
  <1> QED
    BY <1>5, <1>6 DEF Obeys

(* What a fold chooses is such a function: if its equation makes a step     *)
(* wherever the value before is in S, all its values are in S.              *)
FoldEquation(f, S, n, base, step) ==
    /\ f = [s \in SUBSET (1..n) |-> f[s]]
    /\ f[{}] = base
    /\ \A s \in SUBSET (1..n) : s # {} /\ f[s \ {Max(s)}] \in S =>
          f[s] = step[<<f[s \ {Max(s)}], Max(s)>>]

(* Induction over the size of the set of positions folded.                  *)
LEMMA FoldsByEquation ==
    ASSUME NEW S, NEW n, NEW base, NEW step, StepsWithin(S, n, base, step), NEW f,
           FoldEquation(f, S, n, base, step)
    PROVE  FoldsOver(f, S, n, base, step)
  <1>1. n \in Nat /\ base \in S /\ step \in [S \X (1..n) -> S]
    BY DEF StepsWithin
  <1> DEFINE Q == {k \in Nat : \A s \in SUBSET (1..n) : Cardinality(s) = k => f[s] \in S}
  <1>2. \A s \in SUBSET (1..n) : IsFiniteSet(s) /\ (Cardinality(s) = 0 => s = {})
    <2>1. IsFiniteSet(1..n)
      <3>1. 1 \in Int /\ n \in Int
        BY <1>1
      <3> QED
        BY <3>1, FS_Interval
    <2> QED
      BY <2>1, FS_Subset, FS_EmptySet
  <1>3. 0 \in Q
    BY <1>1, <1>2 DEF FoldEquation
  <1>4. ASSUME NEW k \in Nat, k \in Q PROVE k + 1 \in Q
    <2>1. ASSUME NEW s \in SUBSET (1..n), Cardinality(s) = k + 1 PROVE f[s] \in S
      <3>1. s # {}
        BY <2>1, FS_EmptySet
      <3>2. Max(s) \in s /\ Max(s) \in 1..n
        BY <1>1, <3>1, MaxOfInterval
      <3>3. Cardinality(s \ {Max(s)}) = k
        <4>1. Cardinality(s \ {Max(s)}) = Cardinality(s) - 1
          BY <1>2, <3>2, FS_RemoveElement
        <4> QED
          BY <2>1, <4>1
      <3>4. s \ {Max(s)} \in SUBSET (1..n)
        OBVIOUS
      <3>5. f[s \ {Max(s)}] \in S
        BY <1>4, <3>3, <3>4
      <3>6. f[s] = step[<<f[s \ {Max(s)}], Max(s)>>]
        BY <3>1, <3>5 DEF FoldEquation
      <3> QED
        BY <1>1, <3>2, <3>5, <3>6
    <2>2. k + 1 \in Nat
      OBVIOUS
    <2> QED
      BY <2>1, <2>2
  <1> HIDE DEF Q
  <1>5. \A k \in Nat : k \in Q
    BY <1>3, <1>4, NaturalInduction
  <1>6. \A s \in SUBSET (1..n) : f[s] \in S
    <2> TAKE s \in SUBSET (1..n)
    <2>1. Cardinality(s) \in Nat /\ Cardinality(s) \in Q
      BY <1>2, <1>5, FS_CardinalityType
    <2> QED
      BY <2>1 DEF Q
  <1>7. ASSUME NEW s \in SUBSET (1..n), s # {} PROVE f[s] = step[<<f[s \ {Max(s)}], Max(s)>>]
    <2>1. s \ {Max(s)} \in SUBSET (1..n)
      OBVIOUS
    <2> QED
      BY <1>6, <1>7, <2>1 DEF FoldEquation
  <1>8. f \in [SUBSET (1..n) -> S] /\ f[{}] = base
    BY <1>6 DEF FoldEquation
  <1> QED
    BY <1>7, <1>8 DEF FoldsOver

(* A fold that builds a sequence makes each member of those before it.      *)
AppendsTo(V, n, g) == [p \in Seq(V) \X (1..n) |-> Append(p[1], g[p])]

MadeOf(V, n, g, seq) ==
    /\ seq \in [1..n -> V]
    /\ \A k \in 1..n : \E earlier \in Seq(V) :
          /\ Len(earlier) = k - 1 /\ \A j \in 1..(k - 1) : earlier[j] = seq[j]
          /\ seq[k] = g[<<earlier, k>>]

(* Such a fold is the sequence of its members.                              *)
LEMMA AppendingFold ==
    ASSUME NEW V, NEW n \in Nat, NEW g \in [Seq(V) \X (1..n) -> V], NEW iter,
           FoldsOver(iter, Seq(V), n, <<>>, AppendsTo(V, n, g))
    PROVE  MadeOf(V, n, g, iter[1..n])
  <1> DEFINE step == AppendsTo(V, n, g)
  <1>1. step \in [Seq(V) \X (1..n) -> Seq(V)] /\ <<>> \in Seq(V)
    BY DEF AppendsTo
  <1>2. \A v \in Seq(V), k \in 1..n : step[<<v, k>>] = Append(v, g[<<v, k>>]) /\ g[<<v, k>>] \in V
    BY DEF AppendsTo
  <1> HIDE DEF step
  <1>3. StepsWithin(Seq(V), n, <<>>, step)
    BY <1>1 DEF StepsWithin
  <1>4. /\ iter[1..0] = <<>> /\ \A k \in 0..n : iter[1..k] \in Seq(V)
        /\ \A k \in Nat : k + 1 <= n => iter[1..(k + 1)] = step[<<iter[1..k], k + 1>>]
    BY <1>3, FoldPrefix DEF step
  <1> DEFINE Good(k) == /\ Len(iter[1..k]) = k
                        /\ \A j \in 1..k : iter[1..k][j] = g[<<iter[1..(j - 1)], j>>]
             Q == {k \in Nat : k <= n => Good(k)}
  <1>5. 0 \in Q
    BY <1>4
  <1>6. ASSUME NEW k \in Nat, k \in Q PROVE k + 1 \in Q
    <2> SUFFICES ASSUME k + 1 <= n PROVE Good(k + 1)
      <3> HIDE DEF Good
      <3> QED
        OBVIOUS
    <2>1. Good(k)
      <3> HIDE DEF Good
      <3>1. k <= n
        OBVIOUS
      <3> QED
        BY <1>6, <3>1
    <2> DEFINE v == iter[1..k]
               w == iter[1..(k + 1)]
               e == g[<<v, k + 1>>]
    <2>2. v \in Seq(V) /\ k + 1 \in 1..n /\ Len(v) = k
      <3>1. k \in 0..n /\ k + 1 \in 1..n
        OBVIOUS
      <3> QED
        BY <1>4, <2>1, <3>1
    <2>3. w = Append(v, e) /\ e \in V
      BY <1>2, <1>4, <2>2
    <2>4. \A j \in 1..k : v[j] = g[<<iter[1..(j - 1)], j>>]
      BY <2>1
    <2>5. k + 1 - 1 = k
      OBVIOUS
    <2>6. e = g[<<iter[1..(k + 1 - 1)], k + 1>>]
      BY <2>5
    <2> HIDE DEF v, e, w
    <2>7. Len(w) = k + 1 /\ w[k + 1] = e /\ \A j \in 1..k : w[j] = v[j]
      BY <2>2, <2>3
    <2>8. \A j \in 1..(k + 1) : w[j] = g[<<iter[1..(j - 1)], j>>]
      <3> TAKE j \in 1..(k + 1)
      <3>1. CASE j \in 1..k
        BY <2>4, <2>7, <3>1
      <3>2. CASE j = k + 1
        BY <2>6, <2>7, <3>2
      <3> QED
        BY <3>1, <3>2
    <2> QED
      BY <2>7, <2>8 DEF w
  <1> HIDE DEF Q
  <1>7. \A k \in Nat : k \in Q
    BY <1>5, <1>6, NaturalInduction
  <1>8. \A k \in 0..n : Good(k)
    <2> TAKE k \in 0..n
    <2> HIDE DEF Good
    <2>1. k \in Nat /\ k <= n /\ k \in Q
      BY <1>7
    <2> QED
      BY <2>1 DEF Q
  <1> DEFINE seq == iter[1..n]
  <1>9. n \in 0..n /\ seq \in Seq(V) /\ Len(seq) = n
        /\ \A j \in 1..n : seq[j] = g[<<iter[1..(j - 1)], j>>]
    <2>1. n \in 0..n
      OBVIOUS
    <2> QED
      BY <1>4, <1>8, <2>1
  <1>10. ASSUME NEW k \in 1..n
         PROVE  \E earlier \in Seq(V) :
                   /\ Len(earlier) = k - 1 /\ \A j \in 1..(k - 1) : earlier[j] = seq[j]
                   /\ seq[k] = g[<<earlier, k>>]
    <2> DEFINE pre == iter[1..(k - 1)]
    <2>1. k - 1 \in 0..n
      OBVIOUS
    <2>2. pre \in Seq(V) /\ Len(pre) = k - 1
          /\ \A j \in 1..(k - 1) : pre[j] = g[<<iter[1..(j - 1)], j>>]
      BY <1>4, <1>8, <2>1
    <2>3. \A j \in 1..(k - 1) : pre[j] = seq[j]
      <3> TAKE j \in 1..(k - 1)
      <3>1. j \in 1..n
        OBVIOUS
      <3> QED
        BY <1>9, <2>2, <3>1
    <2>4. seq[k] = g[<<pre, k>>]
      BY <1>9
    <2> HIDE DEF pre, seq
    <2> QED
      BY <2>2, <2>3, <2>4
  <1> HIDE DEF seq
  <1>11. seq \in [1..n -> V]
    BY <1>9
  <1> QED
    BY <1>10, <1>11 DEF MadeOf, seq
-------------------------------------------------------------------------------
(* The values a function takes on a finite set are finitely many.           *)
LEMMA FiniteImage ==
    ASSUME NEW S, IsFiniteSet(S), NEW f
    PROVE  IsFiniteSet({f[i] : i \in S})
  <1> DEFINE g == [i \in S |-> f[i]]
             T == {f[i] : i \in S}
  <1>1. g \in Surjection(S, T)
    BY DEF Surjection
  <1> HIDE DEF g, T
  <1>2. IsFiniteSet(T)
    BY <1>1, FS_Surjection
  <1> QED
    BY <1>2 DEF T
-------------------------------------------------------------------------------
(* Two sequences, one after the other, hold what both hold.                 *)
LEMMA ToSetOfConcat ==
    ASSUME NEW V, NEW a \in Seq(V), NEW b \in Seq(V)
    PROVE  ToSet(a \o b) = ToSet(a) \cup ToSet(b)
  <1> DEFINE c == a \o b
  <1>1. /\ Len(a) \in Nat /\ Len(b) \in Nat /\ DOMAIN a = 1..Len(a) /\ DOMAIN b = 1..Len(b)
        /\ DOMAIN c = 1..(Len(a) + Len(b))
        /\ \A i \in 1..Len(a) : c[i] = a[i]
        /\ \A i \in 1..Len(b) : c[Len(a) + i] = b[i]
    BY ConcatProperties, LenProperties
  <1> HIDE DEF c
  <1>2. ASSUME NEW x \in ToSet(c) PROVE x \in ToSet(a) \cup ToSet(b)
    <2>1. PICK i \in DOMAIN c : x = c[i]
      BY DEF ToSet
    <2>2. CASE i \in 1..Len(a)
      BY <1>1, <2>1, <2>2 DEF ToSet
    <2>3. CASE i \notin 1..Len(a)
      <3>1. i - Len(a) \in 1..Len(b) /\ Len(a) + (i - Len(a)) = i
        BY <1>1, <2>1, <2>3
      <3> QED
        BY <1>1, <2>1, <3>1 DEF ToSet
    <2> QED
      BY <2>2, <2>3
  <1>3. ASSUME NEW i \in DOMAIN a PROVE i \in DOMAIN c /\ c[i] = a[i]
    BY <1>1
  <1>4. ASSUME NEW i \in DOMAIN b PROVE Len(a) + i \in DOMAIN c /\ c[Len(a) + i] = b[i]
    BY <1>1
  <1>5. ToSet(a) \subseteq ToSet(c) /\ ToSet(b) \subseteq ToSet(c)
    BY <1>3, <1>4 DEF ToSet
  <1> QED
    BY <1>2, <1>5 DEF c

(* Flattening puts one sequence after the other.                            *)
LEMMA FlattenSteps ==
    ASSUME NEW V, NEW seqs \in Seq(Seq(V)), Len(seqs) # 0
    PROVE  \E flatten \in [1..Len(seqs) -> Seq(V)] :
              /\ FlattenSeq(seqs) = flatten[Len(seqs)]
              /\ \A i \in 1..Len(seqs) :
                    flatten[i] = IF i = 1 THEN seqs[i] ELSE flatten[i - 1] \o seqs[i]
  <1> DEFINE n == Len(seqs)
             Flat(f) == [i \in 1..Len(seqs) |-> IF i = 1 THEN seqs[i] ELSE f[i - 1] \o seqs[i]]
             flatten == CHOOSE f : f = Flat(f)
             step == [i \in 1..n |-> [g \in [1..(i - 1) -> Seq(V)] |->
                         IF i = 1 THEN seqs[i] ELSE g[i - 1] \o seqs[i]]]
  <1>1. n \in Nat /\ DOMAIN seqs = 1..n /\ \A i \in 1..n : seqs[i] \in Seq(V)
    BY LenProperties, ElementOfSeq
  <1>2. n # 0
    OBVIOUS
  <1>3. FlattenSeq(seqs) = flatten[n]
    BY <1>2 DEF FlattenSeq
  <1>4. MadeOfEarlier(n, Seq(V), step)
    <2>1. ASSUME NEW i \in 1..n, NEW g \in [1..(i - 1) -> Seq(V)]
          PROVE  (IF i = 1 THEN seqs[i] ELSE g[i - 1] \o seqs[i]) \in Seq(V)
      <3>1. CASE i = 1
        BY <1>1, <3>1
      <3>2. CASE i # 1
        <4>1. i - 1 \in 1..(i - 1)
          BY <1>1, <3>2
        <4>2. g[i - 1] \in Seq(V) /\ seqs[i] \in Seq(V)
          BY <1>1, <4>1
        <4> QED
          BY <3>2, <4>2, ConcatProperties
      <3> QED
        BY <3>1, <3>2
    <2> QED
      BY <1>1, <2>1 DEF MadeOfEarlier
  <1>5. ASSUME NEW i \in 1..n, NEW f, \A j \in 1..(i - 1) : f[j] \in Seq(V)
        PROVE  step[i][[j \in 1..(i - 1) |-> f[j]]] = IF i = 1 THEN seqs[i] ELSE f[i - 1] \o seqs[i]
    <2>1. [j \in 1..(i - 1) |-> f[j]] \in [1..(i - 1) -> Seq(V)]
      BY <1>5
    <2>2. i # 1 => i - 1 \in 1..(i - 1)
      BY <1>1
    <2> QED
      BY <2>1, <2>2
  <1> HIDE DEF step
  <1>6. \E f : f = Flat(f)
    <2>1. PICK f : Obeys(f, n, Seq(V), step)
      BY <1>4, RecursionExists
    <2>2. f = [i \in 1..n |-> f[i]] /\ \A i \in 1..n : f[i] \in Seq(V)
      BY <2>1 DEF Obeys
    <2>3. \A i \in 1..n : f[i] = IF i = 1 THEN seqs[i] ELSE f[i - 1] \o seqs[i]
      <3> TAKE i \in 1..n
      <3>1. \A j \in 1..(i - 1) : f[j] \in Seq(V)
        BY <1>1, <2>2
      <3>2. f[i] = step[i][[j \in 1..(i - 1) |-> f[j]]]
        BY <2>1 DEF Obeys
      <3> QED
        BY <1>5, <3>1, <3>2
    <2> QED
      BY <2>2, <2>3
  <1>7. flatten = Flat(flatten)
    BY <1>6
  <1> HIDE DEF flatten
  <1>8. Obeys(flatten, n, Seq(V), step)
    <2>1. flatten = [k \in 1..n |-> flatten[k]]
      BY <1>7
    <2>2. \A k \in 1..n : (\A j \in 1..(k - 1) : flatten[j] \in Seq(V)) =>
             flatten[k] = step[k][[j \in 1..(k - 1) |-> flatten[j]]]
      BY <1>5, <1>7
    <2> QED
      BY <1>4, <2>1, <2>2, ObeysByEquation
  <1>9. \A i \in 1..n : /\ flatten[i] \in Seq(V)
                        /\ flatten[i] = IF i = 1 THEN seqs[i] ELSE flatten[i - 1] \o seqs[i]
    BY <1>7, <1>8 DEF Obeys
  <1>10. flatten \in [1..n -> Seq(V)]
    BY <1>7, <1>9
  <1> QED
    BY <1>3, <1>9, <1>10

(* A sequence of sequences, flattened, holds what they hold.                *)
LEMMA Flattened ==
    ASSUME NEW V, NEW seqs \in Seq(Seq(V))
    PROVE  /\ FlattenSeq(seqs) \in Seq(V)
           /\ ToSet(FlattenSeq(seqs)) = UNION {ToSet(seqs[i]) : i \in DOMAIN seqs}
  <1> DEFINE n == Len(seqs)
             Holding(i) == UNION {ToSet(seqs[j]) : j \in 1..i}
  <1>1. n \in Nat /\ DOMAIN seqs = 1..n /\ \A i \in 1..n : seqs[i] \in Seq(V)
    BY LenProperties, ElementOfSeq
  <1>2. CASE n = 0
    <2>1. seqs = <<>> /\ DOMAIN seqs = {}
      BY <1>1, <1>2, EmptySeq
    <2>2. FlattenSeq(seqs) = <<>>
      BY <1>2, <2>1 DEF FlattenSeq
    <2>3. ToSet(<<>>) = {}
      BY DEF ToSet
    <2>4. UNION {ToSet(seqs[i]) : i \in {}} = {}
      OBVIOUS
    <2>5. <<>> \in Seq(V)
      OBVIOUS
    <2> QED
      BY <2>1, <2>2, <2>3, <2>4, <2>5, Zenon
  <1>3. CASE n # 0
    <2>1. PICK flatten \in [1..n -> Seq(V)] :
             /\ FlattenSeq(seqs) = flatten[n]
             /\ \A i \in 1..n : flatten[i] = IF i = 1 THEN seqs[i] ELSE flatten[i - 1] \o seqs[i]
      BY <1>3, FlattenSteps
    <2>2. \A i \in 1..n : /\ flatten[i] \in Seq(V)
                          /\ flatten[i] = IF i = 1 THEN seqs[i] ELSE flatten[i - 1] \o seqs[i]
      BY <2>1
    <2> DEFINE Q == {m \in Nat : m + 1 <= n => ToSet(flatten[m + 1]) = Holding(m + 1)}
    <2>3. 0 \in Q
      <3>1. 1 \in 1..n
        BY <1>1, <1>3
      <3>2. flatten[1] = seqs[1]
        BY <2>2, <3>1
      <3>3. Holding(1) = ToSet(seqs[1])
        <4>1. 1..1 = {1}
          OBVIOUS
        <4> QED
          BY <4>1
      <3> QED
        BY <3>2, <3>3
    <2>4. ASSUME NEW m \in Nat, m \in Q PROVE m + 1 \in Q
      <3> HIDE DEF n, Holding
      <3> SUFFICES ASSUME m + 2 <= n PROVE ToSet(flatten[m + 2]) = Holding(m + 2)
        <4>1. m + 1 \in Nat /\ m + 1 + 1 = m + 2
          OBVIOUS
        <4> QED
          BY <4>1
      <3>1. m + 1 \in 1..n /\ m + 2 \in 1..n /\ m + 2 # 1 /\ m + 2 - 1 = m + 1
        BY <1>1
      <3>2. ToSet(flatten[m + 1]) = Holding(m + 1)
        <4>1. m + 1 <= n
          BY <1>1
        <4> QED
          BY <2>4, <4>1
      <3>3. /\ flatten[m + 2] = flatten[m + 1] \o seqs[m + 2]
            /\ flatten[m + 1] \in Seq(V) /\ seqs[m + 2] \in Seq(V)
        <4> DEFINE k == m + 2
        <4>1. k \in 1..n /\ k # 1 /\ k - 1 = m + 1 /\ k - 1 \in 1..n
          BY <3>1
        <4> HIDE DEF k
        <4>2. flatten[k] = flatten[k - 1] \o seqs[k] /\ flatten[k - 1] \in Seq(V) /\ seqs[k] \in Seq(V)
          BY <1>1, <2>2, <4>1
        <4> QED
          BY <4>1, <4>2 DEF k
      <3>4. ToSet(flatten[m + 1] \o seqs[m + 2]) = ToSet(flatten[m + 1]) \cup ToSet(seqs[m + 2])
        BY <3>3, ToSetOfConcat
      <3>5. Holding(m + 2) = Holding(m + 1) \cup ToSet(seqs[m + 2])
        <4>1. 1..(m + 2) = 1..(m + 1) \cup {m + 2}
          OBVIOUS
        <4> QED
          BY <4>1 DEF Holding
      <3> QED
        BY <3>2, <3>3, <3>4, <3>5
    <2> HIDE DEF Q
    <2>5. n - 1 \in Q
      <3>1. n - 1 \in Nat
        BY <1>1, <1>3
      <3> QED
        BY <2>3, <2>4, <3>1, NaturalInduction
    <2>6. ToSet(flatten[n]) = Holding(n) /\ flatten[n] \in Seq(V)
      <3>1. n - 1 + 1 = n /\ n <= n /\ n \in 1..n
        BY <1>1, <1>3
      <3> HIDE DEF Holding, n
      <3> QED
        BY <2>2, <2>5, <3>1 DEF Q
    <2> QED
      BY <1>1, <2>1, <2>6
  <1> QED
    BY <1>2, <1>3

(* Where each of n stretches of the given lengths ends, laid end to end.    *)
Places(at, n, lens) ==
    /\ n \in Nat /\ lens \in [1..n -> Nat]
    /\ at \in [0..n -> Nat] /\ at[0] = 0
    /\ \A i \in 1..n : at[i] = at[i - 1] + lens[i]

(* Stretches can be laid end to end.                                        *)
LEMMA PlacesExist ==
    ASSUME NEW n \in Nat, NEW lens \in [1..n -> Nat]
    PROVE  \E at : Places(at, n, lens)
  <1> DEFINE Start(at, m) == /\ at \in [0..m -> Nat] /\ at[0] = 0
                             /\ \A i \in 1..m : at[i] = at[i - 1] + lens[i]
             Q == {m \in Nat : m <= n => \E at : Start(at, m)}
  <1>1. 0 \in Q
    <2>1. Start([i \in 0..0 |-> 0], 0)
      OBVIOUS
    <2> QED
      BY <2>1
  <1>2. ASSUME NEW m \in Nat, m \in Q PROVE m + 1 \in Q
    <2> HIDE DEF Start
    <2> SUFFICES ASSUME m + 1 <= n PROVE \E at : Start(at, m + 1)
      OBVIOUS
    <2>1. PICK at : Start(at, m)
      <3>1. m <= n
        OBVIOUS
      <3> QED
        BY <1>2, <3>1
    <2> USE DEF Start
    <2> DEFINE new == [i \in 0..(m + 1) |-> IF i <= m THEN at[i] ELSE at[m] + lens[m + 1]]
    <2>2. lens[m + 1] \in Nat /\ at[m] \in Nat
      BY <2>1
    <2>3. new \in [0..(m + 1) -> Nat] /\ new[0] = 0
      BY <2>1, <2>2
    <2>4. ASSUME NEW i \in 1..(m + 1) PROVE new[i] = new[i - 1] + lens[i]
      <3>1. CASE i = m + 1
        BY <2>1, <2>2, <3>1
      <3>2. CASE i # m + 1
        BY <2>1, <3>2
      <3> QED
        BY <3>1, <3>2
    <2> HIDE DEF new
    <2> QED
      BY <2>3, <2>4
  <1> HIDE DEF Q
  <1>3. n \in Q
    BY <1>1, <1>2, NaturalInduction
  <1> HIDE DEF Start
  <1>4. \E at : Start(at, n)
    BY <1>3 DEF Q
  <1>5. PICK at : Start(at, n)
    BY <1>4
  <1> QED
    BY <1>5 DEF Places, Start

(* A later stretch ends later.                                              *)
LEMMA PlacesGrow ==
    ASSUME NEW at, NEW n, NEW lens, Places(at, n, lens), NEW i \in 0..n, NEW j \in 0..n, i <= j
    PROVE  at[i] <= at[j]
  <1> DEFINE Q == {m \in Nat : i + m <= n => at[i] <= at[i + m]}
  <1>1. 0 \in Q
    BY DEF Places
  <1>2. ASSUME NEW m \in Nat, m \in Q PROVE m + 1 \in Q
    <2> SUFFICES ASSUME i + (m + 1) <= n PROVE at[i] <= at[i + (m + 1)]
      OBVIOUS
    <2> DEFINE k == i + (m + 1)
    <2>1. k \in 1..n /\ k - 1 = i + m /\ k - 1 \in 0..n /\ i + m <= n
      BY DEF Places
    <2>2. at[k] = at[k - 1] + lens[k] /\ lens[k] \in Nat /\ at[k - 1] \in Nat /\ at[i] \in Nat
      BY <2>1 DEF Places
    <2>3. at[i] <= at[k - 1]
      BY <1>2, <2>1
    <2> HIDE DEF k
    <2>4. at[i] <= at[k]
      BY <2>2, <2>3
    <2> QED
      BY <2>4 DEF k
  <1> HIDE DEF Q
  <1>3. j - i \in Q
    <2>1. j - i \in Nat
      BY DEF Places
    <2> QED
      BY <1>1, <1>2, <2>1, NaturalInduction
  <1> QED
    BY <1>3 DEF Q, Places

(* Every place is in a stretch.                                             *)
LEMMA PlaceOf ==
    ASSUME NEW at, NEW n, NEW lens, Places(at, n, lens), NEW p \in 1..at[n]
    PROVE  \E i \in 1..n : \E k \in 1..lens[i] : p = at[i - 1] + k
  <1> DEFINE Q == {m \in Nat : m <= n /\ p <= at[m] =>
                      \E i \in 1..n : \E k \in 1..lens[i] : p = at[i - 1] + k}
  <1>1. 0 \in Q
    BY DEF Places
  <1>2. ASSUME NEW m \in Nat, m \in Q PROVE m + 1 \in Q
    <2> SUFFICES ASSUME m + 1 <= n, p <= at[m + 1]
                 PROVE  \E i \in 1..n : \E k \in 1..lens[i] : p = at[i - 1] + k
      OBVIOUS
    <2> DEFINE j == m + 1
    <2>1. j \in 1..n /\ j - 1 = m /\ m \in 0..n /\ m <= n
      BY DEF Places
    <2>2. at[j] = at[j - 1] + lens[j] /\ lens[j] \in Nat /\ at[j - 1] \in Nat
      BY <2>1 DEF Places
    <2>3. CASE p <= at[m]
      BY <1>2, <2>1, <2>3
    <2>4. CASE ~(p <= at[m])
      <3>1. p <= at[j] /\ ~(p <= at[j - 1])
        BY <2>1, <2>4
      <3> HIDE DEF j
      <3>2. p - at[j - 1] \in 1..lens[j] /\ p = at[j - 1] + (p - at[j - 1])
        BY <2>2, <3>1
      <3> QED
        BY <2>1, <3>2
    <2> QED
      BY <2>3, <2>4
  <1> HIDE DEF Q
  <1>3. n \in Q
    BY <1>1, <1>2, NaturalInduction DEF Places
  <1> QED
    BY <1>3 DEF Q, Places

(* In one only.                                                             *)
LEMMA OnePlace ==
    ASSUME NEW at, NEW n, NEW lens, Places(at, n, lens), NEW i \in 1..n, NEW k \in 1..lens[i]
    PROVE  /\ at[i - 1] + k \in 1..at[n]
           /\ \A j \in 1..n : \A l \in 1..lens[j] : at[i - 1] + k = at[j - 1] + l => i = j /\ k = l
  <1>1. \A j \in 1..n : /\ j - 1 \in 0..n /\ j \in 0..n /\ lens[j] \in Nat
                        /\ at[j - 1] \in Nat /\ at[j] = at[j - 1] + lens[j]
    BY DEF Places
  <1>2. n \in 0..n /\ n \in Nat /\ at[n] \in Nat
    BY DEF Places
  <1>3. at[i] <= at[n]
    BY <1>1, <1>2, PlacesGrow
  <1>4. \A j, l \in 1..n : j < l => at[j] <= at[l - 1]
    <2> TAKE j, l \in 1..n
    <2> SUFFICES ASSUME j < l PROVE at[j] <= at[l - 1]
      OBVIOUS
    <2>1. j <= l - 1
      BY <1>2
    <2> QED
      BY <1>1, <2>1, PlacesGrow
  <1>5. at[i - 1] + k \in 1..at[n]
    BY <1>1, <1>2, <1>3
  <1>6. ASSUME NEW j \in 1..n, NEW l \in 1..lens[j], at[i - 1] + k = at[j - 1] + l
        PROVE  i = j /\ k = l
    <2>1. ~(i < j)
      <3> SUFFICES ASSUME i < j PROVE FALSE
        OBVIOUS
      <3>1. at[i] <= at[j - 1]
        BY <1>4
      <3> QED
        BY <1>1, <1>6, <3>1
    <2>2. ~(j < i)
      <3> SUFFICES ASSUME j < i PROVE FALSE
        OBVIOUS
      <3>1. at[j] <= at[i - 1]
        BY <1>4
      <3> QED
        BY <1>1, <1>6, <3>1
    <2>3. i = j
      BY <1>2, <2>1, <2>2
    <2> QED
      BY <1>1, <1>6, <2>3
  <1> QED
    BY <1>5, <1>6

(* Each sequence keeps its order in the flattened one.                      *)
LEMMA FlattenedPlaces ==
    ASSUME NEW V, NEW seqs \in Seq(Seq(V)), NEW at,
           Places(at, Len(seqs), [i \in 1..Len(seqs) |-> Len(seqs[i])])
    PROVE  /\ Len(FlattenSeq(seqs)) = at[Len(seqs)]
           /\ \A i \in 1..Len(seqs) : \A k \in 1..Len(seqs[i]) :
                 FlattenSeq(seqs)[at[i - 1] + k] = seqs[i][k]
  <1> DEFINE n == Len(seqs)
             lens == [i \in 1..n |-> Len(seqs[i])]
  <1>1. n \in Nat /\ DOMAIN seqs = 1..n
        /\ \A i \in 1..n : seqs[i] \in Seq(V) /\ Len(seqs[i]) \in Nat /\ lens[i] = Len(seqs[i])
    BY LenProperties, ElementOfSeq
  <1>2. CASE n = 0
    <2>1. seqs = <<>>
      BY <1>1, <1>2, EmptySeq
    <2>2. FlattenSeq(seqs) = <<>>
      BY <1>2, <2>1 DEF FlattenSeq
    <2>3. at[n] = 0
      BY <1>2 DEF Places
    <2> QED
      BY <1>2, <2>2, <2>3
  <1>3. CASE n # 0
    <2>1. PICK flatten \in [1..n -> Seq(V)] :
             /\ FlattenSeq(seqs) = flatten[n]
             /\ \A i \in 1..n : flatten[i] = IF i = 1 THEN seqs[i] ELSE flatten[i - 1] \o seqs[i]
      BY <1>3, FlattenSteps
    <2> DEFINE Fits(m) == /\ Len(flatten[m]) = at[m]
                          /\ \A i \in 1..m : \A k \in 1..Len(seqs[i]) :
                                flatten[m][at[i - 1] + k] = seqs[i][k]
               Q == {m \in Nat : m + 1 <= n => Fits(m + 1)}
    <2>2. \A i \in 1..n : at[i] = at[i - 1] + Len(seqs[i]) /\ at[i - 1] \in Nat
      <3>1. Places(at, n, lens)
        OBVIOUS
      <3> HIDE DEF n, lens
      <3>2. \A i \in 1..n : at[i] = at[i - 1] + lens[i] /\ at[i - 1] \in Nat
        BY <1>1, <3>1 DEF Places
      <3> QED
        BY <1>1, <3>2
    <2>3. Fits(1)
      <3>1. 1 \in 1..n /\ 1 - 1 = 0 /\ at[0] = 0
        BY <1>1, <1>3 DEF Places
      <3>2. flatten[1] = seqs[1] /\ at[1] = Len(seqs[1])
        BY <1>1, <2>1, <2>2, <3>1
      <3>3. \A i \in 1..1 : i = 1
        OBVIOUS
      <3> HIDE DEF n, lens
      <3> QED
        BY <3>1, <3>2, <3>3
    <2>4. ASSUME NEW m \in 1..n, m + 1 \in 1..n, Fits(m) PROVE Fits(m + 1)
      <3> DEFINE j == m + 1
      <3>1. j \in 1..n /\ j # 1 /\ j - 1 = m /\ 1..j = 1..m \cup {j}
        BY <1>1, <2>4
      <3>2. flatten[j] = flatten[m] \o seqs[j] /\ flatten[m] \in Seq(V) /\ seqs[j] \in Seq(V)
            /\ at[j] = at[m] + Len(seqs[j]) /\ at[m] \in Nat
        <4> HIDE DEF j
        <4> QED
          BY <1>1, <2>1, <2>2, <3>1
      <3> HIDE DEF j
      <3>3. /\ Len(flatten[j]) = Len(flatten[m]) + Len(seqs[j])
            /\ \A p \in 1..Len(flatten[m]) : flatten[j][p] = flatten[m][p]
            /\ \A p \in 1..Len(seqs[j]) : flatten[j][Len(flatten[m]) + p] = seqs[j][p]
        BY <3>2, ConcatProperties, LenProperties
      <3>4. Len(flatten[m]) = at[m]
        BY <2>4
      <3>5. ASSUME NEW i \in 1..m, NEW k \in 1..Len(seqs[i])
            PROVE  flatten[j][at[i - 1] + k] = seqs[i][k]
        <4>1. i \in 1..n /\ i \in 0..n /\ m \in 0..n /\ i <= m
          BY <1>1
        <4>2. at[i] <= at[m]
          BY <4>1, PlacesGrow
        <4> DEFINE a == at[i - 1]
                   len == Len(seqs[i])
        <4>3. at[i] = a + len /\ a \in Nat /\ len \in Nat
          BY <1>1, <2>2, <4>1
        <4>4. a + k \in 1..at[m]
          <5> HIDE DEF a, n
          <5> QED
            BY <3>2, <4>2, <4>3
        <4> HIDE DEF a
        <4> QED
          BY <2>4, <3>3, <3>4, <4>4 DEF a
      <3>6. Len(flatten[j]) = at[j]
        BY <3>2, <3>3, <3>4
      <3>7. \A k \in 1..Len(seqs[j]) : flatten[j][at[j - 1] + k] = seqs[j][k]
        BY <3>1, <3>3, <3>4
      <3>8. Fits(j)
        BY <3>1, <3>5, <3>6, <3>7
      <3> QED
        BY <3>8 DEF j
    <2>5. 0 \in Q
      BY <2>3
    <2>6. ASSUME NEW m \in Nat, m \in Q PROVE m + 1 \in Q
      <3> HIDE DEF Fits
      <3> SUFFICES ASSUME (m + 1) + 1 <= n PROVE Fits((m + 1) + 1)
        OBVIOUS
      <3> DEFINE j == m + 1
      <3>1. j \in 1..n /\ j + 1 \in 1..n /\ j <= n
        BY <1>1
      <3>2. Fits(j)
        BY <2>6, <3>1
      <3> HIDE DEF j
      <3>3. Fits(j + 1)
        BY <2>4, <3>1, <3>2
      <3> QED
        BY <3>3 DEF j
    <2> HIDE DEF Q, Fits
    <2>7. n - 1 \in Q
      <3>1. n - 1 \in Nat
        BY <1>1, <1>3
      <3> QED
        BY <2>5, <2>6, <3>1, NaturalInduction
    <2>8. Fits(n)
      <3>1. (n - 1) + 1 = n /\ n <= n
        BY <1>1
      <3> QED
        BY <2>7, <3>1 DEF Q
    <2> QED
      BY <2>1, <2>8 DEF Fits
  <1> QED
    BY <1>2, <1>3

(* A sequence of the members of S, each once.                               *)
Permutes(order, S) ==
    /\ order \in Seq(S)
    /\ \A x \in S : \E k \in DOMAIN order : order[k] = x
    /\ \A k, l \in DOMAIN order : order[k] = order[l] => k = l

(* Sequences that hold every member of V once, flattened, permute V.        *)
LEMMA FlattenedPermutes ==
    ASSUME NEW V, NEW seqs \in Seq(Seq(V)),
           \A i, j \in DOMAIN seqs : \A k \in DOMAIN seqs[i] : \A l \in DOMAIN seqs[j] :
              seqs[i][k] = seqs[j][l] => i = j /\ k = l
    PROVE  /\ FlattenSeq(seqs) \in Seq(V)
           /\ \A k, l \in DOMAIN FlattenSeq(seqs) : FlattenSeq(seqs)[k] = FlattenSeq(seqs)[l] => k = l
           /\ (\A x \in V : \E i \in DOMAIN seqs : \E k \in DOMAIN seqs[i] : seqs[i][k] = x)
                 => Permutes(FlattenSeq(seqs), V)
  <1> DEFINE n == Len(seqs)
             lens == [i \in 1..n |-> Len(seqs[i])]
             flat == FlattenSeq(seqs)
  <1>1. n \in Nat /\ DOMAIN seqs = 1..n
        /\ \A i \in 1..n : seqs[i] \in Seq(V) /\ Len(seqs[i]) \in Nat /\ DOMAIN seqs[i] = 1..Len(seqs[i])
    BY LenProperties, ElementOfSeq
  <1>2. flat \in Seq(V) /\ ToSet(flat) = UNION {ToSet(seqs[i]) : i \in DOMAIN seqs}
    BY Flattened
  <1>3. lens \in [1..n -> Nat] /\ \A i \in 1..n : lens[i] = Len(seqs[i]) /\ DOMAIN seqs[i] = 1..lens[i]
    BY <1>1
  <1>4. PICK at : Places(at, n, lens)
    BY <1>1, <1>3, PlacesExist
  <1>5. Len(flat) = at[n] /\ \A i \in 1..n : \A k \in 1..lens[i] : flat[at[i - 1] + k] = seqs[i][k]
    BY <1>1, <1>3, <1>4, FlattenedPlaces
  <1>6. DOMAIN flat = 1..at[n]
    BY <1>2, <1>5, LenProperties
  <1> HIDE DEF flat, lens, n
  <1>7. \A p, q \in DOMAIN flat : flat[p] = flat[q] => p = q
    <2> TAKE p, q \in DOMAIN flat
    <2> HAVE flat[p] = flat[q]
    <2>0. p \in 1..at[n] /\ q \in 1..at[n]
      BY <1>6
    <2> DEFINE In(x) == \E i \in 1..n : \E k \in 1..lens[i] : x = at[i - 1] + k
    <2>10. In(p) /\ In(q)
      <3>1. \A x \in 1..at[n] : In(x)
        BY <1>4, PlaceOf
      <3> HIDE DEF In
      <3> QED
        BY <2>0, <3>1
    <2>1. PICK i \in 1..n : \E k \in 1..lens[i] : p = at[i - 1] + k
      BY <2>10
    <2>2. PICK k \in 1..lens[i] : p = at[i - 1] + k
      BY <2>1
    <2>3. PICK j \in 1..n : \E l \in 1..lens[j] : q = at[j - 1] + l
      BY <2>10
    <2>4. PICK l \in 1..lens[j] : q = at[j - 1] + l
      BY <2>3
    <2>5. seqs[i][k] = seqs[j][l]
      BY <1>5, <2>2, <2>4
    <2>6. i \in DOMAIN seqs /\ j \in DOMAIN seqs /\ k \in DOMAIN seqs[i] /\ l \in DOMAIN seqs[j]
      BY <1>1, <1>3
    <2>7. i = j /\ k = l
      BY <2>5, <2>6
    <2> QED
      BY <2>2, <2>4, <2>7
  <1>8. ASSUME \A x \in V : \E i \in DOMAIN seqs : \E k \in DOMAIN seqs[i] : seqs[i][k] = x
        PROVE  Permutes(flat, V)
    <2>1. \A x \in V : \E k \in DOMAIN flat : flat[k] = x
      <3> TAKE x \in V
      <3>1. PICK i \in DOMAIN seqs : \E k \in DOMAIN seqs[i] : seqs[i][k] = x
        BY <1>8
      <3>2. x \in ToSet(seqs[i])
        BY <3>1 DEF ToSet
      <3>3. x \in ToSet(flat)
        BY <1>2, <3>2
      <3> QED
        BY <3>3 DEF ToSet
    <2> QED
      BY <1>2, <1>7, <2>1 DEF Permutes
  <1> QED
    BY <1>2, <1>7, <1>8 DEF flat

(* Two lists without a common member, one after the other.                  *)
LEMMA DistinctConcat ==
    ASSUME NEW V, NEW s \in Seq(V), NEW t \in Seq(V),
           \A i, j \in DOMAIN s : s[i] = s[j] => i = j,
           \A i, j \in DOMAIN t : t[i] = t[j] => i = j,
           \A i \in DOMAIN s, j \in DOMAIN t : s[i] # t[j]
    PROVE  \A i, j \in DOMAIN (s \o t) : (s \o t)[i] = (s \o t)[j] => i = j
  <1> DEFINE m == Len(s)
             n == Len(t)
             both == s \o t
  <1>1. m \in Nat /\ n \in Nat /\ DOMAIN s = 1..m /\ DOMAIN t = 1..n
    BY LenProperties
  <1>2. /\ DOMAIN both = 1..(m + n)
        /\ \A i \in 1..m : both[i] = s[i]
        /\ \A i \in 1..n : both[m + i] = t[i]
    BY <1>1
  <1> HIDE DEF m, n, both
  <1>3. \A i \in DOMAIN both : i \in 1..m \/ (i - m \in 1..n /\ m + (i - m) = i)
    BY <1>1, <1>2
  <1>4. ASSUME NEW i \in DOMAIN both, NEW j \in DOMAIN both, both[i] = both[j] PROVE i = j
    <2>1. CASE i \in 1..m /\ j \in 1..m
      BY <1>1, <1>2, <1>4, <2>1
    <2>2. CASE i \in 1..m /\ j \notin 1..m
      <3>1. both[i] = s[i] /\ both[j] = t[j - m] /\ j - m \in 1..n
        BY <1>2, <1>3, <2>2
      <3> QED
        BY <1>1, <1>4, <2>2, <3>1
    <2>3. CASE i \notin 1..m /\ j \in 1..m
      <3>1. both[j] = s[j] /\ both[i] = t[i - m] /\ i - m \in 1..n
        BY <1>2, <1>3, <2>3
      <3> QED
        BY <1>1, <1>4, <2>3, <3>1
    <2>4. CASE i \notin 1..m /\ j \notin 1..m
      <3>1. /\ both[i] = t[i - m] /\ both[j] = t[j - m] /\ i - m \in 1..n /\ j - m \in 1..n
            /\ m + (i - m) = i /\ m + (j - m) = j
        BY <1>2, <1>3, <2>4
      <3>2. i - m = j - m
        BY <1>1, <1>4, <3>1
      <3> QED
        BY <3>1, <3>2
    <2> QED
      BY <2>1, <2>2, <2>3, <2>4
  <1> QED
    BY <1>4 DEF both

(* What holds of a node if it holds of all of lower rank holds of all.      *)
LEMMA RankInduction ==
    ASSUME NEW V, NEW rank \in [V -> Nat], NEW Good,
           \A n \in V : (\A m \in V : rank[m] < rank[n] => m \in Good) => n \in Good
    PROVE  V \subseteq Good
  <1> DEFINE Q == {k \in Nat : \A n \in V : rank[n] < k => n \in Good}
  <1>1. 0 \in Q
    OBVIOUS
  <1>2. ASSUME NEW k \in Nat, k \in Q PROVE k + 1 \in Q
    <2> SUFFICES ASSUME NEW n \in V, rank[n] < k + 1 PROVE n \in Good
      OBVIOUS
    <2>1. \A m \in V : rank[m] < rank[n] => rank[m] < k
      OBVIOUS
    <2>2. \A m \in V : rank[m] < k => m \in Good
      BY <1>2
    <2> QED
      BY <2>1, <2>2
  <1> HIDE DEF Q
  <1>3. \A k \in Nat : k \in Q
    BY <1>1, <1>2, NaturalInduction
  <1>4. ASSUME NEW n \in V PROVE n \in Good
    <2>1. rank[n] + 1 \in Nat /\ rank[n] < rank[n] + 1
      OBVIOUS
    <2>2. rank[n] + 1 \in Q
      BY <1>3, <2>1
    <2> QED
      BY <2>1, <2>2 DEF Q
  <1> QED
    BY <1>4

(* Sets that flow along the edges of a graph: to[n] holds base[n] and, over *)
(* each edge of into[n], the image of what is at the edge's other end.      *)
FlowOver(e, S, act) == {act[e][p] : p \in S}
FlowInto(to, n, base, into, end, act) ==
    base[n] \cup UNION {FlowOver(e, to[end[e]], act) : e \in into[n]}

FlowDown(V, P, X, base, into, end, act, rank, top) ==
    /\ base \in [V -> SUBSET P] /\ into \in [V -> SUBSET X] /\ act \in [X -> [P -> P]]
    /\ rank \in [V -> Nat] /\ top \in Nat /\ \A n \in V : rank[n] <= top
    /\ \A n \in V : \A e \in into[n] : end[e] \in V /\ rank[end[e]] < rank[n]

(* Without a loop such sets exist.                                          *)
LEMMA FlowExists ==
    ASSUME NEW V, NEW P, NEW X, NEW base, NEW into, NEW end, NEW act, NEW rank, NEW top,
           FlowDown(V, P, X, base, into, end, act, rank, top)
    PROVE  \E to \in [V -> SUBSET P] : \A n \in V : to[n] = FlowInto(to, n, base, into, end, act)
  <1> DEFINE Sol(k) == {to \in [V -> SUBSET P] :
                          \A n \in V : rank[n] < k => to[n] = FlowInto(to, n, base, into, end, act)}
             Q == {k \in Nat : Sol(k) # {}}
  <1>1. 0 \in Q
    <2>1. [n \in V |-> {}] \in Sol(0)
      BY DEF FlowDown
    <2> QED
      BY <2>1
  <1>2. ASSUME NEW k \in Nat, k \in Q PROVE k + 1 \in Q
    <2>1. PICK f \in [V -> SUBSET P] : \A n \in V : rank[n] < k => f[n] = FlowInto(f, n, base, into, end, act)
      BY <1>2
    <2> DEFINE g == [n \in V |-> FlowInto(f, n, base, into, end, act)]
    <2>2. ASSUME NEW n \in V PROVE g[n] \in SUBSET P
      <3>1. ASSUME NEW e \in into[n] PROVE FlowOver(e, f[end[e]], act) \subseteq P
        BY <3>1 DEF FlowOver, FlowDown
      <3>2. base[n] \subseteq P
        BY DEF FlowDown
      <3> QED
        BY <3>1, <3>2 DEF FlowInto
    <2>3. ASSUME NEW n \in V, rank[n] < k + 1 PROVE g[n] = FlowInto(g, n, base, into, end, act)
      <3>1. ASSUME NEW e \in into[n] PROVE f[end[e]] = g[end[e]]
        <4>1. end[e] \in V /\ rank[end[e]] < rank[n] /\ rank[end[e]] \in Nat /\ rank[n] \in Nat
          BY <3>1 DEF FlowDown
        <4>2. rank[end[e]] < k
          BY <2>3, <4>1
        <4> QED
          BY <2>1, <4>1, <4>2
      <3>2. g[n] = FlowInto(f, n, base, into, end, act)
        OBVIOUS
      <3> HIDE DEF g
      <3> QED
        BY <3>1, <3>2 DEF FlowInto
    <2>4. g \in Sol(k + 1)
      <3>1. g \in [V -> SUBSET P]
        BY <2>2
      <3> HIDE DEF g
      <3> QED
        BY <2>3, <3>1
    <2> HIDE DEF Sol
    <2> QED
      BY <2>4
  <1>3. \A k \in Nat : k \in Q
    <2> HIDE DEF Q
    <2> QED
      BY <1>1, <1>2, NaturalInduction
  <1>4. top + 1 \in Q
    BY <1>3 DEF FlowDown
  <1>5. PICK to \in [V -> SUBSET P] :
           \A n \in V : rank[n] < top + 1 => to[n] = FlowInto(to, n, base, into, end, act)
    BY <1>4
  <1>6. \A n \in V : rank[n] < top + 1
    BY DEF FlowDown
  <1> QED
    BY <1>5, <1>6

(* If only finitely much flows from each node, every node holds finitely    *)
(* much: over[e] is what flows over edge e.                                 *)
FiniteSubsets(P) == {S \in SUBSET P : IsFiniteSet(S)}

Flows(over, E) == UNION {over[e] : e \in E}

FiniteFlow(V, P, rank, f, base, into, end, over) ==
    /\ rank \in [V -> Nat]
    /\ \A n \in V : /\ base[n] \in FiniteSubsets(P) /\ IsFiniteSet(into[n])
                     /\ f[n] = base[n] \cup Flows(over, into[n])
    /\ \A n \in V : \A e \in into[n] :
          /\ end[e] \in V /\ rank[end[e]] < rank[n]
          /\ f[end[e]] \in FiniteSubsets(P) => over[e] \in FiniteSubsets(P)

LEMMA FlowFinite ==
    ASSUME NEW V, NEW P, NEW rank, NEW f, NEW base, NEW into, NEW end, NEW over,
           FiniteFlow(V, P, rank, f, base, into, end, over)
    PROVE  \A n \in V : f[n] \in FiniteSubsets(P)
  <1> USE DEF FiniteFlow
  <1> DEFINE Good == {n \in V : f[n] \in FiniteSubsets(P)}
  <1>1. ASSUME NEW n \in V, \A m \in V : rank[m] < rank[n] => m \in Good
        PROVE  n \in Good
    <2> DEFINE flows == {over[e] : e \in into[n]}
    <2>1. \A e \in into[n] : over[e] \in FiniteSubsets(P)
      BY <1>1
    <2>2. IsFiniteSet(flows)
      <3> DEFINE I == into[n]
      <3>1. IsFiniteSet(I)
        OBVIOUS
      <3> HIDE DEF I
      <3>2. IsFiniteSet({over[e] : e \in I})
        BY <3>1, FiniteImage
      <3> QED
        BY <3>2 DEF I
    <2>3. \A S \in flows : S \in SUBSET P /\ IsFiniteSet(S)
      BY <2>1 DEF FiniteSubsets
    <2>4. f[n] = base[n] \cup UNION flows
      BY DEF Flows
    <2> HIDE DEF flows
    <2>5. IsFiniteSet(UNION flows) /\ UNION flows \in SUBSET P
      BY <2>2, <2>3, FS_UNION
    <2>6. base[n] \in SUBSET P /\ IsFiniteSet(base[n])
      BY DEF FiniteSubsets
    <2>7. IsFiniteSet(f[n])
      <3> DEFINE A == base[n]
                 B == UNION flows
      <3>1. IsFiniteSet(A) /\ IsFiniteSet(B)
        BY <2>5, <2>6
      <3> HIDE DEF A, B
      <3>2. IsFiniteSet(A \cup B)
        BY <3>1, FS_Union
      <3> QED
        BY <2>4, <3>2 DEF A, B
    <2> QED
      BY <2>4, <2>5, <2>6, <2>7 DEF FiniteSubsets
  <1> HIDE DEF Good
  <1>2. V \subseteq Good
    BY <1>1, RankInduction
  <1> QED
    BY <1>2 DEF Good
===============================================================================
