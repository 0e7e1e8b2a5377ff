------------------------------ MODULE ObjectCache ------------------------------
(***************************************************************************)
(* ObjectCache: the bounded key/value cache the switching-function         *)
(* evaluator keeps its results in.  A map from keys to values is paired    *)
(* with a list of the keys; each map entry holds the list iterator of its  *)
(* key.  The hit, miss and eviction counters are only printed and are left *)
(* out.                                                                    *)
(*                                                                         *)
(* A list node is <<key, generation>>: moving a key to the front inserts a *)
(* new node and erases the old one, so the two must be told apart.         *)
(***************************************************************************)
EXTENDS Integers, Sequences, FiniteSets

CONSTANTS Key, Value,
          Capacities,   \* the capacities a client asks for
          Failed        \* what a call that throws returns

ASSUME CacheAssumption ==
    /\ IsFiniteSet(Key)
    /\ Capacities \subseteq Nat
    /\ Failed \notin Value \cup {"hit", "miss"}

VARIABLES
    capacity,     \* capacity_
    overwrites,   \* allow_key_overwrites_, fixed at construction
    order,        \* key_access_order_, front first
    lookup,       \* object_lookup_
    ret           \* what the last call returned

vars == <<capacity, overwrites, order, lookup, ret>>

ListNode == Key \X {0, 1}
Entry == [val : Value, it : ListNode]

Present == DOMAIN lookup
-------------------------------------------------------------------------------
Init == /\ capacity \in Capacities
        /\ overwrites \in BOOLEAN
        /\ order = <<>>
        /\ lookup = <<>>
        /\ ret = "miss"

(* insert() evicts the tail of the list when the map is at capacity, even  *)
(* if the key it inserts is already there.                                 *)
(* Mutant: evicts only once the bound is exceeded.                         *)
FullLate == capacity > 0 /\ Cardinality(Present) > capacity

Full == capacity > 0 /\ Cardinality(Present) = capacity

LastNode == order[Len(order)]
(* Mutant: the evicted key stays in the list.                              *)
KeptOrderAll == order

KeptOrder == IF Full THEN SubSeq(order, 1, Len(order) - 1) ELSE order
KeptKeys  == IF Full THEN Present \ {LastNode[1]} ELSE Present

(* Mutant: an overwritten key keeps its value.                             *)
StoreKeepsOld(k, v, node) ==
    lookup' = [j \in KeptKeys \cup {k} |->
                  IF j # k THEN lookup[j]
                  ELSE [val |-> IF k \in KeptKeys THEN lookup[k].val ELSE v, it |-> node]]

Store(k, v, node) ==
    lookup' = [j \in KeptKeys \cup {k} |->
                  IF j = k THEN [val |-> v, it |-> node] ELSE lookup[j]]

Rejects(k) == ~overwrites /\ k \in Present

RejectInsert(k) ==
    /\ Rejects(k)
    /\ ret' = Failed
    /\ UNCHANGED <<capacity, overwrites, order, lookup>>

InsertNew(k, v) ==
    /\ ~Rejects(k) /\ k \notin KeptKeys
    /\ order' = <<<<k, 0>>>> \o KeptOrder
    /\ Store(k, v, <<k, 0>>)
    /\ ret' = v
    /\ UNCHANGED <<capacity, overwrites>>

(* Mutant: the new node is put where the old one was.                      *)
MovedInPlace(seq, i) == [seq EXCEPT ![i][2] = 1 - @]

(* set_most_recently_used(): a new node at the front, the old one erased.  *)
MovedToFront(seq, i) ==
    <<<<seq[i][1], 1 - seq[i][2]>>>> \o SubSeq(seq, 1, i - 1)
                                     \o SubSeq(seq, i + 1, Len(seq))

Overwrite(k, v) ==
    /\ ~Rejects(k) /\ k \in KeptKeys
    /\ \E i \in DOMAIN KeptOrder :
          /\ KeptOrder[i] = lookup[k].it
          /\ order' = MovedToFront(KeptOrder, i)
    /\ Store(k, v, order'[1])
    /\ ret' = v
    /\ UNCHANGED <<capacity, overwrites>>

Insert(k, v) == RejectInsert(k) \/ InsertNew(k, v) \/ Overwrite(k, v)

(* Reads leave the list alone. *)
Contains(k) ==
    /\ ret' = IF k \in Present THEN "hit" ELSE "miss"
    /\ UNCHANGED <<capacity, overwrites, order, lookup>>

Get(k) ==
    /\ ret' = IF k \in Present THEN lookup[k].val ELSE Failed
    /\ UNCHANGED <<capacity, overwrites, order, lookup>>

(* Mutants: the capacity is set one short; evicts while the size is not    *)
(* below the new capacity.                                                 *)
SetCapacityShort(c) ==
    /\ capacity' = c - 1
    /\ LET n == IF Len(order) <= c THEN Len(order) ELSE c
       IN /\ order' = SubSeq(order, 1, n)
          /\ lookup' = [j \in {order[i][1] : i \in 1..n} |-> lookup[j]]
    /\ UNCHANGED <<overwrites, ret>>

SetCapacityEager(c) ==
    /\ capacity' = c
    /\ LET n == IF Len(order) < c THEN Len(order) ELSE c - 1
       IN /\ order' = SubSeq(order, 1, n)
          /\ lookup' = [j \in {order[i][1] : i \in 1..n} |-> lookup[j]]
    /\ UNCHANGED <<overwrites, ret>>

(* resize() evicts until the size is at most the new capacity: all of it   *)
(* for a capacity of 0.                                                    *)
SetCapacity(c) ==
    /\ capacity' = c
    /\ LET n == IF Len(order) <= c THEN Len(order) ELSE c
       IN /\ order' = SubSeq(order, 1, n)
          /\ lookup' = [j \in {order[i][1] : i \in 1..n} |-> lookup[j]]
    /\ UNCHANGED <<overwrites, ret>>

Clear ==
    /\ order' = <<>> /\ lookup' = <<>>
    /\ UNCHANGED <<capacity, overwrites, ret>>

Next == \/ \E k \in Key : Contains(k) \/ Get(k) \/ \E v \in Value : Insert(k, v)
        \/ \E c \in Capacities : SetCapacity(c)
        \/ Clear

Spec == Init /\ [][Next]_vars
-------------------------------------------------------------------------------
(* Every map entry has a key and value of the right kind.                  *)
TypeOK ==
    /\ capacity \in Nat
    /\ overwrites \in BOOLEAN
    /\ order \in Seq(ListNode)
    /\ Present \subseteq Key /\ lookup \in [Present -> Entry]
    /\ ret \in Value \cup {"hit", "miss", Failed}

(* The list and the map hold the same keys, once each, and every map entry *)
(* points at the live list node of its key: an eviction always finds the   *)
(* tail's key in the map, and no iterator dangles.                         *)
ListMatchesMap ==
    /\ \A i \in DOMAIN order : /\ order[i][1] \in Present
                               /\ lookup[order[i][1]].it = order[i]
    /\ \A k \in Present : \E i \in DOMAIN order : order[i] = lookup[k].it /\ order[i][1] = k
    /\ \A i, j \in DOMAIN order : order[i][1] = order[j][1] => i = j

(* The bound holds between calls, so that insert() always finds space      *)
(* after one eviction (it asserts that).                                   *)
CapacityRespected == capacity > 0 => Cardinality(Present) <= capacity

(* The cache keeps its contract, whatever the order of the list.           *)
Contract == INSTANCE CacheContract
              WITH store <- [k \in Present |-> lookup[k].val], limit <- capacity

ImplementsContract == Contract!Spec
===============================================================================
