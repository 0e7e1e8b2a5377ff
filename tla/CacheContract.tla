----------------------------- MODULE CacheContract -----------------------------
(***************************************************************************)
(* What a client of a bounded cache relies on, whatever its eviction       *)
(* policy: an insertion makes its own entry available and costs at most    *)
(* one other entry, only when the cache is full; an entry never changes    *)
(* unless it is written, and a bound is never exceeded (0 is no bound).    *)
(***************************************************************************)
EXTENDS Integers, FiniteSets

CONSTANTS Key, Value

VARIABLES store,    \* the entries, a function on the keys present
          limit     \* the largest number of entries, or 0

vars == <<store, limit>>

Full == limit > 0 /\ Cardinality(DOMAIN store) = limit

Init == DOMAIN store = {} /\ limit \in Nat

Write(k, v) ==
    /\ \E lost \in SUBSET DOMAIN store :
          /\ lost # {} => Full /\ Cardinality(lost) = 1
          /\ store' = [j \in (DOMAIN store \ lost) \cup {k} |->
                          IF j = k THEN v ELSE store[j]]
    /\ limit > 0 => Cardinality(DOMAIN store') <= limit
    /\ UNCHANGED limit

Restrict(kept) == store' = [j \in kept |-> store[j]]

Resize ==
    /\ limit' \in Nat
    /\ \E kept \in SUBSET DOMAIN store :
          /\ Cardinality(kept) <= limit'
          /\ Cardinality(DOMAIN store) <= limit' => kept = DOMAIN store
          /\ Restrict(kept)

Clear == Restrict({}) /\ UNCHANGED limit

Next == \/ \E k \in Key, v \in Value : Write(k, v)
        \/ Resize \/ Clear

Spec == Init /\ [][Next]_vars
===============================================================================
