-------------------------- MODULE ObjectCacheHistory ---------------------------
(***************************************************************************)
(* ObjectCache with a record of what its client has done, to say which     *)
(* entries it keeps and which values it returns.                           *)
(***************************************************************************)
EXTENDS ObjectCache

VARIABLES
    written,   \* the keys inserted since the last clear(), newest first
    used,      \* the keys inserted or found, most recent first
    given      \* the value last inserted for each key ever inserted

history == <<written, used, given>>

(* seq without its element k: every key is written, or used, once in it.   *)
Without(seq, k) ==
    IF \A i \in DOMAIN seq : seq[i] # k THEN seq
    ELSE LET p == CHOOSE i \in DOMAIN seq : seq[i] = k
         IN SubSeq(seq, 1, p - 1) \o SubSeq(seq, p + 1, Len(seq))

ToFront(seq, k) == <<k>> \o Without(seq, k)

HInit == Init /\ written = <<>> /\ used = <<>> /\ given = <<>>

HInsert(k, v) ==
    /\ Insert(k, v)
    /\ IF Rejects(k) THEN UNCHANGED history
       ELSE /\ written' = ToFront(written, k)
            /\ used' = ToFront(used, k)
            /\ given' = [j \in DOMAIN given \cup {k} |-> IF j = k THEN v ELSE given[j]]

HRead(k) ==
    /\ Contains(k) \/ Get(k)
    /\ used' = IF k \in Present THEN ToFront(used, k) ELSE used
    /\ UNCHANGED <<written, given>>

HSetCapacity(c) == SetCapacity(c) /\ UNCHANGED history

HClear == Clear /\ written' = <<>> /\ used' = <<>> /\ UNCHANGED given

HNext == \/ \E k \in Key : HRead(k) \/ \E v \in Value : HInsert(k, v)
         \/ \E c \in Capacities : HSetCapacity(c)
         \/ HClear

HSpec == HInit /\ [][HNext]_<<vars, history>>
-------------------------------------------------------------------------------
(* The keys in the cache are the most recently written ones, in that       *)
(* order: no eviction and no change of capacity keeps an older write in    *)
(* place of a newer one.                                                   *)
NewestWritesKept ==
    /\ Len(order) <= Len(written)
    /\ \A i \in DOMAIN order : order[i][1] = written[i]

(* Whatever was evicted, overwritten or written again in between, the      *)
(* value found for a key is the one last inserted for it.                  *)
HoldsLatestValues == \A k \in Present : lookup[k].val = given[k]

(* The code's comments: the list is in order of access, its tail least     *)
(* recently used, and evict() removes the least recently used entry.       *)
EvictsLeastRecentlyUsed ==
    [][\A k \in Present \ DOMAIN lookup', j \in Present \cap DOMAIN lookup' :
          \E p, q \in DOMAIN used : used[p] = j /\ used[q] = k /\ p < q]_vars
===============================================================================
