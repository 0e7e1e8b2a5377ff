--------------------------- MODULE ObjectCacheProofs ---------------------------
(***************************************************************************)
(* Proofs about ObjectCache for every set of keys and values and every     *)
(* choice of capacities: the list and the map stay in step, the bound is   *)
(* kept, and the cache implements its contract; the value it returns for a *)
(* key is the one last inserted for it, and the keys it keeps are the most *)
(* recently written ones, whatever was evicted, overwritten or dropped by a*)
(* smaller capacity in between.                                            *)
(***************************************************************************)
EXTENDS ObjectCacheHistory, SequenceTheorems, FiniteSetTheorems, TLAPS

(* The inductive invariant: the bound alone is not inductive, an eviction  *)
(* makes room only because the tail's key is in the map.                   *)
IInv == TypeOK /\ ListMatchesMap /\ CapacityRespected

(* A list that is in step with the entries lk of the given keys.           *)
Linked(ord, keys, lk) ==
    /\ ord \in Seq(ListNode)
    /\ \A i \in DOMAIN ord : ord[i][1] \in keys /\ lk[ord[i][1]].it = ord[i]
    /\ \A k \in keys : \E i \in DOMAIN ord : ord[i] = lk[k].it /\ ord[i][1] = k
    /\ \A i, j \in DOMAIN ord : ord[i][1] = ord[j][1] => i = j
-------------------------------------------------------------------------------
(* A prefix of a linked list is linked to the keys that are in it.         *)
LEMMA PrefixLinked ==
    ASSUME NEW ord, NEW keys, NEW lk, Linked(ord, keys, lk),
           NEW n \in 0..Len(ord)
    PROVE  /\ Linked(SubSeq(ord, 1, n), {ord[i][1] : i \in 1..n}, lk)
           /\ Len(SubSeq(ord, 1, n)) = n
           /\ \A i \in 1..n : SubSeq(ord, 1, n)[i] = ord[i]
  <1> DEFINE pre == SubSeq(ord, 1, n)
  <1>1. ord \in Seq(ListNode) /\ Len(ord) \in Nat /\ DOMAIN ord = 1..Len(ord)
    BY LenProperties DEF Linked
  <1>2. \A i \in 1..n : ord[i] \in ListNode /\ i \in DOMAIN ord
    BY <1>1, ElementOfSeq
  <1>3. pre \in Seq(ListNode) /\ Len(pre) = n /\ \A i \in 1..n : pre[i] = ord[i]
    BY <1>1, <1>2, SubSeqProperties
  <1>4. DOMAIN pre = 1..n
    BY <1>3, LenProperties
  <1>5. \A i \in 1..n : /\ ord[i][1] \in keys /\ lk[ord[i][1]].it = ord[i]
                        /\ \A j \in 1..n : ord[i][1] = ord[j][1] => i = j
    BY <1>2 DEF Linked
  <1> DEFINE left == {ord[i][1] : i \in 1..n}
  <1>6. \A i \in 1..n : pre[i][1] \in left /\ lk[pre[i][1]].it = pre[i]
    BY <1>3, <1>5
  <1>7. \A k \in left : \E i \in 1..n : pre[i] = lk[k].it /\ pre[i][1] = k
    BY <1>3, <1>5
  <1>8. \A i, j \in 1..n : pre[i][1] = pre[j][1] => i = j
    BY <1>3, <1>5
  <1> HIDE DEF pre, left
  <1>9. Linked(pre, left, lk)
    BY <1>3, <1>4, <1>6, <1>7, <1>8 DEF Linked
  <1> QED
    BY <1>3, <1>9 DEF pre, left

(* A linked list has as many nodes as there are keys.                      *)
LEMMA LinkedLength ==
    ASSUME NEW ord, NEW keys, NEW lk, Linked(ord, keys, lk)
    PROVE  IsFiniteSet(keys) /\ Cardinality(keys) = Len(ord)
  <1> DEFINE f == [i \in 1..Len(ord) |-> ord[i][1]]
  <1>1. Len(ord) \in Nat /\ DOMAIN ord = 1..Len(ord)
    BY LenProperties DEF Linked
  <1>2. f \in [1..Len(ord) -> keys]
    BY <1>1 DEF Linked
  <1>3. f \in Injection(1..Len(ord), keys)
    BY <1>1, <1>2 DEF Linked, Injection, IsInjective
  <1>4. f \in Surjection(1..Len(ord), keys)
    BY <1>1, <1>2 DEF Linked, Surjection
  <1>5. ExistsBijection(1..Len(ord), keys)
    BY <1>3, <1>4 DEF ExistsBijection, Bijection
  <1>6. IsFiniteSet(1..Len(ord)) /\ Cardinality(1..Len(ord)) = Len(ord)
    <2>1. /\ IsFiniteSet(1..Len(ord))
          /\ Cardinality(1..Len(ord)) = IF 1 > Len(ord) THEN 0 ELSE Len(ord) - 1 + 1
      BY <1>1, FS_Interval, 1 \in Int, Len(ord) \in Int
    <2> QED
      BY <1>1, <2>1
  <1> QED
    BY <1>5, <1>6, FS_Bijection

(* The elements of a list one of whose nodes was moved to the front.       *)
LEMMA MovedElements ==
    ASSUME NEW seq \in Seq(ListNode), NEW i \in 1..Len(seq)
    PROVE  LET moved == MovedToFront(seq, i)
           IN /\ moved \in Seq(ListNode)
              /\ Len(moved) = Len(seq)
              /\ moved[1] = <<seq[i][1], 1 - seq[i][2]>>
              /\ \A j \in 2..Len(seq) : moved[j] = IF j <= i THEN seq[j - 1] ELSE seq[j]
  <1> DEFINE new == <<seq[i][1], 1 - seq[i][2]>>
             front == SubSeq(seq, 1, i - 1)
             back  == SubSeq(seq, i + 1, Len(seq))
  <1>1. Len(seq) \in Nat /\ \A j \in 1..Len(seq) : seq[j] \in ListNode
    BY LenProperties, ElementOfSeq
  <1>2. new \in ListNode
    BY <1>1 DEF ListNode
  <1>3. <<new>> \in Seq(ListNode) /\ Len(<<new>>) = 1 /\ <<new>>[1] = new
    BY <1>2
  <1>4. /\ front \in Seq(ListNode) /\ Len(front) = i - 1
        /\ \A j \in 1..(i - 1) : front[j] = seq[j]
    BY <1>1, SubSeqProperties
  <1>5. /\ back \in Seq(ListNode) /\ Len(back) = Len(seq) - i
        /\ \A j \in 1..(Len(seq) - i) : back[j] = seq[i + j]
    <2>1. \A j \in (i + 1)..Len(seq) : seq[j] \in ListNode
      BY <1>1
    <2> QED
      BY <1>1, <2>1, SubSeqProperties, i + 1 \in Int, Len(seq) \in Int
  <1>6. /\ <<new>> \o front \in Seq(ListNode) /\ Len(<<new>> \o front) = i
        /\ \A j \in 1..i : (<<new>> \o front)[j] = IF j <= 1 THEN new ELSE seq[j - 1]
    BY <1>1, <1>3, <1>4, ConcatProperties
  <1> DEFINE head == <<new>> \o front
  <1>7. head \in Seq(ListNode) /\ Len(head) = i /\ head[1] = new
        /\ \A j \in 2..i : head[j] = seq[j - 1]
    BY <1>1, <1>6
  <1> HIDE DEF head, back, new
  <1>8. /\ head \o back \in Seq(ListNode)
        /\ Len(head \o back) = Len(seq)
        /\ \A j \in 1..Len(seq) : (head \o back)[j] =
              IF j <= i THEN head[j] ELSE back[j - i]
    <2>1. /\ head \o back \in Seq(ListNode)
          /\ Len(head \o back) = Len(head) + Len(back)
          /\ \A j \in 1..(Len(head) + Len(back)) : (head \o back)[j] =
                IF j <= Len(head) THEN head[j] ELSE back[j - Len(head)]
      BY <1>5, <1>7, ConcatProperties
    <2>2. Len(head) + Len(back) = Len(seq)
      BY <1>1, <1>5, <1>7
    <2> QED
      BY <1>7, <2>1, <2>2
  <1>9. \A j \in (i + 1)..Len(seq) : back[j - i] = seq[j]
    BY <1>1, <1>5
  <1>10. /\ (head \o back)[1] = new
         /\ \A j \in 2..Len(seq) : (head \o back)[j] =
               IF j <= i THEN seq[j - 1] ELSE seq[j]
    BY <1>1, <1>7, <1>8, <1>9
  <1>11. MovedToFront(seq, i) = head \o back
    BY DEF MovedToFront, head, back, new
  <1> QED
    BY <1>8, <1>10, <1>11 DEF new

(* A new key put at the front of a linked list, with an entry of its own.  *)
LEMMA PrependLinked ==
    ASSUME NEW ord, NEW keys, NEW lk, Linked(ord, keys, lk),
           NEW k \in Key, k \notin keys,
           NEW lk2, lk2[k].it = <<k, 0>>, \A j \in keys : lk2[j] = lk[j]
    PROVE  Linked(<<<<k, 0>>>> \o ord, keys \cup {k}, lk2)
  <1> DEFINE node == <<k, 0>>
             longer == <<node>> \o ord
  <1>1. ord \in Seq(ListNode) /\ Len(ord) \in Nat /\ DOMAIN ord = 1..Len(ord)
    BY LenProperties DEF Linked
  <1>2. node \in ListNode /\ node[1] = k
    BY DEF ListNode
  <1>3. <<node>> \in Seq(ListNode) /\ Len(<<node>>) = 1 /\ <<node>>[1] = node
    BY <1>2
  <1> HIDE DEF node
  <1>4. /\ longer \in Seq(ListNode) /\ Len(longer) = Len(ord) + 1
        /\ \A i \in 1..(Len(ord) + 1) : longer[i] = IF i <= 1 THEN node ELSE ord[i - 1]
    BY <1>1, <1>3, ConcatProperties
  <1> HIDE DEF longer
  <1>5. DOMAIN longer = 1..(Len(ord) + 1)
    BY <1>4, LenProperties
  <1>6. longer[1] = node /\ \A i \in 1..Len(ord) : longer[i + 1] = ord[i]
    BY <1>1, <1>4
  <1>7. \A i \in DOMAIN longer : i = 1 \/ \E j \in 1..Len(ord) : i = j + 1
    <2> TAKE i \in DOMAIN longer
    <2>1. i = 1 \/ (i - 1 \in 1..Len(ord) /\ i = (i - 1) + 1)
      BY <1>1, <1>5
    <2> QED
      BY <2>1
  <1>8. \A i \in 1..Len(ord) : ord[i][1] \in keys /\ lk2[ord[i][1]].it = ord[i]
    BY <1>1 DEF Linked
  <1>9. lk2[k].it = node
    BY DEF node
  <1>10. \A i \in DOMAIN longer :
            longer[i][1] \in keys \cup {k} /\ lk2[longer[i][1]].it = longer[i]
    BY <1>2, <1>6, <1>7, <1>8, <1>9
  <1>11. \A j \in keys \cup {k} :
            \E i \in DOMAIN longer : longer[i] = lk2[j].it /\ longer[i][1] = j
    <2> TAKE j \in keys \cup {k}
    <2>1. CASE j = k
      <3>1. 1 \in DOMAIN longer
        BY <1>1, <1>5
      <3> QED
        BY <1>2, <1>6, <1>9, <2>1, <3>1
    <2>2. CASE j \in keys
      <3>1. PICK i \in 1..Len(ord) : ord[i] = lk2[j].it /\ ord[i][1] = j
        BY <1>1, <2>2 DEF Linked
      <3>2. i + 1 \in DOMAIN longer
        BY <1>1, <1>5
      <3> QED
        BY <1>6, <3>1, <3>2
    <2> QED
      BY <2>1, <2>2
  <1>12. \A i, j \in DOMAIN longer : longer[i][1] = longer[j][1] => i = j
    <2> SUFFICES ASSUME NEW i \in DOMAIN longer, NEW j \in DOMAIN longer,
                        longer[i][1] = longer[j][1]
                 PROVE  i = j
      OBVIOUS
    <2>1. longer[1][1] = k /\ \A m \in 1..Len(ord) : longer[m + 1][1] # k
      BY <1>2, <1>6, <1>8
    <2>2. CASE i = 1 \/ j = 1
      BY <1>7, <2>1, <2>2
    <2>3. CASE i # 1 /\ j # 1
      <3>1. PICK m \in 1..Len(ord) : i = m + 1
        BY <1>7, <2>3
      <3>2. PICK n \in 1..Len(ord) : j = n + 1
        BY <1>7, <2>3
      <3>3. ord[m][1] = ord[n][1]
        BY <1>6, <3>1, <3>2
      <3>4. m = n
        BY <1>1, <3>3 DEF Linked
      <3> QED
        BY <3>1, <3>2, <3>4
    <2> QED
      BY <2>2, <2>3
  <1>13. Linked(longer, keys \cup {k}, lk2)
    BY <1>4, <1>10, <1>11, <1>12 DEF Linked
  <1> QED
    BY <1>13 DEF longer, node

(* A key of a linked list moved to the front, its entry pointing there.    *)
LEMMA MoveLinked ==
    ASSUME NEW ord, NEW keys, NEW lk, Linked(ord, keys, lk),
           NEW i \in DOMAIN ord,
           NEW lk2, lk2[ord[i][1]].it = MovedToFront(ord, i)[1],
           \A j \in keys : j # ord[i][1] => lk2[j] = lk[j]
    PROVE  Linked(MovedToFront(ord, i), keys, lk2)
  <1> DEFINE moved == MovedToFront(ord, i)
             k == ord[i][1]
  <1>1. ord \in Seq(ListNode) /\ Len(ord) \in Nat /\ DOMAIN ord = 1..Len(ord)
    BY LenProperties DEF Linked
  <1>2. /\ moved \in Seq(ListNode) /\ Len(moved) = Len(ord)
        /\ moved[1] = <<ord[i][1], 1 - ord[i][2]>>
        /\ \A j \in 2..Len(ord) : moved[j] = IF j <= i THEN ord[j - 1] ELSE ord[j]
    BY <1>1, MovedElements
  <1> HIDE DEF moved
  <1>3. moved[1][1] = k
    BY <1>2
  <1>4. lk2[k].it = moved[1]
    BY DEF moved
  <1> DEFINE Old(j) == IF j = 1 THEN i ELSE IF j <= i THEN j - 1 ELSE j
             New(j) == IF j = i THEN 1 ELSE IF j < i THEN j + 1 ELSE j
  <1>5. DOMAIN moved = 1..Len(ord)
    BY <1>2, LenProperties
  <1>6. \A j \in 1..Len(ord) : /\ Old(j) \in 1..Len(ord) /\ New(j) \in 1..Len(ord)
                               /\ Old(New(j)) = j /\ New(Old(j)) = j
    BY <1>1
  <1>7. \A j \in 1..Len(ord) : j # 1 => moved[j] = ord[Old(j)] /\ Old(j) # i
    BY <1>1, <1>2
  <1>8. Old(1) = i /\ New(i) = 1
    OBVIOUS
  <1> HIDE DEF Old, New, k
  <1>9. \A j \in 1..Len(ord) : moved[j][1] = ord[Old(j)][1]
    BY <1>3, <1>7, <1>8 DEF k
  <1>10. /\ \A j \in 1..Len(ord) : ord[j][1] \in keys /\ lk[ord[j][1]].it = ord[j]
         /\ \A j, l \in 1..Len(ord) : ord[j][1] = ord[l][1] => j = l
         /\ \A j \in keys : \E l \in 1..Len(ord) : ord[l][1] = j
    BY <1>1 DEF Linked
  <1>11. \A j \in 1..Len(ord) : moved[j][1] \in keys /\ lk2[moved[j][1]].it = moved[j]
    <2> TAKE j \in 1..Len(ord)
    <2>1. moved[j][1] \in keys
      <3>1. Old(j) \in 1..Len(ord) /\ moved[j][1] = ord[Old(j)][1]
        BY <1>6, <1>9
      <3> QED
        BY <1>10, <3>1
    <2>2. CASE j = 1
      BY <1>3, <1>4, <2>1, <2>2
    <2>3. CASE j # 1
      <3>1. moved[j] = ord[Old(j)] /\ Old(j) # i /\ Old(j) \in 1..Len(ord)
        BY <1>6, <1>7, <2>3
      <3>2. ord[Old(j)][1] # k
        BY <1>1, <1>10, <3>1 DEF k
      <3>3. lk2[ord[Old(j)][1]] = lk[ord[Old(j)][1]]
        BY <2>1, <3>1, <3>2 DEF k
      <3> QED
        BY <1>10, <2>1, <3>1, <3>3
    <2> QED
      BY <2>2, <2>3
  <1>12. \A j \in keys : \E l \in 1..Len(ord) : moved[l][1] = j
    <2> TAKE j \in keys
    <2>1. PICK l \in 1..Len(ord) : ord[l][1] = j
      BY <1>10
    <2>2. New(l) \in 1..Len(ord) /\ Old(New(l)) = l
      BY <1>6
    <2>3. moved[New(l)][1] = ord[Old(New(l))][1]
      BY <1>9, <2>2
    <2> QED
      BY <2>1, <2>2, <2>3
  <1>13. \A j \in keys : \E l \in 1..Len(ord) : moved[l] = lk2[j].it /\ moved[l][1] = j
    BY <1>11, <1>12
  <1>14. \A j, l \in 1..Len(ord) : moved[j][1] = moved[l][1] => j = l
    <2> SUFFICES ASSUME NEW j \in 1..Len(ord), NEW l \in 1..Len(ord),
                        moved[j][1] = moved[l][1]
                 PROVE  j = l
      OBVIOUS
    <2>1. Old(j) \in 1..Len(ord) /\ Old(l) \in 1..Len(ord)
      BY <1>6
    <2>2. ord[Old(j)][1] = ord[Old(l)][1]
      BY <1>9
    <2>3. Old(j) = Old(l)
      BY <1>10, <2>1, <2>2
    <2>4. New(Old(j)) = j /\ New(Old(l)) = l
      BY <1>6
    <2> QED
      BY <2>3, <2>4
  <1>15. Linked(moved, keys, lk2)
    BY <1>2, <1>5, <1>11, <1>13, <1>14 DEF Linked
  <1> QED
    BY <1>15 DEF moved
-------------------------------------------------------------------------------
(* ListMatchesMap is the relation Linked between the cache's own list, key *)
(* set and map.                                                            *)
LEMMA ListMatchesMapIsLinked ==
    ASSUME order \in Seq(ListNode)
    PROVE  ListMatchesMap <=> Linked(order, Present, lookup)
  BY DEF ListMatchesMap, Linked

(* What an insertion evicts: nothing, or the tail and its key, which is in *)
(* the map; then there is room for one more entry.                         *)
LEMMA KeptIsLinked ==
    ASSUME IInv
    PROVE  /\ Linked(KeptOrder, KeptKeys, lookup)
           /\ IsFiniteSet(KeptKeys) /\ KeptKeys \subseteq Present
           /\ capacity > 0 => Cardinality(KeptKeys) + 1 <= capacity
           /\ Full => LastNode[1] \in Present
  <1>1. Linked(order, Present, lookup) /\ Len(order) \in Nat /\ DOMAIN order = 1..Len(order)
    BY ListMatchesMapIsLinked, LenProperties DEF IInv, TypeOK
  <1>2. IsFiniteSet(Present) /\ Cardinality(Present) = Len(order)
    BY <1>1, LinkedLength
  <1>3. CASE Full
    <2>1. Len(order) \in DOMAIN order /\ Len(order) - 1 \in 0..Len(order)
      BY <1>1, <1>2, <1>3 DEF Full, IInv, TypeOK
    <2> DEFINE left == {order[i][1] : i \in 1..(Len(order) - 1)}
    <2>2. Linked(SubSeq(order, 1, Len(order) - 1), left, lookup)
      BY <1>1, <2>1, PrefixLinked
    <2>3. LastNode[1] \in Present /\ left = Present \ {LastNode[1]}
      BY <1>1, <2>1 DEF Linked, LastNode
    <2>4. KeptKeys = left /\ KeptOrder = SubSeq(order, 1, Len(order) - 1)
      BY <1>3, <2>3 DEF KeptKeys, KeptOrder
    <2>5. Cardinality(KeptKeys) = Cardinality(Present) - 1 /\ IsFiniteSet(KeptKeys)
      BY <1>2, <2>3, <2>4, FS_RemoveElement
    <2>6. Cardinality(KeptKeys) + 1 <= capacity
      BY <1>1, <1>2, <1>3, <2>5 DEF Full, IInv, TypeOK
    <2> QED
      BY <2>2, <2>3, <2>4, <2>5, <2>6
  <1>4. CASE ~Full
    <2>1. KeptKeys = Present /\ KeptOrder = order
      BY <1>4 DEF KeptKeys, KeptOrder
    <2>2. capacity > 0 => Cardinality(Present) + 1 <= capacity
      <3>1. capacity \in Nat /\ Cardinality(Present) \in Nat
        BY <1>1, <1>2 DEF IInv, TypeOK
      <3>2. capacity > 0 => Cardinality(Present) <= capacity /\ Cardinality(Present) # capacity
        BY <1>4 DEF Full, IInv, CapacityRespected
      <3> QED
        BY <3>1, <3>2
    <2> QED
      BY <1>1, <1>2, <1>4, <2>1, <2>2
  <1> QED
    BY <1>3, <1>4

(* The entry count after an insertion.                                     *)
LEMMA StoredEntries ==
    ASSUME IInv, NEW k \in Key, NEW v \in Value, NEW node \in ListNode, Store(k, v, node)
    PROVE  /\ Present' = KeptKeys \cup {k} /\ Present' \subseteq Key
           /\ lookup' \in [Present' -> Entry]
           /\ lookup'[k] = [val |-> v, it |-> node]
           /\ \A j \in KeptKeys : j # k => lookup'[j] = lookup[j]
           /\ capacity > 0 => Cardinality(Present') <= capacity
  <1>1. Present' = KeptKeys \cup {k}
    BY DEF Store, Present
  <1>2. KeptKeys \subseteq Present /\ IsFiniteSet(KeptKeys)
    BY KeptIsLinked
  <1>3. Present' \subseteq Key /\ \A j \in Present : lookup[j] \in Entry
    BY <1>1, <1>2 DEF IInv, TypeOK
  <1>4. [val |-> v, it |-> node] \in Entry
    BY DEF Entry
  <1>5. lookup'[k] = [val |-> v, it |-> node]
        /\ \A j \in KeptKeys : j # k => lookup'[j] = lookup[j]
    BY DEF Store
  <1>6. lookup' \in [Present' -> Entry]
    BY <1>1, <1>2, <1>3, <1>4 DEF Store
  <1>7. capacity > 0 => Cardinality(Present') <= capacity
    <2> SUFFICES ASSUME capacity > 0 PROVE Cardinality(Present') <= capacity
      OBVIOUS
    <2>1. Cardinality(KeptKeys) \in Nat /\ Cardinality(KeptKeys) + 1 <= capacity
      BY <1>2, KeptIsLinked, FS_CardinalityType
    <2>2. Cardinality(KeptKeys \cup {k}) =
             IF k \in KeptKeys THEN Cardinality(KeptKeys) ELSE Cardinality(KeptKeys) + 1
      BY <1>2, FS_AddElement
    <2>3. capacity \in Nat
      BY DEF IInv, TypeOK
    <2> QED
      BY <1>1, <2>1, <2>2, <2>3
  <1> QED
    BY <1>1, <1>3, <1>5, <1>6, <1>7
-------------------------------------------------------------------------------
(* Only the entries and the list enter the invariant: the step lemmas hand *)
(* over a linked list, and LinkedLength does the counting.                 *)
LEMMA LinkedKeepsInvariant ==
    ASSUME capacity' \in Nat, overwrites' \in BOOLEAN,
           ret' \in Value \cup {"hit", "miss", Failed},
           Present' \subseteq Key, lookup' \in [Present' -> Entry],
           Linked(order', Present', lookup'),
           CapacityRespected'
    PROVE  IInv'
  BY DEF IInv, TypeOK, ListMatchesMap, Linked

(* insert() of a key that is not in the cache keeps the invariant: its new *)
(* node is put in front of the kept ones.                                  *)
LEMMA InsertNewKeeps ==
    ASSUME IInv, NEW k \in Key, NEW v \in Value, InsertNew(k, v)
    PROVE  IInv'
  <1>1. <<k, 0>> \in ListNode
    BY DEF ListNode
  <1>2. Store(k, v, <<k, 0>>) /\ k \notin KeptKeys /\ order' = <<<<k, 0>>>> \o KeptOrder
    BY DEF InsertNew
  <1>3. /\ Present' = KeptKeys \cup {k} /\ Present' \subseteq Key
        /\ lookup' \in [Present' -> Entry]
        /\ lookup'[k] = [val |-> v, it |-> <<k, 0>>]
        /\ \A j \in KeptKeys : j # k => lookup'[j] = lookup[j]
        /\ capacity > 0 => Cardinality(Present') <= capacity
    BY <1>1, <1>2, StoredEntries
  <1>4. lookup'[k].it = <<k, 0>>
    BY <1>3
  <1>5. \A j \in KeptKeys : lookup'[j] = lookup[j]
    BY <1>2, <1>3
  <1>6. Linked(KeptOrder, KeptKeys, lookup)
    BY KeptIsLinked
  <1>7. Linked(<<<<k, 0>>>> \o KeptOrder, KeptKeys \cup {k}, lookup')
    BY <1>2, <1>4, <1>5, <1>6, PrependLinked
  <1>8. Linked(order', Present', lookup')
    BY <1>2, <1>3, <1>7
  <1> QED
    BY <1>3, <1>8, LinkedKeepsInvariant DEF IInv, TypeOK, CapacityRespected, InsertNew

(* The node an overwritten key gets at the front of the list.              *)
LEMMA OverwrittenNode ==
    ASSUME IInv, NEW k \in Key, NEW v \in Value, Overwrite(k, v)
    PROVE  order'[1] \in ListNode
  <1>1. PICK i \in DOMAIN KeptOrder : order' = MovedToFront(KeptOrder, i)
    BY DEF Overwrite
  <1>2. KeptOrder \in Seq(ListNode)
    BY KeptIsLinked DEF Linked
  <1>3. i \in 1..Len(KeptOrder) /\ KeptOrder[i] \in ListNode
    BY <1>2, LenProperties, ElementOfSeq
  <1>4. order'[1] = <<KeptOrder[i][1], 1 - KeptOrder[i][2]>>
    BY <1>1, <1>2, <1>3, MovedElements
  <1> QED
    BY <1>3, <1>4 DEF ListNode

(* insert() of a key that is there, after the eviction it may cause, keeps *)
(* the invariant: its node moves to the front.                             *)
LEMMA OverwriteKeeps ==
    ASSUME IInv, NEW k \in Key, NEW v \in Value, Overwrite(k, v)
    PROVE  IInv'
  <1>1. Linked(KeptOrder, KeptKeys, lookup) /\ k \in KeptKeys
    BY KeptIsLinked DEF Overwrite
  <1>2. PICK i \in DOMAIN KeptOrder :
           KeptOrder[i] = lookup[k].it /\ order' = MovedToFront(KeptOrder, i)
    BY DEF Overwrite
  <1>3. KeptOrder[i][1] = k
    BY <1>1, <1>2 DEF Linked
  <1>5. order'[1] \in ListNode
    BY OverwrittenNode
  <1>6. Store(k, v, order'[1])
    BY DEF Overwrite
  <1>7. /\ Present' = KeptKeys \cup {k} /\ Present' \subseteq Key
        /\ lookup' \in [Present' -> Entry]
        /\ lookup'[k] = [val |-> v, it |-> order'[1]]
        /\ \A j \in KeptKeys : j # k => lookup'[j] = lookup[j]
        /\ capacity > 0 => Cardinality(Present') <= capacity
    BY <1>5, <1>6, StoredEntries
  <1>8. lookup'[k].it = MovedToFront(KeptOrder, i)[1]
    BY <1>2, <1>7
  <1>9. Linked(MovedToFront(KeptOrder, i), KeptKeys, lookup')
    BY <1>1, <1>3, <1>7, <1>8, MoveLinked
  <1>10. Linked(order', Present', lookup')
    <2>1. KeptKeys \cup {k} = KeptKeys
      BY <1>1
    <2> QED
      BY <1>2, <1>7, <1>9, <2>1
  <1> QED
    BY <1>7, <1>10, LinkedKeepsInvariant DEF IInv, TypeOK, CapacityRespected, Overwrite

(* The keys left by a change of capacity: the longest prefix that fits.    *)
LEMMA ResizedEntries ==
    ASSUME IInv, NEW c \in Capacities, SetCapacity(c)
    PROVE  /\ Linked(order', Present', lookup')
           /\ Present' \subseteq Present
           /\ lookup' = [j \in Present' |-> lookup[j]]
           /\ Cardinality(Present') <= c
           /\ Cardinality(Present) <= c => Present' = Present
  <1> DEFINE n == IF Len(order) <= c THEN Len(order) ELSE c
             left == {order[i][1] : i \in 1..n}
  <1>1. Linked(order, Present, lookup) /\ Len(order) \in Nat /\ DOMAIN order = 1..Len(order)
    BY ListMatchesMapIsLinked, LenProperties DEF IInv, TypeOK
  <1>2. c \in Nat /\ n \in 0..Len(order) /\ n <= c
    BY <1>1, CacheAssumption
  <1>3. order' = SubSeq(order, 1, n) /\ lookup' = [j \in left |-> lookup[j]]
    BY DEF SetCapacity
  <1>4. Present' = left
    BY <1>3 DEF Present
  <1>5. Cardinality(Present) <= c => n = Len(order)
    BY <1>1, LinkedLength
  <1> HIDE DEF n
  <1>6. /\ Linked(SubSeq(order, 1, n), left, lookup)
        /\ Len(SubSeq(order, 1, n)) = n
    BY <1>1, <1>2, PrefixLinked
  <1>7. left \subseteq Present
    BY <1>1, <1>2 DEF Linked
  <1>8. n = Len(order) => left = Present
    BY <1>1, <1>7 DEF Linked
  <1>9. Cardinality(left) = n
    BY <1>6, LinkedLength
  <1> HIDE DEF left
  <1>10. \A j \in left : lookup'[j] = lookup[j]
    BY <1>3
  <1>11. Linked(order', left, lookup')
    BY <1>3, <1>6, <1>10 DEF Linked
  <1> QED
    BY <1>2, <1>3, <1>4, <1>5, <1>7, <1>8, <1>9, <1>11

(* set_capacity() keeps the invariant: a prefix of the list stays.         *)
LEMMA SetCapacityKeeps ==
    ASSUME IInv, NEW c \in Capacities, SetCapacity(c)
    PROVE  IInv'
  <1>1. /\ Linked(order', Present', lookup') /\ Present' \subseteq Present
        /\ lookup' = [j \in Present' |-> lookup[j]]
        /\ Cardinality(Present') <= c
    BY ResizedEntries
  <1>2. capacity' = c /\ overwrites' = overwrites /\ ret' = ret /\ c \in Nat
    BY CacheAssumption DEF SetCapacity
  <1>3. lookup' \in [Present' -> Entry]
    BY <1>1 DEF IInv, TypeOK
  <1> QED
    BY <1>1, <1>2, <1>3, LinkedKeepsInvariant DEF IInv, TypeOK, CapacityRespected

(* An empty list and an empty map are in step.                             *)
LEMMA EmptyIsLinked ==
    Linked(<<>>, {}, <<>>) /\ DOMAIN <<>> = {} /\ <<>> \in [{} -> Entry] /\ Cardinality({}) = 0
  BY FS_EmptySet DEF Linked

(* clear() keeps the invariant.                                            *)
LEMMA ClearKeeps ==
    ASSUME IInv, Clear
    PROVE  IInv'
  BY EmptyIsLinked, LinkedKeepsInvariant
     DEF IInv, TypeOK, CapacityRespected, Clear, Present
-------------------------------------------------------------------------------
(* A cache just constructed satisfies the invariant.                       *)
LEMMA InvariantInitially == Init => IInv
  BY EmptyIsLinked, CacheAssumption
     DEF Init, IInv, TypeOK, ListMatchesMap, CapacityRespected, Present, Linked

(* Every operation keeps the invariant; a read changes only ret.           *)
LEMMA InvariantStep == IInv /\ [Next]_vars => IInv'
  <1> SUFFICES ASSUME IInv, [Next]_vars PROVE IInv'
    OBVIOUS
  <1>1. ASSUME NEW k \in Key, Contains(k) PROVE IInv'
    BY <1>1 DEF Contains, IInv, TypeOK, ListMatchesMap, CapacityRespected, Present
  <1>2. ASSUME NEW k \in Key, Get(k) PROVE IInv'
    BY <1>2 DEF Get, IInv, TypeOK, Entry, ListMatchesMap, CapacityRespected, Present
  <1>3. ASSUME NEW k \in Key, RejectInsert(k) PROVE IInv'
    BY <1>3 DEF RejectInsert, IInv, TypeOK, ListMatchesMap, CapacityRespected, Present
  <1>4. ASSUME NEW k \in Key, NEW v \in Value, Insert(k, v) PROVE IInv'
    BY <1>3, <1>4, InsertNewKeeps, OverwriteKeeps DEF Insert
  <1>5. CASE UNCHANGED vars
    BY <1>5 DEF vars, IInv, TypeOK, ListMatchesMap, CapacityRespected, Present
  <1> QED
    BY <1>1, <1>2, <1>4, <1>5, SetCapacityKeeps, ClearKeeps DEF Next

(* After any sequence of calls with any capacities, the values are of the  *)
(* right kind, the list and the map hold the same keys once each, the map  *)
(* points at live list nodes, and the bound is kept.                       *)
THEOREM InvariantHolds == Spec => []IInv
  BY InvariantInitially, InvariantStep, PTL DEF Spec

(* Every value insert(), contains() and value() give is of the right kind. *)
THEOREM TypeCorrect == Spec => []TypeOK
  <1>1. IInv => TypeOK
    BY DEF IInv
  <1> QED
    BY <1>1, InvariantHolds, PTL

(* An eviction always finds the tail's key, and no iterator dangles.       *)
THEOREM ListAlwaysMatchesMap == Spec => []ListMatchesMap
  <1>1. IInv => ListMatchesMap
    BY DEF IInv
  <1> QED
    BY <1>1, InvariantHolds, PTL

(* The number of entries is at most the capacity, unless that is 0.        *)
THEOREM CapacityAlwaysRespected == Spec => []CapacityRespected
  <1>1. IInv => CapacityRespected
    BY DEF IInv
  <1> QED
    BY <1>1, InvariantHolds, PTL-------------------------------------------------------------------------------
(* The contract counts as the cache does (the provers take the operator of *)
(* the instantiated module for another one).                               *)
LEMMA SameCardinality == ASSUME NEW S PROVE Contract!Cardinality(S) = Cardinality(S)
  BY DEF Contract!Cardinality, Cardinality

(* A cache just constructed is a cache without entries.                    *)
LEMMA ContractInitially == Init => Contract!Init
  BY CacheAssumption DEF Init, Contract!Init, Present

(* An insertion that goes through is a write that loses the tail's key     *)
(* when the cache is full, and no key otherwise.                           *)
LEMMA StoreIsWrite ==
    ASSUME IInv, NEW k \in Key, NEW v \in Value, NEW node \in ListNode,
           Store(k, v, node), capacity' = capacity
    PROVE  Contract!Write(k, v)
  <1> DEFINE lost == IF Full THEN {LastNode[1]} ELSE {}
             st == [j \in Present |-> lookup[j].val]
  <1>1. /\ Present' = KeptKeys \cup {k}
        /\ lookup'[k] = [val |-> v, it |-> node]
        /\ \A j \in KeptKeys : j # k => lookup'[j] = lookup[j]
        /\ capacity > 0 => Cardinality(Present') <= capacity
    BY StoredEntries
  <1>2. lost \subseteq Present /\ KeptKeys = Present \ lost
    BY KeptIsLinked DEF KeptKeys
  <1>3. lost # {} => Contract!Full /\ Cardinality(lost) = 1
    <2>1. lost # {} => Full /\ Cardinality(lost) = 1
      BY FS_Singleton
    <2>2. Full => Contract!Full
      <3>1. DOMAIN st = Present
        OBVIOUS
      <3> HIDE DEF st
      <3>2. Full => capacity > 0 /\ Cardinality(DOMAIN st) = capacity
        BY <3>1 DEF Full
      <3> QED
        BY <3>2, SameCardinality DEF st, Contract!Full
    <2> QED
      BY <2>1, <2>2
  <1> HIDE DEF lost
  <1>4. st' = [j \in (Present \ lost) \cup {k} |-> IF j = k THEN v ELSE st[j]]
    <2>1. st' = [j \in Present' |-> lookup'[j].val]
      OBVIOUS
    <2>2. \A j \in Present' : lookup'[j].val = IF j = k THEN v ELSE st[j]
      BY <1>1, <1>2
    <2> QED
      BY <1>1, <1>2, <2>1, <2>2
  <1>5. DOMAIN st = Present /\ DOMAIN st' = Present'
    OBVIOUS
  <1> HIDE DEF st
  <1>6. \E l \in SUBSET DOMAIN st :
           /\ l # {} => Contract!Full /\ Cardinality(l) = 1
           /\ st' = [j \in (DOMAIN st \ l) \cup {k} |-> IF j = k THEN v ELSE st[j]]
    BY <1>2, <1>3, <1>4, <1>5
  <1>7. capacity > 0 => Cardinality(DOMAIN st') <= capacity
    BY <1>1, <1>5
  <1> USE DEF st
  <1> QED
    BY <1>6, <1>7, SameCardinality DEF Contract!Write

(* set_capacity() is an abstract resize: what it keeps fits, and it loses  *)
(* nothing that would have fitted.                                         *)
LEMMA SetCapacityIsResize ==
    ASSUME IInv, NEW c \in Capacities, SetCapacity(c)
    PROVE  Contract!Resize
  <1> DEFINE st == [j \in Present |-> lookup[j].val]
  <1>1. /\ Present' \subseteq Present
        /\ lookup' = [j \in Present' |-> lookup[j]]
        /\ Cardinality(Present') <= c
        /\ Cardinality(Present) <= c => Present' = Present
    BY ResizedEntries
  <1>2. capacity' = c /\ c \in Nat
    BY CacheAssumption DEF SetCapacity
  <1>3. st' = [j \in Present' |-> st[j]]
    <2>1. \A j \in Present' : lookup'[j].val = st[j]
      BY <1>1
    <2> QED
      BY <2>1
  <1>4. DOMAIN st = Present
    OBVIOUS
  <1> HIDE DEF st
  <1>5. \E kept \in SUBSET DOMAIN st :
           /\ Cardinality(kept) <= capacity'
           /\ Cardinality(DOMAIN st) <= capacity' => kept = DOMAIN st
           /\ st' = [j \in kept |-> st[j]]
    BY <1>1, <1>2, <1>3, <1>4
  <1> USE DEF st
  <1> QED
    BY <1>2, <1>5, SameCardinality DEF Contract!Resize, Contract!Restrict

(* clear() is the abstract clear.                                          *)
LEMMA ClearIsClear == Clear => Contract!Clear
  BY EmptyIsLinked DEF Clear, Present, Contract!Clear, Contract!Restrict

(* Every operation is a step of the contract, or leaves its state as it is *)
(* (reads and rejected insertions).                                        *)
LEMMA ContractStep == IInv /\ [Next]_vars => [Contract!Next]_(Contract!vars)
  <1> SUFFICES ASSUME IInv, [Next]_vars PROVE [Contract!Next]_(Contract!vars)
    OBVIOUS
  <1>1. ASSUME UNCHANGED <<capacity, lookup>> PROVE UNCHANGED Contract!vars
    BY <1>1 DEF Contract!vars, Present
  <1>2. ASSUME NEW k \in Key, Contains(k) \/ Get(k) PROVE UNCHANGED Contract!vars
    BY <1>1, <1>2 DEF Contains, Get
  <1>3. ASSUME NEW k \in Key, NEW v \in Value, Insert(k, v)
        PROVE  Contract!Write(k, v) \/ UNCHANGED Contract!vars
    <2>1. CASE RejectInsert(k)
      BY <1>1, <2>1 DEF RejectInsert
    <2>2. CASE InsertNew(k, v)
      BY <2>2, StoreIsWrite DEF InsertNew, ListNode
    <2>3. CASE Overwrite(k, v)
      <3>1. order'[1] \in ListNode /\ Store(k, v, order'[1]) /\ capacity' = capacity
        BY <2>3, OverwrittenNode DEF Overwrite
      <3> QED
        BY <3>1, StoreIsWrite
    <2> QED
      BY <1>3, <2>1, <2>2, <2>3 DEF Insert
  <1>4. ASSUME NEW c \in Capacities, SetCapacity(c) PROVE Contract!Resize
    BY <1>4, SetCapacityIsResize
  <1> QED
    BY <1>1, <1>2, <1>3, <1>4, ClearIsClear DEF Next, vars, Contract!Next

(* Whatever its capacities and the order of its list, the cache keeps the  *)
(* contract of its clients: a write costs at most one other entry, and     *)
(* only when the cache is full, an entry changes only when it is written,  *)
(* and a smaller capacity never leaves more entries than it allows.        *)
THEOREM ContractImplemented == Spec => ImplementsContract
  BY InvariantHolds, ContractInitially, ContractStep, PTL
     DEF Spec, ImplementsContract, Contract!Spec
-------------------------------------------------------------------------------
(* A present key was inserted, and all the cache keeps of it is its latest  *)
(* value; that evictions take a key with its entry is IInv.                 *)
HInv == IInv /\ Present \subseteq DOMAIN given /\ HoldsLatestValues

(* A cache just constructed holds nothing.                                  *)
LEMMA HistoryInitially == HInit => HInv
  BY InvariantInitially DEF HInit, Init, HInv, HoldsLatestValues, Present

(* What an insertion stores is what it records as given; all other entries  *)
(* it keeps are old ones.                                                   *)
LEMMA StoredIsGiven ==
    ASSUME HInv, NEW k \in Key, NEW v \in Value, NEW node \in ListNode, Store(k, v, node),
           given' = [j \in DOMAIN given \cup {k} |-> IF j = k THEN v ELSE given[j]]
    PROVE  Present' \subseteq DOMAIN given' /\ HoldsLatestValues'
  <1>1. /\ Present' = KeptKeys \cup {k}
        /\ lookup'[k].val = v
        /\ \A j \in KeptKeys : j # k => lookup'[j] = lookup[j]
    <2>1. IInv
      BY DEF HInv
    <2>2. /\ Present' = KeptKeys \cup {k}
          /\ lookup'[k] = [val |-> v, it |-> node]
          /\ \A j \in KeptKeys : j # k => lookup'[j] = lookup[j]
      BY <2>1, StoredEntries
    <2> QED
      BY <2>2
  <1>2. KeptKeys \subseteq Present
    BY KeptIsLinked DEF HInv
  <1>3. \A j \in KeptKeys : j \in DOMAIN given /\ lookup[j].val = given[j]
    BY <1>2 DEF HInv, HoldsLatestValues
  <1>4. Present' \subseteq DOMAIN given'
    BY <1>1, <1>3
  <1>5. ASSUME NEW j \in Present' PROVE lookup'[j].val = given'[j]
    <2>1. CASE j = k
      BY <2>1, <1>1
    <2>2. CASE j # k
      BY <2>2, <1>1, <1>3
    <2> QED
      BY <2>1, <2>2
  <1> QED
    BY <1>4, <1>5 DEF HoldsLatestValues

LEMMA InsertKeepsLatest ==
    ASSUME HInv, NEW k \in Key, NEW v \in Value, HInsert(k, v)
    PROVE  Present' \subseteq DOMAIN given' /\ HoldsLatestValues'
  <1>1. CASE Rejects(k)
    <2>1. UNCHANGED <<lookup, given>>
      BY <1>1 DEF HInsert, Insert, RejectInsert, InsertNew, Overwrite, history
    <2> QED
      BY <2>1 DEF HInv, HoldsLatestValues, Present
  <1>2. CASE ~Rejects(k)
    <2>1. given' = [j \in DOMAIN given \cup {k} |-> IF j = k THEN v ELSE given[j]]
      BY <1>2 DEF HInsert
    <2>2. CASE InsertNew(k, v)
      <3>1. Store(k, v, <<k, 0>>) /\ <<k, 0>> \in ListNode
        BY <2>2 DEF InsertNew, ListNode
      <3> QED
        BY <3>1, <2>1, StoredIsGiven
    <2>3. CASE Overwrite(k, v)
      <3>1. Store(k, v, order'[1]) /\ order'[1] \in ListNode
        BY <2>3, OverwrittenNode DEF Overwrite, HInv
      <3> QED
        BY <3>1, <2>1, StoredIsGiven
    <2> QED
      BY <1>2, <2>2, <2>3 DEF HInsert, Insert, RejectInsert
  <1> QED
    BY <1>1, <1>2

(* A smaller capacity drops entries and changes none.                       *)
LEMMA SetCapacityKeepsLatest ==
    ASSUME HInv, NEW c \in Capacities, HSetCapacity(c)
    PROVE  Present' \subseteq DOMAIN given' /\ HoldsLatestValues'
  <1>1. /\ Present' \subseteq Present
        /\ lookup' = [j \in Present' |-> lookup[j]]
        /\ given' = given
    BY ResizedEntries DEF HInv, HSetCapacity, history
  <1>2. \A j \in Present' : lookup'[j] = lookup[j]
    BY <1>1
  <1> QED
    BY <1>1, <1>2 DEF HInv, HoldsLatestValues

LEMMA HistoryStep == HInv /\ [HNext]_<<vars, history>> => HInv'
  <1> SUFFICES ASSUME HInv, [HNext]_<<vars, history>> PROVE HInv'
    OBVIOUS
  <1>1. [Next]_vars
    BY DEF HNext, HRead, HInsert, HSetCapacity, HClear, Next
  <1>2. IInv'
    BY <1>1, InvariantStep DEF HInv
  <1>3. ASSUME UNCHANGED <<lookup, given>>
        PROVE  Present' \subseteq DOMAIN given' /\ HoldsLatestValues'
    BY <1>3 DEF HInv, HoldsLatestValues, Present
  <1>4. ASSUME NEW k \in Key, HRead(k) PROVE UNCHANGED <<lookup, given>>
    BY <1>4 DEF HRead, Contains, Get
  <1>5. ASSUME HClear PROVE Present' \subseteq DOMAIN given' /\ HoldsLatestValues'
    BY <1>5 DEF HClear, Clear, Present, HoldsLatestValues
  <1>6. CASE UNCHANGED <<vars, history>>
    BY <1>2, <1>3, <1>6 DEF HInv, vars, history
  <1>7. CASE HNext
    BY <1>2, <1>3, <1>4, <1>5, <1>7, InsertKeepsLatest, SetCapacityKeepsLatest DEF HInv, HNext
  <1> QED
    BY <1>6, <1>7

(* value() never returns an outdated object: the entry of a key is the one  *)
(* last given to insert(), across evictions and changes of the capacity.    *)
THEOREM LatestValuesHeld == HSpec => []HoldsLatestValues
  <1>1. HInv => HoldsLatestValues
    BY DEF HInv
  <1> QED
    BY <1>1, HistoryInitially, HistoryStep, PTL DEF HSpec
-------------------------------------------------------------------------------
Distinct(seq) == \A i, j \in DOMAIN seq : seq[i] = seq[j] => i = j

(* The keys of the list ord are the first ones of seq.                      *)
Heads(ord, seq) ==
    /\ Len(ord) <= Len(seq)
    /\ \A i \in DOMAIN ord : ord[i][1] = seq[i]

(* The keys written since the last clear, once each, begin with the keys of *)
(* the list: that they are distinct is what makes a second write of a key   *)
(* move it in both alike.                                                   *)
WInv == /\ IInv
        /\ written \in Seq(Key)
        /\ Distinct(written)
        /\ Heads(order, written)

(* Where the elements of a sequence go when k is put at its front: those    *)
(* before the old place p of k (after the end, when k is new) move back by  *)
(* one, those after p stay.                                                 *)
Fronted(new, seq, k, p) ==
    /\ p \in 1..(Len(seq) + 1)
    /\ new \in Seq(Key)
    /\ Len(new) = IF p <= Len(seq) THEN Len(seq) ELSE Len(seq) + 1
    /\ new[1] = k
    /\ p <= Len(seq) => seq[p] = k
    /\ \A j \in 1..(p - 1) : new[j + 1] = seq[j] /\ seq[j] # k
    /\ \A j \in (p + 1)..Len(seq) : new[j] = seq[j]

LEMMA ToFrontElements ==
    ASSUME NEW seq \in Seq(Key), NEW k \in Key, Distinct(seq)
    PROVE  \E p \in Nat : Fronted(ToFront(seq, k), seq, k, p)
  <1>1. /\ Len(seq) \in Nat /\ DOMAIN seq = 1..Len(seq)
        /\ \A j \in 1..Len(seq) : seq[j] \in Key
    BY LenProperties, ElementOfSeq
  <1>2. <<k>> \in Seq(Key) /\ Len(<<k>>) = 1 /\ <<k>>[1] = k
    OBVIOUS
  <1>3. CASE \A i \in DOMAIN seq : seq[i] # k
    <2>1. ToFront(seq, k) = <<k>> \o seq
      BY <1>3 DEF ToFront, Without
    <2>2. /\ <<k>> \o seq \in Seq(Key) /\ Len(<<k>> \o seq) = Len(seq) + 1
          /\ \A j \in 1..(Len(seq) + 1) : (<<k>> \o seq)[j] = IF j <= 1 THEN k ELSE seq[j - 1]
      BY <1>1, <1>2, ConcatProperties
    <2>3. Fronted(ToFront(seq, k), seq, k, Len(seq) + 1)
      <3> DEFINE new == ToFront(seq, k)
      <3>1. /\ new \in Seq(Key) /\ Len(new) = Len(seq) + 1
            /\ \A j \in 1..(Len(seq) + 1) : new[j] = IF j <= 1 THEN k ELSE seq[j - 1]
        BY <2>1, <2>2
      <3> HIDE DEF new
      <3>2. new[1] = k /\ \A j \in 1..Len(seq) : new[j + 1] = seq[j] /\ seq[j] # k
        BY <1>1, <1>3, <3>1
      <3>3. Fronted(new, seq, k, Len(seq) + 1)
        BY <1>1, <3>1, <3>2 DEF Fronted
      <3> QED
        BY <3>3 DEF new
    <2> QED
      BY <1>1, <2>3
  <1>4. CASE \E i \in DOMAIN seq : seq[i] = k
    <2> DEFINE p == CHOOSE i \in DOMAIN seq : seq[i] = k
               front == SubSeq(seq, 1, p - 1)
               back == SubSeq(seq, p + 1, Len(seq))
    <2>1. p \in 1..Len(seq) /\ seq[p] = k
      BY <1>1, <1>4
    <2>2. ToFront(seq, k) = <<k>> \o (front \o back)
      BY <1>4 DEF ToFront, Without
    <2> HIDE DEF p
    <2>3. /\ front \in Seq(Key) /\ Len(front) = p - 1
          /\ \A j \in 1..(p - 1) : front[j] = seq[j]
      BY <1>1, <2>1, SubSeqProperties
    <2>4. /\ back \in Seq(Key) /\ Len(back) = Len(seq) - p
          /\ \A j \in 1..(Len(seq) - p) : back[j] = seq[p + j]
      <3>1. \A j \in (p + 1)..Len(seq) : seq[j] \in Key
        BY <1>1, <2>1
      <3>2. p + 1 \in 1..(Len(seq) + 1) /\ Len(seq) \in Nat
        BY <1>1, <2>1
      <3> DEFINE m == p + 1
      <3>3. /\ SubSeq(seq, m, Len(seq)) \in Seq(Key)
            /\ Len(SubSeq(seq, m, Len(seq))) = IF m <= Len(seq) THEN Len(seq) - m + 1 ELSE 0
            /\ \A j \in 1..(Len(seq) - m + 1) : SubSeq(seq, m, Len(seq))[j] = seq[m + j - 1]
        <4> HIDE DEF m
        <4> QED
          BY <3>1, <3>2, SubSeqProperties DEF m
      <3>4. m = p + 1 /\ back = SubSeq(seq, m, Len(seq))
        OBVIOUS
      <3> HIDE DEF m, back
      <3>5. /\ back \in Seq(Key) /\ Len(back) = Len(seq) - p
            /\ Len(seq) - m + 1 = Len(seq) - p
        <4>1. Len(seq) \in Nat /\ p \in 1..Len(seq) /\ m = p + 1
          BY <1>1, <2>1, <3>4
        <4>2. Len(seq) - m + 1 = Len(seq) - p
          BY <4>1
        <4>3. (IF m <= Len(seq) THEN Len(seq) - m + 1 ELSE 0) = Len(seq) - p
          BY <4>1
        <4> QED
          BY <3>3, <3>4, <4>2, <4>3
      <3>6. ASSUME NEW j \in 1..(Len(seq) - p) PROVE back[j] = seq[p + j]
        <4>1. j \in 1..(Len(seq) - m + 1)
          BY <3>5
        <4>2. back[j] = seq[m + j - 1]
          BY <3>3, <3>4, <4>1
        <4>3. m + j - 1 = p + j
          BY <2>1, <3>4
        <4> QED
          BY <4>2, <4>3
      <3> QED
        BY <3>5, <3>6
    <2> HIDE DEF front, back
    <2> DEFINE rest == front \o back
    <2>5. /\ rest \in Seq(Key) /\ Len(rest) = Len(seq) - 1
          /\ \A j \in 1..(Len(seq) - 1) : rest[j] = IF j <= p - 1 THEN front[j] ELSE back[j - (p - 1)]
      <3>1. /\ rest \in Seq(Key) /\ Len(rest) = Len(front) + Len(back)
            /\ \A j \in 1..(Len(front) + Len(back)) : rest[j] =
                  IF j <= Len(front) THEN front[j] ELSE back[j - Len(front)]
        BY <2>3, <2>4, ConcatProperties
      <3>2. Len(front) + Len(back) = Len(seq) - 1
        BY <1>1, <2>1, <2>3, <2>4
      <3> QED
        BY <2>3, <3>1, <3>2
    <2> HIDE DEF rest
    <2>6. \A j \in p..(Len(seq) - 1) : rest[j] = seq[j + 1]
      <3> TAKE j \in p..(Len(seq) - 1)
      <3>1. rest[j] = back[j - (p - 1)] /\ j - (p - 1) \in 1..(Len(seq) - p)
        BY <1>1, <2>1, <2>5
      <3>2. p + (j - (p - 1)) = j + 1
        BY <1>1, <2>1
      <3> QED
        BY <2>4, <3>1, <3>2
    <2>7. \A j \in 1..(p - 1) : rest[j] = seq[j]
      <3> TAKE j \in 1..(p - 1)
      <3>1. j \in 1..(Len(seq) - 1) /\ j <= p - 1
        BY <1>1, <2>1
      <3>2. rest[j] = front[j]
        BY <2>5, <3>1
      <3> QED
        BY <2>3, <3>2
    <2> DEFINE new == <<k>> \o rest
    <2>8. /\ new \in Seq(Key) /\ Len(new) = Len(seq)
          /\ \A j \in 1..Len(seq) : new[j] = IF j <= 1 THEN k ELSE rest[j - 1]
      <3>1. /\ new \in Seq(Key) /\ Len(new) = Len(<<k>>) + Len(rest)
            /\ \A j \in 1..(Len(<<k>>) + Len(rest)) : new[j] =
                  IF j <= Len(<<k>>) THEN <<k>>[j] ELSE rest[j - Len(<<k>>)]
        BY <1>2, <2>5, ConcatProperties
      <3>2. Len(<<k>>) + Len(rest) = Len(seq)
        BY <1>1, <1>2, <2>5
      <3>3. \A j \in 1..Len(seq) : j <= 1 => <<k>>[j] = k
        BY <1>1, <1>2
      <3> QED
        BY <1>2, <3>1, <3>2, <3>3
    <2> HIDE DEF new
    <2>9. new[1] = k /\ \A j \in 1..(Len(seq) - 1) : new[j + 1] = rest[j]
      BY <1>1, <2>1, <2>8
    <2>10. \A j \in 1..(p - 1) : new[j + 1] = seq[j] /\ seq[j] # k
      <3> TAKE j \in 1..(p - 1)
      <3>1. j \in 1..(Len(seq) - 1) /\ j # p
        BY <1>1, <2>1
      <3>2. new[j + 1] = seq[j]
        BY <2>7, <2>9, <3>1
      <3>3. j \in 1..Len(seq)
        BY <1>1, <3>1
      <3> QED
        BY <1>1, <2>1, <3>1, <3>2, <3>3 DEF Distinct
    <2>11. \A j \in (p + 1)..Len(seq) : new[j] = seq[j]
      <3> TAKE j \in (p + 1)..Len(seq)
      <3>1. j - 1 \in p..(Len(seq) - 1) /\ j - 1 \in 1..(Len(seq) - 1) /\ (j - 1) + 1 = j
        BY <1>1, <2>1
      <3> QED
        BY <2>6, <2>9, <3>1
    <2>12. Fronted(new, seq, k, p)
      BY <1>1, <2>1, <2>8, <2>9, <2>10, <2>11 DEF Fronted
    <2>13. ToFront(seq, k) = new
      BY <2>2 DEF new, rest
    <2> QED
      BY <1>1, <2>1, <2>12, <2>13
  <1> QED
    BY <1>3, <1>4

LEMMA FrontedDistinct ==
    ASSUME NEW seq \in Seq(Key), NEW k \in Key, Distinct(seq),
           NEW new, NEW p \in Nat, Fronted(new, seq, k, p)
    PROVE  Distinct(new)
  <1> DEFINE Old(j) == IF j <= p THEN j - 1 ELSE j
  <1>1. /\ Len(seq) \in Nat /\ DOMAIN seq = 1..Len(seq)
        /\ Len(new) \in Nat /\ DOMAIN new = 1..Len(new)
    BY LenProperties DEF Fronted
  <1>2. ASSUME NEW j \in 2..Len(new)
        PROVE  Old(j) \in 1..Len(seq) /\ Old(j) # p /\ new[j] = seq[Old(j)]
    <2>1. CASE j <= p
      <3>1. j - 1 \in 1..(p - 1) /\ j - 1 \in 1..Len(seq) /\ (j - 1) + 1 = j
        BY <1>1, <2>1 DEF Fronted
      <3> QED
        BY <2>1, <3>1 DEF Fronted
    <2>2. CASE j > p
      <3>1. j \in (p + 1)..Len(seq)
        BY <1>1, <2>2 DEF Fronted
      <3> QED
        BY <1>1, <2>2, <3>1 DEF Fronted
    <2> QED
      BY <1>1, <2>1, <2>2 DEF Fronted
  <1>3. ASSUME NEW j \in 2..Len(new) PROVE new[j] # k
    <2>1. Old(j) \in 1..Len(seq) /\ Old(j) # p /\ new[j] = seq[Old(j)]
      BY <1>2
    <2> HIDE DEF Old
    <2>2. CASE p <= Len(seq)
      BY <1>1, <2>1, <2>2 DEF Fronted, Distinct
    <2>3. CASE p > Len(seq)
      <3>1. Old(j) \in 1..(p - 1)
        BY <1>1, <2>1, <2>3 DEF Fronted
      <3> QED
        BY <2>1, <3>1 DEF Fronted
    <2> QED
      BY <1>1, <2>2, <2>3
  <1>4. \A i, j \in 2..Len(new) : Old(i) = Old(j) => i = j
    <2> SUFFICES ASSUME NEW i \in 2..Len(new), NEW j \in 2..Len(new), Old(i) = Old(j)
                 PROVE  i = j
      OBVIOUS
    <2>1. Old(i) # p /\ Old(j) # p
      BY <1>2
    <2> QED
      BY <1>1, <2>1
  <1>5. \A i, j \in 2..Len(new) : new[i] = new[j] => i = j
    <2> SUFFICES ASSUME NEW i \in 2..Len(new), NEW j \in 2..Len(new), new[i] = new[j]
                 PROVE  i = j
      OBVIOUS
    <2>1. Old(i) \in 1..Len(seq) /\ Old(j) \in 1..Len(seq) /\ seq[Old(i)] = seq[Old(j)]
      BY <1>2
    <2> HIDE DEF Old
    <2>2. Old(i) = Old(j)
      BY <1>1, <2>1 DEF Distinct
    <2> QED
      BY <1>4, <2>2
  <1>6. new[1] = k /\ \A j \in 1..Len(new) : j = 1 \/ j \in 2..Len(new)
    BY <1>1 DEF Fronted
  <1> QED
    BY <1>1, <1>3, <1>5, <1>6 DEF Distinct

(* Writing a key that is not in the list: it comes first in both.           *)
LEMMA NewHeads ==
    ASSUME NEW seq \in Seq(Key), NEW k \in Key, NEW ord \in Seq(ListNode), Heads(ord, seq),
           \A i \in DOMAIN ord : ord[i][1] # k,
           NEW new, NEW p \in Nat, Fronted(new, seq, k, p)
    PROVE  Heads(<<<<k, 0>>>> \o ord, new)
  <1> DEFINE node == <<k, 0>>
             longer == <<node>> \o ord
  <1>1. /\ Len(seq) \in Nat /\ DOMAIN seq = 1..Len(seq) /\ Len(ord) \in Nat
        /\ DOMAIN ord = 1..Len(ord) /\ Len(ord) <= Len(seq)
        /\ \A i \in 1..Len(ord) : ord[i][1] = seq[i] /\ seq[i] # k
    BY LenProperties DEF Heads
  <1>2. node \in ListNode /\ node[1] = k
    BY DEF ListNode
  <1>3. <<node>> \in Seq(ListNode) /\ Len(<<node>>) = 1 /\ <<node>>[1] = node
    BY <1>2
  <1> HIDE DEF node
  <1>4. /\ longer \in Seq(ListNode) /\ Len(longer) = Len(ord) + 1
        /\ \A i \in 1..(Len(ord) + 1) : longer[i] = IF i <= 1 THEN node ELSE ord[i - 1]
    BY <1>1, <1>3, ConcatProperties
  <1> HIDE DEF longer
  <1>5. DOMAIN longer = 1..(Len(ord) + 1)
    BY <1>4, LenProperties
  <1>6. Len(ord) < p
    <2>1. p <= Len(seq) => seq[p] = k
      BY DEF Fronted
    <2> QED
      BY <1>1, <2>1 DEF Fronted
  <1>7. ASSUME NEW i \in DOMAIN longer PROVE longer[i][1] = new[i]
    <2>1. CASE i = 1
      BY <1>1, <1>2, <1>4, <1>5, <2>1 DEF Fronted
    <2>2. CASE i # 1
      <3>1. i - 1 \in 1..Len(ord) /\ i - 1 \in 1..(p - 1) /\ (i - 1) + 1 = i
        BY <1>1, <1>5, <1>6, <2>2
      <3>2. longer[i] = ord[i - 1]
        BY <1>1, <1>4, <1>5, <2>2
      <3>3. new[i] = seq[i - 1]
        BY <3>1 DEF Fronted
      <3> QED
        BY <1>1, <3>1, <3>2, <3>3
    <2> QED
      BY <2>1, <2>2
  <1>8. Len(longer) <= Len(new)
    BY <1>1, <1>4, <1>6 DEF Fronted
  <1>9. Heads(longer, new)
    BY <1>7, <1>8 DEF Heads
  <1> QED
    BY <1>9 DEF longer, node

(* Writing a key again: it was at the same place of both, and comes first.  *)
LEMMA MovedHeads ==
    ASSUME NEW seq \in Seq(Key), Distinct(seq), NEW ord \in Seq(ListNode), Heads(ord, seq),
           NEW i \in DOMAIN ord,
           NEW new, NEW p \in Nat, Fronted(new, seq, ord[i][1], p)
    PROVE  Heads(MovedToFront(ord, i), new)
  <1> DEFINE moved == MovedToFront(ord, i)
             k == ord[i][1]
  <1>1. /\ Len(seq) \in Nat /\ DOMAIN seq = 1..Len(seq) /\ Len(ord) \in Nat
        /\ DOMAIN ord = 1..Len(ord) /\ Len(ord) <= Len(seq)
        /\ \A j \in 1..Len(ord) : ord[j][1] = seq[j]
    BY LenProperties DEF Heads
  <1>2. /\ moved \in Seq(ListNode) /\ Len(moved) = Len(ord)
        /\ moved[1] = <<ord[i][1], 1 - ord[i][2]>>
        /\ \A j \in 2..Len(ord) : moved[j] = IF j <= i THEN ord[j - 1] ELSE ord[j]
    <2>1. i \in 1..Len(ord)
      BY <1>1
    <2> QED
      BY <2>1, MovedElements
  <1> HIDE DEF moved
  <1>3. moved[1][1] = k
    BY <1>2
  <1>4. DOMAIN moved = 1..Len(ord)
    BY <1>2, LenProperties
  <1>5. Fronted(new, seq, k, p) /\ seq[i] = k
    BY <1>1
  <1> HIDE DEF k
  <1>6. p = i
    <2>1. p <= i
      BY <1>1, <1>5 DEF Fronted
    <2>2. p \in 1..Len(seq) /\ seq[p] = k
      BY <1>1, <1>5, <2>1 DEF Fronted
    <2> QED
      BY <1>1, <1>5, <2>2 DEF Distinct
  <1>7. ASSUME NEW j \in 1..Len(ord) PROVE moved[j][1] = new[j]
    <2>1. CASE j = 1
      BY <1>3, <1>5, <2>1 DEF Fronted
    <2>2. CASE j # 1 /\ j <= i
      <3>1. j - 1 \in 1..Len(ord) /\ j - 1 \in 1..(p - 1) /\ (j - 1) + 1 = j /\ j \in 2..Len(ord)
        BY <1>1, <1>6, <2>2
      <3>2. moved[j] = ord[j - 1]
        BY <1>2, <2>2, <3>1
      <3>3. new[j] = seq[j - 1]
        BY <1>5, <3>1 DEF Fronted
      <3> QED
        BY <1>1, <3>1, <3>2, <3>3
    <2>3. CASE j > i
      <3>1. j \in 2..Len(ord) /\ j \in (p + 1)..Len(seq)
        BY <1>1, <1>6, <2>3
      <3>2. moved[j] = ord[j]
        BY <1>1, <1>2, <2>3, <3>1
      <3>3. new[j] = seq[j]
        BY <1>5, <3>1 DEF Fronted
      <3> QED
        BY <1>1, <3>2, <3>3
    <2> QED
      BY <1>1, <2>1, <2>2, <2>3
  <1>8. Len(ord) <= Len(new)
    BY <1>1, <1>5, <1>6 DEF Fronted
  <1>9. Heads(moved, new)
    BY <1>2, <1>4, <1>7, <1>8 DEF Heads
  <1> QED
    BY <1>9 DEF moved

(* A list cut at its tail still begins like what was written.               *)
LEMMA PrefixHeads ==
    ASSUME NEW seq \in Seq(Key), NEW ord \in Seq(ListNode), Heads(ord, seq), NEW n \in 0..Len(ord)
    PROVE  Heads(SubSeq(ord, 1, n), seq)
  <1>1. Len(ord) \in Nat /\ DOMAIN ord = 1..Len(ord) /\ Len(seq) \in Nat
    BY LenProperties
  <1>2. /\ SubSeq(ord, 1, n) \in Seq(ListNode) /\ Len(SubSeq(ord, 1, n)) = n
        /\ \A i \in 1..n : SubSeq(ord, 1, n)[i] = ord[i]
    <2>1. \A i \in 1..n : ord[i] \in ListNode
      BY <1>1, ElementOfSeq
    <2> QED
      BY <1>1, <2>1, SubSeqProperties
  <1>3. DOMAIN SubSeq(ord, 1, n) = 1..n
    BY <1>2, LenProperties
  <1> QED
    BY <1>1, <1>2, <1>3 DEF Heads

LEMMA KeptHeads ==
    ASSUME WInv
    PROVE  KeptOrder \in Seq(ListNode) /\ Heads(KeptOrder, written)
  <1>1. order \in Seq(ListNode) /\ Len(order) \in Nat
    BY LenProperties DEF WInv, IInv, TypeOK
  <1>2. KeptOrder \in Seq(ListNode)
    BY KeptIsLinked DEF WInv, Linked
  <1>3. ASSUME Full PROVE Heads(KeptOrder, written)
    <2>1. Len(order) > 0
      <3>1. Linked(order, Present, lookup)
        BY <1>1, ListMatchesMapIsLinked DEF WInv, IInv
      <3> QED
        BY <1>1, <1>3, <3>1, LinkedLength DEF Full, WInv, IInv, TypeOK
    <2>2. Len(order) - 1 \in 0..Len(order) /\ KeptOrder = SubSeq(order, 1, Len(order) - 1)
      BY <1>1, <1>3, <2>1 DEF KeptOrder
    <2>3. written \in Seq(Key) /\ Heads(order, written)
      BY DEF WInv
    <2> HIDE DEF KeptOrder
    <2>4. Heads(SubSeq(order, 1, Len(order) - 1), written)
      BY <1>1, <2>2, <2>3, PrefixHeads
    <2> QED
      BY <1>2, <2>2, <2>4
  <1>4. ASSUME ~Full PROVE Heads(KeptOrder, written)
    BY <1>4 DEF KeptOrder, WInv
  <1> QED
    BY <1>2, <1>3, <1>4

LEMMA WrittenStep == WInv /\ [HNext]_<<vars, history>> => WInv'
  <1> SUFFICES ASSUME WInv, [HNext]_<<vars, history>> PROVE WInv'
    OBVIOUS
  <1>1. IInv'
    <2>1. [Next]_vars
      BY DEF HNext, HRead, HInsert, HSetCapacity, HClear, Next
    <2> QED
      BY <2>1, InvariantStep DEF WInv
  <1> DEFINE Kept == written' \in Seq(Key) /\ Distinct(written') /\ Heads(order', written')
  <1>2. ASSUME UNCHANGED <<order, written>> PROVE Kept
    BY <1>2 DEF WInv
  <1>3. ASSUME NEW k \in Key, HRead(k) PROVE Kept
    BY <1>2, <1>3 DEF HRead, Contains, Get
  <1>4. ASSUME NEW k \in Key, NEW v \in Value, HInsert(k, v) PROVE Kept
    <2>1. CASE Rejects(k)
      BY <1>2, <1>4, <2>1 DEF HInsert, Insert, RejectInsert, InsertNew, Overwrite, history
    <2>2. CASE ~Rejects(k)
      <3>1. written' = ToFront(written, k) /\ (InsertNew(k, v) \/ Overwrite(k, v))
        BY <1>4, <2>2 DEF HInsert, Insert, RejectInsert
      <3>2. PICK p \in Nat : Fronted(written', written, k, p)
        BY <3>1, ToFrontElements DEF WInv
      <3>3. written' \in Seq(Key) /\ Distinct(written')
        BY <3>2, FrontedDistinct DEF WInv, Fronted
      <3>4. KeptOrder \in Seq(ListNode) /\ Heads(KeptOrder, written)
        BY KeptHeads
      <3>5. Linked(KeptOrder, KeptKeys, lookup)
        BY KeptIsLinked DEF WInv
      <3>6. CASE InsertNew(k, v)
        <4>1. \A i \in DOMAIN KeptOrder : KeptOrder[i][1] # k
          BY <3>5, <3>6 DEF Linked, InsertNew
        <4>2. order' = <<<<k, 0>>>> \o KeptOrder
          BY <3>6 DEF InsertNew
        <4> QED
          BY <3>2, <3>3, <3>4, <4>1, <4>2, NewHeads DEF WInv
      <3>7. CASE Overwrite(k, v)
        <4>1. PICK i \in DOMAIN KeptOrder :
                 KeptOrder[i] = lookup[k].it /\ order' = MovedToFront(KeptOrder, i)
          BY <3>7 DEF Overwrite
        <4>2. KeptOrder[i][1] = k
          BY <3>5, <3>7, <4>1 DEF Linked, Overwrite
        <4>3. Fronted(written', written, KeptOrder[i][1], p)
          BY <3>2, <4>2
        <4> QED
          BY <3>3, <3>4, <4>1, <4>3, MovedHeads DEF WInv
      <3> QED
        BY <3>1, <3>6, <3>7
    <2> QED
      BY <2>1, <2>2
  <1>5. ASSUME NEW c \in Capacities, HSetCapacity(c) PROVE Kept
    <2> DEFINE n == IF Len(order) <= c THEN Len(order) ELSE c
    <2>1. order \in Seq(ListNode) /\ Len(order) \in Nat /\ c \in Nat
      BY CacheAssumption, LenProperties DEF WInv, IInv, TypeOK
    <2>2. n \in 0..Len(order)
      BY <2>1
    <2>3. order' = SubSeq(order, 1, n) /\ written' = written
      BY <1>5 DEF HSetCapacity, SetCapacity, history
    <2> HIDE DEF n
    <2> QED
      BY <2>1, <2>2, <2>3, PrefixHeads DEF WInv
  <1>6. ASSUME HClear PROVE Kept
    BY <1>6 DEF HClear, Clear, Distinct, Heads
  <1>7. CASE UNCHANGED <<vars, history>>
    BY <1>1, <1>2, <1>7 DEF WInv, vars, history
  <1>8. CASE HNext
    BY <1>1, <1>3, <1>4, <1>5, <1>6, <1>8 DEF WInv, HNext
  <1> QED
    BY <1>7, <1>8

(* Which entries an eviction or a smaller capacity leaves: those of the     *)
(* keys written last, in the order of the writes; reads play no part.       *)
THEOREM NewestAreKept == HSpec => []NewestWritesKept
  <1>1. HInit => WInv
    <2> SUFFICES ASSUME HInit PROVE WInv
      OBVIOUS
    <2>1. IInv
      BY InvariantInitially DEF HInit
    <2> QED
      BY <2>1 DEF HInit, Init, WInv, Distinct, Heads
  <1>2. WInv => NewestWritesKept
    BY DEF WInv, Heads, NewestWritesKept
  <1> QED
    BY <1>1, <1>2, WrittenStep, PTL DEF HSpec
===============================================================================
