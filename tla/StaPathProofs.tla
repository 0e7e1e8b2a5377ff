----------------------------- MODULE StaPathProofs -----------------------------
(***************************************************************************)
(* Proofs about the times of the standard analysis, for every netlist,     *)
(* loops included, every flow and every number of analyses: a finished     *)
(* analysis leaves in the tags of a node the times of the netlist's paths; *)
(* what stops one is a node that nothing drives, or a flip-flop that two   *)
(* clocks launch; and no id stored anywhere is out of range.               *)
(*                                                                         *)
(* The argument has three parts.  The handlers, edge by edge, compute the  *)
(* latest and the earliest times of any sets of paths and required times   *)
(* that satisfy the equations of the graph analysed, node by node.  The    *)
(* paths of the netlist satisfy such equations.  And the graph analysed is *)
(* the netlist's under new numbers, which the equations survive.           *)
(***************************************************************************)
EXTENDS StaPipelineProofs

(* Tags and sets of paths of one node: what Later and MinReq make of tags   *)
(* that fit the paths met so far.                                           *)

Path == [domain : Nat, launch : Nat, delay : Nat]
Tag == [arr : Nat, launch : Nat, req : SUBSET Int]

(* One tag per domain of the paths, with the latest of their delays and the *)
(* launch node of one that has it.                                          *)
Fits(tags, paths) ==
    /\ IsFiniteSet(DOMAIN tags)
    /\ \A p \in paths : p.domain \in DOMAIN tags
    /\ \A d \in DOMAIN tags :
          /\ tags[d] \in Tag
          /\ \E p \in paths : p.domain = d /\ p.delay = tags[d].arr /\ p.launch = tags[d].launch
          /\ \A p \in paths : p.domain = d => p.delay <= tags[d].arr

Shifted(paths, delay) == {[p EXCEPT !.delay = @ + delay] : p \in paths}

(* What max_arr makes of them over an edge.                                 *)
LEMMA LaterFits ==
    ASSUME NEW A \in SUBSET Path, NEW B \in SUBSET Path, NEW tags, NEW pulled, NEW delay \in Nat,
           Fits(tags, A), Fits(pulled, B)
    PROVE  LET new == Later(tags, pulled, delay)
           IN /\ Fits(new, A \cup Shifted(B, delay))
              /\ DOMAIN new = DOMAIN tags \cup DOMAIN pulled
              /\ \A d \in DOMAIN new : new[d].req = IF d \in DOMAIN tags THEN tags[d].req ELSE {}
  <1> DEFINE new == Later(tags, pulled, delay)
             C == A \cup Shifted(B, delay)
             kept(d) == d \in DOMAIN pulled => d \in DOMAIN tags /\ tags[d].arr >= pulled[d].arr + delay
             late(d) == [arr |-> pulled[d].arr + delay, launch |-> pulled[d].launch,
                         req |-> IF d \in DOMAIN tags THEN tags[d].req ELSE {}]
  <1>1. /\ DOMAIN new = DOMAIN tags \cup DOMAIN pulled
        /\ \A d \in DOMAIN new : new[d] = IF kept(d) THEN tags[d] ELSE late(d)
    BY DEF Later
  <1>2. /\ \A d \in DOMAIN tags : tags[d] \in Tag
        /\ \A d \in DOMAIN pulled : pulled[d] \in Tag
    BY DEF Fits
  <1>3. IsFiniteSet(DOMAIN new)
    <2>1. IsFiniteSet(DOMAIN tags) /\ IsFiniteSet(DOMAIN pulled)
      BY DEF Fits
    <2>2. IsFiniteSet(DOMAIN tags \cup DOMAIN pulled)
      BY <2>1, FS_Union
    <2> HIDE DEF new
    <2> QED
      BY <1>1, <2>2
  <1>4. ASSUME NEW p \in B
        PROVE  /\ [p EXCEPT !.delay = @ + delay] \in C
               /\ [p EXCEPT !.delay = @ + delay].domain = p.domain
               /\ [p EXCEPT !.delay = @ + delay].launch = p.launch
               /\ [p EXCEPT !.delay = @ + delay].delay = p.delay + delay
    BY DEF Shifted, Path
  <1>5. \A q \in C : q \in A \/ \E p \in B : q = [p EXCEPT !.delay = @ + delay]
    BY DEF Shifted
  <1>6. A \subseteq C
    OBVIOUS
  <1> HIDE DEF new, C, kept, late
  <1>7. \A q \in C : q.domain \in DOMAIN new
    <2> TAKE q \in C
    <2>1. CASE q \in A
      BY <1>1, <2>1 DEF Fits
    <2>2. CASE \E p \in B : q = [p EXCEPT !.delay = @ + delay]
      <3>1. PICK p \in B : q = [p EXCEPT !.delay = @ + delay]
        BY <2>2
      <3>2. q.domain = p.domain /\ p.domain \in DOMAIN pulled
        BY <1>4, <3>1 DEF Fits
      <3> QED
        BY <1>1, <3>2
    <2> QED
      BY <1>5, <2>1, <2>2
  <1>8. ASSUME NEW d \in DOMAIN new
        PROVE  /\ new[d] \in Tag
               /\ new[d].req = IF d \in DOMAIN tags THEN tags[d].req ELSE {}
               /\ \E p \in C : p.domain = d /\ p.delay = new[d].arr /\ p.launch = new[d].launch
               /\ \A p \in C : p.domain = d => p.delay <= new[d].arr
    <2>1. CASE kept(d)
      <3>1. d \in DOMAIN tags /\ new[d] = tags[d] /\ tags[d] \in Tag
        BY <1>1, <1>2, <2>1 DEF kept
      <3>2. \E p \in C : p.domain = d /\ p.delay = new[d].arr /\ p.launch = new[d].launch
        BY <1>6, <3>1 DEF Fits
      <3>3. ASSUME NEW q \in C, q.domain = d PROVE q.delay <= new[d].arr
        <4>1. CASE q \in A
          BY <3>1, <3>3, <4>1 DEF Fits
        <4>2. CASE \E p \in B : q = [p EXCEPT !.delay = @ + delay]
          <5>1. PICK p \in B : q = [p EXCEPT !.delay = @ + delay]
            BY <4>2
          <5>2. q.delay = p.delay + delay /\ p.domain = d /\ p.delay \in Nat
            BY <1>4, <3>3, <5>1 DEF Path
          <5>3. d \in DOMAIN pulled /\ p.delay <= pulled[d].arr
            BY <5>2 DEF Fits
          <5>4. tags[d].arr >= pulled[d].arr + delay
            BY <2>1, <5>3 DEF kept
          <5>5. pulled[d].arr \in Nat /\ tags[d].arr \in Nat
            BY <1>2, <3>1, <5>3 DEF Tag
          <5> QED
            BY <3>1, <5>2, <5>3, <5>4, <5>5
        <4> QED
          BY <1>5, <4>1, <4>2
      <3> QED
        BY <3>1, <3>2, <3>3
    <2>2. CASE ~kept(d)
      <3>1. d \in DOMAIN pulled /\ new[d] = late(d) /\ pulled[d] \in Tag
        BY <1>1, <1>2, <2>2 DEF kept
      <3>2. /\ new[d].arr = pulled[d].arr + delay /\ new[d].launch = pulled[d].launch
            /\ new[d].req = IF d \in DOMAIN tags THEN tags[d].req ELSE {}
        BY <3>1 DEF late
      <3>3. /\ pulled[d].arr \in Nat /\ pulled[d].launch \in Nat
            /\ d \in DOMAIN tags => tags[d].arr \in Nat /\ tags[d].req \in SUBSET Int
        BY <1>2, <3>1 DEF Tag
      <3>4. late(d) \in Tag
        BY <3>3 DEF late, Tag
      <3>5. \E p \in C : p.domain = d /\ p.delay = new[d].arr /\ p.launch = new[d].launch
        <4>1. PICK p \in B : p.domain = d /\ p.delay = pulled[d].arr /\ p.launch = pulled[d].launch
          BY <3>1 DEF Fits
        <4>2. PICK q \in C : q = [p EXCEPT !.delay = @ + delay]
          BY <1>4
        <4>3. q.domain = p.domain /\ q.launch = p.launch /\ q.delay = p.delay + delay
          BY <1>4, <4>2
        <4>4. q.domain = d /\ q.delay = new[d].arr /\ q.launch = new[d].launch
          BY <3>2, <4>1, <4>3
        <4> QED
          BY <4>4
      <3>6. ASSUME NEW q \in C, q.domain = d PROVE q.delay <= new[d].arr
        <4>1. CASE q \in A
          <5>1. d \in DOMAIN tags /\ q.delay <= tags[d].arr /\ q.delay \in Nat
            BY <3>6, <4>1 DEF Fits, Path
          <5>2. ~(tags[d].arr >= pulled[d].arr + delay)
            BY <2>2, <5>1 DEF kept
          <5> QED
            BY <3>2, <3>3, <5>1, <5>2
        <4>2. CASE \E p \in B : q = [p EXCEPT !.delay = @ + delay]
          <5>1. PICK p \in B : q = [p EXCEPT !.delay = @ + delay]
            BY <4>2
          <5>2. q.delay = p.delay + delay /\ p.domain = d /\ p.delay \in Nat
            BY <1>4, <3>6, <5>1 DEF Path
          <5>3. p.delay <= pulled[d].arr
            BY <3>1, <5>2 DEF Fits
          <5> QED
            BY <3>2, <3>3, <5>2, <5>3
        <4> QED
          BY <1>5, <4>1, <4>2
      <3> QED
        BY <3>1, <3>2, <3>4, <3>5, <3>6
    <2> QED
      BY <2>1, <2>2
  <1>9. Fits(new, C)
    BY <1>3, <1>7, <1>8 DEF Fits
  <1> QED
    BY <1>1, <1>8, <1>9 DEF new, C

(* The least of the members of S, as a required time.                       *)
IsLeast(req, S) ==
    \/ S = {} /\ req = {}
    \/ \E x \in S : req = {x} /\ \A y \in S : x <= y

LEMMA LeastIsEarliest ==
    ASSUME NEW S \in SUBSET Int, NEW req, IsLeast(req, S)
    PROVE  req = EarliestOf(S) /\ req \in SUBSET Int
  <1>1. CASE S = {}
    BY <1>1 DEF IsLeast, EarliestOf
  <1>2. CASE S # {}
    <2>1. PICK x \in S : req = {x} /\ \A y \in S : x <= y
      BY <1>2 DEF IsLeast
    <2>2. Min(S) = x
      <3>1. Min(S) \in S /\ \A y \in S : Min(S) <= y
        BY <2>1 DEF Min
      <3>2. Min(S) <= x /\ x <= Min(S) /\ x \in Int /\ Min(S) \in Int
        BY <2>1, <3>1
      <3> QED
        BY <3>2
    <2> QED
      BY <1>2, <2>1, <2>2 DEF EarliestOf
  <1> QED
    BY <1>1, <1>2

(* Of finitely many times there is a least one.                             *)
LEMMA EarliestIsLeast ==
    ASSUME NEW S \in SUBSET Int, IsFiniteSet(S)
    PROVE  IsLeast(EarliestOf(S), S)
  <1>1. CASE S = {}
    BY <1>1 DEF IsLeast, EarliestOf
  <1>2. CASE S # {}
    <2> DEFINE g == [x \in Int |-> 0 - x]
               T == {g[x] : x \in S}
    <2>1. \A x \in Int : g[x] = 0 - x
      OBVIOUS
    <2> HIDE DEF g
    <2>2. T \in SUBSET Int /\ IsFiniteSet(T) /\ T # {}
      <3>1. IsFiniteSet(T)
        BY FiniteImage
      <3>2. \A x \in S : g[x] \in Int
        BY <2>1
      <3>3. T \in SUBSET Int /\ T # {}
        BY <1>2, <3>2
      <3> QED
        BY <3>1, <3>3
    <2>3. Max(T) \in T /\ \A y \in T : y <= Max(T)
      BY <2>2, GreatestMember
    <2>4. PICK x \in S : Max(T) = g[x]
      BY <2>3
    <2>5. \A y \in S : x <= y
      <3> TAKE y \in S
      <3>1. g[y] \in T
        OBVIOUS
      <3>2. g[y] <= g[x] /\ g[y] = 0 - y /\ g[x] = 0 - x /\ x \in Int /\ y \in Int
        BY <2>1, <2>3, <2>4, <3>1
      <3> QED
        BY <3>2
    <2>6. IsLeast({x}, S)
      BY <2>5 DEF IsLeast
    <2> QED
      BY <2>6, LeastIsEarliest
  <1> QED
    BY <1>1, <1>2

(* MinReq.                                                                  *)
LEMMA LeastOfBoth ==
    ASSUME NEW A \in SUBSET Int, NEW B \in SUBSET Int, NEW req, NEW times,
           IsLeast(req, A), IsLeast(times, B)
    PROVE  IsLeast(EarliestOf(req \cup times), A \cup B)
  <1>1. CASE A = {} /\ B = {}
    BY <1>1 DEF IsLeast, EarliestOf
  <1>2. CASE A # {} \/ B # {}
    <2>1. \E x \in A \cup B : IsLeast({x}, req \cup times) /\ \A y \in A \cup B : x <= y
      <3>1. CASE A = {}
        <4>1. PICK x \in B : times = {x} /\ \A y \in B : x <= y
          BY <1>2, <3>1 DEF IsLeast
        <4> QED
          BY <3>1, <4>1 DEF IsLeast
      <3>2. CASE B = {}
        <4>1. PICK x \in A : req = {x} /\ \A y \in A : x <= y
          BY <1>2, <3>2 DEF IsLeast
        <4> QED
          BY <3>2, <4>1 DEF IsLeast
      <3>3. CASE A # {} /\ B # {}
        <4>1. PICK a \in A : req = {a} /\ \A y \in A : a <= y
          BY <3>3 DEF IsLeast
        <4>2. PICK b \in B : times = {b} /\ \A y \in B : b <= y
          BY <3>3 DEF IsLeast
        <4>3. CASE a <= b
          BY <4>1, <4>2, <4>3 DEF IsLeast
        <4>4. CASE ~(a <= b)
          BY <4>1, <4>2, <4>4 DEF IsLeast
        <4> QED
          BY <4>3, <4>4
      <3> QED
        BY <3>1, <3>2, <3>3
    <2>2. PICK x \in A \cup B : IsLeast({x}, req \cup times) /\ \A y \in A \cup B : x <= y
      BY <2>1
    <2>3. req \cup times \in SUBSET Int
      BY DEF IsLeast
    <2>4. {x} = EarliestOf(req \cup times)
      BY <2>2, <2>3, LeastIsEarliest
    <2> QED
      BY <2>2, <2>4 DEF IsLeast
  <1> QED
    BY <1>1, <1>2

Earlier(times, delay) == {r - delay : r \in times}

LEMMA LeastBefore ==
    ASSUME NEW S \in SUBSET Int, NEW delay \in Int, NEW req, IsLeast(req, S)
    PROVE  IsLeast(Earlier(req, delay), Earlier(S, delay))
  <1>1. CASE S = {}
    BY <1>1 DEF IsLeast, Earlier
  <1>2. CASE S # {}
    <2>1. PICK x \in S : req = {x} /\ \A y \in S : x <= y
      BY <1>2 DEF IsLeast
    <2> DEFINE T == Earlier(S, delay)
    <2>2. x - delay \in T /\ Earlier(req, delay) = {x - delay}
      BY <2>1 DEF Earlier
    <2>3. \A y \in T : x - delay <= y
      BY <2>1 DEF Earlier
    <2> HIDE DEF T
    <2>4. IsLeast(Earlier(req, delay), T)
      BY <2>2, <2>3 DEF IsLeast
    <2> QED
      BY <2>4 DEF T
  <1> QED
    BY <1>1, <1>2

(* New required times leave the fit as it is.                               *)
LEMMA FitsStays ==
    ASSUME NEW paths, NEW tags, NEW new, Fits(tags, paths), DOMAIN new = DOMAIN tags,
           \A d \in DOMAIN tags : /\ new[d] \in Tag
                                  /\ new[d].arr = tags[d].arr /\ new[d].launch = tags[d].launch
    PROVE  Fits(new, paths)
  BY DEF Fits

LEMMA NoTagsFit == Fits(NoTags, {}) /\ DOMAIN NoTags = {}
  <1>1. DOMAIN NoTags = {}
    BY DEF NoTags
  <1> QED
    BY <1>1, FS_EmptySet DEF Fits

(* The latest arrival over all domains.                                     *)
LEMMA LatestOfAll ==
    ASSUME NEW paths \in SUBSET Path, NEW tags, Fits(tags, paths)
    PROVE  LET arrivals == {0} \cup {tags[x].arr : x \in DOMAIN tags}
               delaysOf == {0} \cup {p.delay : p \in paths}
           IN Max(arrivals) = Max(delaysOf) /\ Max(arrivals) \in Nat
  <1> DEFINE arrivals == {0} \cup {tags[x].arr : x \in DOMAIN tags}
             delaysOf == {0} \cup {p.delay : p \in paths}
             arr == [x \in DOMAIN tags |-> tags[x].arr]
  <1>1. arrivals \in SUBSET Nat /\ 0 \in arrivals
    BY DEF Fits, Tag
  <1>2. IsFiniteSet(arrivals)
    <2>1. IsFiniteSet({arr[x] : x \in DOMAIN tags}) /\ IsFiniteSet({0})
      <3> DEFINE D == DOMAIN tags
      <3>1. IsFiniteSet(D)
        BY DEF Fits
      <3> HIDE DEF arr, D
      <3>2. IsFiniteSet({arr[x] : x \in D})
        BY <3>1, FiniteImage
      <3> QED
        BY <3>2, FS_Singleton DEF D
    <2>2. arrivals = {0} \cup {arr[x] : x \in DOMAIN tags}
      OBVIOUS
    <2> HIDE DEF arr, arrivals
    <2> QED
      BY <2>1, <2>2, FS_Union
  <1>3. Max(arrivals) \in arrivals /\ \A y \in arrivals : y <= Max(arrivals)
    <2> HIDE DEF arrivals
    <2> QED
      BY <1>1, <1>2, GreatestMember
  <1>4. delaysOf \in SUBSET Nat /\ arrivals \subseteq delaysOf
    BY DEF Path, Fits
  <1>5. \A y \in delaysOf : \E z \in arrivals : y <= z
    <2> TAKE y \in delaysOf
    <2>1. CASE y = 0
      BY <2>1
    <2>2. CASE y # 0
      <3>1. PICK p \in paths : y = p.delay
        BY <2>2
      <3>2. p.domain \in DOMAIN tags /\ p.delay <= tags[p.domain].arr
        BY DEF Fits
      <3> QED
        BY <3>1, <3>2
    <2> QED
      BY <2>1, <2>2
  <1> HIDE DEF arrivals, delaysOf
  <1> DEFINE max == Max(arrivals)
  <1>6. max \in delaysOf /\ max \in Nat /\ \A y \in delaysOf : y <= max
    <2>1. max \in delaysOf /\ max \in Nat
      BY <1>1, <1>3, <1>4
    <2>2. ASSUME NEW y \in delaysOf PROVE y <= max
      <3>1. PICK z \in arrivals : y <= z
        BY <1>5
      <3>2. z <= max /\ y \in Nat /\ z \in Nat
        BY <1>1, <1>3, <1>4
      <3> QED
        BY <2>1, <3>1, <3>2
    <2> QED
      BY <2>1, <2>2
  <1> HIDE DEF max
  <1>7. Max(delaysOf) = max
    <2>1. Max(delaysOf) \in delaysOf /\ \A y \in delaysOf : Max(delaysOf) >= y
      BY <1>4, <1>6 DEF Max
    <2>2. Max(delaysOf) <= max /\ max <= Max(delaysOf) /\ Max(delaysOf) \in Nat
      BY <1>4, <1>6, <2>1
    <2> QED
      BY <1>6, <2>2
  <1> QED
    BY <1>6, <1>7 DEF max, arrivals, delaysOf

(* The latest arrival of one domain.                                        *)
LEMMA LatestOfDomain ==
    ASSUME NEW paths \in SUBSET Path, NEW tags, Fits(tags, paths), NEW d
    PROVE  /\ d \in DOMAIN tags <=> DelaysTo(paths, d) # {}
           /\ d \in DOMAIN tags => /\ Max(DelaysTo(paths, d)) = tags[d].arr
                                   /\ tags[d].arr \in Nat
  <1> DEFINE S == DelaysTo(paths, d)
  <1>1. \A y : y \in S <=> \E p \in paths : p.domain = d /\ p.delay = y
    BY DEF DelaysTo
  <1> HIDE DEF S
  <1>2. d \in DOMAIN tags <=> S # {}
    BY <1>1 DEF Fits
  <1>3. ASSUME d \in DOMAIN tags PROVE Max(S) = tags[d].arr /\ tags[d].arr \in Nat
    <2>1. tags[d].arr \in S /\ tags[d].arr \in Nat
      BY <1>1, <1>3 DEF Fits, Tag
    <2>2. S \in SUBSET Nat /\ \A y \in S : y <= tags[d].arr
      BY <1>1, <1>3 DEF Fits, Path
    <2>3. Max(S) \in S /\ \A y \in S : Max(S) >= y
      BY <2>1, <2>2 DEF Max
    <2>4. Max(S) <= tags[d].arr /\ tags[d].arr <= Max(S) /\ Max(S) \in Nat
      BY <2>1, <2>2, <2>3
    <2> QED
      BY <2>1, <2>4
  <1> QED
    BY <1>2, <1>3 DEF S
-------------------------------------------------------------------------------
(* Then the walk.  What it needs of a levelized graph: the lists name edges  *)
(* of their node, edges go up, a node is placed if its sources are, and the  *)
(* first level holds the nodes that no edge ends in.                         *)
WalkableGraph ==
    /\ levels \in Seq(Seq(NodeIds)) /\ 1 \in DOMAIN levels
    /\ NodeIds \subseteq Nat /\ \A m \in NodeIds : nodes[m] \in NodeData
    /\ \A m \in NodeIds : /\ DOMAIN inEdges[m] = 1..Len(inEdges[m]) /\ Len(inEdges[m]) \in Nat
                          /\ DOMAIN outEdges[m] = 1..Len(outEdges[m]) /\ Len(outEdges[m]) \in Nat
    /\ \A m \in NodeIds : \A i \in DOMAIN inEdges[m] :
          inEdges[m][i] \in EdgeIds /\ sinkOf[inEdges[m][i]] = m
    /\ \A m \in NodeIds : \A i \in DOMAIN outEdges[m] :
          outEdges[m][i] \in EdgeIds /\ srcOf[outEdges[m][i]] = m
    /\ \A e \in EdgeIds : srcOf[e] \in NodeIds /\ sinkOf[e] \in NodeIds /\ delays[e] \in Nat
    /\ \A e \in EdgeIds : Placed(sinkOf[e]) => Placed(srcOf[e])
    /\ \A e \in EdgeIds : \A l, k \in DOMAIN levels :
          OnLevel(srcOf[e], l) /\ OnLevel(sinkOf[e], k) => l < k
    /\ \A m \in NodeIds : \A l, k \in DOMAIN levels : OnLevel(m, l) /\ OnLevel(m, k) => l = k
    /\ \A m \in NodeIds : OnLevel(m, 1) <=> inEdges[m] = <<>>
    /\ \A pair \in DOMAIN constraints : constraints[pair] \in Int

(* clk[m] and dat[m] are the paths that end in node m, rq[d][m] the times    *)
(* required there of domain d: the equations they obey, edge by edge.        *)
Own(m) == {[domain |-> d, launch |-> m, delay |-> 0] : d \in {nodes[m].domain} \ {InvalidDomain}}
ClockOwn(m) == IF inEdges[m] = <<>> /\ DefinesClock(m) THEN Own(m) ELSE {}
DataOwn(m) == IF inEdges[m] = <<>> /\ nodes[m].type = "INPAD_SOURCE" /\ ~nodes[m].clockSource
              THEN Own(m) ELSE {}

ClockOver(clk, e) == IF nodes[srcOf[e]].type = "FF_SOURCE" THEN {} ELSE clk[srcOf[e]]
LaunchedOver(clk, m, e) ==
    IF nodes[m].type = "FF_SOURCE" THEN {[p EXCEPT !.launch = m] : p \in ClockOver(clk, e)} ELSE {}

ClockUpTo(clk, m, k) ==
    UNION {Shifted(ClockOver(clk, inEdges[m][i]), delays[inEdges[m][i]]) : i \in 1..k}
DataUpTo(clk, dat, m, k) ==
    UNION {Shifted(LaunchedOver(clk, m, inEdges[m][i]) \cup dat[srcOf[inEdges[m][i]]],
                   delays[inEdges[m][i]]) : i \in 1..k}

AtSink(clk, dat, m, d) ==
    CASE nodes[m].type = "OUTPAD_SINK" ->
            {IF constraints[pair] < 0 THEN Max({0} \cup {p.delay : p \in dat[m]})
             ELSE constraints[pair] : pair \in {<<d, nodes[m].domain>>} \cap DOMAIN constraints}
      [] nodes[m].type = "FF_SINK" ->
            UNION {{Max(DelaysTo(clk[m], c)) + constraints[<<d, c>>]} :
                      c \in {c \in Domains : /\ DelaysTo(clk[m], c) # {}
                                             /\ <<d, c>> \in DOMAIN constraints}}
      [] OTHER -> {}

RequiredUpTo(rq, m, d, k) ==
    UNION {Earlier(rq[d][sinkOf[outEdges[m][i]]], delays[outEdges[m][i]]) : i \in 1..k}

DomainsOf(paths) == {p.domain : p \in paths}

Solves(clk, dat, rq) ==
    \A m \in NodeIds :
        /\ \A d \in Domains : ~(Placed(m) /\ d \in DomainsOf(dat[m])) => rq[d][m] = {}
        /\ Placed(m) =>
              /\ clk[m] \in SUBSET Path /\ DomainsOf(clk[m]) \subseteq Domains
              /\ dat[m] \in SUBSET Path /\ DomainsOf(dat[m]) \subseteq Domains
              /\ clk[m] = ClockOwn(m) \cup ClockUpTo(clk, m, Len(inEdges[m]))
              /\ dat[m] = DataOwn(m) \cup DataUpTo(clk, dat, m, Len(inEdges[m]))
              /\ \A d \in DomainsOf(dat[m]) :
                    /\ rq[d][m] \in SUBSET Int
                    /\ rq[d][m] = AtSink(clk, dat, m, d) \cup
                          (IF nodes[m].type = "FF_CLOCK" THEN {}
                           ELSE RequiredUpTo(rq, m, d, Len(outEdges[m])))

(* The reasons to abort at node m, of its first k in-edges.                  *)
Sources == {"INPAD_SOURCE", "CLOCK_SOURCE", "CONSTANT_GEN_SOURCE"}
TwoClocksUpTo(clk, m, k) ==
    /\ nodes[m].type = "FF_SOURCE"
    /\ \E i \in 1..k : Cardinality(DomainsOf(ClockOver(clk, inEdges[m][i]))) > 1
Cause(clk, m) ==
    \/ inEdges[m] = <<>> /\ nodes[m].type \notin Sources
    \/ TwoClocksUpTo(clk, m, Len(inEdges[m]))

(* The tags of node m: before anything is read, while its in-edges are, when *)
(* the arrivals are settled, while its out-edges are read, and in the end.   *)
Reading(clk, dat, m, k, clockTag, dataTag) ==
    /\ inEdges[m] # <<>> /\ k <= Len(inEdges[m])
    /\ Fits(clockTag, ClockUpTo(clk, m, k)) /\ Fits(dataTag, DataUpTo(clk, dat, m, k))
    /\ \A d \in DOMAIN dataTag : dataTag[d].req = {}
    /\ ~TwoClocksUpTo(clk, m, k)

Arrived(clk, dat, m, clockTag, dataTag) ==
    Fits(clockTag, clk[m]) /\ Fits(dataTag, dat[m]) /\ ~Cause(clk, m)

Ready(clk, dat, m, clockTag, dataTag) ==
    /\ Arrived(clk, dat, m, clockTag, dataTag)
    /\ \A d \in DOMAIN dataTag : IsLeast(dataTag[d].req, AtSink(clk, dat, m, d))

Pulling(clk, dat, rq, m, k, clockTag, dataTag) ==
    /\ k <= Len(outEdges[m]) /\ (nodes[m].type = "FF_CLOCK" => k = 0)
    /\ Arrived(clk, dat, m, clockTag, dataTag)
    /\ \A d \in DOMAIN dataTag :
          IsLeast(dataTag[d].req, AtSink(clk, dat, m, d) \cup RequiredUpTo(rq, m, d, k))

Final(clk, dat, rq, m, clockTag, dataTag) ==
    /\ Arrived(clk, dat, m, clockTag, dataTag)
    /\ \A d \in DOMAIN dataTag : IsLeast(dataTag[d].req, rq[d][m])

Empty(m) == clockTags[m] = NoTags /\ dataTags[m] = NoTags

(* What the equations say of one edge more.                                 *)
LEMMA OneMore ==
    ASSUME NEW clk, NEW dat, NEW m, NEW k \in Nat, NEW j, j = k + 1,
           NEW e, e = inEdges[m][j]
    PROVE  /\ ClockUpTo(clk, m, j) = ClockUpTo(clk, m, k) \cup Shifted(ClockOver(clk, e), delays[e])
           /\ DataUpTo(clk, dat, m, j) = DataUpTo(clk, dat, m, k)
                 \cup Shifted(LaunchedOver(clk, m, e), delays[e]) \cup Shifted(dat[srcOf[e]], delays[e])
  <1> DEFINE f(i) == Shifted(ClockOver(clk, inEdges[m][i]), delays[inEdges[m][i]])
             h(i) == Shifted(LaunchedOver(clk, m, inEdges[m][i]) \cup dat[srcOf[inEdges[m][i]]],
                             delays[inEdges[m][i]])
  <1>1. 1..j = 1..k \cup {j}
    OBVIOUS
  <1>2. /\ UNION {f(i) : i \in 1..j} = f(j) \cup UNION {f(i) : i \in 1..k}
        /\ UNION {h(i) : i \in 1..j} = h(j) \cup UNION {h(i) : i \in 1..k}
    <2> HIDE DEF f, h
    <2> QED
      BY <1>1
  <1>3. \A A, B, delay : Shifted(A \cup B, delay) = Shifted(A, delay) \cup Shifted(B, delay)
    BY DEF Shifted
  <1>4. ClockUpTo(clk, m, j) = ClockUpTo(clk, m, k) \cup Shifted(ClockOver(clk, e), delays[e])
    BY <1>2 DEF ClockUpTo
  <1>5. DataUpTo(clk, dat, m, j) = DataUpTo(clk, dat, m, k) \cup
           Shifted(LaunchedOver(clk, m, e) \cup dat[srcOf[e]], delays[e])
    BY <1>2 DEF DataUpTo
  <1>6. Shifted(LaunchedOver(clk, m, e) \cup dat[srcOf[e]], delays[e]) =
           Shifted(LaunchedOver(clk, m, e), delays[e]) \cup Shifted(dat[srcOf[e]], delays[e])
    BY <1>3
  <1>7. DataUpTo(clk, dat, m, j) = DataUpTo(clk, dat, m, k)
           \cup Shifted(LaunchedOver(clk, m, e), delays[e]) \cup Shifted(dat[srcOf[e]], delays[e])
    BY <1>5, <1>6
  <1> QED
    BY <1>4, <1>7

LEMMA OneMoreRequired ==
    ASSUME NEW rq, NEW m, NEW k \in Nat, NEW j, j = k + 1, NEW d
    PROVE  RequiredUpTo(rq, m, d, j) =
              RequiredUpTo(rq, m, d, k) \cup Earlier(rq[d][sinkOf[outEdges[m][j]]], delays[outEdges[m][j]])
  <1> DEFINE f(i) == Earlier(rq[d][sinkOf[outEdges[m][i]]], delays[outEdges[m][i]])
  <1>1. 1..j = 1..k \cup {j}
    OBVIOUS
  <1>2. UNION {f(i) : i \in 1..j} = f(j) \cup UNION {f(i) : i \in 1..k}
    <2> HIDE DEF f
    <2> QED
      BY <1>1
  <1> QED
    BY <1>2 DEF RequiredUpTo

LEMMA NothingYet ==
    ASSUME NEW clk, NEW dat, NEW rq, NEW m, NEW d
    PROVE  ClockUpTo(clk, m, 0) = {} /\ DataUpTo(clk, dat, m, 0) = {} /\ RequiredUpTo(rq, m, d, 0) = {}
  <1>1. 1..0 = {}
    OBVIOUS
  <1> QED
    BY <1>1 DEF ClockUpTo, DataUpTo, RequiredUpTo

(* pre_traverse_node of a node on the first level.                          *)
LEMMA SourceReady ==
    ASSUME WalkableGraph, NEW clk, NEW dat, NEW rq, Solves(clk, dat, rq),
           NEW m \in NodeIds, OnLevel(m, 1)
    PROVE  /\ nodes[m].type = "CONSTANT_GEN_SOURCE" => Ready(clk, dat, m, NoTags, NoTags)
           /\ DefinesClock(m) => Ready(clk, dat, m, SourceTags(m), NoTags)
           /\ nodes[m].type = "INPAD_SOURCE" /\ ~nodes[m].clockSource
                 => Ready(clk, dat, m, NoTags, SourceTags(m))
           /\ nodes[m].type \notin Sources => Cause(clk, m)
  <1>1. Placed(m) /\ inEdges[m] = <<>> /\ Len(inEdges[m]) = 0 /\ m \in Nat
    BY DEF WalkableGraph, Placed
  <1>2. clk[m] = ClockOwn(m) /\ dat[m] = DataOwn(m)
    <2>1. ClockUpTo(clk, m, Len(inEdges[m])) = {} /\ DataUpTo(clk, dat, m, Len(inEdges[m])) = {}
      BY <1>1, NothingYet
    <2> QED
      BY <1>1, <2>1 DEF Solves
  <1>3. ~TwoClocksUpTo(clk, m, Len(inEdges[m]))
    BY <1>1 DEF TwoClocksUpTo
  <1>4. Fits(NoTags, {}) /\ DOMAIN NoTags = {}
    BY NoTagsFit
  <1>5. Fits(SourceTags(m), Own(m)) /\ \A d \in DOMAIN SourceTags(m) : SourceTags(m)[d].req = {}
    <2> DEFINE D == {nodes[m].domain} \ {InvalidDomain}
    <2>1. D \in SUBSET Nat /\ IsFiniteSet(D)
      <3>1. IsFiniteSet({nodes[m].domain})
        BY FS_Singleton
      <3>2. IsFiniteSet(D)
        BY <3>1, FS_Subset
      <3>3. nodes[m].domain \in Domains \cup {InvalidDomain}
        BY DEF WalkableGraph, NodeData
      <3> QED
        BY <3>2, <3>3, DomainsAssumption
    <2>2. DOMAIN SourceTags(m) = D /\ \A d \in D : SourceTags(m)[d] = [arr |-> 0, launch |-> m, req |-> {}]
      BY DEF SourceTags
    <2>3. Own(m) = {[domain |-> d, launch |-> m, delay |-> 0] : d \in D}
      BY DEF Own
    <2> HIDE DEF D
    <2>4. \A p \in Own(m) : p.domain \in D /\ p.delay = 0 /\ p.launch = m
      BY <2>3
    <2>5. \A d \in D : \E p \in Own(m) : p.domain = d /\ p.delay = 0 /\ p.launch = m
      <3> TAKE d \in D
      <3>1. PICK p \in Own(m) : p = [domain |-> d, launch |-> m, delay |-> 0]
        BY <2>3
      <3> QED
        BY <3>1
    <2>6. \A d \in D : SourceTags(m)[d] \in Tag
      BY <1>1, <2>2 DEF Tag
    <2> DEFINE T == SourceTags(m)
    <2>7. DOMAIN T = D /\ \A d \in D : T[d].arr = 0 /\ T[d].launch = m /\ T[d].req = {} /\ T[d] \in Tag
      BY <2>2, <2>6
    <2> HIDE DEF T
    <2>8. Fits(T, Own(m))
      <3>1. IsFiniteSet(DOMAIN T) /\ \A p \in Own(m) : p.domain \in DOMAIN T
        BY <2>1, <2>4, <2>7
      <3>2. ASSUME NEW d \in DOMAIN T
            PROVE  /\ T[d] \in Tag
                   /\ \E p \in Own(m) : p.domain = d /\ p.delay = T[d].arr /\ p.launch = T[d].launch
                   /\ \A p \in Own(m) : p.domain = d => p.delay <= T[d].arr
        <4>1. d \in D /\ T[d].arr = 0 /\ T[d].launch = m /\ T[d] \in Tag
          BY <2>7
        <4>2. \A p \in Own(m) : p.delay <= T[d].arr
          BY <2>4, <4>1
        <4> QED
          BY <2>5, <4>1, <4>2
      <3> QED
        BY <3>1, <3>2 DEF Fits
    <2> QED
      BY <2>7, <2>8 DEF T
  <1>6. CASE nodes[m].type = "CONSTANT_GEN_SOURCE"
    BY <1>2, <1>3, <1>4, <1>6 DEF Ready, Arrived, Cause, ClockOwn, DataOwn, DefinesClock, Sources
  <1>7. CASE DefinesClock(m)
    BY <1>1, <1>2, <1>3, <1>4, <1>5, <1>7 DEF Ready, Arrived, Cause, ClockOwn, DataOwn, DefinesClock, Sources
  <1>8. CASE nodes[m].type = "INPAD_SOURCE" /\ ~nodes[m].clockSource
    <2>1. ~DefinesClock(m) /\ nodes[m].type \in Sources
      BY <1>8 DEF DefinesClock, Sources
    <2>2. clk[m] = {} /\ dat[m] = Own(m)
      BY <1>1, <1>2, <1>8, <2>1 DEF ClockOwn, DataOwn
    <2>3. Arrived(clk, dat, m, NoTags, SourceTags(m))
      BY <1>3, <1>4, <1>5, <2>1, <2>2 DEF Arrived, Cause
    <2>4. \A d : AtSink(clk, dat, m, d) = {}
      BY <1>8 DEF AtSink
    <2> QED
      BY <1>5, <2>1, <1>8, <2>3, <2>4 DEF Ready, IsLeast
  <1>9. nodes[m].type = "CONSTANT_GEN_SOURCE" => ~DefinesClock(m)
    BY DEF DefinesClock
  <1>10. nodes[m].type \notin Sources => Cause(clk, m)
    BY <1>1 DEF Cause
  <1> QED
    BY <1>6, <1>7, <1>8, <1>10

(* What an in-edge carries fits what the equations say it does.             *)
LEMMA OverFits ==
    ASSUME WalkableGraph, NEW clk, NEW dat, NEW rq, Solves(clk, dat, rq),
           NEW m \in NodeIds, NEW e \in EdgeIds, Placed(srcOf[e]),
           Arrived(clk, dat, srcOf[e], clockTags[srcOf[e]], dataTags[srcOf[e]])
    PROVE  /\ ClockOver(clk, e) \in SUBSET Path /\ LaunchedOver(clk, m, e) \in SUBSET Path
           /\ dat[srcOf[e]] \in SUBSET Path
           /\ Fits(ClockTagsOver(e), ClockOver(clk, e))
           /\ Fits(Launched(m, e), LaunchedOver(clk, m, e))
           /\ Fits(dataTags[srcOf[e]], dat[srcOf[e]])
           /\ DOMAIN ClockTagsOver(e) = DomainsOf(ClockOver(clk, e))
  <1>1. srcOf[e] \in NodeIds /\ m \in Nat
    BY DEF WalkableGraph
  <1>2. clk[srcOf[e]] \in SUBSET Path /\ dat[srcOf[e]] \in SUBSET Path
    BY <1>1 DEF Solves
  <1>3. ClockOver(clk, e) \in SUBSET Path
    BY <1>2 DEF ClockOver
  <1>4. Fits(ClockTagsOver(e), ClockOver(clk, e))
    BY NoTagsFit DEF ClockTagsOver, ClockOver, Arrived
  <1>5. DOMAIN ClockTagsOver(e) = DomainsOf(ClockOver(clk, e))
    BY <1>4 DEF Fits, DomainsOf
  <1> DEFINE paths == ClockOver(clk, e)
             tags == ClockTagsOver(e)
             moved == LaunchedOver(clk, m, e)
             new == Launched(m, e)
  <1>6. moved \in SUBSET Path /\ Fits(new, moved)
    <2>1. CASE nodes[m].type # "FF_SOURCE"
      BY <2>1, NoTagsFit DEF Launched, LaunchedOver
    <2>2. CASE nodes[m].type = "FF_SOURCE"
      <3>1. /\ moved = {[p EXCEPT !.launch = m] : p \in paths}
            /\ new = [d \in DOMAIN tags |-> [tags[d] EXCEPT !.launch = m]]
        BY <2>2 DEF Launched, LaunchedOver
      <3>2. \A p \in paths : /\ [p EXCEPT !.launch = m] \in moved
                             /\ [p EXCEPT !.launch = m].domain = p.domain
                             /\ [p EXCEPT !.launch = m].launch = m
                             /\ [p EXCEPT !.launch = m].delay = p.delay
        BY <1>3, <3>1 DEF Path
      <3>3. /\ DOMAIN new = DOMAIN tags
            /\ \A d \in DOMAIN tags : /\ tags[d] \in Tag /\ new[d] \in Tag
                                      /\ new[d].arr = tags[d].arr /\ new[d].launch = m
        <4>1. Fits(tags, paths)
          BY <1>4
        <4> HIDE DEF tags, paths, new
        <4>2. \A d \in DOMAIN tags : tags[d] \in Tag
          BY <4>1 DEF Fits
        <4>3. DOMAIN new = DOMAIN tags /\ \A d \in DOMAIN tags : new[d] = [tags[d] EXCEPT !.launch = m]
          BY <3>1
        <4> QED
          BY <1>1, <4>2, <4>3 DEF Tag
      <3>4. moved \in SUBSET Path
        BY <1>1, <1>3, <3>1 DEF Path
      <3>5. \A q \in moved : \E p \in paths : q = [p EXCEPT !.launch = m]
        BY <3>1
      <3> HIDE DEF tags, paths, new, moved
      <3>6. Fits(tags, paths)
        BY <1>4 DEF tags, paths
      <3>7. \A q \in moved : q.domain \in DOMAIN new
        <4> TAKE q \in moved
        <4>1. PICK p \in paths : q = [p EXCEPT !.launch = m]
          BY <3>5
        <4>2. q.domain = p.domain
          BY <3>2, <4>1
        <4>3. p.domain \in DOMAIN tags
          BY <3>6 DEF Fits
        <4> QED
          BY <3>3, <4>2, <4>3
      <3>8. ASSUME NEW d \in DOMAIN new
            PROVE  /\ \E q \in moved : q.domain = d /\ q.delay = new[d].arr /\ q.launch = new[d].launch
                   /\ \A q \in moved : q.domain = d => q.delay <= new[d].arr
        <4>1. PICK p \in paths : p.domain = d /\ p.delay = tags[d].arr
          BY <3>3, <3>6 DEF Fits
        <4>2. PICK q \in moved : q = [p EXCEPT !.launch = m]
          BY <3>2
        <4>3. q.domain = d /\ q.delay = new[d].arr /\ q.launch = new[d].launch
          BY <3>2, <3>3, <4>1, <4>2
        <4>4. ASSUME NEW r \in moved, r.domain = d PROVE r.delay <= new[d].arr
          <5>1. PICK s \in paths : r = [s EXCEPT !.launch = m]
            BY <3>5
          <5>2. s.domain = d /\ r.delay = s.delay
            BY <3>2, <4>4, <5>1
          <5> QED
            BY <3>3, <3>6, <5>2 DEF Fits
        <4> QED
          BY <4>3, <4>4
      <3>9. IsFiniteSet(DOMAIN new)
        BY <3>3, <3>6 DEF Fits
      <3> QED
        BY <3>3, <3>4, <3>7, <3>8, <3>9 DEF Fits
    <2> QED
      BY <2>1, <2>2
  <1> QED
    BY <1>2, <1>3, <1>4, <1>5, <1>6 DEF Arrived

LEMMA PartOfAll ==
    ASSUME WalkableGraph, NEW clk, NEW dat, NEW rq, Solves(clk, dat, rq),
           NEW m \in NodeIds, Placed(m), NEW k \in Nat, k <= Len(inEdges[m])
    PROVE  ClockUpTo(clk, m, k) \in SUBSET Path /\ DataUpTo(clk, dat, m, k) \in SUBSET Path
  <1> DEFINE len == Len(inEdges[m])
  <1>1. len \in Nat /\ 1..k \subseteq 1..len
    BY DEF WalkableGraph
  <1>2. ClockUpTo(clk, m, k) \subseteq ClockUpTo(clk, m, len)
    BY <1>1 DEF ClockUpTo
  <1>3. DataUpTo(clk, dat, m, k) \subseteq DataUpTo(clk, dat, m, len)
    BY <1>1 DEF DataUpTo
  <1>4. ClockUpTo(clk, m, len) \subseteq clk[m] /\ DataUpTo(clk, dat, m, len) \subseteq dat[m]
        /\ clk[m] \in SUBSET Path /\ dat[m] \in SUBSET Path
    BY DEF Solves
  <1> QED
    BY <1>2, <1>3, <1>4

(* forward_traverse_edge.                                                   *)
LEMMA EdgeRead ==
    ASSUME WalkableGraph, NEW clk, NEW dat, NEW rq, Solves(clk, dat, rq),
           NEW m \in NodeIds, Placed(m), NEW k \in Nat, k < Len(inEdges[m]),
           NEW clockTag, NEW dataTag, Reading(clk, dat, m, k, clockTag, dataTag),
           NEW e, e = inEdges[m][k + 1],
           Arrived(clk, dat, srcOf[e], clockTags[srcOf[e]], dataTags[srcOf[e]])
    PROVE  /\ LaunchesLinkedTag(m, e) => Cause(clk, m)
           /\ ~LaunchesLinkedTag(m, e) =>
                 Reading(clk, dat, m, k + 1, Later(clockTag, ClockTagsOver(e), delays[e]),
                         Later(Later(dataTag, Launched(m, e), delays[e]), dataTags[srcOf[e]], delays[e]))
  <1>1. /\ k + 1 \in 1..Len(inEdges[m]) /\ Len(inEdges[m]) \in Nat /\ k <= Len(inEdges[m])
        /\ DOMAIN inEdges[m] = 1..Len(inEdges[m])
    BY DEF WalkableGraph
  <1>2. e \in EdgeIds /\ sinkOf[e] = m /\ delays[e] \in Nat /\ srcOf[e] \in NodeIds
    BY <1>1 DEF WalkableGraph
  <1>3. Placed(srcOf[e])
    BY <1>2 DEF WalkableGraph
  <1>4. /\ ClockOver(clk, e) \in SUBSET Path /\ LaunchedOver(clk, m, e) \in SUBSET Path
        /\ dat[srcOf[e]] \in SUBSET Path
        /\ Fits(ClockTagsOver(e), ClockOver(clk, e))
        /\ Fits(Launched(m, e), LaunchedOver(clk, m, e))
        /\ Fits(dataTags[srcOf[e]], dat[srcOf[e]])
        /\ DOMAIN ClockTagsOver(e) = DomainsOf(ClockOver(clk, e))
    BY <1>2, <1>3, OverFits
  <1>5. LaunchesLinkedTag(m, e) <=>
           nodes[m].type = "FF_SOURCE" /\ Cardinality(DomainsOf(ClockOver(clk, e))) > 1
    BY <1>4 DEF LaunchesLinkedTag
  <1>6. LaunchesLinkedTag(m, e) => Cause(clk, m)
    BY <1>1, <1>5 DEF Cause, TwoClocksUpTo
  <1>7. ASSUME ~LaunchesLinkedTag(m, e)
        PROVE  Reading(clk, dat, m, k + 1, Later(clockTag, ClockTagsOver(e), delays[e]),
                       Later(Later(dataTag, Launched(m, e), delays[e]), dataTags[srcOf[e]], delays[e]))
    <2> DEFINE launched == Later(dataTag, Launched(m, e), delays[e])
               newClock == Later(clockTag, ClockTagsOver(e), delays[e])
               newData == Later(launched, dataTags[srcOf[e]], delays[e])
               C == ClockUpTo(clk, m, k)
               D == DataUpTo(clk, dat, m, k)
               L == D \cup Shifted(LaunchedOver(clk, m, e), delays[e])
    <2>1. C \in SUBSET Path /\ D \in SUBSET Path /\ DataUpTo(clk, dat, m, k + 1) \in SUBSET Path
      BY <1>1, PartOfAll
    <2>2. Fits(clockTag, C) /\ Fits(dataTag, D) /\ \A d \in DOMAIN dataTag : dataTag[d].req = {}
      BY DEF Reading
    <2>3. /\ ClockUpTo(clk, m, k + 1) = C \cup Shifted(ClockOver(clk, e), delays[e])
          /\ DataUpTo(clk, dat, m, k + 1) = L \cup Shifted(dat[srcOf[e]], delays[e])
      <3> DEFINE j == k + 1
      <3>1. j = k + 1 /\ e = inEdges[m][j]
        OBVIOUS
      <3> HIDE DEF j
      <3>2. /\ ClockUpTo(clk, m, j) = ClockUpTo(clk, m, k) \cup Shifted(ClockOver(clk, e), delays[e])
            /\ DataUpTo(clk, dat, m, j) = DataUpTo(clk, dat, m, k)
                  \cup Shifted(LaunchedOver(clk, m, e), delays[e]) \cup Shifted(dat[srcOf[e]], delays[e])
        BY <3>1, OneMore
      <3> QED
        BY <3>1, <3>2
    <2>4. L \in SUBSET Path
      BY <2>1, <2>3
    <2> HIDE DEF C, D
    <2>5. Fits(newClock, C \cup Shifted(ClockOver(clk, e), delays[e]))
      BY <1>2, <1>4, <2>1, <2>2, LaterFits
    <2>6. /\ Fits(launched, L)
          /\ DOMAIN launched = DOMAIN dataTag \cup DOMAIN Launched(m, e)
          /\ \A d \in DOMAIN launched : launched[d].req = IF d \in DOMAIN dataTag THEN dataTag[d].req ELSE {}
      <3> DEFINE B == LaunchedOver(clk, m, e)
                 pulled == Launched(m, e)
                 delay == delays[e]
      <3>1. B \in SUBSET Path /\ delay \in Nat /\ Fits(pulled, B)
        BY <1>2, <1>4
      <3>3. D \in SUBSET Path /\ Fits(dataTag, D)
        BY <2>1, <2>2
      <3> HIDE DEF B, pulled, delay, L, launched, newData, newClock
      <3>2. /\ Fits(Later(dataTag, pulled, delay), D \cup Shifted(B, delay))
            /\ DOMAIN Later(dataTag, pulled, delay) = DOMAIN dataTag \cup DOMAIN pulled
            /\ \A d \in DOMAIN Later(dataTag, pulled, delay) :
                  Later(dataTag, pulled, delay)[d].req = IF d \in DOMAIN dataTag THEN dataTag[d].req ELSE {}
        BY <3>1, <3>3, LaterFits
      <3> QED
        BY <3>2 DEF B, pulled, delay, L, launched
    <2> HIDE DEF launched, L
    <2>7. /\ Fits(newData, L \cup Shifted(dat[srcOf[e]], delays[e]))
          /\ \A d \in DOMAIN newData : newData[d].req = IF d \in DOMAIN launched THEN launched[d].req ELSE {}
      <3> DEFINE B == dat[srcOf[e]]
                 pulled == dataTags[srcOf[e]]
                 delay == delays[e]
      <3>1. B \in SUBSET Path /\ delay \in Nat /\ Fits(pulled, B)
        BY <1>2, <1>4
      <3>3. Fits(launched, L)
        BY <2>6
      <3> HIDE DEF B, pulled, delay, newClock, newData
      <3>2. /\ Fits(Later(launched, pulled, delay), L \cup Shifted(B, delay))
            /\ \A d \in DOMAIN Later(launched, pulled, delay) :
                  Later(launched, pulled, delay)[d].req = IF d \in DOMAIN launched THEN launched[d].req ELSE {}
        BY ONLY <2>4, <3>1, <3>3, LaterFits
      <3> QED
        BY <3>2 DEF B, pulled, delay, newData
    <2> HIDE DEF newClock, newData
    <2>8. \A d \in DOMAIN newData : newData[d].req = {}
      BY <2>2, <2>6, <2>7
    <2>9. ~TwoClocksUpTo(clk, m, k + 1)
      <3>1. \A i \in 1..(k + 1) : i \in 1..k \/ i = k + 1
        OBVIOUS
      <3> QED
        BY <1>5, <1>7, <3>1 DEF Reading, TwoClocksUpTo
    <2>10. Reading(clk, dat, m, k + 1, newClock, newData)
      <3>1. inEdges[m] # <<>> /\ k + 1 <= Len(inEdges[m])
        BY <1>1 DEF Reading
      <3>2. Fits(newClock, ClockUpTo(clk, m, k + 1)) /\ Fits(newData, DataUpTo(clk, dat, m, k + 1))
        BY <2>3, <2>5, <2>7
      <3> QED
        BY <2>8, <2>9, <3>1, <3>2 DEF Reading
    <2> QED
      BY <2>10 DEF newClock, newData, launched
  <1> QED
    BY <1>6, <1>7

(* The times set at the end of paths.                                       *)
LEMMA SinkTimes ==
    ASSUME WalkableGraph, NEW clk, NEW dat, NEW rq, Solves(clk, dat, rq),
           NEW m \in NodeIds, Placed(m), NEW d,
           Fits(clockTags[m], clk[m]), Fits(dataTags[m], dat[m])
    PROVE  /\ SinkRequirements(m, d) = AtSink(clk, dat, m, d)
           /\ SinkRequirements(m, d) \in SUBSET Int /\ IsFiniteSet(SinkRequirements(m, d))
  <1>1. /\ clk[m] \in SUBSET Path /\ DomainsOf(clk[m]) \subseteq Domains
        /\ dat[m] \in SUBSET Path
    BY DEF Solves
  <1>2. CASE nodes[m].type = "OUTPAD_SINK"
    <2> DEFINE all == Max({0} \cup {dataTags[m][x].arr : x \in DOMAIN dataTags[m]})
               P == {<<d, nodes[m].domain>>} \cap DOMAIN constraints
               f == [pair \in P |-> IF constraints[pair] < 0 THEN all ELSE constraints[pair]]
    <2>1. all = Max({0} \cup {p.delay : p \in dat[m]}) /\ all \in Nat
      BY <1>1, LatestOfAll
    <2>2. /\ SinkRequirements(m, d) = {IF constraints[pair] < 0 THEN all ELSE constraints[pair] : pair \in P}
          /\ AtSink(clk, dat, m, d) = {IF constraints[pair] < 0 THEN Max({0} \cup {p.delay : p \in dat[m]})
                                       ELSE constraints[pair] : pair \in P}
      BY <1>2 DEF SinkRequirements, OutputRequired, AtSink
    <2>3. IsFiniteSet(P)
      <3>1. IsFiniteSet({<<d, nodes[m].domain>>})
        BY FS_Singleton
      <3> QED
        BY <3>1, FS_Subset
    <2>4. \A pair \in P : constraints[pair] \in Int
      BY DEF WalkableGraph
    <2> HIDE DEF P, all
    <2>5. SinkRequirements(m, d) = {f[pair] : pair \in P} /\ \A pair \in P : f[pair] \in Int
      <3>1. \A pair \in P : f[pair] = IF constraints[pair] < 0 THEN all ELSE constraints[pair]
        OBVIOUS
      <3>2. \A pair \in P : f[pair] \in Int
        BY <2>1, <2>4, <3>1
      <3>3. {f[pair] : pair \in P} = {IF constraints[pair] < 0 THEN all ELSE constraints[pair] : pair \in P}
        BY <3>1
      <3> QED
        BY <2>2, <3>2, <3>3
    <2> HIDE DEF f
    <2>6. IsFiniteSet({f[pair] : pair \in P})
      BY <2>3, FiniteImage
    <2> QED
      BY <2>1, <2>2, <2>5, <2>6
  <1>3. CASE nodes[m].type = "FF_SINK"
    <2> DEFINE K == {c \in DOMAIN clockTags[m] : <<d, c>> \in DOMAIN constraints}
               f == [c \in K |-> clockTags[m][c].arr + constraints[<<d, c>>]]
               M == {c \in Domains : DelaysTo(clk[m], c) # {} /\ <<d, c>> \in DOMAIN constraints}
    <2>1. \A c : c \in DOMAIN clockTags[m] <=> DelaysTo(clk[m], c) # {}
      BY <1>1, LatestOfDomain
    <2>2. DOMAIN clockTags[m] \subseteq Domains
      BY <1>1 DEF Fits, DomainsOf
    <2>3. K = M
      BY <2>1, <2>2
    <2>4. \A c \in K : /\ Max(DelaysTo(clk[m], c)) = clockTags[m][c].arr
                       /\ clockTags[m][c].arr \in Nat /\ constraints[<<d, c>>] \in Int
      <3> TAKE c \in K
      <3>1. c \in DOMAIN clockTags[m] /\ <<d, c>> \in DOMAIN constraints
        OBVIOUS
      <3>2. constraints[<<d, c>>] \in Int
        BY <3>1 DEF WalkableGraph
      <3>3. Max(DelaysTo(clk[m], c)) = clockTags[m][c].arr /\ clockTags[m][c].arr \in Nat
        BY <1>1, <3>1, LatestOfDomain
      <3> QED
        BY <3>2, <3>3
    <2>5. IsFiniteSet(K)
      <3>1. IsFiniteSet(DOMAIN clockTags[m])
        BY DEF Fits
      <3> QED
        BY <3>1, FS_Subset
    <2>6. /\ SinkRequirements(m, d) = {clockTags[m][c].arr + constraints[<<d, c>>] : c \in K}
          /\ AtSink(clk, dat, m, d) = UNION {{Max(DelaysTo(clk[m], c)) + constraints[<<d, c>>]} : c \in M}
      BY <1>3 DEF SinkRequirements, CaptureRequired, AtSink
    <2> HIDE DEF K, M
    <2>7. SinkRequirements(m, d) = {f[c] : c \in K} /\ \A c \in K : f[c] \in Int
      BY <2>4, <2>6
    <2>8. AtSink(clk, dat, m, d) = {f[c] : c \in K}
      <3>1. \A c \in K : Max(DelaysTo(clk[m], c)) + constraints[<<d, c>>] = f[c]
        BY <2>4
      <3> DEFINE g(c) == Max(DelaysTo(clk[m], c)) + constraints[<<d, c>>]
      <3> HIDE DEF f
      <3>2. UNION {{g(c)} : c \in K} = {f[c] : c \in K}
        BY <3>1
      <3> QED
        BY <2>3, <2>6, <3>2
    <2> HIDE DEF f
    <2>9. IsFiniteSet({f[c] : c \in K})
      BY <2>5, FiniteImage
    <2> QED
      BY <2>7, <2>8, <2>9
  <1>4. CASE nodes[m].type \notin {"OUTPAD_SINK", "FF_SINK"}
    BY <1>4, FS_EmptySet DEF SinkRequirements, AtSink
  <1> QED
    BY <1>2, <1>3, <1>4

(* forward_traverse_finalize_node.                                          *)
LEMMA NodeFinalized ==
    ASSUME WalkableGraph, NEW clk, NEW dat, NEW rq, Solves(clk, dat, rq),
           NEW m \in NodeIds, Placed(m), NEW new,
           Reading(clk, dat, m, Len(inEdges[m]), clockTags[m], dataTags[m]),
           new = [d \in DOMAIN dataTags[m] |-> MinReq(dataTags[m][d], SinkRequirements(m, d))]
    PROVE  Ready(clk, dat, m, clockTags[m], new)
  <1>1. clk[m] = ClockUpTo(clk, m, Len(inEdges[m])) /\ dat[m] = DataUpTo(clk, dat, m, Len(inEdges[m]))
    BY DEF Solves, ClockOwn, DataOwn, Reading
  <1>2. Fits(clockTags[m], clk[m]) /\ Fits(dataTags[m], dat[m]) /\ ~Cause(clk, m)
    BY <1>1 DEF Reading, Cause
  <1>3. ASSUME NEW d \in DOMAIN dataTags[m]
        PROVE  /\ IsLeast(new[d].req, AtSink(clk, dat, m, d))
               /\ new[d] \in Tag /\ new[d].arr = dataTags[m][d].arr /\ new[d].launch = dataTags[m][d].launch
    <2> DEFINE S == SinkRequirements(m, d)
               tag == dataTags[m][d]
    <2>1. S = AtSink(clk, dat, m, d) /\ S \in SUBSET Int /\ IsFiniteSet(S)
      BY <1>2, SinkTimes
    <2>2. tag \in Tag /\ tag.req = {}
      BY <1>2 DEF Fits, Reading
    <2>3. new[d] = [tag EXCEPT !.req = EarliestOf(@ \cup S)]
      BY DEF MinReq
    <2> HIDE DEF S, tag
    <2>4. tag.req \cup S = S
      BY <2>2
    <2>5. new[d] = [tag EXCEPT !.req = EarliestOf(S)]
      BY <2>3, <2>4
    <2>6. IsLeast(EarliestOf(S), S) /\ EarliestOf(S) \in SUBSET Int
      BY <2>1, EarliestIsLeast, LeastIsEarliest
    <2>7. new[d].req = EarliestOf(S) /\ new[d].arr = tag.arr /\ new[d].launch = tag.launch /\ new[d] \in Tag
      BY <2>2, <2>5, <2>6 DEF Tag
    <2> QED
      BY <2>1, <2>6, <2>7 DEF tag
  <1>4. DOMAIN new = DOMAIN dataTags[m]
    OBVIOUS
  <1>5. Fits(new, dat[m])
    <2> DEFINE tags == dataTags[m]
               paths == dat[m]
    <2>1. /\ Fits(tags, paths) /\ DOMAIN new = DOMAIN tags
          /\ \A d \in DOMAIN tags : /\ new[d] \in Tag
                                    /\ new[d].arr = tags[d].arr /\ new[d].launch = tags[d].launch
      BY <1>2, <1>3, <1>4
    <2> HIDE DEF tags, paths
    <2>2. Fits(new, paths)
      BY <2>1, FitsStays
    <2> QED
      BY <2>2 DEF paths
  <1> QED
    BY <1>2, <1>3, <1>4, <1>5 DEF Ready, Arrived

(* backward_traverse_edge.                                                  *)
LEMMA EdgePulled ==
    ASSUME WalkableGraph, NEW clk, NEW dat, NEW rq, Solves(clk, dat, rq),
           NEW m \in NodeIds, Placed(m), NEW k \in Nat, k < Len(outEdges[m]),
           nodes[m].type # "FF_CLOCK", NEW new,
           Pulling(clk, dat, rq, m, k, clockTags[m], dataTags[m]),
           NEW e, e = outEdges[m][k + 1], NEW sink, sink = dataTags[sinkOf[e]],
           Placed(sinkOf[e]) => Final(clk, dat, rq, sinkOf[e], clockTags[sinkOf[e]], sink),
           ~Placed(sinkOf[e]) => sink = NoTags,
           new = [d \in DOMAIN dataTags[m] |->
                     IF d \in DOMAIN sink THEN MinReq(dataTags[m][d], Earlier(sink[d].req, delays[e]))
                     ELSE dataTags[m][d]]
    PROVE  Pulling(clk, dat, rq, m, k + 1, clockTags[m], new)
  <1>1. /\ k + 1 \in 1..Len(outEdges[m]) /\ Len(outEdges[m]) \in Nat
        /\ DOMAIN outEdges[m] = 1..Len(outEdges[m])
    BY DEF WalkableGraph
  <1>2. e \in EdgeIds /\ delays[e] \in Nat /\ sinkOf[e] \in NodeIds
    BY <1>1 DEF WalkableGraph
  <1>3. Fits(clockTags[m], clk[m]) /\ Fits(dataTags[m], dat[m]) /\ ~Cause(clk, m)
    BY DEF Pulling, Arrived
  <1>4. ASSUME NEW d \in DOMAIN dataTags[m]
        PROVE  /\ IsLeast(new[d].req, AtSink(clk, dat, m, d) \cup RequiredUpTo(rq, m, d, k + 1))
               /\ new[d] \in Tag /\ new[d].arr = dataTags[m][d].arr /\ new[d].launch = dataTags[m][d].launch
    <2> DEFINE A == AtSink(clk, dat, m, d) \cup RequiredUpTo(rq, m, d, k)
               R == rq[d][sinkOf[e]]
               B == Earlier(R, delays[e])
               tag == dataTags[m][d]
    <2>1. d \in Domains /\ d \in DomainsOf(dat[m])
      BY <1>3 DEF Fits, DomainsOf, Solves
    <2>2. AtSink(clk, dat, m, d) \cup RequiredUpTo(rq, m, d, k + 1) = A \cup B
      <3>1. RequiredUpTo(rq, m, d, k + 1) = RequiredUpTo(rq, m, d, k) \cup B
        <4> DEFINE j == k + 1
        <4>1. j = k + 1 /\ e = outEdges[m][j]
          OBVIOUS
        <4> HIDE DEF j, B, R, A
        <4>2. RequiredUpTo(rq, m, d, j) =
                 RequiredUpTo(rq, m, d, k) \cup Earlier(rq[d][sinkOf[outEdges[m][j]]], delays[outEdges[m][j]])
          BY ONLY <4>1, k \in Nat, OneMoreRequired
        <4> QED
          BY <4>1, <4>2 DEF B, R
      <3> HIDE DEF B
      <3> QED
        BY <3>1
    <2>3. A \cup B \in SUBSET Int
      <3>1. rq[d][m] \in SUBSET Int
            /\ rq[d][m] = AtSink(clk, dat, m, d) \cup RequiredUpTo(rq, m, d, Len(outEdges[m]))
        BY <2>1 DEF Solves
      <3>2. 1..(k + 1) \subseteq 1..Len(outEdges[m])
        BY <1>1
      <3>3. RequiredUpTo(rq, m, d, k + 1) \subseteq RequiredUpTo(rq, m, d, Len(outEdges[m]))
        BY <3>2 DEF RequiredUpTo
      <3> HIDE DEF A, B
      <3> QED
        BY <2>2, <3>1, <3>3
    <2>4. tag \in Tag /\ IsLeast(tag.req, A)
      BY <1>3 DEF Fits, Pulling
    <2>5. CASE d \in DOMAIN sink
      <3>1. /\ Placed(sinkOf[e]) /\ IsLeast(sink[d].req, R) /\ Fits(sink, dat[sinkOf[e]])
        BY <2>5, NoTagsFit DEF Final, Arrived
      <3>2. d \in DomainsOf(dat[sinkOf[e]])
        <4>1. PICK p \in dat[sinkOf[e]] : p.domain = d
          BY <2>5, <3>1 DEF Fits
        <4> QED
          BY <4>1 DEF DomainsOf
      <3>3. R \in SUBSET Int
        BY <1>2, <3>1, <3>2 DEF Solves
      <3> DEFINE times == Earlier(sink[d].req, delays[e])
      <3>4. new[d] = [tag EXCEPT !.req = EarliestOf(@ \cup times)]
        BY <2>5 DEF MinReq
      <3>5. IsLeast(times, B)
        <4> DEFINE req == sink[d].req
                   delay == delays[e]
        <4>1. delay \in Int /\ IsLeast(req, R)
          <5>1. delay \in Int
            BY <1>2
          <5>2. IsLeast(req, R)
            BY <3>1
          <5> QED
            BY <5>1, <5>2
        <4> HIDE DEF req, delay, R
        <4>2. IsLeast(Earlier(req, delay), Earlier(R, delay))
          BY <3>3, <4>1, LeastBefore
        <4> QED
          BY <4>2 DEF req, delay
      <3> HIDE DEF times, A, B, R, tag
      <3>6. A \in SUBSET Int /\ B \in SUBSET Int
        BY <2>3
      <3>7. IsLeast(EarliestOf(tag.req \cup times), A \cup B)
        <4> DEFINE req == tag.req
        <4>1. IsLeast(req, A)
          BY <2>4
        <4> HIDE DEF req
        <4>2. IsLeast(EarliestOf(req \cup times), A \cup B)
          BY <3>5, <3>6, <4>1, LeastOfBoth
        <4> QED
          BY <4>2 DEF req
      <3>8. EarliestOf(tag.req \cup times) \in SUBSET Int
        BY <2>3, <3>7, LeastIsEarliest
      <3>9. /\ new[d].req = EarliestOf(tag.req \cup times) /\ new[d] \in Tag
            /\ new[d].arr = tag.arr /\ new[d].launch = tag.launch
        BY <2>4, <3>4, <3>8 DEF Tag
      <3>10. IsLeast(new[d].req, A \cup B)
        BY <3>7, <3>9
      <3> QED
        BY <2>2, <3>9, <3>10 DEF tag
    <2>6. CASE d \notin DOMAIN sink
      <3>1. ~(Placed(sinkOf[e]) /\ d \in DomainsOf(dat[sinkOf[e]]))
        <4> SUFFICES ASSUME Placed(sinkOf[e]), d \in DomainsOf(dat[sinkOf[e]])
                     PROVE  FALSE
          OBVIOUS
        <4>1. Fits(sink, dat[sinkOf[e]])
          BY DEF Final, Arrived
        <4>2. DomainsOf(dat[sinkOf[e]]) \subseteq DOMAIN sink
          BY ONLY <4>1 DEF Fits, DomainsOf
        <4> QED
          BY <2>6, <4>2
      <3>2. R = {}
        BY <1>2, <2>1, <3>1 DEF Solves
      <3>3. B = {}
        BY <3>2 DEF Earlier
      <3>4. new[d] = tag
        BY <2>6
      <3> HIDE DEF A, B, R, tag
      <3>5. A \cup B = A
        BY <3>3
      <3>6. IsLeast(new[d].req, A \cup B) /\ new[d] \in Tag
            /\ new[d].arr = tag.arr /\ new[d].launch = tag.launch
        BY <2>4, <3>4, <3>5
      <3> QED
        BY <2>2, <3>6 DEF tag
    <2> QED
      BY <2>5, <2>6
  <1>5. DOMAIN new = DOMAIN dataTags[m]
    OBVIOUS
  <1>6. Fits(new, dat[m])
    <2> DEFINE tags == dataTags[m]
               paths == dat[m]
    <2>1. /\ Fits(tags, paths) /\ DOMAIN new = DOMAIN tags
          /\ \A d \in DOMAIN tags : /\ new[d] \in Tag
                                    /\ new[d].arr = tags[d].arr /\ new[d].launch = tags[d].launch
      BY <1>3, <1>4, <1>5
    <2> HIDE DEF tags, paths
    <2>2. Fits(new, paths)
      BY <2>1, FitsStays
    <2> QED
      BY <2>2 DEF paths
  <1> HIDE DEF Fits
  <1>7. k + 1 <= Len(outEdges[m])
    BY <1>1
  <1>8. \A d \in DOMAIN new : IsLeast(new[d].req, AtSink(clk, dat, m, d) \cup RequiredUpTo(rq, m, d, k + 1))
    BY <1>4, <1>5
  <1> QED
    BY <1>3, <1>6, <1>7, <1>8 DEF Pulling, Arrived

(* backward_traverse_return.                                                *)
LEMMA NodePulled ==
    ASSUME WalkableGraph, NEW clk, NEW dat, NEW rq, Solves(clk, dat, rq),
           NEW m \in NodeIds, Placed(m), NEW k \in Nat, NEW clockTag, NEW dataTag,
           Pulling(clk, dat, rq, m, k, clockTag, dataTag),
           nodes[m].type = "FF_CLOCK" \/ k = Len(outEdges[m])
    PROVE  Final(clk, dat, rq, m, clockTag, dataTag)
  <1>1. Fits(dataTag, dat[m])
    BY DEF Pulling, Arrived
  <1>2. ASSUME NEW d \in DOMAIN dataTag
        PROVE  AtSink(clk, dat, m, d) \cup RequiredUpTo(rq, m, d, k) = rq[d][m]
    <2>1. d \in DomainsOf(dat[m])
      BY <1>1 DEF Fits, DomainsOf
    <2>2. CASE nodes[m].type = "FF_CLOCK"
      <3>1. k = 0 /\ RequiredUpTo(rq, m, d, 0) = {}
        BY <2>2, NothingYet DEF Pulling
      <3> QED
        BY <2>1, <2>2, <3>1 DEF Solves
    <2>3. CASE nodes[m].type # "FF_CLOCK"
      BY <2>1, <2>3 DEF Solves
    <2> QED
      BY <2>2, <2>3
  <1> QED
    BY <1>2 DEF Pulling, Final

(* Between the passes.                                                      *)
LEMMA PassesMeet ==
    ASSUME WalkableGraph, NEW clk, NEW dat, NEW rq, Solves(clk, dat, rq),
           NEW m \in NodeIds, Placed(m), NEW clockTag, NEW dataTag,
           Ready(clk, dat, m, clockTag, dataTag)
    PROVE  /\ Pulling(clk, dat, rq, m, 0, clockTag, dataTag)
           /\ (\A i \in DOMAIN outEdges[m] : ~Placed(sinkOf[outEdges[m][i]]))
                 => Final(clk, dat, rq, m, clockTag, dataTag)
  <1>1. Len(outEdges[m]) \in Nat /\ DOMAIN outEdges[m] = 1..Len(outEdges[m])
    BY DEF WalkableGraph
  <1>2. \A d \in DOMAIN dataTag : AtSink(clk, dat, m, d) \cup RequiredUpTo(rq, m, d, 0) = AtSink(clk, dat, m, d)
    BY NothingYet
  <1>3. ASSUME \A i \in DOMAIN outEdges[m] : ~Placed(sinkOf[outEdges[m][i]]), NEW d \in DOMAIN dataTag
        PROVE  IsLeast(dataTag[d].req, rq[d][m])
    <2>1. d \in DomainsOf(dat[m]) /\ d \in Domains
      BY DEF Ready, Arrived, Fits, DomainsOf, Solves
    <2>2. \A i \in 1..Len(outEdges[m]) : rq[d][sinkOf[outEdges[m][i]]] = {}
      <3> TAKE i \in 1..Len(outEdges[m])
      <3>1. sinkOf[outEdges[m][i]] \in NodeIds /\ ~Placed(sinkOf[outEdges[m][i]])
        BY <1>1, <1>3 DEF WalkableGraph
      <3> QED
        BY <2>1, <3>1 DEF Solves
    <2>3. RequiredUpTo(rq, m, d, Len(outEdges[m])) = {}
      BY <2>2 DEF RequiredUpTo, Earlier
    <2>4. rq[d][m] = AtSink(clk, dat, m, d)
      <3>1. rq[d][m] = AtSink(clk, dat, m, d) \cup (IF nodes[m].type = "FF_CLOCK" THEN {}
                                                    ELSE RequiredUpTo(rq, m, d, Len(outEdges[m])))
        BY <2>1 DEF Solves
      <3> QED
        BY <2>3, <3>1
    <2> QED
      BY <2>4 DEF Ready
  <1>4. Pulling(clk, dat, rq, m, 0, clockTag, dataTag)
    <2>1. 0 <= Len(outEdges[m])
      BY <1>1
    <2>2. \A d \in DOMAIN dataTag :
             IsLeast(dataTag[d].req, AtSink(clk, dat, m, d) \cup RequiredUpTo(rq, m, d, 0))
      BY <1>2 DEF Ready
    <2> QED
      BY <2>1, <2>2 DEF Ready, Pulling
  <1> QED
    BY <1>3, <1>4 DEF Ready, Final

LEMMA NothingRead ==
    ASSUME WalkableGraph, NEW clk, NEW dat, NEW m \in NodeIds, inEdges[m] # <<>>
    PROVE  Reading(clk, dat, m, 0, NoTags, NoTags)
  <1>1. 0 <= Len(inEdges[m])
    BY DEF WalkableGraph
  <1>2. ClockUpTo(clk, m, 0) = {} /\ DataUpTo(clk, dat, m, 0) = {}
    BY NothingYet
  <1>3. ~TwoClocksUpTo(clk, m, 0)
    BY DEF TwoClocksUpTo
  <1> QED
    BY <1>1, <1>2, <1>3, NoTagsFit DEF Reading
-------------------------------------------------------------------------------
(* The invariant of the walk: what is known of the tags of a node on level   *)
(* l while level lev is walked.                                              *)
At(clk, dat, rq, m, l) ==
    /\ phase = "pre" => IF l = 1 /\ m \in finished THEN Ready(clk, dat, m, clockTags[m], dataTags[m])
                        ELSE Empty(m)
    /\ phase = "fwd" => IF l < lev \/ (l = lev /\ m \in finished)
                        THEN Ready(clk, dat, m, clockTags[m], dataTags[m])
                        ELSE IF l = lev
                        THEN Reading(clk, dat, m, progress[m], clockTags[m], dataTags[m])
                        ELSE Empty(m)
    /\ phase = "bck" => IF l > lev \/ (l = lev /\ m \in finished)
                        THEN Final(clk, dat, rq, m, clockTags[m], dataTags[m])
                        ELSE IF l = lev
                        THEN Pulling(clk, dat, rq, m, progress[m], clockTags[m], dataTags[m])
                        ELSE Ready(clk, dat, m, clockTags[m], dataTags[m])
    /\ phase = "done" => Final(clk, dat, rq, m, clockTags[m], dataTags[m])

TimesOK(clk, dat, rq) ==
    /\ phase \in {"pre", "fwd", "bck", "done", "aborted"}
    /\ phase = "pre" => lev = 1
    /\ phase = "fwd" => lev # 1
    /\ progress \in [NodeIds -> Nat]
    /\ phase = "aborted" => \E m \in NodeIds : Placed(m) /\ Cause(clk, m)
    /\ \A m \in NodeIds : ~Placed(m) => Empty(m)
    /\ \A m \in NodeIds : \A l \in DOMAIN levels : OnLevel(m, l) => At(clk, dat, rq, m, l)

GraphFixed ==
    UNCHANGED <<nodes, inEdges, outEdges, srcOf, sinkOf, levels, delays, constraints>>

(* The equations and what is said of a node depend on the graph alone.      *)
LEMMA EquationsStay ==
    ASSUME GraphFixed
    PROVE  /\ NodeIds' = NodeIds /\ EdgeIds' = EdgeIds
           /\ \A m, l : OnLevel(m, l)' <=> OnLevel(m, l)
           /\ \A m : Placed(m)' <=> Placed(m)
           /\ \A clk, m : Cause(clk, m)' <=> Cause(clk, m)
           /\ \A clk, dat, m, k, ct, dt : Reading(clk, dat, m, k, ct, dt)' <=> Reading(clk, dat, m, k, ct, dt)
           /\ \A clk, dat, m, ct, dt : Ready(clk, dat, m, ct, dt)' <=> Ready(clk, dat, m, ct, dt)
           /\ \A clk, dat, rq, m, k, ct, dt :
                 Pulling(clk, dat, rq, m, k, ct, dt)' <=> Pulling(clk, dat, rq, m, k, ct, dt)
           /\ \A clk, dat, rq, m, ct, dt :
                 Final(clk, dat, rq, m, ct, dt)' <=> Final(clk, dat, rq, m, ct, dt)
  <1> USE DEF GraphFixed
  <1>1. NodeIds' = NodeIds /\ EdgeIds' = EdgeIds
    BY DEF NodeIds, EdgeIds
  <1>2. \A m, l : OnLevel(m, l)' <=> OnLevel(m, l)
    BY DEF OnLevel
  <1>3. \A m : Placed(m)' <=> Placed(m)
    BY <1>2 DEF Placed
  <1>4. \A clk, e : ClockOver(clk, e)' = ClockOver(clk, e)
    BY DEF ClockOver
  <1>5. \A clk, m, k : /\ TwoClocksUpTo(clk, m, k)' <=> TwoClocksUpTo(clk, m, k)
                       /\ ClockUpTo(clk, m, k)' = ClockUpTo(clk, m, k)
    BY <1>4 DEF TwoClocksUpTo, ClockUpTo
  <1>6. \A clk, m : Cause(clk, m)' <=> Cause(clk, m)
    BY <1>5 DEF Cause
  <1>7. \A clk, m, e : LaunchedOver(clk, m, e)' = LaunchedOver(clk, m, e)
    BY <1>4 DEF LaunchedOver
  <1>8. \A clk, dat, m, k : DataUpTo(clk, dat, m, k)' = DataUpTo(clk, dat, m, k)
    BY <1>7 DEF DataUpTo
  <1>9. \A clk, dat, m, d : AtSink(clk, dat, m, d)' = AtSink(clk, dat, m, d)
    BY DEF AtSink
  <1>10. \A rq, m, d, k : RequiredUpTo(rq, m, d, k)' = RequiredUpTo(rq, m, d, k)
    BY DEF RequiredUpTo
  <1>11. \A clk, dat, m, ct, dt : Arrived(clk, dat, m, ct, dt)' <=> Arrived(clk, dat, m, ct, dt)
    BY <1>6 DEF Arrived
  <1>12. \A clk, dat, m, k, ct, dt : Reading(clk, dat, m, k, ct, dt)' <=> Reading(clk, dat, m, k, ct, dt)
    BY <1>5, <1>8 DEF Reading
  <1>13. \A clk, dat, m, ct, dt : Ready(clk, dat, m, ct, dt)' <=> Ready(clk, dat, m, ct, dt)
    BY <1>9, <1>11 DEF Ready
  <1>14. \A clk, dat, rq, m, k, ct, dt :
            Pulling(clk, dat, rq, m, k, ct, dt)' <=> Pulling(clk, dat, rq, m, k, ct, dt)
    <2> TAKE clk, dat, rq, m, k, ct, dt
    <2>1. \A d : /\ AtSink(clk, dat, m, d)' = AtSink(clk, dat, m, d)
                 /\ RequiredUpTo(rq, m, d, k)' = RequiredUpTo(rq, m, d, k)
      BY <1>9, <1>10
    <2>2. Arrived(clk, dat, m, ct, dt)' <=> Arrived(clk, dat, m, ct, dt)
      BY <1>11
    <2> QED
      BY <2>1, <2>2 DEF Pulling
  <1>15. \A clk, dat, rq, m, ct, dt :
            Final(clk, dat, rq, m, ct, dt)' <=> Final(clk, dat, rq, m, ct, dt)
    BY <1>11 DEF Final
  <1> QED
    BY <1>1, <1>2, <1>3, <1>6, <1>12, <1>13, <1>14, <1>15

(* A new analysis, or one that is started again.                            *)
LEMMA StartTimes ==
    ASSUME NEW clk, NEW dat, NEW rq, StartAnalysis
    PROVE  TimesOK(clk, dat, rq)'
  <1>1. /\ phase' = "pre" /\ lev' = 1 /\ finished' = {}
        /\ progress' = [n \in NodeIds |-> 0] /\ NodeIds' = NodeIds
        /\ dataTags' = [n \in NodeIds |-> NoTags] /\ clockTags' = [n \in NodeIds |-> NoTags]
    BY DEF StartAnalysis, Walk, graphVars, graphData, NodeIds
  <1>2. \A m \in NodeIds' : Empty(m)'
    BY <1>1 DEF Empty
  <1>3. \A m \in NodeIds' : \A l \in DOMAIN levels' : At(clk, dat, rq, m, l)'
    BY <1>1, <1>2 DEF At
  <1>4. progress' \in [NodeIds' -> Nat]
    BY <1>1
  <1> QED
    BY <1>1, <1>2, <1>3, <1>4 DEF TimesOK

(* The other nodes during a handler's step.                                 *)
LEMMA OthersStay ==
    ASSUME GraphFixed, NEW clk, NEW dat, NEW rq, NEW m, NEW l,
           UNCHANGED <<phase, lev>>, (m \in finished') <=> (m \in finished),
           progress'[m] = progress[m], dataTags'[m] = dataTags[m], clockTags'[m] = clockTags[m],
           At(clk, dat, rq, m, l)
    PROVE  At(clk, dat, rq, m, l)'
  <1>1. Empty(m)' <=> Empty(m)
    BY DEF Empty
  <1>2. /\ Ready(clk, dat, m, clockTags[m], dataTags[m])' <=> Ready(clk, dat, m, clockTags[m], dataTags[m])
        /\ Reading(clk, dat, m, progress[m], clockTags[m], dataTags[m])'
              <=> Reading(clk, dat, m, progress[m], clockTags[m], dataTags[m])
        /\ Pulling(clk, dat, rq, m, progress[m], clockTags[m], dataTags[m])'
              <=> Pulling(clk, dat, rq, m, progress[m], clockTags[m], dataTags[m])
        /\ Final(clk, dat, rq, m, clockTags[m], dataTags[m])' <=> Final(clk, dat, rq, m, clockTags[m], dataTags[m])
    BY EquationsStay
  <1> QED
    BY <1>1, <1>2 DEF At

(* The handler's own node.                                                  *)
LEMMA OwnStep ==
    ASSUME WalkableGraph, NEW clk, NEW dat, NEW rq, Solves(clk, dat, rq), TimesOK(clk, dat, rq),
           lev \in DOMAIN levels, DOMAIN dataTags = NodeIds, DOMAIN clockTags = NodeIds,
           NEW n \in NodeIds, Handler(n), phase' # "aborted"
    PROVE  At(clk, dat, rq, n, lev)'
  <1> DEFINE k == progress[n]
  <1>1. GraphFixed /\ lev' = lev /\ OnLevel(n, lev) /\ n \notin finished /\ Placed(n)
    <2>1. UNCHANGED graphVars /\ lev' = lev /\ n \in Running /\ UNCHANGED <<delays, constraints>>
      BY HandlerFacts, HandlersReadDelays
    <2>2. OnLevel(n, lev) /\ n \notin finished
      BY <2>1 DEF Running, OnLevel
    <2> QED
      BY <2>1, <2>2 DEF GraphFixed, Placed, graphVars, graphData, levelData
  <1>2. At(clk, dat, rq, n, lev) /\ k \in Nat /\ n \in DOMAIN progress
    BY <1>1 DEF TimesOK
  <1>3. \A ct, dt, j : /\ Ready(clk, dat, n, ct, dt)' <=> Ready(clk, dat, n, ct, dt)
                       /\ Reading(clk, dat, n, j, ct, dt)' <=> Reading(clk, dat, n, j, ct, dt)
                       /\ Pulling(clk, dat, rq, n, j, ct, dt)' <=> Pulling(clk, dat, rq, n, j, ct, dt)
                       /\ Final(clk, dat, rq, n, ct, dt)' <=> Final(clk, dat, rq, n, ct, dt)
    BY <1>1, EquationsStay
  <1>4. lev \in Nat /\ ~(lev < lev) /\ ~(lev > lev) /\ \A l \in DOMAIN levels : l \in Nat
    <2>1. DOMAIN levels = 1..Len(levels)
      BY LenProperties DEF WalkableGraph
    <2> QED
      BY <2>1
  <1>5. CASE pre_traverse_node(n)
    <2>1. phase = "pre" /\ phase' = "pre" /\ Return(n) /\ lev = 1
      BY <1>5 DEF pre_traverse_node, Return, Abort, TimesOK
    <2>2. clockTags[n] = NoTags /\ dataTags[n] = NoTags /\ OnLevel(n, 1)
      BY <1>1, <1>2, <2>1 DEF At, Empty
    <2>3. Ready(clk, dat, n, clockTags'[n], dataTags'[n])
      <3>1. /\ nodes[n].type = "CONSTANT_GEN_SOURCE" => Ready(clk, dat, n, NoTags, NoTags)
            /\ DefinesClock(n) => Ready(clk, dat, n, SourceTags(n), NoTags)
            /\ nodes[n].type = "INPAD_SOURCE" /\ ~nodes[n].clockSource
                  => Ready(clk, dat, n, NoTags, SourceTags(n))
        BY <2>2, SourceReady
      <3>2. \/ /\ nodes[n].type = "CONSTANT_GEN_SOURCE"
               /\ dataTags'[n] = dataTags[n] /\ clockTags'[n] = clockTags[n]
            \/ DefinesClock(n) /\ clockTags'[n] = SourceTags(n) /\ dataTags'[n] = dataTags[n]
            \/ /\ nodes[n].type = "INPAD_SOURCE" /\ ~nodes[n].clockSource
               /\ dataTags'[n] = SourceTags(n) /\ clockTags'[n] = clockTags[n]
        BY <1>5 DEF pre_traverse_node, tagVars, Abort
      <3> QED
        BY <2>2, <3>1, <3>2
    <2>4. finished' = finished \cup {n}
      BY <2>1 DEF Return
    <2> QED
      BY <1>1, <1>3, <2>1, <2>3, <2>4 DEF At
  <1>6. CASE forward_traverse_edge(n)
    <2> DEFINE e == inEdges[n][k + 1]
    <2>1. /\ phase = "fwd" /\ phase' = "fwd" /\ finished' = finished /\ k < Len(inEdges[n])
          /\ ~LaunchesLinkedTag(n, e) /\ progress'[n] = k + 1
          /\ clockTags'[n] = Later(clockTags[n], ClockTagsOver(e), delays[e])
          /\ dataTags'[n] = Later(Later(dataTags[n], Launched(n, e), delays[e]), dataTags[srcOf[e]], delays[e])
      BY <1>2, <1>6 DEF forward_traverse_edge, Step, Abort
    <2>2. Reading(clk, dat, n, k, clockTags[n], dataTags[n])
      BY <1>1, <1>2, <1>4, <2>1 DEF At
    <2>3. Arrived(clk, dat, srcOf[e], clockTags[srcOf[e]], dataTags[srcOf[e]])
      <3>1. k + 1 \in DOMAIN inEdges[n]
        BY <1>2, <2>1 DEF WalkableGraph
      <3>2. e \in EdgeIds /\ sinkOf[e] = n
        BY <3>1 DEF WalkableGraph
      <3> HIDE DEF e, k
      <3>3. srcOf[e] \in NodeIds /\ Placed(srcOf[e])
        BY <1>1, <3>2 DEF WalkableGraph
      <3>4. PICK l \in DOMAIN levels : OnLevel(srcOf[e], l)
        BY <3>3 DEF Placed
      <3>5. l < lev
        BY <1>1, <3>2, <3>4 DEF WalkableGraph
      <3>6. Ready(clk, dat, srcOf[e], clockTags[srcOf[e]], dataTags[srcOf[e]])
        BY <2>1, <3>3, <3>4, <3>5 DEF TimesOK, At
      <3> QED
        BY <3>6 DEF Ready
    <2>4. Reading(clk, dat, n, k + 1, clockTags'[n], dataTags'[n])
      <3> DEFINE ct == clockTags[n]
                 dt == dataTags[n]
      <3>1. e = inEdges[n][k + 1] /\ Reading(clk, dat, n, k, ct, dt) /\ k \in Nat
        BY <1>2, <2>2
      <3> HIDE DEF e, k, ct, dt
      <3>2. Reading(clk, dat, n, k + 1, Later(ct, ClockTagsOver(e), delays[e]),
                    Later(Later(dt, Launched(n, e), delays[e]), dataTags[srcOf[e]], delays[e]))
        BY <1>1, <2>1, <2>3, <3>1, EdgeRead
      <3> QED
        BY <2>1, <3>2 DEF ct, dt
    <2> HIDE DEF e, k
    <2>5. Reading(clk, dat, n, progress[n], clockTags[n], dataTags[n])'
      BY <1>3, <2>1, <2>4
    <2> QED
      BY <1>1, <1>4, <2>1, <2>5 DEF At
  <1>7. CASE forward_traverse_finalize_node(n)
    <2>1. /\ phase = "fwd" /\ phase' = "fwd" /\ finished' = finished \cup {n} /\ k = Len(inEdges[n])
          /\ clockTags' = clockTags
          /\ dataTags'[n] = [d \in DOMAIN dataTags[n] |-> MinReq(dataTags[n][d], SinkRequirements(n, d))]
      BY <1>7 DEF forward_traverse_finalize_node, Return
    <2>2. Reading(clk, dat, n, Len(inEdges[n]), clockTags[n], dataTags[n])
      BY <1>1, <1>2, <1>4, <2>1 DEF At
    <2>3. Ready(clk, dat, n, clockTags[n], dataTags'[n])
      <3> DEFINE new == dataTags'[n]
      <3>1. new = [d \in DOMAIN dataTags[n] |-> MinReq(dataTags[n][d], SinkRequirements(n, d))]
        BY <2>1
      <3> HIDE DEF new
      <3>2. Ready(clk, dat, n, clockTags[n], new)
        BY <1>1, <2>2, <3>1, NodeFinalized
      <3> QED
        BY <3>2 DEF new
    <2>4. Ready(clk, dat, n, clockTags[n], dataTags[n])'
      BY <1>3, <2>1, <2>3
    <2> QED
      BY <1>1, <2>1, <2>4 DEF At
  <1>8. CASE backward_traverse_edge(n)
    <2> DEFINE e == outEdges[n][k + 1]
               sink == dataTags[sinkOf[e]]
               new == dataTags'[n]
    <2>1. /\ phase = "bck" /\ phase' = "bck" /\ finished' = finished /\ k < Len(outEdges[n])
          /\ nodes[n].type # "FF_CLOCK" /\ progress'[n] = k + 1 /\ clockTags' = clockTags
      BY <1>2, <1>8 DEF backward_traverse_edge, Step
    <2>2. new = [d \in DOMAIN dataTags[n] |->
                    IF d \in DOMAIN sink THEN MinReq(dataTags[n][d], Earlier(sink[d].req, delays[e]))
                    ELSE dataTags[n][d]]
      BY <1>8 DEF backward_traverse_edge, Earlier
    <2>3. Pulling(clk, dat, rq, n, k, clockTags[n], dataTags[n])
      BY <1>1, <1>2, <1>4, <2>1 DEF At
    <2>4. /\ Placed(sinkOf[e]) => Final(clk, dat, rq, sinkOf[e], clockTags[sinkOf[e]], sink)
          /\ ~Placed(sinkOf[e]) => sink = NoTags
      <3>1. k + 1 \in DOMAIN outEdges[n]
        BY <1>2, <2>1 DEF WalkableGraph
      <3>2. e \in EdgeIds /\ srcOf[e] = n
        BY <3>1 DEF WalkableGraph
      <3> HIDE DEF e, k
      <3>3. sinkOf[e] \in NodeIds
        BY <3>2 DEF WalkableGraph
      <3>4. ASSUME Placed(sinkOf[e]) PROVE Final(clk, dat, rq, sinkOf[e], clockTags[sinkOf[e]], sink)
        <4>1. PICK l \in DOMAIN levels : OnLevel(sinkOf[e], l)
          BY <3>4 DEF Placed
        <4>2. lev < l
          BY <1>1, <3>2, <4>1 DEF WalkableGraph
        <4>3. l > lev
          BY <1>4, <4>2
        <4> QED
          BY <2>1, <3>3, <4>1, <4>3 DEF TimesOK, At
      <3> QED
        BY <3>3, <3>4 DEF TimesOK, Empty
    <2> HIDE DEF new
    <2>5. Pulling(clk, dat, rq, n, k + 1, clockTags[n], new)
      <3>1. e = outEdges[n][k + 1] /\ sink = dataTags[sinkOf[e]]
        OBVIOUS
      <3> HIDE DEF e, k, sink
      <3> QED
        BY <1>1, <1>2, <2>1, <2>2, <2>3, <2>4, <3>1, EdgePulled
    <2> HIDE DEF k, e, sink
    <2>6. Pulling(clk, dat, rq, n, progress[n], clockTags[n], dataTags[n])'
      BY <1>3, <2>1, <2>5 DEF new
    <2> QED
      BY <1>1, <1>4, <2>1, <2>6 DEF At
  <1>9. CASE backward_traverse_return(n)
    <2>1. /\ phase = "bck" /\ phase' = "bck" /\ finished' = finished \cup {n} /\ UNCHANGED tagVars
          /\ nodes[n].type = "FF_CLOCK" \/ k = Len(outEdges[n])
      BY <1>9 DEF backward_traverse_return, Return
    <2>2. Pulling(clk, dat, rq, n, k, clockTags[n], dataTags[n])
      BY <1>1, <1>2, <1>4, <2>1 DEF At
    <2>3. Final(clk, dat, rq, n, clockTags[n], dataTags[n])
      BY <1>1, <1>2, <2>1, <2>2, NodePulled
    <2>4. Final(clk, dat, rq, n, clockTags[n], dataTags[n])'
      BY <1>3, <2>1, <2>3 DEF tagVars
    <2> QED
      BY <1>1, <2>1, <2>4 DEF At
  <1> QED
    BY <1>5, <1>6, <1>7, <1>8, <1>9 DEF Handler

(* The reasons a handler aborts for.                                        *)
LEMMA AbortCause ==
    ASSUME WalkableGraph, NEW clk, NEW dat, NEW rq, Solves(clk, dat, rq), TimesOK(clk, dat, rq),
           lev \in DOMAIN levels, NEW n \in NodeIds, Handler(n), phase' = "aborted"
    PROVE  UNCHANGED tagVars /\ UNCHANGED progress /\ Placed(n) /\ Cause(clk, n)
  <1>1. OnLevel(n, lev) /\ n \notin finished /\ Placed(n)
    <2>1. n \in Running
      BY HandlerFacts
    <2> QED
      BY <2>1 DEF Running, OnLevel, Placed
  <1>2. At(clk, dat, rq, n, lev) /\ progress[n] \in Nat
    BY <1>1 DEF TimesOK
  <1>3. lev \in Nat /\ ~(lev < lev)
    <2>1. DOMAIN levels = 1..Len(levels)
      BY LenProperties DEF WalkableGraph
    <2> QED
      BY <2>1
  <1>4. CASE pre_traverse_node(n)
    <2>1. phase = "pre" /\ lev = 1 /\ Abort
      BY <1>4 DEF pre_traverse_node, Return, TimesOK
    <2>2. clockTags[n] = NoTags /\ OnLevel(n, 1)
      BY <1>1, <1>2, <2>1 DEF At, Empty
    <2>3. nodes[n].type \notin Sources
      BY <1>4, <2>1, <2>2 DEF pre_traverse_node, Return, Sources
    <2> QED
      BY <1>1, <2>1, <2>2, <2>3, SourceReady DEF Abort
  <1>5. CASE forward_traverse_edge(n)
    <2> DEFINE k == progress[n]
               e == inEdges[n][k + 1]
    <2>1. phase = "fwd" /\ Abort /\ LaunchesLinkedTag(n, e) /\ k < Len(inEdges[n])
      BY <1>5 DEF forward_traverse_edge, Step
    <2>2. Reading(clk, dat, n, k, clockTags[n], dataTags[n])
      BY <1>1, <1>2, <1>3, <2>1 DEF At
    <2>3. Arrived(clk, dat, srcOf[e], clockTags[srcOf[e]], dataTags[srcOf[e]])
      <3>1. k + 1 \in DOMAIN inEdges[n]
        BY <1>2, <2>1 DEF WalkableGraph
      <3>2. e \in EdgeIds /\ sinkOf[e] = n
        BY <3>1 DEF WalkableGraph
      <3> HIDE DEF e, k
      <3>3. srcOf[e] \in NodeIds /\ Placed(srcOf[e])
        BY <1>1, <3>2 DEF WalkableGraph
      <3>4. PICK l \in DOMAIN levels : OnLevel(srcOf[e], l)
        BY <3>3 DEF Placed
      <3>5. l < lev
        BY <1>1, <3>2, <3>4 DEF WalkableGraph
      <3>6. Ready(clk, dat, srcOf[e], clockTags[srcOf[e]], dataTags[srcOf[e]])
        BY <2>1, <3>3, <3>4, <3>5 DEF TimesOK, At
      <3> QED
        BY <3>6 DEF Ready
    <2>4. Cause(clk, n)
      <3> DEFINE ct == clockTags[n]
                 dt == dataTags[n]
      <3>1. e = inEdges[n][k + 1] /\ Reading(clk, dat, n, k, ct, dt) /\ k \in Nat
        BY <1>2, <2>2
      <3> HIDE DEF e, k, ct, dt
      <3> QED
        BY <1>1, <2>1, <2>3, <3>1, EdgeRead
    <2> QED
      BY <1>1, <2>1, <2>4 DEF Abort
  <1>6. CASE \/ forward_traverse_finalize_node(n) \/ backward_traverse_edge(n)
             \/ backward_traverse_return(n)
    BY <1>6 DEF forward_traverse_finalize_node, backward_traverse_edge, backward_traverse_return, Return, Step
  <1> QED
    BY <1>4, <1>5, <1>6 DEF Handler

LEMMA HandlerTimes ==
    ASSUME WalkableGraph, NEW clk, NEW dat, NEW rq, Solves(clk, dat, rq), TimesOK(clk, dat, rq),
           lev \in DOMAIN levels, DOMAIN dataTags = NodeIds, DOMAIN clockTags = NodeIds,
           NEW n \in NodeIds, Handler(n)
    PROVE  TimesOK(clk, dat, rq)'
  <1>1. /\ GraphFixed /\ lev' = lev /\ OnLevel(n, lev) /\ Placed(n) /\ phase \in {"pre", "fwd", "bck"}
        /\ \A m \in NodeIds : m # n => dataTags'[m] = dataTags[m] /\ clockTags'[m] = clockTags[m]
    <2>1. /\ UNCHANGED graphVars /\ lev' = lev /\ n \in Running /\ UNCHANGED <<delays, constraints>>
          /\ phase \in {"pre", "fwd", "bck"}
          /\ \A m \in DOMAIN dataTags : m # n => dataTags'[m] = dataTags[m]
          /\ \A m \in DOMAIN clockTags : m # n => clockTags'[m] = clockTags[m]
      BY HandlerFacts, HandlersReadDelays
    <2>2. OnLevel(n, lev)
      BY <2>1 DEF Running, OnLevel
    <2> QED
      BY <2>1, <2>2 DEF GraphFixed, Placed, graphVars, graphData, levelData
  <1>2. /\ NodeIds' = NodeIds /\ levels' = levels
        /\ \A m, l : OnLevel(m, l)' <=> OnLevel(m, l)
        /\ \A m : Placed(m)' <=> Placed(m)
        /\ \A m : Cause(clk, m)' <=> Cause(clk, m)
    BY <1>1, EquationsStay DEF GraphFixed
  <1>3. CASE phase' = "aborted"
    <2>1. UNCHANGED tagVars /\ UNCHANGED progress /\ Cause(clk, n)
      BY <1>3, AbortCause
    <2>2. \A m \in NodeIds' : ~Placed(m)' => Empty(m)'
      BY <1>2, <2>1 DEF TimesOK, Empty, tagVars
    <2>3. \A m, l : At(clk, dat, rq, m, l)'
      BY <1>3 DEF At
    <2>4. \E m \in NodeIds' : Placed(m)' /\ Cause(clk, m)'
      BY <1>1, <1>2, <2>1
    <2>5. progress' \in [NodeIds' -> Nat]
      BY <1>2, <2>1 DEF TimesOK
    <2> QED
      BY <1>3, <2>2, <2>3, <2>4, <2>5 DEF TimesOK
  <1>4. CASE phase' # "aborted"
    <2>1. /\ phase' = phase
          /\ \A m : m # n => (m \in finished' <=> m \in finished)
          /\ progress' = progress \/ progress' = [progress EXCEPT ![n] = @ + 1]
      BY <1>4 DEF Handler, pre_traverse_node, forward_traverse_edge, forward_traverse_finalize_node,
                  backward_traverse_edge, backward_traverse_return, Return, Step, Abort
    <2>2. progress' \in [NodeIds -> Nat] /\ \A m \in NodeIds : m # n => progress'[m] = progress[m]
      BY <2>1 DEF TimesOK
    <2>3. ASSUME NEW m \in NodeIds, NEW l \in DOMAIN levels, OnLevel(m, l)
          PROVE  At(clk, dat, rq, m, l)'
      <3>1. CASE m = n
        <4>1. l = lev
          BY <1>1, <2>3, <3>1 DEF WalkableGraph
        <4>2. At(clk, dat, rq, n, lev)'
          BY <1>4, OwnStep
        <4> QED
          BY <1>1, <3>1, <4>1, <4>2
      <3>2. CASE m # n
        <4>1. At(clk, dat, rq, m, l)
          BY <2>3 DEF TimesOK
        <4>2. /\ UNCHANGED <<phase, lev>> /\ ((m \in finished') <=> (m \in finished))
              /\ progress'[m] = progress[m] /\ dataTags'[m] = dataTags[m] /\ clockTags'[m] = clockTags[m]
          BY <1>1, <2>1, <2>2, <3>2
        <4> QED
          BY <1>1, <4>1, <4>2, OthersStay
      <3> QED
        BY <3>1, <3>2
    <2>4. \A m \in NodeIds : ~Placed(m) => Empty(m)'
      <3> SUFFICES ASSUME NEW m \in NodeIds, ~Placed(m)
                   PROVE  Empty(m)'
        OBVIOUS
      <3>1. m # n /\ Empty(m)
        BY <1>1 DEF TimesOK
      <3> QED
        BY <1>1, <3>1 DEF Empty
    <2>5. phase' = "pre" => lev' = 1
      BY <1>1, <2>1 DEF TimesOK
    <2>6. phase' = "fwd" => lev' # 1
      BY <1>1, <2>1 DEF TimesOK
    <2> QED
      BY <1>1, <1>2, <1>4, <2>1, <2>2, <2>3, <2>4, <2>5, <2>6 DEF TimesOK
  <1> QED
    BY <1>3, <1>4

(* The join at the end of a level.                                          *)
LEMMA NextLevelTimes ==
    ASSUME WalkableGraph, NEW clk, NEW dat, NEW rq, Solves(clk, dat, rq), TimesOK(clk, dat, rq),
           lev \in DOMAIN levels, NextLevel
    PROVE  TimesOK(clk, dat, rq)'
  <1> DEFINE top == Len(levels)
  <1>1. /\ UNCHANGED tagVars /\ GraphFixed
        /\ phase \in {"pre", "fwd", "bck"} /\ \A m : OnLevel(m, lev) => m \in finished
    BY DEF NextLevel, LevelDone, OnLevel, GraphFixed, graphVars, graphData, levelData
  <1>2. /\ NodeIds' = NodeIds /\ levels' = levels
        /\ \A m, l : OnLevel(m, l)' <=> OnLevel(m, l)
        /\ \A m : Placed(m)' <=> Placed(m)
        /\ \A m, ct, dt, j : /\ Ready(clk, dat, m, ct, dt)' <=> Ready(clk, dat, m, ct, dt)
                             /\ Reading(clk, dat, m, j, ct, dt)' <=> Reading(clk, dat, m, j, ct, dt)
                             /\ Pulling(clk, dat, rq, m, j, ct, dt)' <=> Pulling(clk, dat, rq, m, j, ct, dt)
                             /\ Final(clk, dat, rq, m, ct, dt)' <=> Final(clk, dat, rq, m, ct, dt)
    BY <1>1, EquationsStay DEF GraphFixed
  <1>3. DOMAIN levels = 1..top /\ top \in Nat /\ lev \in 1..top
    BY LenProperties DEF WalkableGraph
  <1>4. \A m : Empty(m)' <=> Empty(m)
    BY <1>1 DEF Empty, tagVars
  <1>5. \A m \in NodeIds' : ~Placed(m)' => Empty(m)'
    BY <1>2, <1>4 DEF TimesOK
  <1>6. ASSUME NEW m \in NodeIds, OnLevel(m, top), Ready(clk, dat, m, clockTags[m], dataTags[m])
        PROVE  Final(clk, dat, rq, m, clockTags[m], dataTags[m])
    <2>1. Placed(m) /\ top \in DOMAIN levels
      BY <1>3, <1>6 DEF Placed
    <2>2. ASSUME NEW i \in DOMAIN outEdges[m] PROVE ~Placed(sinkOf[outEdges[m][i]])
      <3>1. outEdges[m][i] \in EdgeIds /\ srcOf[outEdges[m][i]] = m
        BY DEF WalkableGraph
      <3>2. \A l \in DOMAIN levels : OnLevel(sinkOf[outEdges[m][i]], l) => top < l
        BY <1>6, <2>1, <3>1 DEF WalkableGraph
      <3>3. \A l \in DOMAIN levels : ~(top < l)
        BY <1>3
      <3> QED
        BY <3>2, <3>3 DEF Placed
    <2> QED
      BY <1>6, <2>1, <2>2, PassesMeet
  <1>7. ASSUME NEW m \in NodeIds, NEW l \in DOMAIN levels, OnLevel(m, l)
        PROVE  /\ At(clk, dat, rq, m, l) /\ Placed(m)
               /\ l # 1 => inEdges[m] # <<>>
               /\ l = lev => m \in finished
    <2>1. Placed(m) /\ At(clk, dat, rq, m, l)
      BY <1>7 DEF Placed, TimesOK
    <2>2. l # 1 => ~OnLevel(m, 1)
      BY <1>3, <1>7 DEF WalkableGraph
    <2> QED
      BY <1>1, <1>7, <2>1, <2>2 DEF WalkableGraph
  <1> HIDE DEF top
  <1>8. CASE phase # "bck" /\ lev < top
    <2>1. /\ phase' = "fwd" /\ lev' = lev + 1 /\ finished' = {} /\ progress' = [m \in NodeIds |-> 0]
      BY <1>8 DEF NextLevel, Walk, top
    <2>2. lev' # 1 /\ progress' \in [NodeIds -> Nat]
      BY <1>3, <2>1
    <2>3. ASSUME NEW m \in NodeIds, NEW l \in DOMAIN levels, OnLevel(m, l)
          PROVE  At(clk, dat, rq, m, l)'
      <3>1. /\ At(clk, dat, rq, m, l) /\ (l # 1 => inEdges[m] # <<>>) /\ (l = lev => m \in finished)
        BY <1>7, <2>3
      <3>2. CASE l <= lev
        <4>1. Ready(clk, dat, m, clockTags[m], dataTags[m])
          <5>1. CASE phase = "pre"
            <6>1. l = 1 /\ m \in finished
              BY <1>3, <3>1, <3>2, <5>1 DEF TimesOK
            <6> QED
              BY <3>1, <5>1, <6>1 DEF At
          <5>2. CASE phase = "fwd"
            <6>1. l < lev \/ (l = lev /\ m \in finished)
              BY <1>3, <3>1, <3>2
            <6> QED
              BY <3>1, <5>2, <6>1 DEF At
          <5> QED
            BY <1>1, <1>8, <5>1, <5>2
        <4>2. l < lev'
          BY <1>3, <2>1, <3>2
        <4>3. Ready(clk, dat, m, clockTags[m], dataTags[m])'
          BY <1>1, <1>2, <4>1 DEF tagVars
        <4> QED
          BY <2>1, <4>2, <4>3 DEF At
      <3>3. CASE l > lev
        <4>1. Empty(m) /\ inEdges[m] # <<>>
          <5>1. l # 1 /\ ~(l < lev) /\ l # lev
            BY <1>3, <3>3
          <5> QED
            BY <1>1, <1>8, <3>1, <5>1 DEF At
        <4>2. CASE l = lev'
          <5>1. Reading(clk, dat, m, 0, clockTags[m], dataTags[m])
            BY <4>1, NothingRead DEF Empty
          <5>2. Reading(clk, dat, m, progress[m], clockTags[m], dataTags[m])'
            BY <1>1, <1>2, <2>1, <5>1 DEF tagVars
          <5>3. ~(l < lev')
            BY <1>3, <4>2
          <5> QED
            BY <2>1, <4>2, <5>2, <5>3 DEF At
        <4>3. CASE l # lev'
          <5>1. ~(l < lev')
            BY <1>3, <2>1, <3>3, <4>3
          <5> QED
            BY <1>4, <2>1, <4>1, <4>3, <5>1 DEF At
        <4> QED
          BY <4>2, <4>3
      <3> QED
        BY <1>3, <3>2, <3>3
    <2> QED
      BY <1>2, <1>5, <2>1, <2>2, <2>3 DEF TimesOK
  <1>9. CASE (phase # "bck" /\ lev = top /\ lev > 1) \/ (phase = "bck" /\ lev > 1)
    <2>1. /\ phase' = "bck" /\ lev' = lev - 1 /\ finished' = {} /\ progress' = [m \in NodeIds |-> 0]
      <3>1. ~(phase # "bck" /\ lev < top)
        BY <1>3, <1>9
      <3> QED
        BY <1>9, <3>1 DEF NextLevel, Walk, top
    <2>2. progress' \in [NodeIds -> Nat]
      BY <2>1
    <2>3. phase \in {"fwd", "bck"} /\ (phase = "fwd" => lev = top)
      BY <1>1, <1>3, <1>9 DEF TimesOK
    <2>4. ASSUME NEW m \in NodeIds, NEW l \in DOMAIN levels, OnLevel(m, l)
          PROVE  At(clk, dat, rq, m, l)'
      <3>1. At(clk, dat, rq, m, l) /\ Placed(m) /\ (l = lev => m \in finished)
        BY <1>7, <2>4
      <3>2. CASE l >= lev
        <4>1. Final(clk, dat, rq, m, clockTags[m], dataTags[m])
          <5>1. CASE phase = "fwd"
            <6>1. l = top /\ l = lev
              BY <1>3, <2>3, <3>2, <5>1
            <6>2. Ready(clk, dat, m, clockTags[m], dataTags[m])
              BY <3>1, <5>1, <6>1 DEF At
            <6> QED
              BY <1>6, <2>4, <6>1, <6>2
          <5>2. CASE phase = "bck"
            <6>1. l > lev \/ (l = lev /\ m \in finished)
              BY <1>3, <3>1, <3>2
            <6> QED
              BY <3>1, <5>2, <6>1 DEF At
          <5> QED
            BY <2>3, <5>1, <5>2
        <4>2. l > lev'
          BY <1>3, <2>1, <3>2
        <4>3. Final(clk, dat, rq, m, clockTags[m], dataTags[m])'
          BY <1>1, <1>2, <4>1 DEF tagVars
        <4> QED
          BY <2>1, <4>2, <4>3 DEF At
      <3>3. CASE l < lev
        <4>1. Ready(clk, dat, m, clockTags[m], dataTags[m])
          <5>1. ~(l > lev) /\ l # lev
            BY <1>3, <3>3
          <5> QED
            BY <2>3, <3>1, <3>3, <5>1 DEF At
        <4>2. CASE l = lev'
          <5>1. Pulling(clk, dat, rq, m, 0, clockTags[m], dataTags[m])
            BY <3>1, <4>1, PassesMeet
          <5>2. Pulling(clk, dat, rq, m, progress[m], clockTags[m], dataTags[m])'
            BY <1>1, <1>2, <2>1, <5>1 DEF tagVars
          <5>3. ~(l > lev')
            BY <1>3, <4>2
          <5> QED
            BY <2>1, <4>2, <5>2, <5>3 DEF At
        <4>3. CASE l # lev'
          <5>1. ~(l > lev')
            BY <1>3, <2>1, <3>3, <4>3
          <5>2. Ready(clk, dat, m, clockTags[m], dataTags[m])'
            BY <1>1, <1>2, <4>1 DEF tagVars
          <5> QED
            BY <2>1, <4>3, <5>1, <5>2 DEF At
        <4> QED
          BY <4>2, <4>3
      <3> QED
        BY <1>3, <3>2, <3>3
    <2> QED
      BY <1>2, <1>5, <2>1, <2>2, <2>4 DEF TimesOK
  <1>10. CASE lev = 1 /\ (phase = "bck" \/ lev = top)
    <2>1. /\ phase' = "done" /\ lev' = 1 /\ progress' = [m \in NodeIds |-> 0]
      <3>1. ~(phase # "bck" /\ lev < top) /\ ~(lev > 1)
        BY <1>3, <1>10
      <3> QED
        BY <3>1 DEF NextLevel, Walk, top
    <2>2. progress' \in [NodeIds -> Nat]
      BY <2>1
    <2>3. ASSUME NEW m \in NodeIds, NEW l \in DOMAIN levels, OnLevel(m, l)
          PROVE  At(clk, dat, rq, m, l)'
      <3>1. At(clk, dat, rq, m, l) /\ Placed(m) /\ (l = lev => m \in finished)
        BY <1>7, <2>3
      <3>2. Final(clk, dat, rq, m, clockTags[m], dataTags[m])
        <4>1. CASE phase = "bck"
          <5>1. l > lev \/ (l = lev /\ m \in finished)
            BY <1>3, <1>10, <3>1
          <5> QED
            BY <3>1, <4>1, <5>1 DEF At
        <4>2. CASE phase = "pre"
          <5>1. l = 1 /\ l = top /\ m \in finished
            BY <1>3, <1>10, <3>1, <4>2
          <5>2. Ready(clk, dat, m, clockTags[m], dataTags[m])
            BY <3>1, <4>2, <5>1 DEF At
          <5> QED
            BY <1>6, <2>3, <5>1, <5>2
        <4> QED
          BY <1>1, <1>10, <4>1, <4>2 DEF TimesOK
      <3>3. Final(clk, dat, rq, m, clockTags[m], dataTags[m])'
        BY <1>1, <1>2, <3>2 DEF tagVars
      <3> QED
        BY <2>1, <3>3 DEF At
    <2> QED
      BY <1>2, <1>5, <2>1, <2>2, <2>3 DEF TimesOK
  <1> QED
    BY <1>1, <1>3, <1>8, <1>9, <1>10

(* A step of the analysis.                                                  *)
LEMMA AnalysisTimes ==
    ASSUME WalkableGraph, NEW clk, NEW dat, NEW rq, Solves(clk, dat, rq),
           phase # "idle" => /\ TimesOK(clk, dat, rq) /\ lev \in DOMAIN levels
                             /\ DOMAIN dataTags = NodeIds /\ DOMAIN clockTags = NodeIds,
           StartAnalysis \/ calculate_timing
    PROVE  GraphFixed /\ TimesOK(clk, dat, rq)'
  <1>1. CASE StartAnalysis
    BY <1>1, StartTimes DEF StartAnalysis, GraphFixed, graphVars, graphData, levelData
  <1>2. CASE NextLevel
    BY <1>2, NextLevelTimes DEF NextLevel, LevelDone, GraphFixed, graphVars, graphData, levelData
  <1>3. CASE \E n \in NodeIds : Handler(n)
    <2>1. PICK n \in NodeIds : Handler(n)
      BY <1>3
    <2>2. phase # "idle" /\ UNCHANGED graphVars /\ UNCHANGED <<delays, constraints>>
      BY <2>1, HandlerFacts, HandlersReadDelays
    <2>3. GraphFixed
      BY <2>2 DEF GraphFixed, graphVars, graphData, levelData
    <2> QED
      BY <2>1, <2>2, <2>3, HandlerTimes
  <1> QED
    BY <1>1, <1>2, <1>3 DEF calculate_timing

-------------------------------------------------------------------------------
(* Back to the netlist.  Its edges go from the shallower to the deeper of   *)
(* the nodes off the loops, and the shallowest are where no edge ends.      *)
Ordered ==
    /\ LoopFree \subseteq Orig /\ Orig \subseteq Nat /\ Len(netlist.nodes) \in Nat
    /\ Depths \in [LoopFree -> 0..Len(netlist.nodes)]
    /\ IsFiniteSet(Edges)
    /\ \A e \in Edges : e.src \in Orig /\ e.sink \in Orig /\ e.delay \in Nat
    /\ \A e \in Edges : e.sink \in LoopFree => e.src \in LoopFree /\ Depths[e.src] < Depths[e.sink]
    /\ \A n \in Orig : EdgesInto(n) = {} <=> n \in LoopFree /\ Depths[n] = 0

LEMMA DelaysAreNatural ==
    ASSUME netlist \in Netlists
    PROVE  \A e \in Edges : e.delay \in Nat
  <1>1. ASSUME NEW e \in FanoutEdges PROVE e.delay \in Nat
    <2>1. PICK n \in Orig : \E k \in DOMAIN netlist.fanouts[n] : e = Fanout(n, k)
      BY <1>1, FanoutEdgesAre
    <2>2. PICK k \in DOMAIN netlist.fanouts[n] : e = Fanout(n, k)
      BY <2>1
    <2>3. netlist.fanouts[n][k].delay \in Nat
      BY NetlistFacts DEF Orig
    <2> QED
      BY <2>2, <2>3 DEF Fanout
  <1>2. ASSUME NEW e \in BlockEdges PROVE e.delay \in Nat
    BY <1>2 DEF BlockEdges
  <1> QED
    BY <1>1, <1>2 DEF Edges

LEMMA BuiltOrdered ==
    ASSUME BInv, TInv, step = "levelize", stage = "levelized"
    PROVE  Ordered
  <1>1. /\ netlist \in Netlists /\ IInv /\ GraphOK /\ LoadedOK /\ Building /\ LevelsAreTopological
        /\ DepthOK /\ EndOK /\ Listing(NodeIds, EdgeIds, inEdges, sinkOf)
    BY DEF BInv, TInv, IInv, Building, DInv, GraphOK
  <1>2. /\ NodeIds = Orig /\ LoopFree = {n \in NodeIds : Placed(n)} /\ Len(netlist.nodes) \in Nat
        /\ \A m, n : Stored(m, n) <=> \E e \in Edges : e.src = m /\ e.sink = n
        /\ \A n \in NodeIds : \A l \in DOMAIN levels : OnLevel(n, l) => l \in 1..Len(netlist.nodes)
    BY BuiltGraph
  <1>3. /\ \A n \in Orig : \A l \in DOMAIN levels :
              OnLevel(n, l) <=> n \in DOMAIN Depths /\ l = Depths[n] + 1
        /\ \A n \in DOMAIN Depths : nodeLevels[n] = Depths[n]
        /\ DOMAIN Depths = LoopFree
    BY BuiltLevelsAreDepths DEF LevelsAreDepths, Depths
  <1>4. \A e \in EdgeIds : srcOf[e] \in NodeIds /\ sinkOf[e] \in NodeIds
    BY <1>1, GraphFacts
  <1>5. /\ Orig \subseteq Nat
        /\ \A n \in NodeIds : DOMAIN inEdges[n] = 1..Len(inEdges[n]) /\ Len(inEdges[n]) \in Nat
    <2>1. Orig = 1..Len(netlist.nodes)
      BY <1>1, NetlistFacts DEF Orig
    <2> QED
      BY <1>1, <1>2, <2>1, GraphFacts
  <1>6. ASSUME NEW n \in LoopFree
        PROVE  \E l \in DOMAIN levels : /\ OnLevel(n, l) /\ l \in 1..Len(netlist.nodes)
                                        /\ Depths[n] = l - 1
    <2>1. n \in NodeIds /\ Placed(n)
      BY <1>2
    <2>2. PICK l \in DOMAIN levels : OnLevel(n, l)
      BY <2>1 DEF Placed
    <2>3. l \in 1..Len(netlist.nodes) /\ nodeLevels[n] = l - 1
      BY <1>1, <1>2, <2>1, <2>2 DEF DepthOK
    <2> QED
      BY <1>3, <2>2, <2>3
  <1>7. Depths \in [LoopFree -> 0..Len(netlist.nodes)]
    <2>1. Depths = [n \in LoopFree |-> Depths[n]]
      BY DEF Depths
    <2>2. \A n \in LoopFree : Depths[n] \in 0..Len(netlist.nodes)
      BY <1>2, <1>6
    <2> QED
      BY <2>1, <2>2
  <1>8. ASSUME NEW e \in Edges
        PROVE  /\ e.src \in Orig /\ e.sink \in Orig
               /\ \E i \in EdgeIds : srcOf[i] = e.src /\ sinkOf[i] = e.sink
    <2>1. Stored(e.src, e.sink)
      BY <1>2
    <2>2. PICK i \in EdgeIds : srcOf[i] = e.src /\ sinkOf[i] = e.sink
      BY <2>1 DEF Stored
    <2> QED
      BY <1>2, <1>4, <2>2
  <1>9. ASSUME NEW e \in Edges, e.sink \in LoopFree
        PROVE  e.src \in LoopFree /\ Depths[e.src] < Depths[e.sink]
    <2>1. PICK i \in EdgeIds : srcOf[i] = e.src /\ sinkOf[i] = e.sink
      BY <1>8
    <2>2. e.src \in LoopFree
      BY <1>1, <1>2, <1>4, <1>9, <2>1 DEF EndOK
    <2>3. PICK k \in DOMAIN levels : OnLevel(e.sink, k) /\ Depths[e.sink] = k - 1 /\ k \in 1..Len(netlist.nodes)
      BY <1>6, <1>9
    <2>4. PICK l \in DOMAIN levels : OnLevel(e.src, l) /\ Depths[e.src] = l - 1 /\ l \in 1..Len(netlist.nodes)
      BY <1>6, <2>2
    <2>5. l < k
      BY <1>1, <2>1, <2>3, <2>4 DEF LevelsAreTopological
    <2> QED
      BY <1>2, <2>2, <2>3, <2>4, <2>5
  <1>10. ASSUME NEW n \in Orig
         PROVE  EdgesInto(n) = {} <=> n \in LoopFree /\ Depths[n] = 0
    <2>1. EdgesInto(n) = {} <=> \A i \in EdgeIds : sinkOf[i] # n
      <3>1. ASSUME NEW e \in EdgesInto(n) PROVE \E i \in EdgeIds : sinkOf[i] = n
        BY <1>8, <3>1 DEF EdgesInto
      <3>2. ASSUME NEW i \in EdgeIds, sinkOf[i] = n PROVE EdgesInto(n) # {}
        <4>1. Stored(srcOf[i], n)
          BY <3>2 DEF Stored
        <4>2. PICK e \in Edges : e.sink = n
          BY <1>2, <4>1
        <4> QED
          BY <4>2 DEF EdgesInto
      <3> QED
        BY <3>1, <3>2
    <2>2. ASSUME EdgesInto(n) = {} PROVE n \in LoopFree /\ Depths[n] = 0
      <3>1. n \in LoopFree
        BY <1>1, <1>2, <2>1, <2>2 DEF EndOK
      <3>2. PICK l \in DOMAIN levels : OnLevel(n, l) /\ Depths[n] = l - 1
        BY <1>6, <3>1
      <3>3. l = 1
        BY <1>1, <1>2, <2>1, <2>2, <3>2 DEF DepthOK
      <3> QED
        BY <3>1, <3>2, <3>3
    <2>3. ASSUME n \in LoopFree, Depths[n] = 0 PROVE EdgesInto(n) = {}
      <3>1. PICK l \in DOMAIN levels : /\ OnLevel(n, l) /\ l \in 1..Len(netlist.nodes)
                                       /\ Depths[n] = l - 1
        BY <1>6, <2>3
      <3>2. l = 1
        BY <1>2, <2>3, <3>1
      <3>3. inEdges[n] = <<>>
        BY <1>1, <1>2, <3>1, <3>2 DEF DepthOK
      <3>4. DOMAIN inEdges[n] = {}
        BY <3>3
      <3>5. \A i \in EdgeIds : sinkOf[i] # n
        BY <1>1, <3>4 DEF Listing
      <3> QED
        BY <2>1, <3>5
    <2> QED
      BY <2>2, <2>3
  <1>11. IsFiniteSet(Edges)
    <2>1. PICK g : TraceOK(g)
      BY <1>1 DEF TInv
    <2>2. Permutes(g, Edges)
      BY <2>1 DEF TraceOK
    <2>3. Len(g) \in Nat /\ DOMAIN g = 1..Len(g) /\ \A i \in DOMAIN g : g[i] \in Edges
      BY <2>2, LenProperties, ElementOfSeq DEF Permutes
    <2>4. \A e \in Edges : \E i \in DOMAIN g : g[i] = e
      BY <2>2 DEF Permutes
    <2> DEFINE D == DOMAIN g
    <2>5. Edges = {g[i] : i \in D}
      BY <2>3, <2>4
    <2>6. IsFiniteSet(D)
      BY <2>3, FS_Interval
    <2> HIDE DEF D
    <2> QED
      BY <2>5, <2>6, FiniteImage
  <1>12. \A e \in Edges : e.delay \in Nat
    BY <1>1, DelaysAreNatural
  <1> QED
    BY <1>2, <1>5, <1>7, <1>8, <1>9, <1>10, <1>11, <1>12 DEF Ordered

LEMMA OrderedStays ==
    ASSUME Ordered, UNCHANGED netlist
    PROVE  Ordered'
  <1>1. Orig' = Orig /\ Edges' = Edges /\ LoopFree' = LoopFree /\ Depths' = Depths
    BY NetlistStays
  <1>2. \A n : EdgesInto(n)' = EdgesInto(n)
    BY <1>1 DEF EdgesInto
  <1> QED
    BY <1>1, <1>2 DEF Ordered

-------------------------------------------------------------------------------
(* The paths of the netlist.  Sets of paths that flow over some of its      *)
(* edges exist, are what the equation that chooses them says, and finite.   *)
NPath == [domain : Domains, launch : Orig, delay : Nat]

Along(to, base, into) ==
    [n \in LoopFree |-> base[n] \cup UNION {Extended(to[e.src], e) : e \in into[n]}]

EdgesAlong(base, into) ==
    /\ base \in [LoopFree -> FiniteSubsets(NPath)]
    /\ into \in [LoopFree -> SUBSET Edges] /\ \A n \in LoopFree : into[n] \subseteq EdgesInto(n)

LEMMA ExtendedPath ==
    ASSUME NEW e, e.delay \in Nat, NEW p \in NPath
    PROVE  [p EXCEPT !.delay = @ + e.delay] \in NPath
  BY DEF NPath

LEMMA AlongExists ==
    ASSUME Ordered, NEW base, NEW into, EdgesAlong(base, into)
    PROVE  \E to : to = Along(to, base, into)
  <1> DEFINE end == [e \in Edges |-> e.src]
             one(e, p) == [p EXCEPT !.delay = @ + e.delay]
             act == [e \in Edges |-> [p \in NPath |-> one(e, p)]]
             top == Len(netlist.nodes)
  <1>1. /\ Depths \in [LoopFree -> Nat] /\ top \in Nat /\ \A n \in LoopFree : Depths[n] <= top
    BY DEF Ordered
  <1>2. \A n \in LoopFree : \A e \in into[n] :
           e \in Edges /\ e.src \in LoopFree /\ Depths[e.src] < Depths[n]
    <2> TAKE n \in LoopFree
    <2> TAKE e \in into[n]
    <2>1. e \in Edges /\ e.sink = n
      BY DEF EdgesAlong, EdgesInto
    <2> QED
      BY <2>1 DEF Ordered
  <1>3. \A e \in Edges : end[e] = e.src
    OBVIOUS
  <1>4. \A e \in Edges : \A p \in NPath : act[e][p] = one(e, p) /\ one(e, p) \in NPath
    BY ExtendedPath DEF Ordered
  <1>5. act \in [Edges -> [NPath -> NPath]]
    BY <1>4
  <1>6. /\ base \in [LoopFree -> SUBSET NPath] /\ into \in [LoopFree -> SUBSET Edges]
    BY DEF EdgesAlong, FiniteSubsets
  <1> HIDE DEF end, act, top
  <1>7. \A n \in LoopFree : \A e \in into[n] : end[e] \in LoopFree /\ Depths[end[e]] < Depths[n]
    BY <1>2, <1>3
  <1>8. FlowDown(LoopFree, NPath, Edges, base, into, end, act, Depths, top)
    BY <1>1, <1>5, <1>6, <1>7 DEF FlowDown
  <1>9. PICK to \in [LoopFree -> SUBSET NPath] :
           \A n \in LoopFree : to[n] = FlowInto(to, n, base, into, end, act)
    BY <1>8, FlowExists
  <1>10. ASSUME NEW n \in LoopFree
         PROVE  to[n] = base[n] \cup UNION {Extended(to[e.src], e) : e \in into[n]}
    <2>1. ASSUME NEW e \in into[n] PROVE FlowOver(e, to[end[e]], act) = Extended(to[e.src], e)
      <3>1. e \in Edges /\ end[e] = e.src /\ e.src \in LoopFree
        BY <1>2, <1>3, <2>1
      <3>2. to[e.src] \subseteq NPath
        BY <3>1
      <3>3. \A p \in to[e.src] : act[e][p] = one(e, p)
        BY <1>4, <3>1, <3>2
      <3>4. Extended(to[e.src], e) = {one(e, p) : p \in to[e.src]}
        BY DEF Extended
      <3> HIDE DEF one
      <3> QED
        BY <3>1, <3>3, <3>4 DEF FlowOver
    <2>2. {FlowOver(e, to[end[e]], act) : e \in into[n]} = {Extended(to[e.src], e) : e \in into[n]}
      BY <2>1
    <2> QED
      BY <1>9, <2>2 DEF FlowInto
  <1>11. to = Along(to, base, into)
    BY <1>10 DEF Along
  <1> QED
    BY <1>11

LEMMA AlongFinite ==
    ASSUME Ordered, NEW base, NEW into, EdgesAlong(base, into), NEW to,
           to = [n \in LoopFree |-> to[n]],
           \A n \in LoopFree : to[n] = base[n] \cup UNION {Extended(to[e.src], e) : e \in into[n]}
    PROVE  to \in [LoopFree -> FiniteSubsets(NPath)]
  <1> DEFINE end == [e \in Edges |-> e.src]
             over == [e \in Edges |-> Extended(to[e.src], e)]
  <1>1. Depths \in [LoopFree -> Nat]
    BY DEF Ordered
  <1>2. \A n \in LoopFree : \A e \in into[n] : e \in Edges /\ e.src \in LoopFree /\ Depths[e.src] < Depths[n]
    <2> TAKE n \in LoopFree
    <2> TAKE e \in into[n]
    <2>1. e \in Edges /\ e.sink = n
      BY DEF EdgesAlong, EdgesInto
    <2> QED
      BY <2>1 DEF Ordered
  <1>3. \A e \in Edges : end[e] = e.src /\ over[e] = Extended(to[e.src], e)
    OBVIOUS
  <1> HIDE DEF end, over
  <1>4. ASSUME NEW n \in LoopFree
        PROVE  /\ base[n] \in FiniteSubsets(NPath) /\ IsFiniteSet(into[n])
               /\ to[n] = base[n] \cup Flows(over, into[n])
    <2>1. {Extended(to[e.src], e) : e \in into[n]} = {over[e] : e \in into[n]}
      BY <1>2, <1>3
    <2>2. IsFiniteSet(into[n])
      BY FS_Subset DEF EdgesAlong, Ordered
    <2> QED
      BY <2>1, <2>2 DEF EdgesAlong, Flows
  <1>5. ASSUME NEW e \in Edges, to[e.src] \in FiniteSubsets(NPath)
        PROVE  over[e] \in FiniteSubsets(NPath)
    <2> DEFINE one(p) == [p EXCEPT !.delay = @ + e.delay]
               f == [p \in NPath |-> one(p)]
               S == to[e.src]
    <2>1. S \in SUBSET NPath /\ IsFiniteSet(S)
      BY <1>5 DEF FiniteSubsets
    <2>2. \A p \in NPath : f[p] = one(p) /\ f[p] \in NPath
      BY ExtendedPath DEF Ordered
    <2>3. over[e] = {f[p] : p \in S}
      <3>1. over[e] = {one(p) : p \in S}
        BY <1>3 DEF Extended
      <3> HIDE DEF one, f, S
      <3> QED
        BY <2>1, <2>2, <3>1
    <2> HIDE DEF f, S
    <2>4. over[e] \in SUBSET NPath
      BY <2>1, <2>2, <2>3
    <2>5. IsFiniteSet(over[e])
      BY <2>1, <2>3, FiniteImage
    <2> QED
      BY <2>4, <2>5 DEF FiniteSubsets
  <1>6. \A n \in LoopFree : \A e \in into[n] :
           /\ end[e] \in LoopFree /\ Depths[end[e]] < Depths[n]
           /\ to[end[e]] \in FiniteSubsets(NPath) => over[e] \in FiniteSubsets(NPath)
    BY <1>2, <1>3, <1>5
  <1>7. \A n \in LoopFree : to[n] \in FiniteSubsets(NPath)
    <2>1. FiniteFlow(LoopFree, NPath, Depths, to, base, into, end, over)
      BY <1>1, <1>4, <1>6 DEF FiniteFlow
    <2> QED
      BY <2>1, FlowFinite
  <1> QED
    BY <1>7

(* The netlist's clock paths.                                               *)
ClockInto(to, n) ==
    (IF IsClockSource(n) THEN Starts(n) ELSE {})
        \cup UNION {Extended(to[e.src], e) : e \in ClockEdgesInto(n)}

LEMMA StartsFinite ==
    ASSUME netlist \in Netlists, NEW n \in Orig
    PROVE  Starts(n) \in FiniteSubsets(NPath)
  <1> DEFINE f == [d \in Domains |-> [domain |-> d, launch |-> n, delay |-> 0]]
             D == {x \in {netlist.nodes[n].domain} \ {InvalidDomain} : EdgesInto(n) = {}}
  <1>1. netlist.nodes[n].domain \in Domains \cup {InvalidDomain}
    <2>1. netlist.nodes[n] \in NodeData
      BY NetlistFacts DEF Orig
    <2> QED
      BY <2>1 DEF NodeData
  <1>2. D \subseteq Domains
    BY <1>1
  <1>3. IsFiniteSet(D)
    <2>1. IsFiniteSet({netlist.nodes[n].domain}) /\ D \subseteq {netlist.nodes[n].domain}
      BY FS_Singleton
    <2> HIDE DEF D
    <2> QED
      BY <2>1, FS_Subset
  <1>4. \A d \in Domains : f[d] = [domain |-> d, launch |-> n, delay |-> 0] /\ f[d] \in NPath
    BY DEF NPath
  <1>5. Starts(n) = {f[d] : d \in D}
    BY <1>2 DEF Starts
  <1> HIDE DEF f, D
  <1>6. Starts(n) \in SUBSET NPath
    BY <1>2, <1>4, <1>5
  <1>7. IsFiniteSet(Starts(n))
    BY <1>3, <1>5, FiniteImage
  <1> QED
    BY <1>6, <1>7 DEF FiniteSubsets

LEMMA NothingFinite ==
    ASSUME NEW P
    PROVE  {} \in FiniteSubsets(P)
  BY FS_EmptySet DEF FiniteSubsets

LEMMA ClockPathsFlow ==
    ASSUME Ordered, netlist \in Netlists
    PROVE  /\ ClockPaths \in [LoopFree -> FiniteSubsets(NPath)]
           /\ \A n \in LoopFree : ClockPaths[n] = ClockInto(ClockPaths, n)
  <1> DEFINE base == [n \in LoopFree |-> IF IsClockSource(n) THEN Starts(n) ELSE {}]
             into == [n \in LoopFree |-> ClockEdgesInto(n)]
             paths == CHOOSE to : to = [n \in LoopFree |-> ClockInto(to, n)]
  <1>1. EdgesAlong(base, into)
    <2>1. \A n \in LoopFree : base[n] \in FiniteSubsets(NPath)
      BY StartsFinite, NothingFinite DEF Ordered
    <2>2. \A n \in LoopFree : into[n] \subseteq EdgesInto(n) /\ into[n] \subseteq Edges
      BY DEF ClockEdgesInto, EdgesInto
    <2> QED
      BY <2>1, <2>2 DEF EdgesAlong
  <1>2. \A to : \A n \in LoopFree :
           base[n] \cup UNION {Extended(to[e.src], e) : e \in into[n]} = ClockInto(to, n)
    BY DEF ClockInto
  <1>3. \E to : to = [n \in LoopFree |-> ClockInto(to, n)]
    <2> HIDE DEF base, into
    <2>1. PICK to : to = Along(to, base, into)
      BY <1>1, AlongExists
    <2>2. to = [n \in LoopFree |-> ClockInto(to, n)]
      BY <1>2, <2>1 DEF Along
    <2> QED
      BY <2>2
  <1>4. paths = [n \in LoopFree |-> ClockInto(paths, n)]
    BY <1>3
  <1>5. ClockPaths = paths
    BY DEF ClockPaths, ClockInto
  <1> HIDE DEF base, into, paths
  <1>6. /\ paths = [n \in LoopFree |-> paths[n]]
        /\ \A n \in LoopFree : paths[n] = ClockInto(paths, n)
    BY <1>4
  <1>7. paths \in [LoopFree -> FiniteSubsets(NPath)]
    BY <1>1, <1>2, <1>6, AlongFinite
  <1> QED
    BY <1>5, <1>6, <1>7

(* Its data paths.                                                          *)
LaunchedInto(n) ==
    UNION {{[p EXCEPT !.launch = n] : p \in Extended(ClockPaths[e.src], e)} : e \in ClockEdgesInto(n)}
DataInto(to, n) ==
    (IF TypeOf(n) = "INPAD_SOURCE" /\ ~IsClockSource(n) THEN Starts(n) ELSE {})
        \cup (IF TypeOf(n) = "FF_SOURCE" THEN LaunchedInto(n) ELSE {})
        \cup UNION {Extended(to[e.src], e) : e \in EdgesInto(n)}

LEMMA LaunchedFinite ==
    ASSUME Ordered, netlist \in Netlists, NEW n \in LoopFree
    PROVE  LaunchedInto(n) \in FiniteSubsets(NPath)
  <1> DEFINE E == ClockEdgesInto(n)
             over == [e \in E |-> {[p EXCEPT !.launch = n] : p \in Extended(ClockPaths[e.src], e)}]
             flows == {over[e] : e \in E}
  <1>1. /\ IsFiniteSet(E) /\ n \in Orig
        /\ \A e \in E : e.src \in LoopFree /\ e.delay \in Nat
    <2>1. E \subseteq EdgesInto(n) /\ EdgesInto(n) \subseteq Edges
      BY DEF ClockEdgesInto, EdgesInto
    <2>2. IsFiniteSet(E)
      BY <2>1, FS_Subset DEF Ordered
    <2> QED
      BY <2>1, <2>2 DEF Ordered, EdgesInto
  <1>2. ASSUME NEW e \in E PROVE over[e] \in SUBSET NPath /\ IsFiniteSet(over[e])
    <2> DEFINE f == [p \in NPath |-> [[p EXCEPT !.delay = @ + e.delay] EXCEPT !.launch = n]]
               S == ClockPaths[e.src]
    <2>0. \A p \in NPath : [p EXCEPT !.launch = n] \in NPath
      BY <1>1 DEF NPath
    <2>1. S \in SUBSET NPath /\ IsFiniteSet(S)
      BY <1>1, <1>2, ClockPathsFlow DEF FiniteSubsets
    <2>2. \A p \in NPath : f[p] \in NPath
      <3> TAKE p \in NPath
      <3>1. PICK q \in NPath : q = [p EXCEPT !.delay = @ + e.delay]
        BY <1>1, <1>2, ExtendedPath
      <3>2. f[p] = [q EXCEPT !.launch = n]
        BY <3>1
      <3> QED
        BY <2>0, <3>2
    <2>3. over[e] = {f[p] : p \in S}
      BY <2>1 DEF Extended
    <2> HIDE DEF f, S, over
    <2>4. over[e] \in SUBSET NPath
      BY <2>1, <2>2, <2>3
    <2> QED
      BY <2>1, <2>3, <2>4, FiniteImage
  <1>3. LaunchedInto(n) = UNION flows
    BY DEF LaunchedInto
  <1> HIDE DEF over, E
  <1>4. IsFiniteSet(flows)
    BY <1>1, FiniteImage
  <1>5. \A S \in flows : S \in SUBSET NPath /\ IsFiniteSet(S)
    BY <1>2
  <1> HIDE DEF flows
  <1>6. IsFiniteSet(UNION flows) /\ UNION flows \in SUBSET NPath
    BY <1>4, <1>5, FS_UNION
  <1> QED
    BY <1>3, <1>6 DEF FiniteSubsets

LEMMA DataPathsFlow ==
    ASSUME Ordered, netlist \in Netlists
    PROVE  /\ DataPaths \in [LoopFree -> FiniteSubsets(NPath)]
           /\ \A n \in LoopFree : DataPaths[n] = DataInto(DataPaths, n)
  <1> DEFINE base == [n \in LoopFree |->
                        (IF TypeOf(n) = "INPAD_SOURCE" /\ ~IsClockSource(n) THEN Starts(n) ELSE {})
                            \cup (IF TypeOf(n) = "FF_SOURCE" THEN LaunchedInto(n) ELSE {})]
             into == [n \in LoopFree |-> EdgesInto(n)]
             paths == CHOOSE to : to = [n \in LoopFree |-> DataInto(to, n)]
  <1>1. EdgesAlong(base, into)
    <2>1. ASSUME NEW n \in LoopFree PROVE base[n] \in FiniteSubsets(NPath)
      <3> DEFINE own == IF TypeOf(n) = "INPAD_SOURCE" /\ ~IsClockSource(n) THEN Starts(n) ELSE {}
                 launched == IF TypeOf(n) = "FF_SOURCE" THEN LaunchedInto(n) ELSE {}
      <3>1. own \in FiniteSubsets(NPath) /\ launched \in FiniteSubsets(NPath)
        BY StartsFinite, NothingFinite, LaunchedFinite DEF Ordered
      <3>2. base[n] = own \cup launched
        OBVIOUS
      <3> HIDE DEF own, launched, base
      <3>3. IsFiniteSet(own \cup launched) /\ own \cup launched \in SUBSET NPath
        BY <3>1, FS_Union DEF FiniteSubsets
      <3> QED
        BY <3>2, <3>3 DEF FiniteSubsets
    <2>2. \A n \in LoopFree : into[n] \subseteq EdgesInto(n) /\ into[n] \subseteq Edges
      BY DEF EdgesInto
    <2>3. base = [n \in LoopFree |-> base[n]] /\ into = [n \in LoopFree |-> into[n]]
      OBVIOUS
    <2> HIDE DEF base, into
    <2> QED
      BY <2>1, <2>2, <2>3 DEF EdgesAlong
  <1>2. \A to : \A n \in LoopFree :
           base[n] \cup UNION {Extended(to[e.src], e) : e \in into[n]} = DataInto(to, n)
    BY DEF DataInto
  <1>3. \E to : to = [n \in LoopFree |-> DataInto(to, n)]
    <2> HIDE DEF base, into
    <2>1. PICK to : to = Along(to, base, into)
      BY <1>1, AlongExists
    <2>2. to = [n \in LoopFree |-> DataInto(to, n)]
      BY <1>2, <2>1 DEF Along
    <2> QED
      BY <2>2
  <1>4. paths = [n \in LoopFree |-> DataInto(paths, n)]
    BY <1>3
  <1>5. DataPaths = paths
    BY DEF DataPaths, DataInto, LaunchedInto
  <1> HIDE DEF base, into, paths
  <1>6. /\ paths = [n \in LoopFree |-> paths[n]]
        /\ \A n \in LoopFree : paths[n] = DataInto(paths, n)
    BY <1>4
  <1>7. paths \in [LoopFree -> FiniteSubsets(NPath)]
    BY <1>1, <1>2, <1>6, AlongFinite
  <1> QED
    BY <1>5, <1>6, <1>7

(* The times required at the ends of the paths from a node: whole numbers,  *)
(* for the paths to a sink are finitely many.                               *)
LEMMA DelaysFinite ==
    ASSUME NEW S \in FiniteSubsets(NPath), NEW d
    PROVE  DelaysTo(S, d) \in SUBSET Nat /\ IsFiniteSet(DelaysTo(S, d))
           /\ IsFiniteSet({p.delay : p \in S})
  <1> DEFINE f == [p \in NPath |-> p.delay]
             D == {q \in S : q.domain = d}
  <1>1. S \in SUBSET NPath /\ IsFiniteSet(S)
    BY DEF FiniteSubsets
  <1>2. D \subseteq S /\ D \subseteq NPath
    BY <1>1
  <1>3. \A p \in NPath : f[p] = p.delay /\ f[p] \in Nat
    BY DEF NPath
  <1>4. DelaysTo(S, d) = {p.delay : p \in D}
    BY DEF DelaysTo
  <1> HIDE DEF f, D
  <1>5. DelaysTo(S, d) = {f[p] : p \in D} /\ {p.delay : p \in S} = {f[p] : p \in S}
    BY <1>1, <1>2, <1>3, <1>4
  <1>6. IsFiniteSet(D)
    BY <1>1, <1>2, FS_Subset
  <1>7. IsFiniteSet({f[p] : p \in D}) /\ IsFiniteSet({f[p] : p \in S})
    BY <1>1, <1>6, FiniteImage
  <1>8. DelaysTo(S, d) \in SUBSET Nat
    BY <1>2, <1>3, <1>5
  <1> QED
    BY <1>5, <1>7, <1>8

LEMMA RequiredAtSinkIsInt ==
    ASSUME Ordered, netlist \in Netlists, \A pair \in DOMAIN constraints : constraints[pair] \in Int,
           NEW n \in LoopFree, NEW d
    PROVE  RequiredAtSink(n, d, DataPaths, ClockPaths) \in SUBSET Int
  <1> DEFINE data == DataPaths[n]
             clock == ClockPaths[n]
             latest == Max({0} \cup {p.delay : p \in data})
  <1>1. data \in FiniteSubsets(NPath) /\ clock \in FiniteSubsets(NPath)
    BY ClockPathsFlow, DataPathsFlow
  <1>2. latest \in Int
    <2> DEFINE T == {p.delay : p \in data}
               S == {0} \cup T
    <2>1. IsFiniteSet(T) /\ T \in SUBSET Nat
      <3>1. \A p \in data : p.delay \in Nat
        BY <1>1 DEF FiniteSubsets, NPath
      <3> QED
        BY <1>1, <3>1, DelaysFinite
    <2> HIDE DEF T
    <2>2. IsFiniteSet(S)
      BY <2>1, FS_Singleton, FS_Union
    <2>3. S \in SUBSET Nat /\ S # {}
      BY <2>1
    <2> HIDE DEF S
    <2>4. Max(S) \in S
      BY <2>2, <2>3, GreatestMember
    <2> QED
      BY <2>3, <2>4 DEF S, T
  <1>3. ASSUME NEW c, DelaysTo(clock, c) # {} PROVE Max(DelaysTo(clock, c)) \in Int
    <2> DEFINE S == DelaysTo(clock, c)
    <2>1. S \in SUBSET Nat /\ IsFiniteSet(S) /\ S # {}
      BY <1>1, <1>3, DelaysFinite
    <2> HIDE DEF S
    <2>2. Max(S) \in S
      BY <2>1, GreatestMember
    <2> QED
      BY <2>1, <2>2 DEF S
  <1> HIDE DEF latest
  <1>4. CASE TypeOf(n) = "OUTPAD_SINK"
    <2>1. RequiredAtSink(n, d, DataPaths, ClockPaths) =
             {IF constraints[pair] < 0 THEN latest ELSE constraints[pair] :
                pair \in {<<d, netlist.nodes[n].domain>>} \cap DOMAIN constraints}
      BY <1>4 DEF RequiredAtSink, latest
    <2> QED
      BY <1>2, <2>1
  <1>5. CASE TypeOf(n) = "FF_SINK"
    <2> DEFINE at(c) == Max(DelaysTo(clock, c)) + constraints[<<d, c>>]
               C == {c \in Domains : DelaysTo(clock, c) # {} /\ <<d, c>> \in DOMAIN constraints}
    <2>1. RequiredAtSink(n, d, DataPaths, ClockPaths) = UNION {{at(c)} : c \in C}
      BY <1>5 DEF RequiredAtSink
    <2>2. \A c \in C : at(c) \in Int
      BY <1>3
    <2> HIDE DEF at, C
    <2> QED
      BY <2>1, <2>2
  <1>6. CASE TypeOf(n) \notin {"OUTPAD_SINK", "FF_SINK"}
    BY <1>6 DEF RequiredAtSink
  <1> QED
    BY <1>4, <1>5, <1>6

RequiredHere(d, from, n) ==
    IF DelaysTo(DataPaths[n], d) = {} THEN {}
    ELSE RequiredAtSink(n, d, DataPaths, ClockPaths) \cup
         (IF TypeOf(n) = "FF_CLOCK" THEN {}
          ELSE UNION {{r - e.delay : r \in from[e.sink]} :
                        e \in {x \in EdgesFrom(n) : x.sink \in LoopFree}})

LEMMA RequiredFlow ==
    ASSUME Ordered, netlist \in Netlists, \A pair \in DOMAIN constraints : constraints[pair] \in Int,
           NEW d
    PROVE  /\ RequiredFrom(d) \in [LoopFree -> SUBSET Int]
           /\ \A n \in LoopFree : RequiredFrom(d)[n] = RequiredHere(d, RequiredFrom(d), n)
  <1> DEFINE top == Len(netlist.nodes)
             reached(n) == DelaysTo(DataPaths[n], d) # {}
             base == [n \in LoopFree |-> IF reached(n) THEN RequiredAtSink(n, d, DataPaths, ClockPaths) ELSE {}]
             into == [n \in LoopFree |-> IF reached(n) /\ TypeOf(n) # "FF_CLOCK"
                                         THEN {x \in EdgesFrom(n) : x.sink \in LoopFree} ELSE {}]
             end == [e \in Edges |-> e.sink]
             act == [e \in Edges |-> [r \in Int |-> r - e.delay]]
             rank == [n \in LoopFree |-> top - Depths[n]]
             before(S, e) == {r - e.delay : r \in S}
             required == CHOOSE from : from = [n \in LoopFree |-> RequiredHere(d, from, n)]
  <1>1. /\ rank \in [LoopFree -> Nat] /\ top \in Nat
        /\ \A n \in LoopFree : rank[n] = top - Depths[n] /\ rank[n] <= top /\ Depths[n] \in Nat
    BY DEF Ordered
  <1>2. /\ base \in [LoopFree -> SUBSET Int]
        /\ \A n \in LoopFree : base[n] = IF reached(n) THEN RequiredAtSink(n, d, DataPaths, ClockPaths) ELSE {}
    <2>1. \A n \in LoopFree : base[n] \in SUBSET Int
      BY RequiredAtSinkIsInt
    <2> QED
      BY <2>1
  <1>3. /\ into \in [LoopFree -> SUBSET Edges]
        /\ \A n \in LoopFree : into[n] = IF reached(n) /\ TypeOf(n) # "FF_CLOCK"
                                         THEN {x \in EdgesFrom(n) : x.sink \in LoopFree} ELSE {}
    BY DEF EdgesFrom
  <1>4. /\ \A e \in Edges : end[e] = e.sink
        /\ \A e \in Edges : \A r \in Int : act[e][r] = r - e.delay /\ act[e][r] \in Int
        /\ act \in [Edges -> [Int -> Int]]
    BY DEF Ordered
  <1> HIDE DEF top, base, into, end, act, rank
  <1>5. ASSUME NEW n \in LoopFree, NEW e \in into[n]
        PROVE  e \in Edges /\ e.sink \in LoopFree /\ end[e] = e.sink /\ rank[end[e]] < rank[n]
    <2>1. e \in Edges /\ e.src = n /\ e.sink \in LoopFree
      BY <1>3, <1>5 DEF EdgesFrom
    <2>2. Depths[n] < Depths[e.sink]
      BY <2>1 DEF Ordered
    <2>3. rank[n] = top - Depths[n] /\ rank[e.sink] = top - Depths[e.sink]
          /\ Depths[n] \in Nat /\ Depths[e.sink] \in Nat
      BY <1>1, <2>1
    <2> QED
      BY <1>1, <1>4, <2>1, <2>2, <2>3
  <1>6. ASSUME NEW from, NEW n \in LoopFree, \A m \in LoopFree : from[m] \in SUBSET Int
        PROVE  FlowInto(from, n, base, into, end, act) = RequiredHere(d, from, n)
    <2>1. ASSUME NEW e \in into[n] PROVE FlowOver(e, from[end[e]], act) = before(from[e.sink], e)
      <3>1. e \in Edges /\ end[e] = e.sink /\ from[e.sink] \in SUBSET Int
        BY <1>5, <1>6, <2>1
      <3> QED
        BY <1>4, <3>1 DEF FlowOver
    <2>2. {FlowOver(e, from[end[e]], act) : e \in into[n]} = {before(from[e.sink], e) : e \in into[n]}
      <3> HIDE DEF before
      <3> QED
        BY <2>1
    <2>3. FlowInto(from, n, base, into, end, act) = base[n] \cup UNION {before(from[e.sink], e) : e \in into[n]}
      <3> HIDE DEF before
      <3> QED
        BY <2>2 DEF FlowInto
    <2>4. RequiredHere(d, from, n) =
             IF ~reached(n) THEN {}
             ELSE RequiredAtSink(n, d, DataPaths, ClockPaths) \cup
                  (IF TypeOf(n) = "FF_CLOCK" THEN {}
                   ELSE UNION {before(from[e.sink], e) : e \in {x \in EdgesFrom(n) : x.sink \in LoopFree}})
      BY DEF RequiredHere
    <2> HIDE DEF before, reached
    <2>5. CASE ~reached(n)
      BY <1>2, <1>3, <2>3, <2>4, <2>5
    <2>6. CASE reached(n) /\ TypeOf(n) = "FF_CLOCK"
      BY <1>2, <1>3, <2>3, <2>4, <2>6
    <2>7. CASE reached(n) /\ TypeOf(n) # "FF_CLOCK"
      BY <1>2, <1>3, <2>3, <2>4, <2>7
    <2> QED
      BY <2>5, <2>6, <2>7
  <1>7. \E from : from = [n \in LoopFree |-> RequiredHere(d, from, n)]
    <2>1. FlowDown(LoopFree, Int, Edges, base, into, end, act, rank, top)
      BY <1>1, <1>2, <1>3, <1>4, <1>5 DEF FlowDown
    <2>2. PICK from \in [LoopFree -> SUBSET Int] :
             \A n \in LoopFree : from[n] = FlowInto(from, n, base, into, end, act)
      BY <2>1, FlowExists
    <2>3. \A n \in LoopFree : from[n] = RequiredHere(d, from, n)
      BY <1>6, <2>2
    <2>4. from = [n \in LoopFree |-> RequiredHere(d, from, n)]
      BY <2>3
    <2> QED
      BY <2>4
  <1>8. required = [n \in LoopFree |-> RequiredHere(d, required, n)]
    BY <1>7
  <1>9. RequiredFrom(d) = required
    BY DEF RequiredFrom, RequiredHere
  <1> HIDE DEF required
  <1>10. /\ required = [n \in LoopFree |-> required[n]]
         /\ \A n \in LoopFree : required[n] = RequiredHere(d, required, n)
    BY <1>8
  <1> DEFINE Good == {n \in LoopFree : required[n] \in SUBSET Int}
  <1>11. ASSUME NEW n \in LoopFree, \A m \in LoopFree : rank[m] < rank[n] => m \in Good
         PROVE  n \in Good
    <2>1. RequiredAtSink(n, d, DataPaths, ClockPaths) \in SUBSET Int
      BY RequiredAtSinkIsInt
    <2>2. ASSUME TypeOf(n) # "FF_CLOCK", reached(n), NEW e \in EdgesFrom(n), e.sink \in LoopFree
          PROVE  before(required[e.sink], e) \in SUBSET Int
      <3>1. e \in into[n]
        BY <1>3, <2>2
      <3>2. e \in Edges /\ e.sink \in Good
        BY <1>5, <1>11, <3>1
      <3>3. e.delay \in Nat /\ required[e.sink] \in SUBSET Int
        BY <3>2 DEF Ordered
      <3> QED
        BY <3>3
    <2>3. required[n] = RequiredHere(d, required, n)
      BY <1>10
    <2>4. RequiredHere(d, required, n) =
             IF ~reached(n) THEN {}
             ELSE RequiredAtSink(n, d, DataPaths, ClockPaths) \cup
                  (IF TypeOf(n) = "FF_CLOCK" THEN {}
                   ELSE UNION {before(required[e.sink], e) : e \in {x \in EdgesFrom(n) : x.sink \in LoopFree}})
      BY DEF RequiredHere
    <2> HIDE DEF before, reached
    <2> QED
      BY <2>1, <2>2, <2>3, <2>4
  <1>12. LoopFree \subseteq Good
    <2> HIDE DEF Good
    <2> QED
      BY <1>1, <1>11, RankInduction
  <1> QED
    BY <1>9, <1>10, <1>12

-------------------------------------------------------------------------------
(* The paths of the netlist under the numbers of the graph that is walked.  *)
Moved(paths) == {[p EXCEPT !.launch = NewId(@)] : p \in paths}

Matches ==
    /\ Orig \subseteq Nat /\ Domains \subseteq Nat
    /\ \A n \in Orig : NewId(n) \in NodeIds /\ NewId(n) \in Nat /\ nodes[NewId(n)] = netlist.nodes[n]
    /\ \A m, n \in Orig : NewId(m) = NewId(n) => m = n
    /\ \A m \in NodeIds : \E n \in Orig : NewId(n) = m
    /\ \A n \in Orig : Placed(NewId(n)) <=> n \in LoopFree
    /\ \A n \in Orig : inEdges[NewId(n)] = <<>> <=> EdgesInto(n) = {}

(* The edge e of the graph is the edge x of the netlist.                    *)
Is(e, x) == srcOf[e] = NewId(x.src) /\ sinkOf[e] = NewId(x.sink) /\ delays[e] = x.delay

EdgesMatch ==
    \A n \in Orig : LET into == inEdges[NewId(n)]
                        from == outEdges[NewId(n)] IN
        /\ \A i \in 1..Len(into) : \E x \in EdgesInto(n) : Is(into[i], x)
        /\ \A x \in EdgesInto(n) : \E i \in 1..Len(into) : Is(into[i], x)
        /\ \A i \in 1..Len(from) : \E x \in EdgesFrom(n) : Is(from[i], x)
        /\ \A x \in EdgesFrom(n) : \E i \in 1..Len(from) : Is(from[i], x)

(* The graph that is analysed.                                              *)
LEMMA AnalyzedGraph ==
    ASSUME PInv, RInv, Ordered, step = "analyze"
    PROVE  Matches /\ EdgesMatch
  <1>1. netlist \in Netlists /\ IInv /\ GraphOK /\ ~Building
    BY DEF PInv, BInv, IInv, Building
  <1>2. PICK g : Renamed(Settled, g)
    BY <1>1 DEF RInv
  <1>3. \A n \in Orig : Settled[n] = NewId(n)
    BY DEF Settled
  <1>4. /\ \A n \in Orig : NewId(n) \in NodeIds /\ nodes[NewId(n)] = netlist.nodes[n]
        /\ \A m, n \in Orig : NewId(m) = NewId(n) => m = n
        /\ \A m \in NodeIds : \E n \in Orig : NewId(n) = m
    BY <1>2, <1>3 DEF Renamed, NodesRenamed
  <1>5. \A n \in Orig : Placed(NewId(n)) <=> n \in LoopFree
    <2>1. /\ \A n \in LoopFree : Depths[n] + 1 \in DOMAIN levels
          /\ \A n \in Orig : \A l \in DOMAIN levels :
                OnLevel(NewId(n), l) <=> n \in LoopFree /\ l = Depths[n] + 1
      BY <1>2, <1>3 DEF Renamed, LevelsRenamed
    <2> QED
      BY <2>1 DEF Placed
  <1>6. /\ Permutes(g, Edges) /\ DOMAIN g = EdgeIds
        /\ \A e \in EdgeIds : /\ g[e].src \in Orig /\ g[e].sink \in Orig
                              /\ srcOf[e] = NewId(g[e].src) /\ sinkOf[e] = NewId(g[e].sink)
                              /\ delays[e] = g[e].delay
    BY <1>2, <1>3 DEF Renamed, EdgesRenamed
  <1>7. /\ \A e \in EdgeIds : g[e] \in Edges /\ Is(e, g[e])
        /\ \A x \in Edges : \E e \in EdgeIds : g[e] = x
    <2>1. \A e \in EdgeIds : g[e] \in Edges
      BY <1>6, LenProperties, ElementOfSeq DEF Permutes
    <2>2. \A x \in Edges : \E e \in EdgeIds : g[e] = x
      BY <1>6 DEF Permutes
    <2> QED
      BY <1>6, <2>1, <2>2 DEF Is
  <1>8. /\ Listing(NodeIds, EdgeIds, inEdges, sinkOf) /\ Listing(NodeIds, EdgeIds, outEdges, srcOf)
        /\ NodeIds = 1..Len(nodes) /\ Len(nodes) \in Nat
        /\ \A m \in NodeIds : /\ DOMAIN inEdges[m] = 1..Len(inEdges[m]) /\ Len(inEdges[m]) \in Nat
                              /\ DOMAIN outEdges[m] = 1..Len(outEdges[m])
    BY <1>1, GraphFacts DEF GraphOK
  <1>9. ASSUME NEW n \in Orig
        PROVE  /\ \A i \in 1..Len(inEdges[NewId(n)]) : \E x \in EdgesInto(n) : Is(inEdges[NewId(n)][i], x)
               /\ \A x \in EdgesInto(n) : \E i \in 1..Len(inEdges[NewId(n)]) : Is(inEdges[NewId(n)][i], x)
    <2> DEFINE m == NewId(n)
               list == inEdges[m]
    <2>1. m \in NodeIds /\ DOMAIN list = 1..Len(list)
      BY <1>4, <1>8
    <2>2. ASSUME NEW i \in 1..Len(list) PROVE \E x \in EdgesInto(n) : Is(list[i], x)
      <3>1. list[i] \in EdgeIds /\ sinkOf[list[i]] = m
        BY <1>8, <2>1 DEF Listing
      <3>2. g[list[i]] \in Edges /\ g[list[i]].sink = n /\ Is(list[i], g[list[i]])
        BY <1>4, <1>6, <1>7, <3>1
      <3> QED
        BY <3>2 DEF EdgesInto
    <2>3. ASSUME NEW x \in EdgesInto(n) PROVE \E i \in 1..Len(list) : Is(list[i], x)
      <3>1. x \in Edges /\ x.sink = n
        BY DEF EdgesInto
      <3>2. PICK e \in EdgeIds : g[e] = x
        BY <1>7, <3>1
      <3>3. sinkOf[e] = m /\ Is(e, x)
        BY <1>6, <1>7, <3>1, <3>2
      <3>4. PICK i \in DOMAIN inEdges[sinkOf[e]] : inEdges[sinkOf[e]][i] = e
        BY <1>8 DEF Listing
      <3>5. i \in 1..Len(list) /\ list[i] = e
        BY <2>1, <3>3, <3>4
      <3> QED
        BY <3>3, <3>5
    <2> QED
      BY <2>2, <2>3
  <1>10. ASSUME NEW n \in Orig
         PROVE  /\ \A i \in 1..Len(outEdges[NewId(n)]) : \E x \in EdgesFrom(n) : Is(outEdges[NewId(n)][i], x)
                /\ \A x \in EdgesFrom(n) : \E i \in 1..Len(outEdges[NewId(n)]) : Is(outEdges[NewId(n)][i], x)
    <2> DEFINE m == NewId(n)
               list == outEdges[m]
    <2>1. m \in NodeIds /\ DOMAIN list = 1..Len(list)
      BY <1>4, <1>8
    <2>2. ASSUME NEW i \in 1..Len(list) PROVE \E x \in EdgesFrom(n) : Is(list[i], x)
      <3>1. list[i] \in EdgeIds /\ srcOf[list[i]] = m
        BY <1>8, <2>1 DEF Listing
      <3>2. g[list[i]] \in Edges /\ g[list[i]].src = n /\ Is(list[i], g[list[i]])
        BY <1>4, <1>6, <1>7, <3>1
      <3> QED
        BY <3>2 DEF EdgesFrom
    <2>3. ASSUME NEW x \in EdgesFrom(n) PROVE \E i \in 1..Len(list) : Is(list[i], x)
      <3>1. x \in Edges /\ x.src = n
        BY DEF EdgesFrom
      <3>2. PICK e \in EdgeIds : g[e] = x
        BY <1>7, <3>1
      <3>3. srcOf[e] = m /\ Is(e, x)
        BY <1>6, <1>7, <3>1, <3>2
      <3>4. PICK i \in DOMAIN outEdges[srcOf[e]] : outEdges[srcOf[e]][i] = e
        BY <1>8 DEF Listing
      <3>5. i \in 1..Len(list) /\ list[i] = e
        BY <2>1, <3>3, <3>4
      <3> QED
        BY <3>3, <3>5
    <2> QED
      BY <2>2, <2>3
  <1>11. ASSUME NEW n \in Orig PROVE inEdges[NewId(n)] = <<>> <=> EdgesInto(n) = {}
    <2> DEFINE list == inEdges[NewId(n)]
               len == Len(list)
    <2>1. len \in Nat /\ DOMAIN list = 1..len /\ list \in Seq(Nat)
      <3>1. NewId(n) \in NodeIds
        BY <1>4
      <3>2. inEdges \in Seq(Seq(Nat)) /\ DOMAIN inEdges = NodeIds
        BY <1>1, <1>8, LenProperties DEF GraphOK
      <3> QED
        BY <1>8, <3>1, <3>2, ElementOfSeq
    <2>2. list = <<>> <=> DOMAIN list = {}
      BY <2>1, NoPositions
    <2>3. EdgesInto(n) = {} <=> 1..len = {}
      BY <1>9
    <2> HIDE DEF list, len
    <2>4. list = <<>> <=> EdgesInto(n) = {}
      BY <2>1, <2>2, <2>3
    <2> QED
      BY <2>4 DEF list
  <1>12. Matches
    <2>1. Domains \subseteq Nat /\ Orig \subseteq Nat /\ NodeIds \subseteq Nat
      BY <1>8, DomainsAssumption DEF Ordered
    <2> QED
      BY <1>4, <1>5, <1>11, <2>1 DEF Matches
  <1> QED
    BY <1>9, <1>10, <1>12 DEF EdgesMatch

(* So the walk finds what it needs.                                         *)
LEMMA AnalyzedWalkable ==
    ASSUME PInv, RInv, Ordered, step = "analyze", \A pair \in DOMAIN constraints : constraints[pair] \in Int
    PROVE  WalkableGraph
  <1>1. /\ netlist \in Netlists /\ IInv /\ GraphOK /\ ~Building /\ stage = "levelized"
        /\ LevelsAreTopological /\ levels \in Seq(Seq(NodeIds)) /\ 1 \in DOMAIN levels
    BY DEF PInv, BInv, IInv, Building
  <1>2. Matches
    BY AnalyzedGraph
  <1>3. PICK g : Renamed(Settled, g)
    BY <1>1 DEF RInv
  <1>4. /\ Listing(NodeIds, EdgeIds, inEdges, sinkOf) /\ Listing(NodeIds, EdgeIds, outEdges, srcOf)
        /\ NodeIds = 1..Len(nodes) /\ Len(nodes) \in Nat /\ nodes \in Seq(NodeData)
        /\ \A m \in NodeIds : /\ DOMAIN inEdges[m] = 1..Len(inEdges[m]) /\ Len(inEdges[m]) \in Nat
                              /\ DOMAIN outEdges[m] = 1..Len(outEdges[m]) /\ Len(outEdges[m]) \in Nat
        /\ \A e \in EdgeIds : srcOf[e] \in NodeIds /\ sinkOf[e] \in NodeIds
    BY <1>1, GraphFacts DEF GraphOK
  <1>5. NodeIds \subseteq Nat /\ \A m \in NodeIds : nodes[m] \in NodeData
    BY <1>4, LenProperties, ElementOfSeq
  <1>6. \A e \in EdgeIds : /\ g[e] \in Edges /\ delays[e] = g[e].delay
                           /\ srcOf[e] = NewId(g[e].src) /\ sinkOf[e] = NewId(g[e].sink)
                           /\ g[e].src \in Orig /\ g[e].sink \in Orig
    <2>1. Permutes(g, Edges) /\ DOMAIN g = EdgeIds
      BY <1>3 DEF Renamed, EdgesRenamed
    <2>2. \A e \in EdgeIds : g[e] \in Edges
      BY <2>1, LenProperties, ElementOfSeq DEF Permutes
    <2> QED
      BY <1>3, <2>2 DEF Renamed, EdgesRenamed, Settled
  <1>7. \A e \in EdgeIds : delays[e] \in Nat
    BY <1>6 DEF Ordered
  <1>8. ASSUME NEW e \in EdgeIds, Placed(sinkOf[e]) PROVE Placed(srcOf[e])
    <2>1. g[e].sink \in LoopFree
      BY <1>2, <1>6, <1>8 DEF Matches
    <2>2. g[e].src \in LoopFree
      BY <1>6, <2>1 DEF Ordered
    <2> QED
      BY <1>2, <1>6, <2>2 DEF Matches
  <1>9. ASSUME NEW m \in NodeIds PROVE OnLevel(m, 1) <=> inEdges[m] = <<>>
    <2>1. PICK n \in Orig : NewId(n) = m
      BY <1>2 DEF Matches
    <2>2. OnLevel(m, 1) <=> n \in LoopFree /\ 1 = Depths[n] + 1
      BY <1>1, <1>3, <2>1 DEF Renamed, LevelsRenamed, Settled
    <2>3. n \in LoopFree => Depths[n] \in Nat
      BY DEF Ordered
    <2>4. OnLevel(m, 1) <=> n \in LoopFree /\ Depths[n] = 0
      BY <2>2, <2>3
    <2>5. EdgesInto(n) = {} <=> n \in LoopFree /\ Depths[n] = 0
      BY DEF Ordered
    <2> QED
      BY <1>2, <2>1, <2>4, <2>5 DEF Matches
  <1>10. \A m \in NodeIds : \A i \in DOMAIN inEdges[m] : inEdges[m][i] \in EdgeIds /\ sinkOf[inEdges[m][i]] = m
    BY <1>4 DEF Listing
  <1>11. \A m \in NodeIds : \A i \in DOMAIN outEdges[m] : outEdges[m][i] \in EdgeIds /\ srcOf[outEdges[m][i]] = m
    BY <1>4 DEF Listing
  <1>12. /\ \A e \in EdgeIds : \A l, k \in DOMAIN levels : OnLevel(srcOf[e], l) /\ OnLevel(sinkOf[e], k) => l < k
         /\ \A m \in NodeIds : \A l, k \in DOMAIN levels : OnLevel(m, l) /\ OnLevel(m, k) => l = k
    BY <1>1 DEF LevelsAreTopological, OnLevel
  <1> QED
    BY <1>1, <1>4, <1>5, <1>7, <1>8, <1>9, <1>10, <1>11, <1>12 DEF WalkableGraph

(* What renumbering the launch nodes does to a set of paths.                *)
LEMMA MovedPath ==
    ASSUME Matches, NEW p \in NPath
    PROVE  LET q == [p EXCEPT !.launch = NewId(@)]
           IN q \in Path /\ q.domain = p.domain /\ q.delay = p.delay /\ q.launch = NewId(p.launch)
  <1>1. p.launch \in Orig /\ p.domain \in Nat /\ p.delay \in Nat
    BY DEF NPath, Matches
  <1>2. NewId(p.launch) \in Nat
    BY <1>1 DEF Matches
  <1> QED
    BY <1>1, <1>2 DEF NPath, Path

LEMMA MovedPaths ==
    ASSUME Matches, NEW S \in SUBSET NPath
    PROVE  /\ Moved(S) \in SUBSET Path /\ DomainsOf(Moved(S)) \subseteq Domains
           /\ DomainsOf(Moved(S)) = {p.domain : p \in S}
           /\ {p.delay : p \in Moved(S)} = {p.delay : p \in S}
           /\ \A d : DelaysTo(Moved(S), d) = DelaysTo(S, d)
           /\ \A d : d \in DomainsOf(Moved(S)) <=> DelaysTo(S, d) # {}
  <1> DEFINE mv(p) == [p EXCEPT !.launch = NewId(@)]
  <1>1. \A p \in S : mv(p) \in Path /\ mv(p).domain = p.domain /\ mv(p).delay = p.delay
    BY MovedPath
  <1>2. Moved(S) = {mv(p) : p \in S}
    BY DEF Moved
  <1> HIDE DEF mv
  <1>3. /\ \A q \in Moved(S) : \E p \in S : q = mv(p)
        /\ \A p \in S : mv(p) \in Moved(S)
    BY <1>2
  <1>4. Moved(S) \in SUBSET Path
    BY <1>1, <1>2
  <1>5. DomainsOf(Moved(S)) = {p.domain : p \in S}
    BY <1>1, <1>3 DEF DomainsOf
  <1>6. {p.delay : p \in Moved(S)} = {p.delay : p \in S}
    BY <1>1, <1>3
  <1>7. ASSUME NEW d PROVE DelaysTo(Moved(S), d) = DelaysTo(S, d)
    <2>1. ASSUME NEW q \in Moved(S), q.domain = d PROVE \E p \in S : p.domain = d /\ p.delay = q.delay
      BY <1>1, <1>3, <2>1
    <2>2. ASSUME NEW p \in S, p.domain = d PROVE \E q \in Moved(S) : q.domain = d /\ p.delay = q.delay
      BY <1>1, <1>3, <2>2
    <2> QED
      BY <2>1, <2>2 DEF DelaysTo
  <1>8. \A d : d \in DomainsOf(Moved(S)) <=> DelaysTo(S, d) # {}
    BY <1>5 DEF DelaysTo
  <1>9. \A p \in S : p.domain \in Domains
    BY DEF NPath
  <1> QED
    BY <1>4, <1>5, <1>6, <1>7, <1>8, <1>9

LEMMA MovedUnion ==
    ASSUME NEW A, NEW B
    PROVE  Moved(A \cup B) = Moved(A) \cup Moved(B) /\ Moved({}) = {}
  BY DEF Moved

(* One edge further, and launched anew.                                     *)
LEMMA MovedOver ==
    ASSUME Matches, NEW S \in SUBSET NPath, NEW x, x.delay \in Nat, NEW n \in Orig
    PROVE  /\ Shifted(Moved(S), x.delay) = Moved(Extended(S, x))
           /\ Shifted({[p EXCEPT !.launch = NewId(n)] : p \in Moved(S)}, x.delay) =
                 Moved({[p EXCEPT !.launch = n] : p \in Extended(S, x)})
  <1> DEFINE mv(p) == [p EXCEPT !.launch = NewId(@)]
             over(p) == [p EXCEPT !.delay = @ + x.delay]
             there(p) == [p EXCEPT !.launch = NewId(n)]
             here(p) == [p EXCEPT !.launch = n]
  <1>1. ASSUME NEW p \in S
        PROVE  over(mv(p)) = mv(over(p)) /\ over(there(mv(p))) = mv(here(over(p)))
    BY DEF NPath
  <1>2. /\ Moved(S) = {mv(p) : p \in S} /\ Extended(S, x) = {over(p) : p \in S}
        /\ Shifted(Moved(S), x.delay) = {over(p) : p \in Moved(S)}
        /\ Moved(Extended(S, x)) = {mv(p) : p \in Extended(S, x)}
    BY DEF Moved, Extended, Shifted
  <1>3. /\ Shifted({[p EXCEPT !.launch = NewId(n)] : p \in Moved(S)}, x.delay) =
              {over(p) : p \in {there(q) : q \in Moved(S)}}
        /\ Moved({[p EXCEPT !.launch = n] : p \in Extended(S, x)}) =
              {mv(p) : p \in {here(q) : q \in Extended(S, x)}}
    BY DEF Moved, Shifted
  <1> HIDE DEF mv, over, there, here
  <1>4. /\ {over(p) : p \in Moved(S)} = {over(mv(p)) : p \in S}
        /\ {mv(p) : p \in Extended(S, x)} = {mv(over(p)) : p \in S}
    BY <1>2
  <1>5. /\ {over(p) : p \in {there(q) : q \in Moved(S)}} = {over(there(mv(p))) : p \in S}
        /\ {mv(p) : p \in {here(q) : q \in Extended(S, x)}} = {mv(here(over(p))) : p \in S}
    BY <1>2
  <1>6. /\ {over(mv(p)) : p \in S} = {mv(over(p)) : p \in S}
        /\ {over(there(mv(p))) : p \in S} = {mv(here(over(p))) : p \in S}
    BY <1>1
  <1>7. Shifted(Moved(S), x.delay) = Moved(Extended(S, x))
    <2>1. Shifted(Moved(S), x.delay) = {over(p) : p \in Moved(S)}
      BY <1>2
    <2>2. Moved(Extended(S, x)) = {mv(p) : p \in Extended(S, x)}
      BY <1>2
    <2> QED
      BY <1>4, <1>6, <2>1, <2>2, Zenon
  <1>8. Shifted({[p EXCEPT !.launch = NewId(n)] : p \in Moved(S)}, x.delay) =
           Moved({[p EXCEPT !.launch = n] : p \in Extended(S, x)})
    BY <1>3, <1>5, <1>6, Zenon
  <1> QED
    BY <1>7, <1>8, Zenon

(* Sets that match one by one have matching unions.                         *)
LEMMA MovedMatch ==
    ASSUME NEW I, NEW X, NEW f, NEW h,
           \A i \in I : \E x \in X : f[i] = Moved(h[x]),
           \A x \in X : \E i \in I : f[i] = Moved(h[x])
    PROVE  Flows(f, I) = Moved(Flows(h, X))
  <1>1. ASSUME NEW q \in UNION {f[i] : i \in I} PROVE q \in Moved(UNION {h[x] : x \in X})
    <2>1. PICK i \in I : q \in f[i]
      BY <1>1
    <2>2. PICK x \in X : f[i] = Moved(h[x])
      OBVIOUS
    <2>3. h[x] \subseteq UNION {h[y] : y \in X}
      OBVIOUS
    <2> QED
      BY <2>1, <2>2, <2>3 DEF Moved
  <1>2. ASSUME NEW q \in Moved(UNION {h[x] : x \in X}) PROVE q \in UNION {f[i] : i \in I}
    <2>1. PICK x \in X : q \in Moved(h[x])
      BY <1>2 DEF Moved
    <2>2. PICK i \in I : f[i] = Moved(h[x])
      OBVIOUS
    <2> QED
      BY <2>1, <2>2
  <1> QED
    BY <1>1, <1>2 DEF Flows

(* The solution of the walk's equations that the netlist's paths are.       *)
Renders(clk, dat, rq) ==
    /\ \A n \in LoopFree : clk[NewId(n)] = Moved(ClockPaths[n]) /\ dat[NewId(n)] = Moved(DataPaths[n])
    /\ \A d \in Domains : \A n \in Orig :
          rq[d][NewId(n)] = IF n \in LoopFree THEN RequiredFrom(d)[n] ELSE {}

LEMMA RenderingExists ==
    ASSUME Matches, LoopFree \subseteq Orig
    PROVE  \E clk, dat, rq : Renders(clk, dat, rq)
  <1> DEFINE back(m) == CHOOSE n \in Orig : NewId(n) = m
             clk == [m \in NodeIds |-> Moved(ClockPaths[back(m)])]
             dat == [m \in NodeIds |-> Moved(DataPaths[back(m)])]
             rq == [d \in Domains |-> [m \in NodeIds |-> IF back(m) \in LoopFree
                                                         THEN RequiredFrom(d)[back(m)] ELSE {}]]
  <1>1. \A n \in Orig : NewId(n) \in NodeIds /\ back(NewId(n)) = n
    BY DEF Matches
  <1> HIDE DEF back
  <1>2. Renders(clk, dat, rq)
    BY <1>1 DEF Renders
  <1> QED
    BY <1>2

LEMMA StartsMoved ==
    ASSUME Matches, netlist \in Netlists, NEW n \in Orig
    PROVE  Moved(Starts(n)) = IF inEdges[NewId(n)] = <<>> THEN Own(NewId(n)) ELSE {}
  <1> DEFINE m == NewId(n)
             one(d) == [domain |-> d, launch |-> n, delay |-> 0]
             other(d) == [domain |-> d, launch |-> m, delay |-> 0]
             D == {netlist.nodes[n].domain} \ {InvalidDomain}
  <1>1. nodes[m] = netlist.nodes[n] /\ (inEdges[m] = <<>> <=> EdgesInto(n) = {})
    BY DEF Matches
  <1>2. Own(m) = {other(d) : d \in D}
    BY <1>1 DEF Own
  <1>3. \A d : [one(d) EXCEPT !.launch = NewId(@)] = other(d)
    OBVIOUS
  <1>4. CASE EdgesInto(n) = {}
    <2>1. Starts(n) = {one(d) : d \in D}
      BY <1>4 DEF Starts
    <2>2. Moved(Starts(n)) = {[one(d) EXCEPT !.launch = NewId(@)] : d \in D}
      <3> HIDE DEF one
      <3> QED
        BY <2>1 DEF Moved
    <2> HIDE DEF one, other, D, m
    <2> QED
      BY <1>1, <1>2, <1>3, <1>4, <2>2 DEF m
  <1>5. CASE EdgesInto(n) # {}
    <2>1. Starts(n) = {}
      BY <1>5 DEF Starts
    <2> QED
      BY <1>1, <1>5, <2>1 DEF Moved
  <1> QED
    BY <1>4, <1>5

LEMMA ClockMoved ==
    ASSUME Matches, EdgesMatch, Ordered, netlist \in Netlists,
           NEW clk, NEW dat, NEW rq, Renders(clk, dat, rq), NEW n \in LoopFree
    PROVE  clk[NewId(n)] = ClockOwn(NewId(n)) \cup ClockUpTo(clk, NewId(n), Len(inEdges[NewId(n)]))
  <1> DEFINE m == NewId(n)
             list == inEdges[m]
             k == Len(list)
             f == [i \in 1..k |-> Shifted(ClockOver(clk, list[i]), delays[list[i]])]
             X == EdgesInto(n)
             h == [x \in X |-> IF TypeOf(x.src) = "FF_SOURCE" THEN {} ELSE Extended(ClockPaths[x.src], x)]
  <1>1. n \in Orig /\ nodes[m] = netlist.nodes[n]
    BY DEF Ordered, Matches
  <1>2. ASSUME NEW x \in X PROVE x.src \in LoopFree /\ x.src \in Orig /\ x.delay \in Nat
    BY <1>2 DEF EdgesInto, Ordered
  <1>3. ASSUME NEW i \in 1..k, NEW x \in X, Is(list[i], x) PROVE f[i] = Moved(h[x])
    <2>1. srcOf[list[i]] = NewId(x.src) /\ delays[list[i]] = x.delay
      BY <1>3 DEF Is
    <2>2. x.src \in LoopFree /\ x.src \in Orig /\ x.delay \in Nat
      BY <1>2
    <2>3. nodes[NewId(x.src)].type = TypeOf(x.src)
      BY <2>2 DEF Matches, TypeOf
    <2>4. CASE TypeOf(x.src) = "FF_SOURCE"
      <3>1. ClockOver(clk, list[i]) = {} /\ h[x] = {}
        BY <2>1, <2>3, <2>4 DEF ClockOver
      <3> QED
        BY <3>1 DEF Shifted, Moved
    <2>5. CASE TypeOf(x.src) # "FF_SOURCE"
      <3>1. ClockOver(clk, list[i]) = Moved(ClockPaths[x.src])
        BY <2>1, <2>2, <2>3, <2>5 DEF ClockOver, Renders
      <3>2. ClockPaths[x.src] \in SUBSET NPath
        BY <2>2, ClockPathsFlow DEF FiniteSubsets
      <3>3. Shifted(Moved(ClockPaths[x.src]), x.delay) = Moved(Extended(ClockPaths[x.src], x))
        BY <1>1, <2>2, <3>2, MovedOver
      <3> QED
        BY <2>1, <2>5, <3>1, <3>3
    <2> QED
      BY <2>4, <2>5
  <1>4. /\ \A i \in 1..k : \E x \in X : Is(list[i], x)
        /\ \A x \in X : \E i \in 1..k : Is(list[i], x)
    BY <1>1 DEF EdgesMatch
  <1>5. ClockUpTo(clk, m, k) = UNION {f[i] : i \in 1..k}
    BY DEF ClockUpTo
  <1>6. UNION {h[x] : x \in X} = UNION {Extended(ClockPaths[x.src], x) : x \in ClockEdgesInto(n)}
    BY DEF ClockEdgesInto
  <1> HIDE DEF f, h, X, k, list
  <1>7. ClockUpTo(clk, m, k) = Moved(UNION {h[x] : x \in X})
    <2> DEFINE I == 1..k
    <2>1. \A i \in I : \E x \in X : f[i] = Moved(h[x])
      BY <1>3, <1>4
    <2>2. \A x \in X : \E i \in I : f[i] = Moved(h[x])
      BY <1>3, <1>4
    <2>3. ClockUpTo(clk, m, k) = Flows(f, I)
      BY <1>5 DEF Flows
    <2> HIDE DEF I
    <2>4. Flows(f, I) = Moved(Flows(h, X))
      BY <2>1, <2>2, MovedMatch
    <2> QED
      BY <2>3, <2>4 DEF Flows
  <1>8. Moved(IF IsClockSource(n) THEN Starts(n) ELSE {}) = ClockOwn(m)
    <2>1. IsClockSource(n) <=> DefinesClock(m)
      BY <1>1 DEF IsClockSource, DefinesClock, TypeOf
    <2>2. Moved(Starts(n)) = IF inEdges[m] = <<>> THEN Own(m) ELSE {}
      BY <1>1, StartsMoved
    <2> QED
      BY <2>1, <2>2, MovedUnion DEF ClockOwn
  <1>9. ClockPaths[n] = (IF IsClockSource(n) THEN Starts(n) ELSE {})
                           \cup UNION {Extended(ClockPaths[x.src], x) : x \in ClockEdgesInto(n)}
    BY ClockPathsFlow DEF ClockInto
  <1>10. clk[m] = Moved(ClockPaths[n])
    BY DEF Renders
  <1> QED
    BY <1>6, <1>7, <1>8, <1>9, <1>10, MovedUnion DEF k, list

LEMMA DataMoved ==
    ASSUME Matches, EdgesMatch, Ordered, netlist \in Netlists,
           NEW clk, NEW dat, NEW rq, Renders(clk, dat, rq), NEW n \in LoopFree
    PROVE  dat[NewId(n)] = DataOwn(NewId(n)) \cup DataUpTo(clk, dat, NewId(n), Len(inEdges[NewId(n)]))
  <1> DEFINE m == NewId(n)
             list == inEdges[m]
             k == Len(list)
             f == [i \in 1..k |-> Shifted(LaunchedOver(clk, m, list[i]) \cup dat[srcOf[list[i]]], delays[list[i]])]
             X == EdgesInto(n)
             anew(x) == {[p EXCEPT !.launch = n] : p \in Extended(ClockPaths[x.src], x)}
             launched(x) == IF TypeOf(n) = "FF_SOURCE" /\ TypeOf(x.src) # "FF_SOURCE" THEN anew(x) ELSE {}
             h == [x \in X |-> launched(x) \cup Extended(DataPaths[x.src], x)]
             own == IF TypeOf(n) = "INPAD_SOURCE" /\ ~IsClockSource(n) THEN Starts(n) ELSE {}
  <1>1. n \in Orig /\ nodes[m] = netlist.nodes[n]
    BY DEF Ordered, Matches
  <1>2. ASSUME NEW x \in X PROVE x.src \in LoopFree /\ x.src \in Orig /\ x.delay \in Nat
    BY <1>2 DEF EdgesInto, Ordered
  <1>3. ASSUME NEW i \in 1..k, NEW x \in X, Is(list[i], x) PROVE f[i] = Moved(h[x])
    <2>1. srcOf[list[i]] = NewId(x.src) /\ delays[list[i]] = x.delay
      BY <1>3 DEF Is
    <2>2. x.src \in LoopFree /\ x.src \in Orig /\ x.delay \in Nat
      BY <1>2
    <2>3. nodes[NewId(x.src)].type = TypeOf(x.src) /\ nodes[m].type = TypeOf(n)
      BY <1>1, <2>2 DEF Matches, TypeOf
    <2>4. ClockPaths[x.src] \in SUBSET NPath /\ DataPaths[x.src] \in SUBSET NPath
      BY <2>2, ClockPathsFlow, DataPathsFlow DEF FiniteSubsets
    <2>5. Shifted(LaunchedOver(clk, m, list[i]), x.delay) = Moved(launched(x))
      <3>1. CASE TypeOf(n) = "FF_SOURCE" /\ TypeOf(x.src) # "FF_SOURCE"
        <4>1. LaunchedOver(clk, m, list[i]) = {[p EXCEPT !.launch = NewId(n)] : p \in Moved(ClockPaths[x.src])}
          BY <2>1, <2>2, <2>3, <3>1 DEF LaunchedOver, ClockOver, Renders
        <4>2. launched(x) = anew(x)
          BY <3>1
        <4>3. Shifted({[p EXCEPT !.launch = NewId(n)] : p \in Moved(ClockPaths[x.src])}, x.delay) = Moved(anew(x))
          BY <1>1, <2>2, <2>4, MovedOver
        <4> HIDE DEF launched, anew
        <4> QED
          BY <4>1, <4>2, <4>3
      <3>2. CASE ~(TypeOf(n) = "FF_SOURCE" /\ TypeOf(x.src) # "FF_SOURCE")
        <4>1. LaunchedOver(clk, m, list[i]) = {} /\ launched(x) = {}
          BY <2>1, <2>3, <3>2 DEF LaunchedOver, ClockOver
        <4> QED
          BY <4>1 DEF Shifted, Moved
      <3> QED
        BY <3>1, <3>2
    <2>6. Shifted(dat[srcOf[list[i]]], x.delay) = Moved(Extended(DataPaths[x.src], x))
      <3>1. dat[srcOf[list[i]]] = Moved(DataPaths[x.src])
        BY <2>1, <2>2 DEF Renders
      <3> QED
        BY <1>1, <2>2, <2>4, <3>1, MovedOver
    <2>7. f[i] = Shifted(LaunchedOver(clk, m, list[i]), x.delay) \cup Shifted(dat[srcOf[list[i]]], x.delay)
      BY <2>1 DEF Shifted
    <2>8. h[x] = launched(x) \cup Extended(DataPaths[x.src], x)
      OBVIOUS
    <2> HIDE DEF f, h, launched
    <2> QED
      BY <2>5, <2>6, <2>7, <2>8, MovedUnion
  <1>4. /\ \A i \in 1..k : \E x \in X : Is(list[i], x)
        /\ \A x \in X : \E i \in 1..k : Is(list[i], x)
    BY <1>1 DEF EdgesMatch
  <1>5. DataUpTo(clk, dat, m, k) = UNION {f[i] : i \in 1..k}
    BY DEF DataUpTo
  <1>6. UNION {h[x] : x \in X} = (IF TypeOf(n) = "FF_SOURCE" THEN LaunchedInto(n) ELSE {})
                                    \cup UNION {Extended(DataPaths[x.src], x) : x \in EdgesInto(n)}
    <2>1. LaunchedInto(n) = UNION {anew(x) : x \in ClockEdgesInto(n)}
      BY DEF LaunchedInto
    <2>2. \A x : x \in ClockEdgesInto(n) <=> x \in X /\ TypeOf(x.src) # "FF_SOURCE"
      BY DEF ClockEdgesInto
    <2> DEFINE ext(x) == Extended(DataPaths[x.src], x)
    <2>3. \A x \in X : h[x] = launched(x) \cup ext(x)
      OBVIOUS
    <2>4. \A x \in X : launched(x) = IF TypeOf(n) = "FF_SOURCE" /\ x \in ClockEdgesInto(n) THEN anew(x) ELSE {}
      BY <2>2
    <2> HIDE DEF h, launched, anew, ext
    <2>5. UNION {h[x] : x \in X} = (UNION {launched(x) : x \in X}) \cup UNION {ext(x) : x \in X}
      BY <2>3
    <2>6. UNION {launched(x) : x \in X} = IF TypeOf(n) = "FF_SOURCE" THEN LaunchedInto(n) ELSE {}
      BY <2>1, <2>2, <2>4
    <2> QED
      BY <2>5, <2>6 DEF ext, X
  <1> HIDE DEF f, h, X, k, list, own
  <1>7. DataUpTo(clk, dat, m, k) = Moved(UNION {h[x] : x \in X})
    <2> DEFINE I == 1..k
    <2>1. \A i \in I : \E x \in X : f[i] = Moved(h[x])
      BY <1>3, <1>4
    <2>2. \A x \in X : \E i \in I : f[i] = Moved(h[x])
      BY <1>3, <1>4
    <2>3. DataUpTo(clk, dat, m, k) = Flows(f, I)
      BY <1>5 DEF Flows
    <2> HIDE DEF I
    <2>4. Flows(f, I) = Moved(Flows(h, X))
      BY <2>1, <2>2, MovedMatch
    <2> QED
      BY <2>3, <2>4 DEF Flows
  <1>8. Moved(own) = DataOwn(m)
    <2>1. TypeOf(n) = "INPAD_SOURCE" /\ ~IsClockSource(n) <=>
             nodes[m].type = "INPAD_SOURCE" /\ ~nodes[m].clockSource
      BY <1>1 DEF IsClockSource, TypeOf
    <2>2. Moved(Starts(n)) = IF inEdges[m] = <<>> THEN Own(m) ELSE {}
      BY <1>1, StartsMoved
    <2> QED
      BY <2>1, <2>2, MovedUnion DEF DataOwn, own
  <1>9. DataPaths[n] = own \cup UNION {h[x] : x \in X}
    <2>1. DataPaths[n] = own \cup (IF TypeOf(n) = "FF_SOURCE" THEN LaunchedInto(n) ELSE {})
                            \cup UNION {Extended(DataPaths[x.src], x) : x \in EdgesInto(n)}
      BY DataPathsFlow DEF DataInto, own
    <2> DEFINE A == IF TypeOf(n) = "FF_SOURCE" THEN LaunchedInto(n) ELSE {}
               B == UNION {Extended(DataPaths[x.src], x) : x \in EdgesInto(n)}
    <2>2. DataPaths[n] = (own \cup A) \cup B /\ UNION {h[x] : x \in X} = A \cup B
      BY <1>6, <2>1
    <2> HIDE DEF A, B
    <2> QED
      BY <2>2
  <1>10. dat[m] = Moved(DataPaths[n])
    BY DEF Renders
  <1> QED
    BY <1>7, <1>8, <1>9, <1>10, MovedUnion DEF k, list

(* The times required at a sink.                                            *)
LEMMA AtSinkMoved ==
    ASSUME Matches, Ordered, netlist \in Netlists,
           NEW clk, NEW dat, NEW rq, Renders(clk, dat, rq), NEW n \in LoopFree, NEW d
    PROVE  AtSink(clk, dat, NewId(n), d) = RequiredAtSink(n, d, DataPaths, ClockPaths)
  <1> DEFINE m == NewId(n)
  <1>1. n \in Orig /\ nodes[m] = netlist.nodes[n] /\ nodes[m].type = TypeOf(n)
    BY DEF Ordered, Matches, TypeOf
  <1>2. ClockPaths[n] \in SUBSET NPath /\ DataPaths[n] \in SUBSET NPath
    BY ClockPathsFlow, DataPathsFlow DEF FiniteSubsets
  <1>3. clk[m] = Moved(ClockPaths[n]) /\ dat[m] = Moved(DataPaths[n])
    BY DEF Renders
  <1>4. {p.delay : p \in dat[m]} = {p.delay : p \in DataPaths[n]}
    BY <1>2, <1>3, MovedPaths
  <1>5. \A c : DelaysTo(clk[m], c) = DelaysTo(ClockPaths[n], c)
    BY <1>2, <1>3, MovedPaths
  <1>6. CASE TypeOf(n) = "OUTPAD_SINK"
    <2> DEFINE latest == Max({0} \cup {p.delay : p \in DataPaths[n]})
    <2>1. Max({0} \cup {p.delay : p \in dat[m]}) = latest
      BY <1>4
    <2>2. AtSink(clk, dat, m, d) =
             {IF constraints[pair] < 0 THEN Max({0} \cup {p.delay : p \in dat[m]})
              ELSE constraints[pair] : pair \in {<<d, nodes[m].domain>>} \cap DOMAIN constraints}
      BY <1>1, <1>6 DEF AtSink
    <2>3. RequiredAtSink(n, d, DataPaths, ClockPaths) =
             {IF constraints[pair] < 0 THEN latest
              ELSE constraints[pair] : pair \in {<<d, netlist.nodes[n].domain>>} \cap DOMAIN constraints}
      BY <1>6 DEF RequiredAtSink
    <2> HIDE DEF latest
    <2> QED
      BY <1>1, <2>1, <2>2, <2>3
  <1>7. CASE TypeOf(n) = "FF_SINK"
    <2> DEFINE at(S, c) == Max(DelaysTo(S, c)) + constraints[<<d, c>>]
               C(S) == {c \in Domains : DelaysTo(S, c) # {} /\ <<d, c>> \in DOMAIN constraints}
    <2>1. AtSink(clk, dat, m, d) = UNION {{at(clk[m], c)} : c \in C(clk[m])}
      BY <1>1, <1>7 DEF AtSink
    <2>2. RequiredAtSink(n, d, DataPaths, ClockPaths) = UNION {{at(ClockPaths[n], c)} : c \in C(ClockPaths[n])}
      BY <1>7 DEF RequiredAtSink
    <2>3. \A c : at(clk[m], c) = at(ClockPaths[n], c)
      BY <1>5
    <2>4. C(clk[m]) = C(ClockPaths[n])
      BY <1>5
    <2> HIDE DEF at, C
    <2> QED
      BY <2>1, <2>2, <2>3, <2>4
  <1>8. CASE TypeOf(n) \notin {"OUTPAD_SINK", "FF_SINK"}
    BY <1>1, <1>8 DEF AtSink, RequiredAtSink
  <1> QED
    BY <1>6, <1>7, <1>8

LEMMA RequiredMoved ==
    ASSUME Matches, EdgesMatch, Ordered, netlist \in Netlists,
           NEW clk, NEW dat, NEW rq, Renders(clk, dat, rq), NEW n \in Orig, NEW d \in Domains
    PROVE  RequiredUpTo(rq, NewId(n), d, Len(outEdges[NewId(n)])) =
              UNION {{r - x.delay : r \in RequiredFrom(d)[x.sink]} : x \in {y \in EdgesFrom(n) : y.sink \in LoopFree}}
  <1> DEFINE m == NewId(n)
             list == outEdges[m]
             k == Len(list)
             X == EdgesFrom(n)
             before(x) == Earlier(RequiredFrom(d)[x.sink], x.delay)
             at(i) == Earlier(rq[d][sinkOf[list[i]]], delays[list[i]])
  <1>1. ASSUME NEW i \in 1..k, NEW x \in X, Is(list[i], x)
        PROVE  at(i) = IF x.sink \in LoopFree THEN before(x) ELSE {}
    <2>1. sinkOf[list[i]] = NewId(x.sink) /\ delays[list[i]] = x.delay
      BY <1>1 DEF Is
    <2>2. x.sink \in Orig
      BY DEF EdgesFrom, Ordered
    <2>3. rq[d][sinkOf[list[i]]] = IF x.sink \in LoopFree THEN RequiredFrom(d)[x.sink] ELSE {}
      BY <2>1, <2>2 DEF Renders
    <2> QED
      BY <2>1, <2>3 DEF Earlier
  <1>2. /\ \A i \in 1..k : \E x \in X : Is(list[i], x)
        /\ \A x \in X : \E i \in 1..k : Is(list[i], x)
    BY DEF EdgesMatch
  <1>3. RequiredUpTo(rq, m, d, k) = UNION {at(i) : i \in 1..k}
    BY DEF RequiredUpTo
  <1>4. UNION {{r - x.delay : r \in RequiredFrom(d)[x.sink]} : x \in {y \in X : y.sink \in LoopFree}} =
           UNION {before(x) : x \in {y \in X : y.sink \in LoopFree}}
    BY DEF Earlier
  <1> HIDE DEF at, before, X, k, list
  <1>5. UNION {at(i) : i \in 1..k} = UNION {before(x) : x \in {y \in X : y.sink \in LoopFree}}
    <2>1. ASSUME NEW i \in 1..k, NEW r \in at(i)
          PROVE  \E x \in {y \in X : y.sink \in LoopFree} : r \in before(x)
      <3>1. PICK x \in X : Is(list[i], x)
        BY <1>2
      <3>2. at(i) = IF x.sink \in LoopFree THEN before(x) ELSE {}
        BY <1>1, <3>1
      <3> QED
        BY <2>1, <3>1, <3>2
    <2>2. ASSUME NEW x \in X, x.sink \in LoopFree, NEW r \in before(x)
          PROVE  \E i \in 1..k : r \in at(i)
      <3>1. PICK i \in 1..k : Is(list[i], x)
        BY <1>2
      <3>2. at(i) = before(x)
        BY <1>1, <2>2, <3>1
      <3> QED
        BY <2>2, <3>2
    <2> QED
      BY <2>1, <2>2
  <1> QED
    BY <1>3, <1>4, <1>5 DEF X, k, list

LEMMA RendersSolves ==
    ASSUME Matches, EdgesMatch, Ordered, netlist \in Netlists,
           \A pair \in DOMAIN constraints : constraints[pair] \in Int,
           NEW clk, NEW dat, NEW rq, Renders(clk, dat, rq)
    PROVE  Solves(clk, dat, rq)
  <1>1. ASSUME NEW n \in LoopFree
        PROVE  /\ clk[NewId(n)] \in SUBSET Path /\ DomainsOf(clk[NewId(n)]) \subseteq Domains
               /\ dat[NewId(n)] \in SUBSET Path /\ DomainsOf(dat[NewId(n)]) \subseteq Domains
               /\ \A d : d \in DomainsOf(dat[NewId(n)]) <=> DelaysTo(DataPaths[n], d) # {}
    <2>1. ClockPaths[n] \in SUBSET NPath /\ DataPaths[n] \in SUBSET NPath
      BY ClockPathsFlow, DataPathsFlow DEF FiniteSubsets
    <2>2. clk[NewId(n)] = Moved(ClockPaths[n]) /\ dat[NewId(n)] = Moved(DataPaths[n])
      BY DEF Renders
    <2> QED
      BY <2>1, <2>2, MovedPaths
  <1>2. ASSUME NEW n \in LoopFree, NEW d \in Domains
        PROVE  /\ rq[d][NewId(n)] = RequiredHere(d, RequiredFrom(d), n)
               /\ rq[d][NewId(n)] \in SUBSET Int
    <2>1. n \in Orig
      BY DEF Ordered
    <2>2. rq[d][NewId(n)] = RequiredFrom(d)[n]
      BY <2>1 DEF Renders
    <2> QED
      BY <2>2, RequiredFlow
  <1>3. ASSUME NEW n \in LoopFree, NEW d \in Domains, d \in DomainsOf(dat[NewId(n)])
        PROVE  rq[d][NewId(n)] = AtSink(clk, dat, NewId(n), d) \cup
                  (IF nodes[NewId(n)].type = "FF_CLOCK" THEN {}
                   ELSE RequiredUpTo(rq, NewId(n), d, Len(outEdges[NewId(n)])))
    <2>1. n \in Orig /\ nodes[NewId(n)].type = TypeOf(n)
      BY DEF Ordered, Matches, TypeOf
    <2>2. DelaysTo(DataPaths[n], d) # {}
      BY <1>1, <1>3
    <2>3. rq[d][NewId(n)] = RequiredAtSink(n, d, DataPaths, ClockPaths) \cup
             (IF TypeOf(n) = "FF_CLOCK" THEN {}
              ELSE UNION {{r - x.delay : r \in RequiredFrom(d)[x.sink]} :
                            x \in {y \in EdgesFrom(n) : y.sink \in LoopFree}})
      BY <1>2, <2>2 DEF RequiredHere
    <2> QED
      BY <2>1, <2>3, AtSinkMoved, RequiredMoved
  <1>4. ASSUME NEW m \in NodeIds, NEW d \in Domains, ~(Placed(m) /\ d \in DomainsOf(dat[m]))
        PROVE  rq[d][m] = {}
    <2>1. PICK n \in Orig : NewId(n) = m
      BY DEF Matches
    <2>2. CASE n \notin LoopFree
      BY <2>1, <2>2 DEF Renders
    <2>3. CASE n \in LoopFree
      <3>1. DelaysTo(DataPaths[n], d) = {}
        BY <1>1, <1>4, <2>1, <2>3 DEF Matches
      <3> QED
        BY <1>2, <2>1, <2>3, <3>1 DEF RequiredHere
    <2> QED
      BY <2>2, <2>3
  <1>5. ASSUME NEW m \in NodeIds, Placed(m)
        PROVE  /\ clk[m] \in SUBSET Path /\ DomainsOf(clk[m]) \subseteq Domains
               /\ dat[m] \in SUBSET Path /\ DomainsOf(dat[m]) \subseteq Domains
               /\ clk[m] = ClockOwn(m) \cup ClockUpTo(clk, m, Len(inEdges[m]))
               /\ dat[m] = DataOwn(m) \cup DataUpTo(clk, dat, m, Len(inEdges[m]))
               /\ \A d \in DomainsOf(dat[m]) :
                     /\ rq[d][m] \in SUBSET Int
                     /\ rq[d][m] = AtSink(clk, dat, m, d) \cup
                           (IF nodes[m].type = "FF_CLOCK" THEN {}
                            ELSE RequiredUpTo(rq, m, d, Len(outEdges[m])))
    <2>1. PICK n \in Orig : NewId(n) = m
      BY DEF Matches
    <2>2. n \in LoopFree
      BY <1>5, <2>1 DEF Matches
    <2>3. /\ clk[m] = ClockOwn(m) \cup ClockUpTo(clk, m, Len(inEdges[m]))
          /\ dat[m] = DataOwn(m) \cup DataUpTo(clk, dat, m, Len(inEdges[m]))
      BY <2>1, <2>2, ClockMoved, DataMoved
    <2> QED
      BY <1>1, <1>2, <1>3, <2>1, <2>2, <2>3
  <1> QED
    BY <1>4, <1>5 DEF Solves

-------------------------------------------------------------------------------
(* The times in the whole program: what is read from the netlist stays, and *)
(* every analysis is one walk of the graph that was built from it.          *)
TimesInv ==
    /\ \A pair \in DOMAIN constraints : constraints[pair] \in Int
    /\ delays \in Seq(Nat)
    /\ ~Building => Ordered
    /\ phase # "idle" => \A clk, dat, rq : Solves(clk, dat, rq) => TimesOK(clk, dat, rq)

LEMMA TimesStart == Init => TimesInv
  <1> SUFFICES ASSUME Init PROVE TimesInv
    OBVIOUS
  <1>1. /\ netlist \in Netlists /\ constraints = netlist.constraints /\ step = "load" /\ phase = "idle"
        /\ delays = <<>>
    BY DEF Init, TraversalInit
  <1>2. \A pair \in DOMAIN constraints : constraints[pair] \in Int
    BY <1>1, NetlistsAssumption
  <1> QED
    BY <1>1, <1>2 DEF TimesInv, Building

LEMMA SolvesStays ==
    ASSUME GraphFixed, NEW clk, NEW dat, NEW rq
    PROVE  Solves(clk, dat, rq)' <=> Solves(clk, dat, rq)
  <1>1. NodeIds' = NodeIds /\ \A m : Placed(m)' <=> Placed(m)
    BY EquationsStay
  <1>2. \A e : ClockOver(clk, e)' = ClockOver(clk, e)
    BY DEF ClockOver, GraphFixed
  <1>3. \A m, e : LaunchedOver(clk, m, e)' = LaunchedOver(clk, m, e)
    BY <1>2 DEF LaunchedOver, GraphFixed
  <1>4. \A m, k : ClockUpTo(clk, m, k)' = ClockUpTo(clk, m, k)
    BY <1>2 DEF ClockUpTo, GraphFixed
  <1>5. \A m, k : DataUpTo(clk, dat, m, k)' = DataUpTo(clk, dat, m, k)
    BY <1>3 DEF DataUpTo, GraphFixed
  <1>6. \A m, d : AtSink(clk, dat, m, d)' = AtSink(clk, dat, m, d)
    BY DEF AtSink, GraphFixed
  <1>7. \A m, d, k : RequiredUpTo(rq, m, d, k)' = RequiredUpTo(rq, m, d, k)
    BY DEF RequiredUpTo, GraphFixed
  <1>8. \A m : Own(m)' = Own(m) /\ (DefinesClock(m)' <=> DefinesClock(m))
    BY DEF Own, DefinesClock, GraphFixed
  <1>9. \A m : ClockOwn(m)' = ClockOwn(m) /\ DataOwn(m)' = DataOwn(m)
    BY <1>8 DEF ClockOwn, DataOwn, GraphFixed
  <1>10. UNCHANGED <<nodes, inEdges, outEdges>>
    BY DEF GraphFixed
  <1> QED
    BY <1>1, <1>4, <1>5, <1>6, <1>7, <1>9, <1>10 DEF Solves

(* Nothing happens.                                                         *)
LEMMA TimesStay ==
    ASSUME UNCHANGED vars, NEW clk, NEW dat, NEW rq, TimesOK(clk, dat, rq)
    PROVE  TimesOK(clk, dat, rq)'
  <1>1. /\ UNCHANGED <<nodes, inEdges, outEdges, srcOf, sinkOf, levels>>
        /\ UNCHANGED <<delays, constraints, dataTags, clockTags, phase, lev, progress, finished>>
    BY DEF vars, graphVars, graphData, levelData, traversalVars, tagVars, walkVars
  <1>2. GraphFixed
    BY <1>1 DEF GraphFixed
  <1>3. /\ NodeIds' = NodeIds /\ \A m : Placed(m)' <=> Placed(m)
        /\ \A m, l : OnLevel(m, l)' <=> OnLevel(m, l)
        /\ \A m : Cause(clk, m)' <=> Cause(clk, m)
    BY <1>2, EquationsStay
  <1>4. \A m, l : At(clk, dat, rq, m, l) => At(clk, dat, rq, m, l)'
    BY <1>1, <1>2, OthersStay
  <1>5. \A m : Empty(m)' <=> Empty(m)
    BY <1>1 DEF Empty
  <1> QED
    BY <1>1, <1>3, <1>4, <1>5 DEF TimesOK

(* A step of an analysis.                                                   *)
LEMMA TimesAnalyze ==
    ASSUME PInv, RInv, TimesInv, Analyze
    PROVE  /\ GraphFixed /\ UNCHANGED <<netlist, step>>
           /\ \A clk, dat, rq : Solves(clk, dat, rq)' => TimesOK(clk, dat, rq)'
  <1>1. /\ step = "analyze" /\ ~Building /\ netlist \in Netlists /\ Ordered
        /\ StartAnalysis \/ calculate_timing
        /\ UNCHANGED <<netlist, step>>
    BY DEF PInv, BInv, TimesInv, Analyze, Building, input
  <1>2. WalkableGraph
    BY <1>1, AnalyzedWalkable DEF TimesInv
  <1>3. ASSUME NEW clk, NEW dat, NEW rq, Solves(clk, dat, rq)
        PROVE  GraphFixed /\ TimesOK(clk, dat, rq)'
    <2>1. phase # "idle" => /\ TimesOK(clk, dat, rq) /\ lev \in DOMAIN levels
                            /\ DOMAIN dataTags = NodeIds /\ DOMAIN clockTags = NodeIds
      BY <1>3 DEF PInv, TimesInv
    <2> QED
      BY <1>1, <1>2, <1>3, <2>1, AnalysisTimes
  <1>4. GraphFixed
    <2>1. Matches /\ EdgesMatch
      BY <1>1, AnalyzedGraph
    <2>2. PICK clk, dat, rq : Renders(clk, dat, rq)
      BY <1>1, <2>1, RenderingExists DEF Ordered
    <2>3. Solves(clk, dat, rq)
      BY <1>1, <2>1, <2>2, RendersSolves DEF TimesInv
    <2> QED
      BY <1>3, <2>3
  <1>5. \A clk, dat, rq : Solves(clk, dat, rq)' => TimesOK(clk, dat, rq)'
    <2> SUFFICES ASSUME NEW clk, NEW dat, NEW rq, Solves(clk, dat, rq)'
                 PROVE  TimesOK(clk, dat, rq)'
      OBVIOUS
    <2>1. Solves(clk, dat, rq)
      BY <1>4, SolvesStays
    <2> QED
      BY <1>3, <2>1
  <1> QED
    BY <1>1, <1>4, <1>5

(* The edge delays are moved along with their edges.                        *)
LEMMA DelaysKept ==
    ASSUME RInv', BInv', delays \in Seq(Nat), OptimizeEdges
    PROVE  delays' \in Seq(Nat)
  <1> DEFINE n == Len(delays)
  <1>1. n \in Nat /\ DOMAIN delays = 1..n
    BY LenProperties
  <1>2. delays' = [e \in 1..n |-> delays'[e]] /\ DOMAIN delays' = 1..n
    BY <1>1 DEF OptimizeEdges
  <1>3. ~Building' /\ netlist' \in Netlists
    BY DEF OptimizeEdges, Building, BInv
  <1>4. PICK g : Renamed(Settled, g)'
    BY <1>3 DEF RInv
  <1>5. Permutes(g, Edges') /\ DOMAIN g = DOMAIN delays' /\ \A e \in DOMAIN delays' : delays'[e] = g[e].delay
    BY <1>4 DEF Renamed, EdgesRenamed
  <1>6. \A e \in DOMAIN delays' : g[e] \in Edges'
    BY <1>5, LenProperties, ElementOfSeq DEF Permutes
  <1>7. \A x \in Edges' : x.delay \in Nat
    <2>1. UNCHANGED netlist
      BY DEF OptimizeEdges, input
    <2>2. netlist \in Netlists
      BY <1>3, <2>1
    <2>3. \A x \in Edges : x.delay \in Nat
      BY <2>2, DelaysAreNatural
    <2> QED
      BY <2>1, <2>3, NetlistStays
  <1>8. \A e \in 1..n : delays'[e] \in Nat
    BY <1>2, <1>5, <1>6, <1>7
  <1> HIDE DEF n
  <1> QED
    BY <1>1, <1>2, <1>8

LEMMA TimesStep == PInv /\ TInv /\ RInv /\ TimesInv /\ [Next]_vars => TimesInv'
  <1> SUFFICES ASSUME PInv, TInv, RInv, TimesInv, [Next]_vars
               PROVE  TimesInv'
    OBVIOUS
  <1>1. PInv' /\ TInv' /\ RInv'
    BY Invariance, RenamingStep
  <1>2. UNCHANGED netlist
    BY DEF Next, LoadNode, LoadEdge, LevelizeEarly, add_ff_clock_to_source_sink_edges, Levelize,
           WalkGraph, OptimizeEdges, OptimizeNodes, KeepLayout, Analyze, input, vars
  <1>3. CASE LoadNode \/ LoadEdge \/ LevelizeEarly \/ add_ff_clock_to_source_sink_edges \/ Levelize \/ WalkGraph
    <2>1. UNCHANGED <<constraints, phase>>
      BY <1>3 DEF LoadNode, LoadEdge, LevelizeEarly, add_ff_clock_to_source_sink_edges, Levelize,
                  WalkGraph, traversalVars, walkVars
    <2>2. Building'
      <3>1. CASE WalkGraph
        <4>1. LevelizeStep /\ step' = step
          BY <3>1 DEF WalkGraph
        <4>2. Building
          BY <4>1, NoWalkOnceLevelized DEF PInv, BInv
        <4> QED
          BY <4>1, <4>2 DEF Building
      <3>2. CASE LoadNode \/ LoadEdge \/ LevelizeEarly \/ add_ff_clock_to_source_sink_edges \/ Levelize
        BY <3>2 DEF LoadNode, LoadEdge, LevelizeEarly, add_ff_clock_to_source_sink_edges, Levelize, Building
      <3> QED
        BY <1>3, <3>1, <3>2
    <2>3. delays' \in Seq(Nat)
      BY <1>1, <2>2 DEF TInv
    <2>4. phase' = "idle"
      BY <1>1, <2>2 DEF PInv, Building
    <2> QED
      BY <2>1, <2>2, <2>3, <2>4 DEF TimesInv
  <1>4. CASE OptimizeEdges \/ OptimizeNodes \/ KeepLayout
    <2>1. UNCHANGED <<constraints, phase>> /\ phase = "idle"
      BY <1>4 DEF PInv, OptimizeEdges, OptimizeNodes, KeepLayout, traversalVars, walkVars
    <2>2. delays' \in Seq(Nat)
      <3>1. CASE OptimizeEdges
        BY <1>1, <3>1, DelaysKept DEF PInv, TimesInv
      <3>2. CASE OptimizeNodes \/ KeepLayout
        BY <3>2 DEF OptimizeNodes, KeepLayout, traversalVars, TimesInv
      <3> QED
        BY <1>4, <3>1, <3>2
    <2>3. Ordered
      <3>1. CASE OptimizeEdges \/ KeepLayout
        BY <3>1, BuiltOrdered DEF PInv, OptimizeEdges, optimize_edge_layout, KeepLayout
      <3>2. CASE OptimizeNodes
        BY <3>2 DEF OptimizeNodes, TimesInv, Building
      <3> QED
        BY <1>4, <3>1, <3>2
    <2>4. Ordered'
      BY <1>2, <2>3, OrderedStays
    <2> QED
      BY <2>1, <2>2, <2>4 DEF TimesInv
  <1>5. CASE Analyze
    <2>1. /\ GraphFixed /\ UNCHANGED <<netlist, step>> /\ ~Building
          /\ \A clk, dat, rq : Solves(clk, dat, rq)' => TimesOK(clk, dat, rq)'
      BY <1>5, TimesAnalyze DEF Analyze, Building
    <2>2. Ordered'
      BY <1>2, <2>1, OrderedStays DEF TimesInv
    <2> QED
      BY <2>1, <2>2 DEF TimesInv, GraphFixed
  <1>6. CASE UNCHANGED vars
    <2>1. UNCHANGED <<netlist, step, phase, delays, constraints>> /\ GraphFixed
      BY <1>6 DEF vars, input, traversalVars, walkVars, graphVars, graphData, levelData, GraphFixed
    <2>2. ~Building' => Ordered'
      BY <2>1, OrderedStays DEF TimesInv, Building
    <2>3. ASSUME phase' # "idle", NEW clk, NEW dat, NEW rq, Solves(clk, dat, rq)'
          PROVE  TimesOK(clk, dat, rq)'
      <3>1. Solves(clk, dat, rq)
        BY <2>1, <2>3, SolvesStays
      <3>2. TimesOK(clk, dat, rq)
        BY <2>1, <2>3, <3>1 DEF TimesInv
      <3> QED
        BY <1>6, <3>2, TimesStay
    <2> QED
      BY <2>1, <2>2, <2>3 DEF TimesInv
  <1> QED
    BY <1>3, <1>4, <1>5, <1>6 DEF Next

(* While a graph is analysed, the tags are those of the netlist's paths.    *)
LEMMA AnalysisRenders ==
    ASSUME PInv, RInv, TimesInv, phase # "idle"
    PROVE  /\ Matches /\ EdgesMatch /\ Ordered /\ netlist \in Netlists
           /\ \E clk, dat, rq : Renders(clk, dat, rq) /\ Solves(clk, dat, rq) /\ TimesOK(clk, dat, rq)
  <1>1. step = "analyze" /\ ~Building /\ Ordered /\ netlist \in Netlists
    BY DEF PInv, BInv, Building, TimesInv
  <1>2. Matches /\ EdgesMatch
    BY <1>1, AnalyzedGraph
  <1>3. PICK clk, dat, rq : Renders(clk, dat, rq)
    BY <1>1, <1>2, RenderingExists DEF Ordered
  <1>4. Solves(clk, dat, rq)
    BY <1>1, <1>2, <1>3, RendersSolves DEF TimesInv
  <1>5. TimesOK(clk, dat, rq)
    BY <1>4 DEF TimesInv
  <1> QED
    BY <1>1, <1>2, <1>3, <1>4, <1>5

(* A node off the loops is on a level, and when the analysis is done its    *)
(* tags are final.                                                          *)
LEMMA DoneIsFinal ==
    ASSUME Matches, LoopFree \subseteq Orig, NEW clk, NEW dat, NEW rq, TimesOK(clk, dat, rq),
           phase = "done", NEW n \in LoopFree
    PROVE  Final(clk, dat, rq, NewId(n), clockTags[NewId(n)], dataTags[NewId(n)])
  <1>1. NewId(n) \in NodeIds /\ Placed(NewId(n))
    BY DEF Matches
  <1>2. PICK l \in DOMAIN levels : OnLevel(NewId(n), l)
    BY <1>1 DEF Placed
  <1>3. At(clk, dat, rq, NewId(n), l)
    BY <1>1, <1>2 DEF TimesOK
  <1> QED
    BY <1>3 DEF At

(* A tag for each domain some path was launched in, with the latest arrival *)
(* of them: forward_traverse_edge over all in-edges of all levels comes to  *)
(* this, and backward_traverse_edge to the earliest required time.          *)
THEOREM TimesAreThePaths == Spec => []TimesMatchPaths
  <1>1. PInv /\ RInv /\ TimesInv => TimesMatchPaths
    <2> SUFFICES ASSUME PInv, RInv, TimesInv, phase = "done"
                 PROVE  TimesMatchPaths
      BY DEF TimesMatchPaths
    <2>1. /\ Matches /\ EdgesMatch /\ Ordered /\ netlist \in Netlists
          /\ \E clk, dat, rq : Renders(clk, dat, rq) /\ Solves(clk, dat, rq) /\ TimesOK(clk, dat, rq)
      BY AnalysisRenders
    <2>2. PICK clk, dat, rq : Renders(clk, dat, rq) /\ Solves(clk, dat, rq) /\ TimesOK(clk, dat, rq)
      BY <2>1
    <2>3. ASSUME NEW n \in LoopFree
          PROVE  /\ ClockPaths[n] \in SUBSET NPath /\ DataPaths[n] \in SUBSET NPath
                 /\ clk[NewId(n)] = Moved(ClockPaths[n]) /\ dat[NewId(n)] = Moved(DataPaths[n])
                 /\ Fits(clockTags[NewId(n)], Moved(ClockPaths[n]))
                 /\ Fits(dataTags[NewId(n)], Moved(DataPaths[n]))
                 /\ \A d \in DOMAIN dataTags[NewId(n)] : IsLeast(dataTags[NewId(n)][d].req, rq[d][NewId(n)])
      <3>1. Final(clk, dat, rq, NewId(n), clockTags[NewId(n)], dataTags[NewId(n)])
        BY <2>1, <2>2, DoneIsFinal DEF Ordered
      <3>2. clk[NewId(n)] = Moved(ClockPaths[n]) /\ dat[NewId(n)] = Moved(DataPaths[n])
        BY <2>2 DEF Renders
      <3>3. ClockPaths[n] \in SUBSET NPath /\ DataPaths[n] \in SUBSET NPath
        BY <2>1, ClockPathsFlow, DataPathsFlow DEF FiniteSubsets
      <3> QED
        BY <3>1, <3>2, <3>3 DEF Final, Arrived
    <2>4. ASSUME NEW tags, NEW S \in SUBSET NPath, Fits(tags, Moved(S))
          PROVE  /\ DOMAIN tags = {p.domain : p \in S}
                 /\ \A d \in DOMAIN tags : tags[d].arr = Max(DelaysTo(S, d))
      <3>1. /\ Moved(S) \in SUBSET Path /\ DomainsOf(Moved(S)) = {p.domain : p \in S}
            /\ \A d : DelaysTo(Moved(S), d) = DelaysTo(S, d)
            /\ \A d : d \in DomainsOf(Moved(S)) <=> DelaysTo(S, d) # {}
        BY <2>1, MovedPaths
      <3>2. \A d : /\ d \in DOMAIN tags <=> DelaysTo(S, d) # {}
                   /\ d \in DOMAIN tags => Max(DelaysTo(S, d)) = tags[d].arr
        BY <2>4, <3>1, LatestOfDomain
      <3> QED
        BY <3>1, <3>2
    <2>5. ASSUME NEW d \in Domains, NEW n \in LoopFree, d \in DOMAIN dataTags[NewId(n)]
          PROVE  dataTags[NewId(n)][d].req = EarliestOf(RequiredFrom(d)[n])
      <3>1. rq[d][NewId(n)] = RequiredFrom(d)[n]
        BY <2>1, <2>2 DEF Renders, Ordered
      <3>2. RequiredFrom(d)[n] \in SUBSET Int
        BY <2>1, RequiredFlow DEF TimesInv
      <3>3. IsLeast(dataTags[NewId(n)][d].req, RequiredFrom(d)[n])
        BY <2>3, <2>5, <3>1
      <3> QED
        BY <3>2, <3>3, LeastIsEarliest
    <2>6. ASSUME NEW n \in Orig \ LoopFree
          PROVE  dataTags[NewId(n)] = NoTags /\ clockTags[NewId(n)] = NoTags
      <3>1. NewId(n) \in NodeIds /\ ~Placed(NewId(n))
        BY <2>1 DEF Matches
      <3> QED
        BY <2>2, <3>1 DEF TimesOK, Empty
    <2>7. ASSUME NEW n \in LoopFree
          PROVE  /\ DOMAIN clockTags[NewId(n)] = {p.domain : p \in ClockPaths[n]}
                 /\ \A d \in DOMAIN clockTags[NewId(n)] :
                       clockTags[NewId(n)][d].arr = Max(DelaysTo(ClockPaths[n], d))
                 /\ DOMAIN dataTags[NewId(n)] = {p.domain : p \in DataPaths[n]}
                 /\ \A d \in DOMAIN dataTags[NewId(n)] :
                       dataTags[NewId(n)][d].arr = Max(DelaysTo(DataPaths[n], d))
      BY <2>3, <2>4
    <2> QED
      BY <2>5, <2>6, <2>7 DEF TimesMatchPaths
  <1> QED
    BY <1>1, Start, Invariance, RenamingStart, RenamingStep, TimesStart, TimesStep, PTL DEF Spec

(* max_arr copies the launch node of the later arrival: in the end it is    *)
(* where a path with that arrival begins.                                   *)
THEOREM LaunchNodesAreExplained == Spec => []LaunchExplainsArrival
  <1>1. PInv /\ RInv /\ TimesInv => LaunchExplainsArrival
    <2> SUFFICES ASSUME PInv, RInv, TimesInv, phase = "done",
                        NEW n \in LoopFree, NEW d \in DOMAIN dataTags[NewId(n)]
                 PROVE  \E p \in DataPaths[n] : /\ p.domain = d /\ p.delay = dataTags[NewId(n)][d].arr
                                                /\ NewId(p.launch) = dataTags[NewId(n)][d].launch
      BY DEF LaunchExplainsArrival
    <2>1. /\ Matches /\ EdgesMatch /\ Ordered /\ netlist \in Netlists
          /\ \E clk, dat, rq : Renders(clk, dat, rq) /\ Solves(clk, dat, rq) /\ TimesOK(clk, dat, rq)
      BY AnalysisRenders
    <2>2. PICK clk, dat, rq : Renders(clk, dat, rq) /\ Solves(clk, dat, rq) /\ TimesOK(clk, dat, rq)
      BY <2>1
    <2>3. Final(clk, dat, rq, NewId(n), clockTags[NewId(n)], dataTags[NewId(n)])
      BY <2>1, <2>2, DoneIsFinal DEF Ordered
    <2>4. dat[NewId(n)] = Moved(DataPaths[n]) /\ DataPaths[n] \in SUBSET NPath
      BY <2>1, <2>2, DataPathsFlow DEF Renders, FiniteSubsets
    <2>5. PICK q \in Moved(DataPaths[n]) : /\ q.domain = d /\ q.delay = dataTags[NewId(n)][d].arr
                                           /\ q.launch = dataTags[NewId(n)][d].launch
      BY <2>3, <2>4 DEF Final, Arrived, Fits
    <2>6. PICK p \in DataPaths[n] : q = [p EXCEPT !.launch = NewId(@)]
      BY DEF Moved
    <2>7. q.domain = p.domain /\ q.delay = p.delay /\ q.launch = NewId(p.launch)
      BY <2>1, <2>4, <2>6, MovedPath
    <2> QED
      BY <2>5, <2>7
  <1> QED
    BY <1>1, Start, Invariance, RenamingStart, RenamingStep, TimesStart, TimesStep, PTL DEF Spec

(* What the walk aborts on is what the netlist shows.                       *)
LEMMA CauseMoved ==
    ASSUME Matches, EdgesMatch, Ordered, netlist \in Netlists,
           NEW clk, NEW dat, NEW rq, Renders(clk, dat, rq), NEW n \in LoopFree
    PROVE  Cause(clk, NewId(n)) <=> Undriven(n) \/ LaunchesTwoClocks(n)
  <1> DEFINE m == NewId(n)
             list == inEdges[m]
             k == Len(list)
             X == EdgesInto(n)
  <1>1. /\ n \in Orig /\ nodes[m] = netlist.nodes[n] /\ nodes[m].type = TypeOf(n)
        /\ inEdges[m] = <<>> <=> EdgesInto(n) = {}
    BY DEF Ordered, Matches, TypeOf
  <1>2. inEdges[m] = <<>> /\ nodes[m].type \notin Sources <=> Undriven(n)
    BY <1>1 DEF Undriven, Sources
  <1>3. ASSUME NEW i \in 1..k, NEW x \in X, Is(list[i], x)
        PROVE  IF TypeOf(x.src) = "FF_SOURCE" THEN Cardinality(DomainsOf(ClockOver(clk, list[i]))) = 0
               ELSE DomainsOf(ClockOver(clk, list[i])) = {p.domain : p \in ClockPaths[x.src]}
    <2>1. srcOf[list[i]] = NewId(x.src)
      BY <1>3 DEF Is
    <2>2. x.src \in LoopFree /\ x.src \in Orig
      BY DEF EdgesInto, Ordered
    <2>3. nodes[NewId(x.src)].type = TypeOf(x.src)
      BY <2>2 DEF Matches, TypeOf
    <2>4. CASE TypeOf(x.src) = "FF_SOURCE"
      <3>1. ClockOver(clk, list[i]) = {}
        BY <2>1, <2>3, <2>4 DEF ClockOver
      <3>2. DomainsOf(ClockOver(clk, list[i])) = {}
        BY <3>1 DEF DomainsOf
      <3> QED
        BY <2>4, <3>2, FS_EmptySet
    <2>5. CASE TypeOf(x.src) # "FF_SOURCE"
      <3>1. ClockOver(clk, list[i]) = Moved(ClockPaths[x.src])
        BY <2>1, <2>2, <2>3, <2>5 DEF ClockOver, Renders
      <3>2. ClockPaths[x.src] \in SUBSET NPath
        BY <2>2, ClockPathsFlow DEF FiniteSubsets
      <3>3. DomainsOf(Moved(ClockPaths[x.src])) = {p.domain : p \in ClockPaths[x.src]}
        BY <3>2, MovedPaths
      <3> QED
        BY <2>5, <3>1, <3>3
    <2> QED
      BY <2>4, <2>5
  <1>4. /\ \A i \in 1..k : \E x \in X : Is(list[i], x)
        /\ \A x \in X : \E i \in 1..k : Is(list[i], x)
    BY <1>1 DEF EdgesMatch
  <1>5. TwoClocksUpTo(clk, m, k) <=> LaunchesTwoClocks(n)
    <2>1. ASSUME NEW i \in 1..k, Cardinality(DomainsOf(ClockOver(clk, list[i]))) > 1
          PROVE  \E x \in ClockEdgesInto(n) : Cardinality({p.domain : p \in ClockPaths[x.src]}) > 1
      <3>1. PICK x \in X : Is(list[i], x)
        BY <1>4
      <3>2. TypeOf(x.src) # "FF_SOURCE"
        BY <1>3, <2>1, <3>1
      <3>3. DomainsOf(ClockOver(clk, list[i])) = {p.domain : p \in ClockPaths[x.src]}
        BY <1>3, <3>1, <3>2
      <3>4. x \in ClockEdgesInto(n)
        BY <3>2 DEF ClockEdgesInto
      <3> QED
        BY <2>1, <3>3, <3>4
    <2>2. ASSUME NEW x \in ClockEdgesInto(n), Cardinality({p.domain : p \in ClockPaths[x.src]}) > 1
          PROVE  \E i \in 1..k : Cardinality(DomainsOf(ClockOver(clk, list[i]))) > 1
      <3>1. x \in X /\ TypeOf(x.src) # "FF_SOURCE"
        BY DEF ClockEdgesInto
      <3>2. PICK i \in 1..k : Is(list[i], x)
        BY <1>4, <3>1
      <3>3. DomainsOf(ClockOver(clk, list[i])) = {p.domain : p \in ClockPaths[x.src]}
        BY <1>3, <3>1, <3>2
      <3> QED
        BY <2>2, <3>3
    <2> QED
      BY <1>1, <2>1, <2>2 DEF TwoClocksUpTo, LaunchesTwoClocks
  <1> QED
    BY <1>2, <1>5 DEF Cause

(* The two assertions of SetupAnalysisMode fail exactly where the netlist   *)
(* has a node without a driver that is no source, or a flip-flop output     *)
(* that two clocks launch.                                                  *)
THEOREM AbortsOnlyForCause == Spec => []AbortsForCause
  <1>1. PInv /\ RInv /\ TimesInv => AbortsForCause
    <2> SUFFICES ASSUME PInv, RInv, TimesInv, phase \in {"done", "aborted"}
                 PROVE  phase = "aborted" <=> \E n \in LoopFree : Undriven(n) \/ LaunchesTwoClocks(n)
      BY DEF AbortsForCause
    <2>1. /\ Matches /\ EdgesMatch /\ Ordered /\ netlist \in Netlists
          /\ \E clk, dat, rq : Renders(clk, dat, rq) /\ Solves(clk, dat, rq) /\ TimesOK(clk, dat, rq)
      BY AnalysisRenders
    <2>2. PICK clk, dat, rq : Renders(clk, dat, rq) /\ Solves(clk, dat, rq) /\ TimesOK(clk, dat, rq)
      BY <2>1
    <2>3. \A n \in LoopFree : Cause(clk, NewId(n)) <=> Undriven(n) \/ LaunchesTwoClocks(n)
      BY <2>1, <2>2, CauseMoved
    <2>4. CASE phase = "aborted"
      <3>1. PICK m \in NodeIds : Placed(m) /\ Cause(clk, m)
        BY <2>2, <2>4 DEF TimesOK
      <3>2. PICK n \in LoopFree : NewId(n) = m
        BY <2>1, <3>1 DEF Matches
      <3> QED
        BY <2>3, <2>4, <3>1, <3>2
    <2>5. CASE phase = "done"
      <3>1. ASSUME NEW n \in LoopFree PROVE ~Cause(clk, NewId(n))
        BY <2>1, <2>2, <2>5, DoneIsFinal DEF Ordered, Final, Arrived
      <3> QED
        BY <2>3, <2>5, <3>1
    <2> QED
      BY <2>4, <2>5
  <1> QED
    BY <1>1, Start, Invariance, RenamingStart, RenamingStep, TimesStart, TimesStep, PTL DEF Spec

(* The tags at any point of an analysis.                                    *)
TagsTyped ==
    \A n \in NodeIds :
        /\ DOMAIN dataTags[n] \subseteq Domains /\ DOMAIN clockTags[n] \subseteq Domains
        /\ \A d \in DOMAIN dataTags[n] : dataTags[n][d].arr \in Nat

LEMMA FittingIsTyped ==
    ASSUME NEW tags, NEW paths, Fits(tags, paths), DomainsOf(paths) \subseteq Domains
    PROVE  DOMAIN tags \subseteq Domains /\ \A d \in DOMAIN tags : tags[d].arr \in Nat
  BY DEF Fits, DomainsOf, Tag

LEMMA RunningIsTyped ==
    ASSUME PInv, RInv, TimesInv, phase \notin {"idle", "aborted"}
    PROVE  TagsTyped
  <1>1. PICK clk, dat, rq : Solves(clk, dat, rq) /\ TimesOK(clk, dat, rq)
    BY AnalysisRenders
  <1>2. WalkableGraph
    BY AnalyzedWalkable DEF PInv, TimesInv, Building
  <1>3. ASSUME NEW n \in NodeIds, Empty(n)
        PROVE  /\ DOMAIN dataTags[n] \subseteq Domains /\ DOMAIN clockTags[n] \subseteq Domains
               /\ \A d \in DOMAIN dataTags[n] : dataTags[n][d].arr \in Nat
    BY <1>3, NoTagsFit DEF Empty
  <1>4. ASSUME NEW n \in NodeIds, Placed(n)
        PROVE  /\ DOMAIN dataTags[n] \subseteq Domains /\ DOMAIN clockTags[n] \subseteq Domains
               /\ \A d \in DOMAIN dataTags[n] : dataTags[n][d].arr \in Nat
    <2>1. PICK l \in DOMAIN levels : OnLevel(n, l)
      BY <1>4 DEF Placed
    <2>2. At(clk, dat, rq, n, l) /\ phase \in {"pre", "fwd", "bck", "done"} /\ progress[n] \in Nat
      BY <1>1, <2>1 DEF TimesOK
    <2>3. /\ DomainsOf(clk[n]) \subseteq Domains /\ DomainsOf(dat[n]) \subseteq Domains
          /\ clk[n] = ClockOwn(n) \cup ClockUpTo(clk, n, Len(inEdges[n]))
          /\ dat[n] = DataOwn(n) \cup DataUpTo(clk, dat, n, Len(inEdges[n]))
      BY <1>1, <1>4 DEF Solves
    <2>4. CASE Arrived(clk, dat, n, clockTags[n], dataTags[n])
      BY <2>3, <2>4, FittingIsTyped DEF Arrived
    <2>5. CASE Reading(clk, dat, n, progress[n], clockTags[n], dataTags[n])
      <3> DEFINE k == progress[n]
      <3>1. k \in Nat /\ k <= Len(inEdges[n]) /\ Len(inEdges[n]) \in Nat
        BY <1>2, <2>2, <2>5 DEF Reading, WalkableGraph
      <3>2. 1..k \subseteq 1..Len(inEdges[n])
        BY <3>1
      <3> HIDE DEF k
      <3>3. ClockUpTo(clk, n, k) \subseteq clk[n]
        BY <2>3, <3>2 DEF ClockUpTo
      <3>4. DataUpTo(clk, dat, n, k) \subseteq dat[n]
        BY <2>3, <3>2 DEF DataUpTo
      <3>5. DomainsOf(ClockUpTo(clk, n, k)) \subseteq Domains /\ DomainsOf(DataUpTo(clk, dat, n, k)) \subseteq Domains
        BY <2>3, <3>3, <3>4 DEF DomainsOf
      <3>6. Fits(clockTags[n], ClockUpTo(clk, n, k)) /\ Fits(dataTags[n], DataUpTo(clk, dat, n, k))
        BY <2>5 DEF Reading, k
      <3> QED
        BY <3>5, <3>6, FittingIsTyped
    <2>6. \/ Empty(n) \/ Arrived(clk, dat, n, clockTags[n], dataTags[n])
          \/ Reading(clk, dat, n, progress[n], clockTags[n], dataTags[n])
      BY <2>2 DEF At, Ready, Pulling, Final
    <2> QED
      BY <1>3, <2>4, <2>5, <2>6
  <1>5. \A n \in NodeIds : Empty(n) \/ Placed(n)
    BY <1>1 DEF TimesOK
  <1> QED
    BY <1>3, <1>4, <1>5 DEF TagsTyped

(* An assertion stops the walk without touching the tags.                   *)
TypesInv == levels \in Seq(Seq(NodeIds)) /\ (phase = "aborted" => TagsTyped)

LEMMA TypesStart == Init => TypesInv
  BY DEF Init, GraphInit, TraversalInit, TypesInv

LEMMA AbortKeepsTags ==
    ASSUME PInv, [Next]_vars, phase' = "aborted"
    PROVE  UNCHANGED <<dataTags, clockTags, nodes>> /\ phase # "idle"
  <1>1. CASE LoadNode \/ LoadEdge \/ LevelizeEarly \/ add_ff_clock_to_source_sink_edges \/ Levelize \/ WalkGraph
             \/ OptimizeEdges \/ OptimizeNodes \/ KeepLayout
    <2>1. phase = "aborted"
      BY <1>1 DEF LoadNode, LoadEdge, LevelizeEarly, add_ff_clock_to_source_sink_edges, Levelize,
                  WalkGraph, OptimizeEdges, OptimizeNodes, KeepLayout, traversalVars, walkVars
    <2>2. step = "analyze" /\ stage = "levelized"
      BY <2>1 DEF PInv, BInv, Building
    <2> QED
      BY <1>1, <2>2, NoWalkOnceLevelized
         DEF LoadNode, LoadEdge, LevelizeEarly, add_ff_clock_to_source_sink_edges, Levelize, WalkGraph,
             OptimizeEdges, OptimizeNodes, KeepLayout
  <1>2. CASE Analyze
    <2>1. CASE StartAnalysis \/ NextLevel
      BY <2>1 DEF StartAnalysis, NextLevel, Walk
    <2>2. CASE \E n \in NodeIds : Handler(n)
      <3>1. PICK n \in NodeIds : Handler(n)
        BY <2>2
      <3>2. Abort /\ UNCHANGED graphVars /\ phase # "idle"
        BY <3>1, HandlerFacts DEF Handler, pre_traverse_node, forward_traverse_edge,
           forward_traverse_finalize_node, backward_traverse_edge, backward_traverse_return, Return, Step
      <3> QED
        BY <3>2 DEF Abort, tagVars, graphVars, graphData
    <2> QED
      BY <1>2, <2>1, <2>2 DEF Analyze, calculate_timing
  <1>3. CASE UNCHANGED vars
    BY <1>3 DEF vars, traversalVars, tagVars, walkVars, graphVars, graphData
  <1> QED
    BY <1>1, <1>2, <1>3 DEF Next

(* While the graph is loaded the levels of an earlier levelize stay, and so *)
(* do the nodes they name.                                                  *)
LEMMA OldNodesStay ==
    ASSUME PInv, PInv', [Next]_vars, stage' = "modified"
    PROVE  levels' = levels /\ NodeIds \subseteq NodeIds'
  <1>1. CASE LoadNode
    <2>1. /\ nodes' = Append(nodes, netlist.nodes[Len(nodes) + 1])
          /\ levels' = levels
      BY <1>1 DEF LoadNode, add_node, levelData
    <2>2. nodes \in Seq(NodeData) /\ nodes' \in Seq(NodeData)
      BY DEF PInv, IInv, GraphOK
    <2>3. /\ DOMAIN nodes = 1..Len(nodes) /\ DOMAIN nodes' = 1..Len(nodes')
          /\ Len(nodes) \in Nat /\ Len(nodes') = Len(nodes) + 1
      BY <2>1, <2>2, LenProperties
    <2>4. 1..Len(nodes) \subseteq 1..Len(nodes')
      <3> DEFINE k == Len(nodes)
      <3> HIDE DEF k
      <3>1. k \in Nat /\ Len(nodes') = k + 1
        BY <2>3 DEF k
      <3>2. 1..k \subseteq 1..(k + 1)
        BY <3>1
      <3> QED
        BY <3>1, <3>2 DEF k
    <2> QED
      BY <2>1, <2>3, <2>4 DEF NodeIds
  <1>2. CASE LoadEdge
    BY <1>2 DEF LoadEdge, add_edge, levelData, NodeIds
  <1>3. CASE LevelizeEarly \/ Levelize
    BY <1>3 DEF LevelizeEarly, Levelize, BeginLevelize
  <1>4. CASE add_ff_clock_to_source_sink_edges \/ KeepLayout
    BY <1>4 DEF add_ff_clock_to_source_sink_edges, KeepLayout, graphVars, graphData, levelData, NodeIds
  <1>5. CASE WalkGraph
    BY <1>5 DEF WalkGraph, LevelizeStep, CountFanin, StartWalk, TraverseEdge, LeaveNode, LeaveLevel, AtNode
  <1>6. CASE OptimizeEdges \/ OptimizeNodes
    BY <1>6 DEF OptimizeEdges, OptimizeNodes, optimize_edge_layout, optimize_node_layout
  <1>7. CASE Analyze
    <2>1. CASE StartAnalysis \/ NextLevel
      BY <2>1 DEF StartAnalysis, NextLevel, Walk, graphVars, graphData, levelData, NodeIds
    <2>2. CASE \E n \in NodeIds : Handler(n)
      <3>1. PICK n \in NodeIds : Handler(n)
        BY <2>2
      <3>2. UNCHANGED graphVars
        BY <3>1, HandlerFacts
      <3> QED
        BY <3>2 DEF graphVars, graphData, levelData, NodeIds
    <2> QED
      BY <1>7, <2>1, <2>2 DEF Analyze, calculate_timing
  <1>8. CASE UNCHANGED vars
    BY <1>8 DEF vars, graphVars, graphData, levelData, NodeIds
  <1> QED
    BY <1>1, <1>2, <1>3, <1>4, <1>5, <1>6, <1>7, <1>8 DEF Next

LEMMA TypesStep == PInv /\ RInv /\ TimesInv /\ TypesInv /\ [Next]_vars => TypesInv'
  <1> SUFFICES ASSUME PInv, RInv, TimesInv, TypesInv, [Next]_vars
               PROVE  TypesInv'
    OBVIOUS
  <1>1. PInv'
    BY Invariance
  <1>2. levels' \in Seq(Seq(NodeIds'))
    <2>1. CASE stage' # "modified"
      BY <1>1, <2>1 DEF PInv, IInv
    <2>2. CASE stage' = "modified"
      <3>1. levels' = levels /\ NodeIds \subseteq NodeIds'
        BY <1>1, <2>2, OldNodesStay
      <3>2. Seq(NodeIds) \subseteq Seq(NodeIds')
        BY <3>1, SeqMonotonic
      <3>3. Seq(Seq(NodeIds)) \subseteq Seq(Seq(NodeIds'))
        BY <3>2, SeqMonotonic
      <3> QED
        BY <3>1, <3>3 DEF TypesInv
    <2> QED
      BY <2>1, <2>2
  <1>3. ASSUME phase' = "aborted" PROVE TagsTyped'
    <2>1. UNCHANGED <<dataTags, clockTags, nodes>> /\ phase # "idle"
      BY <1>3, AbortKeepsTags
    <2>2. TagsTyped
      BY <2>1, RunningIsTyped DEF TypesInv
    <2> QED
      BY <2>1, <2>2 DEF TagsTyped, NodeIds
  <1> QED
    BY <1>2, <1>3 DEF TypesInv

(* Every id stored is one of a node or of an edge, from the first add_node  *)
(* to the last handler.                                                     *)
THEOREM TypeCorrect == Spec => []TypeOK
  <1>1. PInv /\ TInv /\ RInv /\ TimesInv /\ TypesInv => TypeOK
    <2> SUFFICES ASSUME PInv, TInv, RInv, TimesInv, TypesInv
                 PROVE  TypeOK
      OBVIOUS
    <2>1. IInv /\ GraphOK /\ levels \in Seq(Seq(NodeIds))
      BY DEF PInv, IInv, TypesInv
    <2>2. /\ nodes \in Seq(NodeData) /\ Len(outEdges) = Len(nodes) /\ Len(inEdges) = Len(nodes)
          /\ Len(sinkOf) = Len(srcOf)
          /\ Listing(NodeIds, EdgeIds, outEdges, srcOf) /\ Listing(NodeIds, EdgeIds, inEdges, sinkOf)
      BY <2>1 DEF GraphOK
    <2>3. \A e \in EdgeIds : srcOf[e] \in NodeIds /\ sinkOf[e] \in NodeIds
      BY <2>1, GraphFacts
    <2>4. Len(delays) = Len(srcOf)
      <3>1. CASE Building
        BY <3>1 DEF TInv
      <3>2. CASE ~Building
        <4> DEFINE len == Len(delays)
                   n == Len(srcOf)
        <4>1. PICK g : Renamed(Settled, g)
          BY <3>2 DEF RInv
        <4>2. DOMAIN delays = EdgeIds /\ EdgeIds = 1..n /\ n \in Nat
          BY <2>1, <4>1, GraphFacts DEF Renamed, EdgesRenamed
        <4>3. DOMAIN delays = 1..len /\ len \in Nat
          BY LenProperties DEF TimesInv
        <4> HIDE DEF len, n
        <4>4. 1..len = 1..n
          BY <4>2, <4>3
        <4>5. len = n
          BY <4>2, <4>3, <4>4
        <4> QED
          BY <4>5 DEF len, n
      <3> QED
        BY <3>1, <3>2
    <2>5. \A n \in NodeIds : /\ \A i \in DOMAIN outEdges[n] : outEdges[n][i] \in EdgeIds
                             /\ \A i \in DOMAIN inEdges[n] : inEdges[n][i] \in EdgeIds
      BY <2>2 DEF Listing
    <2>6. \A l \in DOMAIN levels : \A p \in DOMAIN levels[l] : levels[l][p] \in NodeIds
      BY <2>1, LevelFacts
    <2>7. stage = "levelizing" => level \in DOMAIN levels /\ pos <= Len(levels[level]) + 1
      <3> HAVE stage = "levelizing"
      <3>1. level \in 1..Len(levels) /\ pos \in 1..(Len(levels[level]) + 1)
        BY <2>1 DEF IInv, WalkOK
      <3> QED
        BY <2>1, <3>1, LevelFacts
    <2>8. phase \in {"idle", "pre", "fwd", "bck", "done", "aborted"}
      <3>1. CASE phase # "idle"
        BY <3>1, AnalysisRenders DEF TimesOK
      <3> QED
        BY <3>1
    <2>9. ASSUME phase # "idle" PROVE lev \in DOMAIN levels /\ TagsTyped
      <3>1. lev \in DOMAIN levels
        BY <2>9 DEF PInv
      <3>2. TagsTyped
        BY <2>9, RunningIsTyped DEF TypesInv
      <3> QED
        BY <3>1, <3>2
    <2> QED
      BY <2>2, <2>3, <2>4, <2>5, <2>6, <2>7, <2>8, <2>9 DEF TypeOK, TagsTyped
  <1> QED
    BY <1>1, Start, Invariance, RenamingStart, RenamingStep, TimesStart, TimesStep,
       TypesStart, TypesStep, PTL DEF Spec
================================================================================
