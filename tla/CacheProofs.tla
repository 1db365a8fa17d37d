---------------------------- MODULE CacheProofs ----------------------------
(***************************************************************************)
(* The data cache for any threads, names, nodes and values.                *)
(*                                                                         *)
(* The list is described by Chain(s, n): s is the sequence of its n nodes. *)
(* Follow, the walk by next, is shown to be the one function that obeys    *)
(* its equation (two that differ would differ at a least place), so that   *)
(* along a chain it is s, and a step of add, delete or set is a change of  *)
(* s.  On it rest                                                          *)
(*   Core     whatever the callers do, the list is a list and the locals   *)
(*            of every call have their types until somebody faults;        *)
(*   IInv     until struck, nobody faults: who will read through a pointer *)
(*            points to an allocated node, and who deletes still has the   *)
(*            head of the list in its local;                               *)
(*   SizeInv, SetInv   what a walk of getSize has counted, and what the    *)
(*            listeners were told, on top of IInv.                         *)
(***************************************************************************)
EXTENDS Cache, RttIpcProofs, FiniteSetTheorems

(* The n nodes of the list, in order. *)
Chain(s, n) ==
    /\ n \in Nat /\ s \in [1 .. n -> Node]
    /\ live = {s[i] : i \in 1 .. n}
    /\ \A i, j \in 1 .. n : s[i] = s[j] => i = j
    /\ \A i \in 1 .. n : heap[s[i]].next = IF i = n THEN Null ELSE s[i + 1]
    /\ dataHead = IF n = 0 THEN Null ELSE s[1]
    /\ dataTail = IF n = 0 THEN Null ELSE s[n]

IsChain == \E n \in Nat : \E s \in [1 .. n -> Node] : Chain(s, n)

(* A list has as many nodes as are allocated; the memory bounds them. *)
LEMMA ChainLength ==
    ASSUME NEW n, NEW s, Chain(s, n)
    PROVE  Cardinality(live) = n /\ MaxNodes \in Nat /\ n <= MaxNodes /\ IsFiniteSet(live)
<1>1. n \in Nat /\ s \in [1 .. n -> Node] /\ live = {s[i] : i \in 1 .. n} BY DEF Chain
<1>2. IsFiniteSet(Node) BY CacheAssumption
<1>3. MaxNodes \in Nat BY <1>2, FS_CardinalityType DEF MaxNodes
<1>4. s \in Bijection(1 .. n, live)
  <2>1. s \in Surjection(1 .. n, live) BY <1>1 DEF Surjection
  <2>2. s \in Injection(1 .. n, live) BY <1>1 DEF Injection, IsInjective, Chain
  <2> QED BY <2>1, <2>2 DEF Bijection
<1>5. ExistsBijection(1 .. n, live) BY <1>4 DEF ExistsBijection
<1>6. Cardinality(live) = n BY <1>1, <1>5, FS_CountingElements
<1>7. live \in SUBSET Node BY <1>1
<1>8. IsFiniteSet(live) /\ Cardinality(live) <= Cardinality(Node) BY <1>2, <1>7, FS_Subset
<1> QED BY <1>3, <1>6, <1>8 DEF MaxNodes

(* Whatever satisfies the equation of Follow shows that Follow satisfies it. *)
LEMMA FollowExists ==
    ASSUME NEW m, NEW g,
           g = [k \in 0 .. MaxNodes |->
                   IF k = 0 THEN m ELSE IF g[k - 1] = Null THEN Null ELSE heap[g[k - 1]].next]
    PROVE  Follow(m) = [k \in 0 .. MaxNodes |->
                           IF k = 0 THEN m
                           ELSE IF Follow(m)[k - 1] = Null THEN Null
                           ELSE heap[Follow(m)[k - 1]].next]
BY DEF Follow

(* ... and is what Follow is: two that differ would differ first somewhere. *)
LEMMA FollowUnique ==
    ASSUME NEW m, NEW g, MaxNodes \in Nat,
           g = [k \in 0 .. MaxNodes |->
                   IF k = 0 THEN m ELSE IF g[k - 1] = Null THEN Null ELSE heap[g[k - 1]].next]
    PROVE  Follow(m) = g
<1> DEFINE f == Follow(m)
           Differ == {k \in 0 .. MaxNodes : f[k] # g[k]}
<1>1. f = [k \in 0 .. MaxNodes |->
              IF k = 0 THEN m ELSE IF f[k - 1] = Null THEN Null ELSE heap[f[k - 1]].next]
  BY FollowExists
<1> HIDE DEF f
<1>2. Differ = {}
  <2> SUFFICES ASSUME Differ # {} PROVE FALSE OBVIOUS
  <2>1. PICK k \in Differ : \A j \in Differ : k <= j
    <3>1. Differ \in SUBSET Nat OBVIOUS
    <3> HIDE DEF Differ
    <3> QED BY <3>1, LeastNumber
  <2>2. k \in 0 .. MaxNodes /\ f[k] # g[k] OBVIOUS
  <2>3. k # 0 BY <1>1, <2>2
  <2>4. k - 1 \in 0 .. MaxNodes /\ ~(k <= k - 1) BY <2>2, <2>3
  <2>5. f[k - 1] = g[k - 1] BY <2>1, <2>4
  <2>6. f[k] = g[k] BY <1>1, <2>2, <2>3, <2>5
  <2> QED BY <2>2, <2>6
<1>3. \A k \in 0 .. MaxNodes : f[k] = g[k] BY <1>2
<1>4. f = [k \in 0 .. MaxNodes |-> f[k]] /\ g = [k \in 0 .. MaxNodes |-> g[k]]
  BY <1>1
<1> QED BY <1>3, <1>4 DEF f

(* The walk from the j-th node of the list meets the nodes from there on. *)
LEMMA ChainFollow ==
    ASSUME NEW n, NEW s, Chain(s, n), NEW j \in 1 .. n
    PROVE  Follow(s[j]) = [k \in 0 .. MaxNodes |-> IF j + k <= n THEN s[j + k] ELSE Null]
<1> DEFINE g == [k \in 0 .. MaxNodes |-> IF j + k <= n THEN s[j + k] ELSE Null]
<1>1. MaxNodes \in Nat /\ n \in Nat BY ChainLength DEF Chain
<1>2. ASSUME NEW k \in 0 .. MaxNodes
      PROVE  g[k] = IF k = 0 THEN s[j] ELSE IF g[k - 1] = Null THEN Null ELSE heap[g[k - 1]].next
  <2>1. CASE k = 0 BY <1>1, <2>1
  <2>2. CASE k # 0
    <3>1. k - 1 \in 0 .. MaxNodes /\ j + k = j + (k - 1) + 1 BY <1>1, <2>2
    <3>2. CASE j + (k - 1) <= n
      <4>1. j + (k - 1) \in 1 .. n BY <1>1, <3>1, <3>2
      <4>2. g[k - 1] = s[j + (k - 1)] BY <3>1, <3>2
      <4>3. s[j + (k - 1)] \in Node BY <4>1 DEF Chain
      <4>4. g[k - 1] # Null BY <4>2, <4>3, CacheAssumption
      <4>5. heap[s[j + (k - 1)]].next = IF j + (k - 1) = n THEN Null ELSE s[j + (k - 1) + 1]
        BY <4>1 DEF Chain
      <4>6. g[k] = IF j + (k - 1) = n THEN Null ELSE s[j + (k - 1) + 1]
        BY <1>1, <2>2, <3>1, <3>2
      <4> QED BY <2>2, <4>2, <4>4, <4>5, <4>6
    <3>3. CASE ~(j + (k - 1) <= n)
      <4>1. g[k - 1] = Null BY <3>1, <3>3
      <4>2. g[k] = Null BY <1>1, <3>1, <3>3
      <4> QED BY <2>2, <4>1, <4>2
    <3> QED BY <3>2, <3>3
  <2> QED BY <2>1, <2>2
<1>3. g = [k \in 0 .. MaxNodes |->
              IF k = 0 THEN s[j] ELSE IF g[k - 1] = Null THEN Null ELSE heap[g[k - 1]].next]
  BY <1>2
<1> HIDE DEF g
<1>4. Follow(s[j]) = g BY <1>1, <1>3, FollowUnique
<1> QED BY <1>4 DEF g

LEMMA NullFollow ==
    ASSUME MaxNodes \in Nat
    PROVE  Follow(Null) = [k \in 0 .. MaxNodes |-> Null]
<1> DEFINE g == [k \in 0 .. MaxNodes |-> Null]
<1>1. g = [k \in 0 .. MaxNodes |->
              IF k = 0 THEN Null ELSE IF g[k - 1] = Null THEN Null ELSE heap[g[k - 1]].next]
  <2>1. \A k \in 0 .. MaxNodes : k # 0 => k - 1 \in 0 .. MaxNodes OBVIOUS
  <2> QED BY <2>1
<1> HIDE DEF g
<1>2. Follow(Null) = g BY <1>1, FollowUnique
<1> QED BY <1>2 DEF g

(* The walk from the head meets every allocated node, once, and no other. *)
LEMMA HeadFollow ==
    ASSUME NEW n, NEW s, Chain(s, n)
    PROVE  Follow(dataHead) = [k \in 0 .. MaxNodes |-> IF k < n THEN s[k + 1] ELSE Null]
<1>1. MaxNodes \in Nat /\ n \in Nat BY ChainLength DEF Chain
<1>2. CASE n = 0
  <2>1. dataHead = Null BY <1>2 DEF Chain
  <2> QED BY <1>1, <1>2, <2>1, NullFollow
<1>3. CASE n # 0
  <2>1. dataHead = s[1] /\ 1 \in 1 .. n BY <1>1, <1>3 DEF Chain
  <2>2. Follow(s[1]) = [k \in 0 .. MaxNodes |-> IF 1 + k <= n THEN s[1 + k] ELSE Null]
    BY <2>1, ChainFollow
  <2>3. \A k \in 0 .. MaxNodes : (1 + k <= n <=> k < n) /\ 1 + k = k + 1 BY <1>1
  <2> QED BY <2>1, <2>2, <2>3
<1> QED BY <1>2, <1>3

LEMMA ChainOnList ==
    ASSUME NEW n, NEW s, Chain(s, n)
    PROVE  OnList = live /\ NamesOnList = {heap[m].name : m \in live}
<1>1. MaxNodes \in Nat /\ n \in Nat /\ n <= MaxNodes BY ChainLength DEF Chain
<1>2. Follow(dataHead) = [k \in 0 .. MaxNodes |-> IF k < n THEN s[k + 1] ELSE Null]
  BY HeadFollow
<1>3. live \subseteq OnList
  <2> SUFFICES ASSUME NEW i \in 1 .. n PROVE s[i] \in OnList BY DEF Chain
  <2>1. i - 1 \in 0 .. MaxNodes /\ i - 1 < n /\ (i - 1) + 1 = i BY <1>1
  <2>2. Follow(dataHead)[i - 1] = s[i] BY <1>2, <2>1
  <2>3. s[i] # Null BY CacheAssumption DEF Chain
  <2> QED BY <2>1, <2>2, <2>3 DEF OnList
<1>4. OnList \subseteq live
  <2> SUFFICES ASSUME NEW k \in 0 .. MaxNodes, Follow(dataHead)[k] # Null
               PROVE  Follow(dataHead)[k] \in live
    BY DEF OnList
  <2>1. k < n /\ Follow(dataHead)[k] = s[k + 1] BY <1>2
  <2>2. k + 1 \in 1 .. n BY <1>1, <2>1
  <2> QED BY <2>1, <2>2 DEF Chain
<1>5. OnList = live BY <1>3, <1>4
<1> QED BY <1>5 DEF NamesOnList

UniqueNames == \A m, k \in live : heap[m].name = heap[k].name => m = k

LEMMA ChainWellFormed ==
    ASSUME IsChain, UniqueNames
    PROVE  ListWellFormed
<1>1. PICK n \in Nat : \E s \in [1 .. n -> Node] : Chain(s, n) BY DEF IsChain
<1>2. PICK s \in [1 .. n -> Node] : Chain(s, n) BY <1>1
<1>3. MaxNodes \in Nat /\ n <= MaxNodes BY <1>2, ChainLength
<1>4. (dataHead = Null) <=> (dataTail = Null)
  BY <1>2, CacheAssumption DEF Chain
<1>5. OnList = live BY <1>2, ChainOnList
<1>6. dataTail # Null =>
          \E k \in 0 .. MaxNodes : Follow(dataHead)[k] = dataTail /\ heap[dataTail].next = Null
  <2> SUFFICES ASSUME dataTail # Null
               PROVE  \E k \in 0 .. MaxNodes :
                          Follow(dataHead)[k] = dataTail /\ heap[dataTail].next = Null
    OBVIOUS
  <2>1. n # 0 /\ n \in 1 .. n /\ dataTail = s[n] BY <1>2 DEF Chain
  <2>2. heap[dataTail].next = Null BY <1>2, <2>1 DEF Chain
  <2>3. n - 1 \in 0 .. MaxNodes /\ n - 1 < n /\ (n - 1) + 1 = n BY <1>3, <2>1
  <2>4. Follow(dataHead)[n - 1] = s[n] BY <1>2, <2>3, HeadFollow
  <2> QED BY <2>1, <2>2, <2>3, <2>4
<1> QED BY <1>4, <1>5, <1>6 DEF ListWellFormed, UniqueNames
-----------------------------------------------------------------------------
(* addData appends, delData removes a node that is the only one or not the    *)
(* last, and setValue does not touch the links.                               *)
LEMMA ChainAppend ==
    ASSUME NEW n, NEW s, Chain(s, n), NEW m \in Node \ live,
           live' = live \cup {m}, heap'[m].next = Null,
           \A k \in live : heap'[k].next = IF k = dataTail THEN m ELSE heap[k].next,
           dataHead' = IF dataHead = Null THEN m ELSE dataHead, dataTail' = m
    PROVE  \E r \in [1 .. n + 1 -> Node] :
               Chain(r, n + 1)' /\ \A i \in 1 .. n : i \in 1 .. n + 1 /\ r[i] = s[i]
<1> DEFINE r == [i \in 1 .. n + 1 |-> IF i <= n THEN s[i] ELSE m]
<1>1. /\ n \in Nat /\ s \in [1 .. n -> Node] /\ live = {s[i] : i \in 1 .. n}
      /\ \A i, j \in 1 .. n : s[i] = s[j] => i = j
      /\ \A i \in 1 .. n : heap[s[i]].next = IF i = n THEN Null ELSE s[i + 1]
      /\ dataHead = IF n = 0 THEN Null ELSE s[1]
      /\ dataTail = IF n = 0 THEN Null ELSE s[n]
  BY DEF Chain
<1>2. /\ r \in [1 .. n + 1 -> Node] /\ r[n + 1] = m
      /\ \A i \in 1 .. n : i \in 1 .. n + 1 /\ r[i] = s[i]
      /\ \A i \in 1 .. n + 1 : i \in 1 .. n \/ i = n + 1
  BY <1>1
<1> HIDE DEF r
<1>3. \A i \in 1 .. n : s[i] \in live BY <1>1
<1>4. live' = {r[i] : i \in 1 .. n + 1}
  <2>1. live' \subseteq {r[i] : i \in 1 .. n + 1}
    <3> SUFFICES ASSUME NEW k \in live' PROVE \E i \in 1 .. n + 1 : k = r[i] OBVIOUS
    <3>1. CASE k = m BY <1>1, <1>2, <3>1
    <3>2. CASE k \in live BY <1>1, <1>2, <3>2
    <3> QED BY <3>1, <3>2
  <2>2. \A i \in 1 .. n + 1 : r[i] \in live' BY <1>2, <1>3
  <2> QED BY <2>1, <2>2
<1>5. \A i, j \in 1 .. n + 1 : r[i] = r[j] => i = j BY <1>1, <1>2, <1>3
<1>6. ASSUME NEW i \in 1 .. n + 1
      PROVE  heap'[r[i]].next = IF i = n + 1 THEN Null ELSE r[i + 1]
  <2>1. CASE i = n + 1 BY <1>2, <2>1
  <2>2. CASE i = n /\ n # 0
    <3>1. i \in 1 .. n /\ r[i] = dataTail /\ r[i] \in live /\ i # n + 1 BY <1>1, <1>2, <1>3, <2>2
    <3> QED BY <1>2, <2>2, <3>1
  <2>3. CASE i \in 1 .. n /\ i # n
    <3>1. r[i] = s[i] /\ s[i] \in live /\ i + 1 \in 1 .. n /\ n \in 1 .. n /\ i # n + 1
      BY <1>1, <1>2, <1>3, <2>3
    <3>2. s[i] # dataTail BY <1>1, <2>3, <3>1
    <3> QED BY <1>1, <1>2, <2>3, <3>1, <3>2
  <2> QED BY <1>1, <2>1, <2>2, <2>3
<1>7. dataHead' = r[1]
  <2>1. CASE n = 0 BY <1>1, <1>2, <2>1
  <2>2. CASE n # 0
    <3>1. 1 \in 1 .. n BY <1>1, <2>2
    <3>2. dataHead # Null BY <1>1, <2>2, <3>1, CacheAssumption
    <3> QED BY <1>1, <1>2, <2>2, <3>1, <3>2
  <2> QED BY <2>1, <2>2
<1>8. n + 1 \in Nat /\ n + 1 # 0 BY <1>1
<1>9. Chain(r, n + 1)' BY <1>2, <1>4, <1>5, <1>6, <1>7, <1>8 DEF Chain
<1> QED BY <1>2, <1>9

LEMMA ChainRemove ==
    ASSUME NEW n, NEW s, Chain(s, n), NEW p \in 1 .. n, p < n \/ n = 1,
           live' = live \ {s[p]},
           \A q \in 1 .. n : q # p => heap'[s[q]].next =
                IF q + 1 = p THEN heap[s[p]].next ELSE heap[s[q]].next,
           dataHead' = IF n = 1 THEN Null ELSE IF p = 1 THEN s[2] ELSE s[1],
           dataTail' = IF n = 1 THEN Null ELSE s[n]
    PROVE  IsChain'
<1> DEFINE at(q) == IF q < p THEN q ELSE q + 1
           r == [q \in 1 .. n - 1 |-> s[at(q)]]
<1>1. /\ n \in Nat /\ s \in [1 .. n -> Node] /\ live = {s[i] : i \in 1 .. n}
      /\ \A i, j \in 1 .. n : s[i] = s[j] => i = j
      /\ \A i \in 1 .. n : heap[s[i]].next = IF i = n THEN Null ELSE s[i + 1]
  BY DEF Chain
<1>2. \A q \in 1 .. n - 1 : at(q) \in (1 .. n) \ {p} BY <1>1
<1>3. \A i, j \in 1 .. n - 1 : at(i) = at(j) => i = j BY <1>1
<1>4. \A i \in (1 .. n) \ {p} : \E q \in 1 .. n - 1 : at(q) = i
  <2> SUFFICES ASSUME NEW i \in (1 .. n) \ {p} PROVE \E q \in 1 .. n - 1 : at(q) = i OBVIOUS
  <2>1. CASE i < p
    <3>1. i \in 1 .. n - 1 /\ at(i) = i BY <1>1, <2>1
    <3> QED BY <3>1
  <2>2. CASE i > p
    <3>1. i - 1 \in 1 .. n - 1 /\ at(i - 1) = i BY <1>1, <2>2
    <3> QED BY <3>1
  <2> QED BY <2>1, <2>2
<1>5. ASSUME NEW q \in 1 .. n - 1
      PROVE  /\ q = n - 1 => at(q) = n \/ (at(q) + 1 = n /\ p = n)
             /\ q # n - 1 => q + 1 \in 1 .. n - 1
             /\ q # n - 1 /\ at(q) + 1 # p => at(q) # n /\ at(q + 1) = at(q) + 1
             /\ at(q) + 1 = p => (p # n => q # n - 1 /\ at(q + 1) = p + 1)
  <2>1. q \in Nat /\ p \in Nat /\ n \in Nat /\ q <= n - 1 /\ p <= n BY <1>1
  <2>2. CASE q < p
    <3>1. at(q) = q /\ (q + 1 < p => at(q + 1) = q + 1) /\ (q + 1 = p => at(q + 1) = q + 2)
      BY <2>1, <2>2
    <3> HIDE DEF at
    <3> QED BY <2>1, <2>2, <3>1
  <2>3. CASE ~(q < p)
    <3>1. at(q) = q + 1 /\ at(q + 1) = q + 2 BY <2>1, <2>3
    <3> HIDE DEF at
    <3> QED BY <2>1, <2>3, <3>1
  <2> QED BY <2>2, <2>3
<1>6. n - 1 \in Nat /\ (n - 1 = 0 <=> n = 1) BY <1>1
<1>7. n # 1 => /\ 1 \in 1 .. n - 1 /\ n - 1 \in 1 .. n - 1
               /\ at(1) = IF p = 1 THEN 2 ELSE 1
               /\ at(n - 1) = n
  BY <1>1
<1> HIDE DEF at
<1>8. r \in [1 .. n - 1 -> Node] BY <1>1, <1>2
<1>9. \A q \in 1 .. n - 1 : r[q] = s[at(q)] OBVIOUS
<1> HIDE DEF r
<1>10. live' = {r[q] : q \in 1 .. n - 1}
  <2>1. ASSUME NEW k \in live' PROVE \E q \in 1 .. n - 1 : k = r[q]
    <3>1. PICK i \in (1 .. n) \ {p} : k = s[i] BY <1>1, <2>1
    <3> QED BY <1>4, <1>9, <3>1
  <2>2. ASSUME NEW q \in 1 .. n - 1 PROVE r[q] \in live'
    BY <1>1, <1>2, <1>9
  <2> QED BY <2>1, <2>2
<1>11. \A i, j \in 1 .. n - 1 : r[i] = r[j] => i = j BY <1>1, <1>2, <1>3, <1>9
<1>12. ASSUME NEW q \in 1 .. n - 1
       PROVE  heap'[r[q]].next = IF q = n - 1 THEN Null ELSE r[q + 1]
  <2>1. p # n BY <1>1
  <2>2. at(q) \in 1 .. n /\ at(q) # p /\ r[q] = s[at(q)] BY <1>2, <1>9
  <2>3. CASE at(q) + 1 = p
    <3>1. heap'[r[q]].next = heap[s[p]].next BY <2>2, <2>3
    <3>2. heap[s[p]].next = s[p + 1] BY <1>1, <2>1
    <3>3. q # n - 1 /\ q + 1 \in 1 .. n - 1 /\ at(q + 1) = p + 1 BY <1>5, <2>1, <2>3
    <3> QED BY <1>9, <3>1, <3>2, <3>3
  <2>4. CASE at(q) + 1 # p
    <3>1. heap'[r[q]].next = heap[s[at(q)]].next BY <2>2, <2>4
    <3>2. CASE q = n - 1
      <4>1. at(q) = n BY <1>5, <2>1, <3>2
      <4> QED BY <1>1, <2>2, <3>1, <3>2, <4>1
    <3>3. CASE q # n - 1
      <4>1. at(q) # n /\ at(q + 1) = at(q) + 1 /\ q + 1 \in 1 .. n - 1 BY <1>5, <2>4, <3>3
      <4>2. heap[s[at(q)]].next = s[at(q) + 1] BY <1>1, <2>2, <4>1
      <4> QED BY <1>9, <3>1, <3>3, <4>1, <4>2
    <3> QED BY <3>2, <3>3
  <2> QED BY <2>3, <2>4
<1>13. dataHead' = (IF n - 1 = 0 THEN Null ELSE r[1]) BY <1>6, <1>7, <1>9
<1>14. dataTail' = (IF n - 1 = 0 THEN Null ELSE r[n - 1]) BY <1>6, <1>7, <1>9
<1>15. Chain(r, n - 1)' BY <1>6, <1>8, <1>10, <1>11, <1>12, <1>13, <1>14 DEF Chain
<1> QED BY <1>6, <1>8, <1>15 DEF IsChain

LEMMA ChainStays ==
    ASSUME IsChain, live' = live, \A m \in live : heap'[m].next = heap[m].next,
           UNCHANGED << dataHead, dataTail >>
    PROVE  IsChain'
<1>1. PICK n \in Nat : \E s \in [1 .. n -> Node] : Chain(s, n) BY DEF IsChain
<1>2. PICK s \in [1 .. n -> Node] : Chain(s, n) BY <1>1
<1>3. \A i \in 1 .. n : s[i] \in live BY <1>2 DEF Chain
<1>4. Chain(s, n)' BY <1>2, <1>3 DEF Chain
<1> QED BY <1>4 DEF IsChain

(* d is where the search of delData for nm stops that started at the j-th node. *)
Stop(d, s, n, j, nm) ==
    \/ d = Null /\ \A i \in j .. n : heap[s[i]].name # nm
    \/ d = s[j] /\ heap[s[j]].name = nm
    \/ \E i \in j .. n - 1 : d = s[i] /\ heap[s[i + 1]].name = nm

LEMMA SearchFacts ==
    ASSUME NEW n, NEW s, Chain(s, n), NEW j \in 1 .. n, NEW nm
    PROVE  Stop(DelSearch(s[j], nm), s, n, j, nm)
<1> DEFINE nth == Follow(s[j])
           before == {k \in 0 .. MaxNodes - 1 : nth[k + 1] # Null /\ heap[nth[k + 1]].name = nm}
<1>1. n \in Nat /\ MaxNodes \in Nat /\ n <= MaxNodes /\ j \in Nat
  <2>1. n \in Nat BY DEF Chain
  <2> QED BY <2>1, ChainLength
<1>2. nth = [k \in 0 .. MaxNodes |-> IF j + k <= n THEN s[j + k] ELSE Null] BY ChainFollow
<1>3. DelSearch(s[j], nm) = IF heap[s[j]].name = nm THEN s[j]
                            ELSE IF before = {} THEN Null
                            ELSE nth[CHOOSE k \in before : \A i \in before : k <= i]
  BY DEF DelSearch
<1> HIDE DEF nth
<1>4. ASSUME NEW k \in before
      PROVE  /\ k \in 0 .. MaxNodes /\ j + k \in j .. n - 1
             /\ nth[k] = s[j + k] /\ heap[s[(j + k) + 1]].name = nm
  <2>1. k \in 0 .. MaxNodes - 1 /\ k + 1 \in 0 .. MaxNodes /\ nth[k + 1] # Null
    BY <1>1
  <2>2. j + (k + 1) <= n /\ nth[k + 1] = s[j + (k + 1)] BY <1>2, <2>1
  <2>3. j + (k + 1) = (j + k) + 1 BY <1>1, <2>1
  <2>4. j + k <= n /\ j + k \in j .. n - 1 /\ k \in 0 .. MaxNodes BY <1>1, <2>1, <2>2
  <2> QED BY <1>2, <1>4, <2>2, <2>3, <2>4
<1>5. CASE heap[s[j]].name = nm BY <1>3, <1>5 DEF Stop
<1>6. CASE heap[s[j]].name # nm /\ before = {}
  <2>1. ASSUME NEW i \in j .. n PROVE heap[s[i]].name # nm
    <3>1. CASE i = j BY <1>6, <3>1
    <3>2. CASE i # j
      <4>1. /\ i - j - 1 \in 0 .. MaxNodes - 1 /\ (i - j - 1) + 1 \in 0 .. MaxNodes
            /\ j + ((i - j - 1) + 1) = i
        BY <1>1, <3>2
      <4>2. nth[(i - j - 1) + 1] = s[i] BY <1>2, <4>1
      <4>3. s[i] # Null
        <5>1. i \in 1 .. n BY <1>1
        <5> QED BY <5>1, CacheAssumption DEF Chain
      <4>4. i - j - 1 \notin before BY <1>6
      <4> QED BY <4>1, <4>2, <4>3, <4>4
    <3> QED BY <3>1, <3>2
  <2> QED BY <1>3, <1>6, <2>1 DEF Stop
<1>7. CASE heap[s[j]].name # nm /\ before # {}
  <2>1. before \in SUBSET Nat BY <1>1
  <2> HIDE DEF before
  <2>2. \E k \in before : \A i \in before : k <= i BY <1>7, <2>1, LeastNumber
  <2> DEFINE first == CHOOSE k \in before : \A i \in before : k <= i
  <2>3. first \in before BY <2>2
  <2>4. DelSearch(s[j], nm) = nth[first] BY <1>3, <1>7
  <2> HIDE DEF first
  <2>5. /\ j + first \in j .. n - 1 /\ nth[first] = s[j + first]
        /\ heap[s[(j + first) + 1]].name = nm
    BY <1>4, <2>3
  <2> QED BY <2>4, <2>5 DEF Stop
<1> QED BY <1>5, <1>6, <1>7
-----------------------------------------------------------------------------
(* What is true of the list and its nodes until somebody reads through a      *)
(* null pointer or a freed node.                                              *)
HeapTypes ==
    \A m \in live : heap[m] \in [name : Name, value : Value, next : Node \cup {Null}]

HeapInv == /\ IsChain /\ UniqueNames /\ HeapTypes
           /\ DOMAIN seen = live /\ missed \subseteq live

LEMMA HeapStays ==
    ASSUME HeapInv, UNCHANGED list, DOMAIN seen' = DOMAIN seen, missed' \subseteq live
    PROVE  HeapInv'
<1>1. live' = live /\ heap' = heap /\ dataHead' = dataHead /\ dataTail' = dataTail
  BY DEF list, live
<1>2. IsChain' BY <1>1, ChainStays DEF HeapInv
<1>3. UniqueNames' BY <1>1 DEF HeapInv, UniqueNames
<1>4. HeapTypes' BY <1>1 DEF HeapInv, HeapTypes
<1> QED BY <1>1, <1>2, <1>3, <1>4 DEF HeapInv

(* The two outcomes of addData. *)
LEMMA AddHeap ==
    ASSUME HeapInv, NEW t \in Thread, Add(t), call[t].name \in Name, call[t].value \in Value
    PROVE  HeapInv'
<1> DEFINE c == call[t]
<1>1. PICK n \in Nat : \E s \in [1 .. n -> Node] : Chain(s, n) BY DEF HeapInv, IsChain
<1>2. PICK s \in [1 .. n -> Node] : Chain(s, n) BY <1>1
<1>3. OnList = live BY <1>2, ChainOnList
<1>4. CASE UNCHANGED << list, history >>
  BY <1>4, HeapStays DEF history, HeapInv
<1>5. ASSUME \A m \in OnList : heap[m].name # c.name, NEW m \in Node \ live,
             heap' = [k \in live \cup {m} |->
                        IF k = m THEN [name |-> c.name, value |-> c.value, next |-> Null]
                        ELSE IF dataHead # Null /\ k = dataTail THEN [heap[k] EXCEPT !.next = m]
                        ELSE heap[k]],
             dataHead' = IF dataHead = Null THEN m ELSE dataHead,
             dataTail' = m,
             seen' = [k \in live \cup {m} |-> IF k = m THEN c.value ELSE seen[k]],
             missed' = missed
      PROVE  HeapInv'
  <2>1. live' = live \cup {m} BY <1>5 DEF live
  <2>2. /\ heap'[m] = [name |-> c.name, value |-> c.value, next |-> Null]
        /\ \A k \in live : /\ k # dataTail => heap'[k] = heap[k]
                           /\ k = dataTail => heap'[k] = [heap[k] EXCEPT !.next = m]
    <3>1. \A k \in live : k # m BY <1>5
    <3>2. dataHead = Null => live = {} BY <1>2, CacheAssumption DEF Chain
    <3> QED BY <1>5, <3>1, <3>2
  <2>3. \A k \in live : /\ heap[k] \in [name : Name, value : Value, next : Node \cup {Null}]
                        /\ heap'[k].next = IF k = dataTail THEN m ELSE heap[k].next
                        /\ heap'[k].name = heap[k].name
                        /\ heap'[k] \in [name : Name, value : Value, next : Node \cup {Null}]
    BY <1>5, <2>2 DEF HeapInv, HeapTypes
  <2>4. heap'[m].next = Null /\ heap'[m].name = c.name BY <2>2
  <2>5. IsChain'
    <3>1. \E r \in [1 .. n + 1 -> Node] : Chain(r, n + 1)'
      BY <1>2, <1>5, <2>1, <2>3, <2>4, ChainAppend
    <3>2. n + 1 \in Nat OBVIOUS
    <3> QED BY <3>1, <3>2 DEF IsChain
  <2>6. UniqueNames' BY <1>3, <1>5, <2>1, <2>3, <2>4 DEF HeapInv, UniqueNames
  <2>7. HeapTypes' BY <2>1, <2>2, <2>3 DEF HeapTypes
  <2>8. DOMAIN seen' = live' /\ missed' \subseteq live' BY <1>5, <2>1 DEF HeapInv
  <2> QED BY <2>5, <2>6, <2>7, <2>8 DEF HeapInv
<1> QED BY <1>4, <1>5 DEF Add

(* The p-th node is unlinked: it is not the last of two or more. *)
Removed(u, s, n, p) ==
    /\ p < n \/ n = 1
    /\ u.gone = s[p]
    /\ u.head = IF n = 1 THEN Null ELSE IF p = 1 THEN s[2] ELSE s[1]
    /\ u.tail = IF n = 1 THEN Null ELSE s[n]
    /\ \A q \in 1 .. n :
          u.heap[s[q]] = IF q + 1 = p THEN [heap[s[q]] EXCEPT !.next = heap[s[p]].next]
                                      ELSE heap[s[q]]

(* What delData removes when it does not fault. *)
LEMMA UnlinkedFacts ==
    ASSUME NEW n, NEW s, Chain(s, n), NEW i \in 1 .. n, s[i] = dataHead \/ heap[s[i]].next # Null,
           Unlinked(s[i]).gone # Null
    PROVE  \E p \in 1 .. n : /\ p = (IF i = 1 THEN 1 ELSE i + 1)
                             /\ Removed(Unlinked(s[i]), s, n, p)
<1>1. /\ n \in Nat /\ n # 0 /\ s \in [1 .. n -> Node] /\ live = {s[k] : k \in 1 .. n}
      /\ \A k, j \in 1 .. n : s[k] = s[j] => k = j
      /\ \A k \in 1 .. n : heap[s[k]].next = IF k = n THEN Null ELSE s[k + 1]
      /\ dataHead = s[1] /\ dataTail = s[n] /\ 1 \in 1 .. n /\ n \in 1 .. n
  BY DEF Chain
<1>2. CASE i = 1
  <2>1. CASE n = 1
    <3>1. Unlinked(s[i]) = [gone |-> s[1], head |-> Null, tail |-> Null, heap |-> heap]
      BY <1>1, <1>2, <2>1 DEF Unlinked
    <3>2. Removed(Unlinked(s[i]), s, n, 1) BY <1>1, <2>1, <3>1 DEF Removed
    <3> QED BY <1>1, <1>2, <3>2
  <2>2. CASE n # 1
    <3>1. dataHead # dataTail /\ heap[s[1]].next = s[2] BY <1>1, <2>2
    <3>2. Unlinked(s[i]) = [gone |-> s[1], head |-> s[2], tail |-> s[n], heap |-> heap]
      BY <1>1, <1>2, <3>1 DEF Unlinked
    <3>3. 1 < n /\ \A q \in 1 .. n : q + 1 # 1 BY <1>1, <2>2
    <3>4. Removed(Unlinked(s[i]), s, n, 1) BY <1>1, <2>2, <3>2, <3>3 DEF Removed
    <3> QED BY <1>1, <1>2, <3>4
  <2> QED BY <2>1, <2>2
<1>3. CASE i # 1
  <2>1. s[i] # dataHead /\ i # n /\ i + 1 \in 1 .. n /\ heap[s[i]].next = s[i + 1]
    BY <1>1, <1>3
  <2>2. s[i + 1] # dataTail BY <2>1 DEF Unlinked
  <2>3. i + 1 < n BY <1>1, <2>1, <2>2
  <2>4. Unlinked(s[i]) = [gone |-> s[i + 1], head |-> s[1], tail |-> s[n],
                          heap |-> [heap EXCEPT ![s[i]].next = heap[s[i + 1]].next]]
    BY <1>1, <2>1, <2>2 DEF Unlinked
  <2>5. ASSUME NEW q \in 1 .. n
        PROVE  Unlinked(s[i]).heap[s[q]] =
                  IF q + 1 = i + 1 THEN [heap[s[q]] EXCEPT !.next = heap[s[i + 1]].next]
                                   ELSE heap[s[q]]
    <3>1. s[q] \in live /\ (s[q] = s[i] <=> q + 1 = i + 1) BY <1>1
    <3> QED BY <2>4, <3>1 DEF live
  <2>6. i + 1 # 1 /\ n # 1 /\ ~(i + 1 = 1) BY <1>1, <1>3
  <2>7. /\ Unlinked(s[i]).gone = s[i + 1]
        /\ Unlinked(s[i]).head = IF n = 1 THEN Null ELSE IF i + 1 = 1 THEN s[2] ELSE s[1]
        /\ Unlinked(s[i]).tail = IF n = 1 THEN Null ELSE s[n]
    BY <2>4, <2>6
  <2>8. Removed(Unlinked(s[i]), s, n, i + 1) BY <2>1, <2>3, <2>5, <2>7 DEF Removed
  <2> QED BY <1>3, <2>1, <2>8
<1> QED BY <1>2, <1>3

LEMMA DelHeap ==
    ASSUME HeapInv, NEW t \in Thread, Del(t), ~fault'
    PROVE  HeapInv'
<1> DEFINE c == call[t]
           data == DelSearch(c.data, c.name)
           r == Unlinked(data)
<1>1. PICK n \in Nat : \E s \in [1 .. n -> Node] : Chain(s, n) BY DEF HeapInv, IsChain
<1>2. PICK s \in [1 .. n -> Node] : Chain(s, n) BY <1>1
<1>3. CASE UNCHANGED << list, history >>
  BY <1>3, HeapStays DEF history, HeapInv
<1>4. ASSUME c.data \in live, data # Null, data = dataHead \/ heap[data].next # Null,
             dataHead' = r.head, dataTail' = r.tail,
             heap' = [m \in live \ {r.gone} |-> r.heap[m]],
             seen' = [m \in live \ {r.gone} |-> seen[m]], missed' = missed \ {r.gone},
             r.gone # Null
      PROVE  HeapInv'
  <2>1. PICK j \in 1 .. n : c.data = s[j] BY <1>2, <1>4 DEF Chain
  <2>2. PICK i \in 1 .. n : data = s[i]
    <3>1. \A i \in j .. n - 1 : i \in 1 .. n OBVIOUS
    <3>2. Stop(data, s, n, j, c.name) BY <1>2, <2>1, SearchFacts
    <3>3. data \in {s[j]} \cup {s[i] : i \in j .. n - 1} BY <1>4, <3>2 DEF Stop
    <3> HIDE DEF data
    <3> QED BY <3>1, <3>3
  <2> HIDE DEF data
  <2>3. PICK p \in 1 .. n : Removed(r, s, n, p)
    <3>1. /\ s[i] = dataHead \/ heap[s[i]].next # Null
          /\ Unlinked(s[i]).gone # Null /\ r = Unlinked(s[i])
      BY <1>4, <2>2
    <3> HIDE DEF r
    <3>2. \E p \in 1 .. n : Removed(Unlinked(s[i]), s, n, p) BY <1>2, <3>1, UnlinkedFacts
    <3> QED BY <3>1, <3>2
  <2> HIDE DEF r
  <2>4. live' = live \ {s[p]} BY <1>4, <2>3 DEF live, Removed
  <2>5. ASSUME NEW q \in 1 .. n, q # p
        PROVE  /\ s[q] \in live /\ s[q] \in live'
               /\ heap'[s[q]] = IF q + 1 = p THEN [heap[s[q]] EXCEPT !.next = heap[s[p]].next]
                                             ELSE heap[s[q]]
    <3>1. s[q] \in live /\ s[q] # s[p] BY <1>2, <2>5 DEF Chain
    <3> QED BY <1>4, <2>3, <2>4, <3>1 DEF Removed
  <2>6. s[p] \in live /\ heap[s[p]].next \in Node \cup {Null}
    BY <1>2 DEF Chain, HeapInv, HeapTypes
  <2>7. ASSUME NEW q \in 1 .. n, q # p
        PROVE  /\ heap'[s[q]].name = heap[s[q]].name
               /\ heap'[s[q]].next = IF q + 1 = p THEN heap[s[p]].next ELSE heap[s[q]].next
               /\ heap'[s[q]] \in [name : Name, value : Value, next : Node \cup {Null}]
    <3>1. heap[s[q]] \in [name : Name, value : Value, next : Node \cup {Null}]
      BY <2>5, <2>7 DEF HeapInv, HeapTypes
    <3> QED BY <2>5, <2>6, <2>7, <3>1
  <2>8. \A m \in live' : \E q \in 1 .. n : q # p /\ m = s[q] BY <1>2, <2>4 DEF Chain
  <2>9. IsChain'
    <3>1. /\ dataHead' = IF n = 1 THEN Null ELSE IF p = 1 THEN s[2] ELSE s[1]
          /\ dataTail' = IF n = 1 THEN Null ELSE s[n]
      BY <1>4, <2>3 DEF Removed
    <3>2. \A q \in 1 .. n : q # p => heap'[s[q]].next =
                IF q + 1 = p THEN heap[s[p]].next ELSE heap[s[q]].next
      BY <2>7
    <3>3. p < n \/ n = 1 BY <2>3 DEF Removed
    <3> QED BY <1>2, <2>4, <3>1, <3>2, <3>3, ChainRemove
  <2>10. UniqueNames'
    <3> SUFFICES ASSUME NEW m \in live', NEW k \in live', heap'[m].name = heap'[k].name
                 PROVE  m = k
      BY DEF UniqueNames
    <3>1. m \in live /\ k \in live BY <2>4
    <3>2. heap'[m].name = heap[m].name /\ heap'[k].name = heap[k].name BY <2>7, <2>8
    <3> QED BY <3>1, <3>2 DEF HeapInv, UniqueNames
  <2>11. HeapTypes' BY <2>7, <2>8 DEF HeapTypes
  <2>12. DOMAIN seen' = live' /\ missed' \subseteq live' BY <1>4 DEF HeapInv, live
  <2> QED BY <2>9, <2>10, <2>11, <2>12 DEF HeapInv
<1> QED BY <1>3, <1>4 DEF Del, Fault

LEMMA WriteHeap ==
    ASSUME HeapInv, NEW t \in Thread, SetWrite(t), ~fault',
           call[t].value \in Value, call[t].i \in 1 .. Words
    PROVE  HeapInv'
<1> DEFINE c == call[t]
<1>1. /\ c.data \in live /\ heap' = [heap EXCEPT ![c.data].value[c.i] = c.value[c.i]]
      /\ UNCHANGED << dataHead, dataTail, seen, missed >>
  BY DEF SetWrite, Fault, history
<1>2. live' = live BY <1>1 DEF live
<1>3. ASSUME NEW m \in live
      PROVE  /\ heap'[m].next = heap[m].next /\ heap'[m].name = heap[m].name
             /\ heap'[m] \in [name : Name, value : Value, next : Node \cup {Null}]
  <2>1. heap[m] \in [name : Name, value : Value, next : Node \cup {Null}]
    BY DEF HeapInv, HeapTypes
  <2>2. c.value[c.i] \in Word BY DEF Value
  <2>3. CASE m = c.data
    <3>1. heap'[m] = [heap[m] EXCEPT !.value[c.i] = c.value[c.i]] BY <1>1, <2>3 DEF live
    <3>2. [heap[m].value EXCEPT ![c.i] = c.value[c.i]] \in Value BY <2>1, <2>2 DEF Value
    <3> QED BY <2>1, <3>1, <3>2
  <2>4. CASE m # c.data
    <3>1. heap'[m] = heap[m] BY <1>1, <2>4
    <3> QED BY <2>1, <3>1
  <2> QED BY <2>3, <2>4
<1>4. IsChain' BY <1>1, <1>2, <1>3, ChainStays DEF HeapInv
<1>5. UniqueNames' BY <1>2, <1>3 DEF HeapInv, UniqueNames
<1>6. HeapTypes' BY <1>2, <1>3 DEF HeapTypes
<1> QED BY <1>1, <1>2, <1>4, <1>5, <1>6 DEF HeapInv
-----------------------------------------------------------------------------
(* The locals of a call, by the place it is at. *)
Places == {"idle", "add", "size"} \cup DelPlaces \cup Reading

Locals(c) ==
    /\ "at" \in DOMAIN c /\ c.at \in Places
    /\ c.at = "idle" => c = Idle
    /\ c.at = "add" => c.name \in Name /\ c.value \in Value
    /\ c.at \in DelPlaces => /\ {"name", "data"} \subseteq DOMAIN c
                             /\ c.name \in Name /\ c.data \in Node \cup {Null}
    /\ c.at \in Reading => /\ {"op", "name", "value", "data", "i", "changed"} \subseteq DOMAIN c
                           /\ c.op \in {"get", "set"} /\ (c.op = "set" => c.value \in Value)
                           /\ (c.at = "get" => c.op = "get")
                           /\ (c.at \in {"set", "write", "notify"} => c.op = "set")
                           /\ c.i \in 1 .. Words + 1 /\ (c.at = "write" => c.i <= Words)
    /\ c.at = "size" => /\ {"data", "length", "atStart"} \subseteq DOMAIN c
                        /\ c.length \in Nat /\ c.atStart \in Nat

IsCalls == call = [t \in Thread |-> call[t]]
CallInv == \A t \in Thread : Locals(call[t])

(* c with some fields set, as Goto does it. *)
Updated(c, l) == [f \in DOMAIN l \cup DOMAIN c |-> IF f \in DOMAIN l THEN l[f] ELSE c[f]]

LEMMA GotoFacts ==
    ASSUME IsCalls, NEW t \in Thread, NEW l, Goto(t, l)
    PROVE  /\ IsCalls' /\ call'[t] = Updated(call[t], l)
           /\ \A u \in Thread \ {t} : call'[u] = call[u]
<1>1. call' = [call EXCEPT ![t] = Updated(call[t], l)] BY DEF Goto, Updated
<1> QED BY <1>1 DEF IsCalls

LEMMA ReturnFacts ==
    ASSUME IsCalls, NEW t \in Thread, Return(t)
    PROVE  /\ IsCalls' /\ call'[t] = Idle
           /\ \A u \in Thread \ {t} : call'[u] = call[u]
BY DEF IsCalls, Return

LEMMA IdleLocals == Locals(Idle)
BY DEF Locals, Idle, Places, Reading, DelPlaces

LEMMA ReturnCalls ==
    ASSUME IsCalls, CallInv, NEW t \in Thread, Return(t)
    PROVE  IsCalls' /\ CallInv'
BY ReturnFacts, IdleLocals DEF CallInv

LEMMA GotoCalls ==
    ASSUME IsCalls, CallInv, NEW t \in Thread, NEW l, Goto(t, l), Locals(Updated(call[t], l))
    PROVE  IsCalls' /\ CallInv'
BY GotoFacts DEF CallInv

LEMMA SameCalls ==
    ASSUME IsCalls, CallInv, UNCHANGED call
    PROVE  IsCalls' /\ CallInv'
BY DEF IsCalls, CallInv

LockOK(m) == m \in Mutex(Thread) /\ (m.owner = NoThread <=> m.hold = 0)

LEMMA LockKept ==
    ASSUME NEW m, LockOK(m), NEW t \in Thread
    PROVE  LockOK(MutexTake(m, t)) /\ LockOK(MutexRelease(m, t))
<1>1. /\ m \in Mutex(Thread) /\ (m.owner = NoThread <=> m.hold = 0)
      /\ m.waiting \in Seq(Thread) /\ m.hold \in Nat /\ m.owner \in Thread \cup {NoThread}
      /\ m = [owner |-> m.owner, hold |-> m.hold, waiting |-> m.waiting]
  BY DEF LockOK, Mutex
<1>2. t # NoThread BY CacheAssumption
<1>3. MutexTake(m, t) \in Mutex(Thread) /\ MutexRelease(m, t) \in Mutex(Thread)
  BY <1>1, MutexTakeFacts, MutexReleaseFacts
<1>4. MutexTake(m, t).owner = NoThread <=> MutexTake(m, t).hold = 0
  BY <1>1, <1>2 DEF MutexTake
<1>5. MutexRelease(m, t).owner = NoThread <=> MutexRelease(m, t).hold = 0
  <2>1. m.waiting # << >> => Head(m.waiting) \in Thread BY <1>1, TailSet
  <2>2. Head(m.waiting) = NoThread => m.waiting = << >> BY <2>1, CacheAssumption
  <2> QED BY <1>1, <1>2, <2>2 DEF MutexRelease, FreeMutex
<1> QED BY <1>3, <1>4, <1>5 DEF LockOK
LEMMA ListTypes ==
    ASSUME HeapInv
    PROVE  live \subseteq Node /\ dataHead \in Node \cup {Null} /\ dataTail \in Node \cup {Null}
<1>1. PICK n \in Nat : \E s \in [1 .. n -> Node] : Chain(s, n) BY DEF HeapInv, IsChain
<1>2. PICK s \in [1 .. n -> Node] : Chain(s, n) BY <1>1
<1> QED BY <1>2 DEF Chain

LEMMA SameHeap ==
    ASSUME HeapInv, UNCHANGED << list, seen, missed >>
    PROVE  HeapInv'
BY HeapStays DEF HeapInv

(* What holds in every state, also after a read through a bad pointer. *)
Steady == /\ LockOK(userLock) /\ IsCalls
          /\ fault \in BOOLEAN /\ struck \in BOOLEAN /\ shrunk \subseteq Thread

LEMMA InitSteady ==
    ASSUME Init
    PROVE  Steady
<1>1. LockOK(userLock)
  <2>1. << >> \in Seq(Thread) OBVIOUS
  <2> QED BY <2>1 DEF Init, LockOK, FreeMutex, Mutex
<1> QED BY <1>1 DEF Init, Steady, IsCalls

LEMMA FaultFacts ==
    ASSUME IsCalls, NEW t \in Thread, Fault(t)
    PROVE  IsCalls' /\ fault'
BY ReturnFacts DEF Fault

LEMMA DelHistory ==
    ASSUME NEW t \in Thread, Del(t), struck \in BOOLEAN, shrunk \subseteq Thread
    PROVE  struck' \in BOOLEAN /\ (struck => struck') /\ shrunk' \subseteq Thread
<1> DEFINE cause == Unlinked(DelSearch(call[t].data, call[t].name)).gone = Null
           awaited == Awaited(Unlinked(DelSearch(call[t].data, call[t].name)).gone, t)
<1>1. \/ UNCHANGED history
      \/ /\ struck' = (struck \/ cause \/ awaited)
         /\ shrunk' = {u \in Thread : call[u].at = "size"}
  BY DEF Del
<1> HIDE DEF cause, awaited
<1> QED BY <1>1 DEF history

LEMMA AddHistory ==
    ASSUME NEW t \in Thread, Add(t), struck \in BOOLEAN, shrunk \subseteq Thread
    PROVE  struck' \in BOOLEAN /\ (struck => struck') /\ shrunk' \subseteq Thread
<1> DEFINE cause == dataHead = Null /\ FoundNull
<1>1. UNCHANGED history \/ (struck' = (struck \/ cause) /\ shrunk' = shrunk)
  BY DEF Add
<1> HIDE DEF cause
<1> QED BY <1>1 DEF history

LEMMA StepSteady ==
    ASSUME Steady, NEW t \in Thread, Step(t)
    PROVE  Steady' /\ (struck => struck')
<1> USE DEF Steady
<1>1. CASE Add(t)
  <2>1. LockOK(userLock)' /\ IsCalls' /\ fault' \in BOOLEAN
    BY <1>1, LockKept, ReturnFacts DEF Add
  <2> QED BY <1>1, <2>1, AddHistory
<1>2. CASE DelLock(t) BY <1>2, LockKept, GotoFacts DEF DelLock, history
<1>3. CASE Del(t)
  <2>1. LockOK(userLock)' /\ IsCalls' /\ fault' \in BOOLEAN
    BY <1>3, LockKept, ReturnFacts, FaultFacts DEF Del, Fault
  <2> QED BY <1>3, <2>1, DelHistory
<1>4. CASE HasHead(t) BY <1>4, ReturnFacts, GotoFacts DEF HasHead, history
<1>5. CASE Search(t) BY <1>5, ReturnFacts, FaultFacts, GotoFacts DEF Search, Fault, history
<1>6. CASE GetWord(t) BY <1>6, ReturnFacts, FaultFacts, GotoFacts DEF GetWord, Fault, history
<1>7. CASE SetCompare(t) BY <1>7, FaultFacts, GotoFacts DEF SetCompare, Fault, history
<1>8. CASE SetWrite(t) BY <1>8, FaultFacts, GotoFacts DEF SetWrite, Fault, history
<1>9. CASE SetNotify(t) BY <1>9, FaultFacts, ReturnFacts DEF SetNotify, Fault
<1>10. CASE SizeNext(t) BY <1>10, FaultFacts, GotoFacts DEF SizeNext, Fault, history
<1>11. CASE SizeReturn(t) BY <1>11, ReturnFacts DEF SizeReturn, history
<1> QED BY <1>1, <1>2, <1>3, <1>4, <1>5, <1>6, <1>7, <1>8, <1>9, <1>10, <1>11 DEF Step

LEMMA NextSteady ==
    ASSUME Steady, [Next]_vars
    PROVE  Steady' /\ (fault => fault') /\ (struck => struck')
<1> USE DEF Steady
<1> DEFINE P == Steady' /\ (struck => struck')
<1>1. CASE UNCHANGED vars BY <1>1 DEF vars, IsCalls, history
<1>2. ASSUME NEW t \in Thread, Step(t) PROVE P BY <1>2, StepSteady
<1>3. ASSUME NEW t \in Adders, NEW nm \in Name, NEW v \in Value, AddCall(t, nm, v) PROVE P
  <2>1. t \in Thread BY DEF Thread
  <2> QED BY <1>3, <2>1, LockKept, GotoFacts DEF AddCall, history
<1>4. ASSUME NEW t \in Deleters, NEW nm \in Name, DelCall(t, nm) PROVE P
  <2>1. t \in Thread BY DEF Thread
  <2> QED BY <1>4, <2>1, GotoFacts DEF DelCall, history
<1>5. ASSUME NEW t \in Getters \cup Setters, NEW op, NEW nm \in Name, NEW v,
             HasCall(t, op, nm, v)
      PROVE  P
  <2>1. t \in Thread BY DEF Thread
  <2> QED BY <1>5, <2>1, GotoFacts DEF HasCall, history
<1>6. ASSUME NEW t \in Sizers, SizeCall(t) PROVE P
  <2>1. t \in Thread BY DEF Thread
  <2> QED BY <1>6, <2>1, GotoFacts DEF SizeCall
<1>7. ASSUME ListenerStart PROVE P BY <1>7 DEF ListenerStart, IsCalls
<1>8. ASSUME NEW k \in Task, ListenerFinish(k) PROVE P
  BY <1>8 DEF ListenerFinish, IsCalls, history
<1> HIDE DEF P
<1>9. Next => P /\ ~fault BY <1>2, <1>3, <1>4, <1>5, <1>6, <1>7, <1>8 DEF Next
<1> QED BY <1>1, <1>9 DEF P
-----------------------------------------------------------------------------
(* The list and the locals after each step that does not fault. *)
Sound == HeapInv /\ CallInv

LEMMA AddSound ==
    ASSUME IsCalls, Sound, NEW t \in Thread, Add(t)
    PROVE  Sound'
<1>1. call[t].name \in Name /\ call[t].value \in Value BY DEF Sound, CallInv, Locals, Add, At
<1>2. HeapInv' BY <1>1, AddHeap DEF Sound
<1>3. CallInv' BY ReturnCalls DEF Add, Sound
<1> QED BY <1>2, <1>3 DEF Sound

LEMMA DelLockSound ==
    ASSUME IsCalls, Sound, NEW t \in Thread, DelLock(t)
    PROVE  Sound'
<1>1. HeapInv' BY SameHeap DEF Sound, DelLock, history
<1>2. Locals(call[t]) /\ call[t].at = "delLock" BY DEF Sound, CallInv, DelLock, At
<1>3. Locals(Updated(call[t], [at |-> "delDo"]))
  BY <1>2 DEF Locals, Updated, Places, Reading, DelPlaces
<1>4. CallInv' BY <1>3, GotoCalls DEF DelLock, Sound
<1> QED BY <1>1, <1>4 DEF Sound

LEMMA DelSound ==
    ASSUME IsCalls, Sound, NEW t \in Thread, Del(t), ~fault'
    PROVE  Sound'
<1>1. HeapInv' BY DelHeap DEF Sound
<1>2. CallInv' BY ReturnCalls DEF Del, Fault, Sound
<1> QED BY <1>1, <1>2 DEF Sound

LEMMA HasHeadSound ==
    ASSUME IsCalls, Sound, NEW t \in Thread, HasHead(t)
    PROVE  Sound'
<1>1. HeapInv' BY SameHeap DEF Sound, HasHead, history
<1>2. Locals(call[t]) /\ call[t].at = "has" BY DEF Sound, CallInv, HasHead, At
<1>3. Locals(Updated(call[t], [at |-> "search"]))
  BY <1>2 DEF Locals, Updated, Places, Reading, DelPlaces
<1>4. CallInv' BY <1>3, GotoCalls, ReturnCalls DEF HasHead, Sound
<1> QED BY <1>1, <1>4 DEF Sound

LEMMA SearchSound ==
    ASSUME IsCalls, Sound, NEW t \in Thread, Search(t), ~fault'
    PROVE  Sound'
<1> DEFINE c == call[t]
<1>1. HeapInv' BY SameHeap DEF Sound, Search, history
<1>2. Locals(c) /\ c.at = "search" BY DEF Sound, CallInv, Search, At
<1>3. c.op \in {"get", "set"} BY <1>2 DEF Locals, Reading
<1>4. Locals(Updated(c, [at |-> c.op]))
  BY <1>2, <1>3 DEF Locals, Updated, Places, Reading, DelPlaces
<1>5. Locals(Updated(c, [data |-> heap[c.data].next]))
  BY <1>2 DEF Locals, Updated, Places, Reading, DelPlaces
<1>6. CallInv' BY <1>4, <1>5, GotoCalls, ReturnCalls DEF Search, Fault, Sound
<1> QED BY <1>1, <1>6 DEF Sound

LEMMA GetWordSound ==
    ASSUME IsCalls, Sound, NEW t \in Thread, GetWord(t), ~fault'
    PROVE  Sound'
<1> DEFINE c == call[t]
           l == [i |-> c.i + 1,
                 value |-> [c.value EXCEPT ![c.i] = heap[c.data].value[c.i]]]
<1>1. HeapInv' BY SameHeap DEF Sound, GetWord, history
<1>2. Locals(c) /\ c.at = "get" BY DEF Sound, CallInv, GetWord, At
<1>3. ASSUME ~(c.i > Words) PROVE Locals(Updated(c, l))
  <2>1. c.i + 1 \in 1 .. Words + 1 BY <1>2, <1>3, CacheAssumption DEF Locals, Reading
  <2>2. /\ Updated(c, l).at = "get" /\ Updated(c, l).op = "get" /\ Updated(c, l).i = c.i + 1
        /\ DOMAIN Updated(c, l) = DOMAIN c
    BY <1>2 DEF Locals, Reading, Updated
  <2> HIDE DEF l
  <2> QED BY <1>2, <2>1, <2>2 DEF Locals, Places, Reading, DelPlaces
<1>4. CallInv' BY <1>3, GotoCalls, ReturnCalls DEF GetWord, Fault, Sound
<1> QED BY <1>1, <1>4 DEF Sound

LEMMA SetCompareSound ==
    ASSUME IsCalls, Sound, NEW t \in Thread, SetCompare(t), ~fault'
    PROVE  Sound'
<1> DEFINE c == call[t]
           l == [at |-> "write",
                 changed |-> c.changed \/ heap[c.data].value[c.i] # c.value[c.i]]
<1>1. HeapInv' BY SameHeap DEF Sound, SetCompare, history
<1>2. Locals(c) /\ c.at = "set" BY DEF Sound, CallInv, SetCompare, At
<1>3. ASSUME ~(c.i > Words) PROVE Locals(Updated(c, l))
  <2>1. c.i <= Words BY <1>2, <1>3, CacheAssumption DEF Locals, Reading
  <2>2. /\ Updated(c, l).at = "write" /\ Updated(c, l).op = c.op /\ Updated(c, l).i = c.i
        /\ Updated(c, l).value = c.value /\ DOMAIN Updated(c, l) = DOMAIN c
    BY <1>2 DEF Locals, Reading, Updated
  <2> HIDE DEF l
  <2> QED BY <1>2, <2>1, <2>2 DEF Locals, Places, Reading, DelPlaces
<1>4. Locals(Updated(c, [at |-> "notify"]))
  BY <1>2 DEF Locals, Updated, Places, Reading, DelPlaces
<1>5. CallInv' BY <1>3, <1>4, GotoCalls DEF SetCompare, Fault, Sound
<1> QED BY <1>1, <1>5 DEF Sound

LEMMA SetWriteSound ==
    ASSUME IsCalls, Sound, NEW t \in Thread, SetWrite(t), ~fault'
    PROVE  Sound'
<1> DEFINE c == call[t]
           l == [at |-> "set", i |-> c.i + 1]
<1>1. Locals(c) /\ c.at = "write" BY DEF Sound, CallInv, SetWrite, At
<1>2. c.op = "set" /\ c.value \in Value /\ c.i \in 1 .. Words
  BY <1>1, CacheAssumption DEF Locals, Reading
<1>3. HeapInv' BY <1>2, WriteHeap DEF Sound
<1>4. Locals(Updated(c, l))
  <2>1. c.i + 1 \in 1 .. Words + 1 BY <1>2, CacheAssumption
  <2>2. /\ Updated(c, l).at = "set" /\ Updated(c, l).op = c.op /\ Updated(c, l).i = c.i + 1
        /\ Updated(c, l).value = c.value /\ DOMAIN Updated(c, l) = DOMAIN c
    BY <1>1 DEF Locals, Reading, Updated
  <2> HIDE DEF l
  <2> QED BY <1>1, <1>2, <2>1, <2>2 DEF Locals, Places, Reading, DelPlaces
<1>5. CallInv' BY <1>4, GotoCalls DEF SetWrite, Fault, Sound
<1> QED BY <1>3, <1>5 DEF Sound

LEMMA SetNotifySound ==
    ASSUME IsCalls, Sound, NEW t \in Thread, SetNotify(t), ~fault'
    PROVE  Sound'
<1>1. HeapInv'
  <2>1. call[t].data \in live => missed \cup {call[t].data} \subseteq live
    BY DEF Sound, HeapInv
  <2>2. UNCHANGED list /\ DOMAIN seen' = DOMAIN seen /\ missed' \subseteq live
    BY <2>1 DEF SetNotify, Fault, Sound, HeapInv
  <2> QED BY <2>2, HeapStays DEF Sound
<1>2. CallInv' BY ReturnCalls DEF SetNotify, Fault, Sound
<1> QED BY <1>1, <1>2 DEF Sound

LEMMA SizeSound ==
    ASSUME IsCalls, Sound, NEW t \in Thread, SizeNext(t) \/ SizeReturn(t), ~fault'
    PROVE  Sound'
<1> DEFINE c == call[t]
           l == [data |-> heap[c.data].next, length |-> c.length + 1]
<1>1. HeapInv' BY SameHeap DEF Sound, SizeNext, SizeReturn, history
<1>2. Locals(c) /\ c.at = "size" BY DEF Sound, CallInv, SizeNext, SizeReturn, At
<1>3. Locals(Updated(c, l))
  <2>1. c.length + 1 \in Nat BY <1>2 DEF Locals
  <2>2. /\ Updated(c, l).at = "size" /\ Updated(c, l).length = c.length + 1
        /\ Updated(c, l).atStart = c.atStart /\ DOMAIN Updated(c, l) = DOMAIN c
    BY <1>2 DEF Locals, Updated
  <2> HIDE DEF l
  <2> QED BY <1>2, <2>1, <2>2 DEF Locals, Places, Reading, DelPlaces
<1>4. CallInv' BY <1>3, GotoCalls, ReturnCalls DEF SizeNext, SizeReturn, Fault, Sound
<1> QED BY <1>1, <1>4 DEF Sound
LEMMA StepSound ==
    ASSUME IsCalls, Sound, NEW t \in Thread, Step(t), ~fault'
    PROVE  Sound'
BY AddSound, DelLockSound, DelSound, HasHeadSound, SearchSound, GetWordSound,
   SetCompareSound, SetWriteSound, SetNotifySound, SizeSound DEF Step

LEMMA OnListSize ==
    ASSUME HeapInv
    PROVE  OnList = live /\ IsFiniteSet(live) /\ Cardinality(live) \in Nat
<1>1. PICK n \in Nat : \E s \in [1 .. n -> Node] : Chain(s, n) BY DEF HeapInv, IsChain
<1>2. PICK s \in [1 .. n -> Node] : Chain(s, n) BY <1>1
<1> QED BY <1>2, ChainOnList, ChainLength

LEMMA CallsSound ==
    ASSUME IsCalls, Sound, NEW t \in Thread
    PROVE  /\ \A nm \in Name, v \in Value : AddCall(t, nm, v) => Sound'
           /\ \A nm \in Name : DelCall(t, nm) => Sound'
           /\ \A nm \in Name : HasCall(t, "get", nm, Zero) => Sound'
           /\ \A nm \in Name, v \in Value : HasCall(t, "set", nm, v) => Sound'
           /\ SizeCall(t) => Sound'
<1>1. dataHead \in Node \cup {Null} BY ListTypes DEF Sound
<1>2. 1 \in 1 .. Words + 1 BY CacheAssumption
<1>3. Cardinality(OnList) \in Nat BY OnListSize DEF Sound
<1>4. ASSUME NEW nm \in Name, NEW v \in Value, AddCall(t, nm, v) PROVE Sound'
  <2>1. HeapInv' BY <1>4, SameHeap DEF Sound, AddCall, history
  <2>2. Locals(Updated(Idle, [at |-> "add", name |-> nm, value |-> v]))
    BY DEF Locals, Updated, Idle, Places, Reading, DelPlaces
  <2>3. CallInv' BY <1>4, <2>2, GotoCalls DEF AddCall, Sound
  <2> QED BY <2>1, <2>3 DEF Sound
<1>5. ASSUME NEW nm \in Name, DelCall(t, nm) PROVE Sound'
  <2>1. HeapInv' BY <1>5, SameHeap DEF Sound, DelCall, history
  <2>2. Locals(Updated(Idle, [at |-> "delLock", name |-> nm, data |-> dataHead]))
    BY <1>1 DEF Locals, Updated, Idle, Places, Reading, DelPlaces
  <2>3. CallInv' BY <1>5, <2>2, GotoCalls DEF DelCall, Sound
  <2> QED BY <2>1, <2>3 DEF Sound
<1>6. ASSUME NEW op \in {"get", "set"}, NEW nm \in Name, NEW v, op = "set" => v \in Value,
             HasCall(t, op, nm, v)
      PROVE  Sound'
  <2> DEFINE l == [at |-> "has", op |-> op, name |-> nm, value |-> v, data |-> dataHead,
                   i |-> 1, changed |-> FALSE]
             c == Updated(Idle, l)
  <2>1. HeapInv' BY <1>6, SameHeap DEF Sound, HasCall, history
  <2>2. c.at = "has" /\ c.op = op /\ c.value = v /\ c.i = 1 BY DEF Updated, Idle
  <2>3. DOMAIN c = {"at", "op", "name", "value", "data", "i", "changed"}
    BY DEF Updated, Idle
  <2>4. Locals(c)
    <3> HIDE DEF c
    <3> QED BY <1>2, <1>6, <2>2, <2>3 DEF Locals, Places, Reading, DelPlaces
  <2>5. CallInv' BY <1>6, <2>4, GotoCalls DEF HasCall, Sound
  <2> QED BY <2>1, <2>5 DEF Sound
<1>7. ASSUME SizeCall(t) PROVE Sound'
  <2>1. HeapInv' BY <1>7, SameHeap DEF Sound, SizeCall, history
  <2>2. Locals(Updated(Idle, [at |-> "size", data |-> dataHead, length |-> 0,
                              atStart |-> Cardinality(OnList)]))
    BY <1>3 DEF Locals, Updated, Idle, Places, Reading, DelPlaces
  <2>3. CallInv' BY <1>7, <2>2, GotoCalls DEF SizeCall, Sound
  <2> QED BY <2>1, <2>3 DEF Sound
<1>8. \A nm \in Name : HasCall(t, "get", nm, Zero) => Sound' BY <1>6
<1>9. \A nm \in Name, v \in Value : HasCall(t, "set", nm, v) => Sound' BY <1>6
<1> QED BY <1>4, <1>5, <1>7, <1>8, <1>9

LEMMA ListenersSound ==
    ASSUME IsCalls, Sound, ListenerStart \/ \E k \in Task : ListenerFinish(k)
    PROVE  Sound'
<1>1. UNCHANGED call /\ UNCHANGED list BY DEF ListenerStart, ListenerFinish
<1>2. DOMAIN seen' = DOMAIN seen /\ missed' \subseteq live
  BY DEF ListenerStart, ListenerFinish, history, Sound, HeapInv
<1>3. HeapInv' BY <1>1, <1>2, HeapStays DEF Sound
<1>4. CallInv' BY <1>1, SameCalls DEF Sound
<1> QED BY <1>3, <1>4 DEF Sound

(* Adds and deletes race for the lock, and walkers hold none; nothing is assumed *)
(* of the callers.                                                               *)
Core == Steady /\ (fault \/ Sound)

LEMMA InitSound ==
    ASSUME Init
    PROVE  Sound
<1>1. live = {} BY DEF Init, live
<1>2. IsChain
  <2> DEFINE s == [i \in 1 .. 0 |-> Null]
  <2>1. 0 \in Nat /\ 1 .. 0 = {} /\ s \in [1 .. 0 -> Node] OBVIOUS
  <2> HIDE DEF s
  <2>2. Chain(s, 0) BY <1>1, <2>1 DEF Init, Chain
  <2> QED BY <2>1, <2>2 DEF IsChain
<1>3. HeapInv BY <1>1, <1>2 DEF HeapInv, UniqueNames, HeapTypes, Init
<1>4. CallInv BY IdleLocals DEF CallInv, Init
<1> QED BY <1>3, <1>4 DEF Sound

LEMMA NextCore ==
    ASSUME Core, [Next]_vars
    PROVE  Core'
<1>1. Steady' /\ (fault => fault') BY NextSteady DEF Core
<1>2. ASSUME ~fault' PROVE Sound'
  <2>1. Steady /\ IsCalls /\ Sound BY <1>1, <1>2 DEF Core, Steady
  <2>2. CASE UNCHANGED vars
    <3>1. HeapInv' BY <2>1, <2>2, SameHeap DEF vars, Sound, list, history
    <3>2. CallInv' BY <2>1, <2>2, SameCalls DEF vars, Sound
    <3> QED BY <3>1, <3>2 DEF Sound
  <2>3. CASE \E t \in Thread : Step(t) BY <1>2, <2>1, <2>3, StepSound
  <2>4. CASE \E t \in Adders, nm \in Name, v \in Value : AddCall(t, nm, v)
    BY <2>1, <2>4, CallsSound DEF Thread
  <2>5. CASE \E t \in Deleters, nm \in Name : DelCall(t, nm)
    BY <2>1, <2>5, CallsSound DEF Thread
  <2>6. CASE \E t \in Getters, nm \in Name : HasCall(t, "get", nm, Zero)
    BY <2>1, <2>6, CallsSound DEF Thread
  <2>7. CASE \E t \in Setters, nm \in Name, v \in Value : HasCall(t, "set", nm, v)
    BY <2>1, <2>7, CallsSound DEF Thread
  <2>8. CASE \E t \in Sizers : SizeCall(t) BY <2>1, <2>8, CallsSound DEF Thread
  <2>9. CASE ListenerStart \/ \E k \in Task : ListenerFinish(k) BY <2>1, <2>9, ListenersSound
  <2> QED BY <2>2, <2>3, <2>4, <2>5, <2>6, <2>7, <2>8, <2>9 DEF Next
<1> QED BY <1>1, <1>2 DEF Core

LEMMA CoreTypeOK ==
    ASSUME Core
    PROVE  TypeOK /\ ListWellFormed
<1>1. ~fault => TypeOK /\ ListWellFormed
  <2> SUFFICES ASSUME ~fault PROVE TypeOK /\ ListWellFormed OBVIOUS
  <2>1. TypeOK BY ListTypes DEF Core, Steady, Sound, HeapInv, HeapTypes, LockOK, TypeOK
  <2>2. ListWellFormed BY ChainWellFormed DEF Core, Sound, HeapInv
  <2> QED BY <2>1, <2>2
<1>2. fault => TypeOK /\ ListWellFormed BY DEF Core, Steady, LockOK, TypeOK, ListWellFormed
<1> QED BY <1>1, <1>2

LEMMA CoreAlways == Spec => []Core
<1>1. Init => Core BY InitSteady, InitSound DEF Core
<1>2. Core /\ [Next]_vars => Core' BY NextCore
<1> QED BY <1>1, <1>2, PTL DEF Spec

(* The shape of the cache's state, and of its list until somebody reads        *)
(* through a null pointer or a freed node.                                      *)
THEOREM TypesOK == Spec => []TypeOK
<1>1. Core => TypeOK BY CoreTypeOK
<1> QED BY <1>1, CoreAlways, PTL

(* Whatever the callers do, and whatever adds and deletes race for the lock     *)
(* while walkers read without it, the list is a list, with every allocated node *)
(* on it and no name twice, until somebody reads through a null pointer or a    *)
(* freed node (cache.c:105-226).                                                *)
THEOREM ListStays == Spec => []ListWellFormed
<1>1. Core => ListWellFormed BY CoreTypeOK
<1> QED BY <1>1, CoreAlways, PTL
-----------------------------------------------------------------------------
(* What the pointers of calls and tasks point to, until struck. *)
LEMMA ListFacts ==
    ASSUME HeapInv
    PROVE  /\ OnList = live /\ IsFiniteSet(live) /\ Cardinality(live) \in Nat
           /\ NamesOnList = {heap[m].name : m \in live}
           /\ (dataHead = Null <=> live = {})
           /\ dataHead # Null => dataHead \in live /\ dataTail \in live
           /\ \A m \in live : heap[m].next \in live \cup {Null}
<1>1. PICK n \in Nat : \E s \in [1 .. n -> Node] : Chain(s, n) BY DEF HeapInv, IsChain
<1>2. PICK s \in [1 .. n -> Node] : Chain(s, n) BY <1>1
<1>3. dataHead = Null <=> n = 0 BY <1>2, CacheAssumption DEF Chain
<1>4. live = {} <=> n = 0 BY <1>2 DEF Chain
<1>5. n # 0 => 1 \in 1 .. n /\ n \in 1 .. n OBVIOUS
<1>6. dataHead # Null => dataHead \in live /\ dataTail \in live
  BY <1>2, <1>3, <1>5 DEF Chain
<1>7. ASSUME NEW i \in 1 .. n PROVE heap[s[i]].next \in live \cup {Null}
  <2>1. i # n => i + 1 \in 1 .. n OBVIOUS
  <2> QED BY <1>2, <2>1 DEF Chain
<1>8. \A m \in live : heap[m].next \in live \cup {Null} BY <1>2, <1>7 DEF Chain
<1> QED BY <1>2, <1>3, <1>4, <1>6, <1>8, OnListSize, ChainOnList

LEMMA ListFactsAfter ==
    ASSUME HeapInv'
    PROVE  (/\ OnList = live /\ IsFiniteSet(live) /\ Cardinality(live) \in Nat
            /\ NamesOnList = {heap[m].name : m \in live}
            /\ (dataHead = Null <=> live = {})
            /\ dataHead # Null => dataHead \in live /\ dataTail \in live
            /\ \A m \in live : heap[m].next \in live \cup {Null})'
BY ListFacts, PTL

(* What a call in progress points to. *)
Points(c) ==
    /\ c.at \in DelPlaces => c.data = dataHead
    /\ c.at = "has" => c.data \in live \/ (c.data = Null /\ dataHead = Null)
    /\ c.at \in Reading \ {"has"} => c.data \in live
    /\ c.at = "size" => c.data \in live \cup {Null}

(* A task is for a node that is allocated. *)
PoolInv == /\ IsFiniteSet(submitted)
           /\ pending \in Seq(Nat \X live) /\ running \subseteq Nat \X live

Careful == /\ ~fault /\ ~struck /\ PoolInv
           /\ \A t \in Thread : Points(call[t])

IInv == Steady /\ Sound /\ Careful

(* A step of t that leaves the nodes, the head and the tasks. *)
LEMMA PointsOnly ==
    ASSUME IInv, NEW t \in Thread, ~fault', ~struck', PoolInv',
           live' = live, dataHead' = dataHead,
           \A u \in Thread \ {t} : call'[u] = call[u],
           Points(call'[t])
    PROVE  Careful'
<1>1. ASSUME NEW u \in Thread PROVE Points(call[u])'
  <2>1. Points(call'[u]) BY DEF IInv, Careful
  <2> QED BY <2>1 DEF Points
<1> QED BY <1>1 DEF Careful

LEMMA CallOnly ==
    ASSUME IInv, ~struck', NEW t \in Thread, UNCHANGED << list, pool, fault >>,
           \A u \in Thread \ {t} : call'[u] = call[u],
           Points(call'[t])
    PROVE  Careful'
<1>1. live' = live /\ dataHead' = dataHead BY DEF list, live
<1>2. ~fault' /\ PoolInv' BY <1>1 DEF IInv, Careful, PoolInv, pool
<1> QED BY <1>1, <1>2, PointsOnly

LEMMA IdlePoints == Points(Idle)
BY DEF Points, Idle, DelPlaces, Reading

LEMMA ReturnCareful ==
    ASSUME IInv, ~struck', NEW t \in Thread, UNCHANGED << list, pool, fault >>, Return(t)
    PROVE  Careful'
<1>1. call'[t] = Idle /\ \A u \in Thread \ {t} : call'[u] = call[u]
  BY ReturnFacts DEF IInv, Steady
<1> QED BY <1>1, IdlePoints, CallOnly

LEMMA GotoCareful ==
    ASSUME IInv, ~struck', NEW t \in Thread, UNCHANGED << list, pool, fault >>,
           NEW l, Goto(t, l), Points(Updated(call[t], l))
    PROVE  Careful'
<1>1. call'[t] = Updated(call[t], l) /\ \A u \in Thread \ {t} : call'[u] = call[u]
  BY GotoFacts DEF IInv, Steady
<1> QED BY <1>1, CallOnly

LEMMA DelLockCareful ==
    ASSUME IInv, ~struck', NEW t \in Thread, DelLock(t)
    PROVE  Careful'
<1> DEFINE r == Updated(call[t], [at |-> "delDo"])
<1>1. call[t].at = "delLock" /\ Locals(call[t]) /\ call[t].data = dataHead
  BY DEF IInv, Careful, Points, Sound, CallInv, DelLock, At, DelPlaces
<1>2. r.at = "delDo" /\ r.data = dataHead
  BY <1>1 DEF Updated, Locals, DelPlaces
<1> HIDE DEF r
<1>3. Points(r) BY <1>2 DEF Points, Reading
<1> QED BY <1>3, GotoCareful DEF r, DelLock

LEMMA HasHeadCareful ==
    ASSUME IInv, ~struck', NEW t \in Thread, HasHead(t)
    PROVE  Careful'
<1> DEFINE r == Updated(call[t], [at |-> "search"])
<1>1. /\ call[t].at = "has" /\ Locals(call[t])
      /\ dataHead # Null => call[t].data \in live
  BY DEF IInv, Careful, Points, Sound, CallInv, HasHead, At
<1>2. r.at = "search" /\ r.data = call[t].data
  BY <1>1 DEF Updated, Locals, Reading
<1> HIDE DEF r
<1>3. dataHead # Null => Points(r) BY <1>1, <1>2 DEF Points, DelPlaces
<1> QED BY <1>3, GotoCareful, ReturnCareful DEF r, HasHead

LEMMA SearchCareful ==
    ASSUME IInv, ~struck', NEW t \in Thread, Search(t)
    PROVE  Careful'
<1> DEFINE c == call[t]
           m == heap[c.data].next
<1>1. /\ c.at = "search" /\ Locals(c) /\ c.data \in live
  BY DEF IInv, Careful, Points, Sound, CallInv, Search, At, Reading
<1>2. c.op \in {"get", "set"} BY <1>1 DEF Locals, Reading
<1>3. UNCHANGED << list, pool, fault >> BY <1>1 DEF Search
<1>4. ASSUME Goto(t, [at |-> c.op]) PROVE Careful'
  <2> DEFINE r == Updated(c, [at |-> c.op])
  <2>1. r.at = c.op /\ r.data = c.data BY <1>1, <1>2 DEF Updated, Locals, Reading
  <2>2. Points(r)
    <3> HIDE DEF r
    <3> QED BY <1>1, <1>2, <2>1 DEF Points, DelPlaces
  <2> QED BY <1>3, <1>4, <2>2, GotoCareful
<1>5. ASSUME Goto(t, [data |-> m]), m # Null PROVE Careful'
  <2> DEFINE r == Updated(c, [data |-> m])
  <2>1. m \in live BY <1>1, <1>5, ListFacts DEF IInv, Sound
  <2>2. r.at = "search" /\ r.data = m BY <1>1 DEF Updated, Locals, Reading
  <2>3. Points(r)
    <3> HIDE DEF r, m
    <3> QED BY <2>1, <2>2 DEF Points, DelPlaces
  <2> QED BY <1>3, <1>5, <2>3, GotoCareful
<1> QED BY <1>1, <1>3, <1>4, <1>5, ReturnCareful DEF Search

LEMMA GetWordCareful ==
    ASSUME IInv, ~struck', NEW t \in Thread, GetWord(t)
    PROVE  Careful'
<1> DEFINE c == call[t]
           l == [i |-> c.i + 1,
                 value |-> [c.value EXCEPT ![c.i] = heap[c.data].value[c.i]]]
           r == Updated(c, l)
<1>1. /\ c.at = "get" /\ Locals(c) /\ c.data \in live
  BY DEF IInv, Careful, Points, Sound, CallInv, GetWord, At, Reading
<1>2. UNCHANGED << list, pool, fault >> BY <1>1 DEF GetWord
<1>3. r.at = "get" /\ r.data = c.data BY <1>1 DEF Updated, Locals, Reading
<1>4. Points(r)
  <2> HIDE DEF r
  <2> QED BY <1>1, <1>3 DEF Points, DelPlaces
<1>5. Goto(t, l) => Careful'
  <2> HIDE DEF l
  <2> QED BY <1>2, <1>4, GotoCareful
<1> QED BY <1>1, <1>2, <1>5, ReturnCareful DEF GetWord

LEMMA SetCompareCareful ==
    ASSUME IInv, ~struck', NEW t \in Thread, SetCompare(t)
    PROVE  Careful'
<1> DEFINE c == call[t]
           l == [at |-> "write",
                 changed |-> c.changed \/ heap[c.data].value[c.i] # c.value[c.i]]
<1>1. /\ c.at = "set" /\ Locals(c) /\ c.data \in live
  BY DEF IInv, Careful, Points, Sound, CallInv, SetCompare, At, Reading
<1>2. UNCHANGED << list, pool, fault >> BY <1>1 DEF SetCompare
<1>3. Goto(t, l) => Careful'
  <2> DEFINE r == Updated(c, l)
  <2>1. r.at = "write" /\ r.data = c.data BY <1>1 DEF Updated, Locals, Reading
  <2>2. Points(r)
    <3> HIDE DEF r
    <3> QED BY <1>1, <2>1 DEF Points, DelPlaces
  <2> HIDE DEF l
  <2> QED BY <1>2, <2>2, GotoCareful
<1>4. Goto(t, [at |-> "notify"]) => Careful'
  <2> DEFINE r == Updated(c, [at |-> "notify"])
  <2>1. r.at = "notify" /\ r.data = c.data BY <1>1 DEF Updated, Locals, Reading
  <2>2. Points(r)
    <3> HIDE DEF r
    <3> QED BY <1>1, <2>1 DEF Points, DelPlaces
  <2> QED BY <1>2, <2>2, GotoCareful
<1> QED BY <1>1, <1>2, <1>3, <1>4 DEF SetCompare

LEMMA SetWriteCareful ==
    ASSUME IInv, ~struck', NEW t \in Thread, SetWrite(t)
    PROVE  Careful'
<1> DEFINE c == call[t]
           l == [at |-> "set", i |-> c.i + 1]
           r == Updated(c, l)
<1>1. /\ c.at = "write" /\ Locals(c) /\ c.data \in live /\ ~fault /\ PoolInv
  BY DEF IInv, Careful, Points, Sound, CallInv, SetWrite, At, Reading
<1>2. /\ heap' = [heap EXCEPT ![c.data].value[c.i] = c.value[c.i]]
      /\ Goto(t, l) /\ UNCHANGED fault /\ UNCHANGED pool /\ UNCHANGED dataHead
  BY <1>1 DEF SetWrite
<1>3. live' = live BY <1>2 DEF live
<1>4. call'[t] = r /\ \A u \in Thread \ {t} : call'[u] = call[u]
  BY <1>2, GotoFacts DEF IInv, Steady
<1>5. r.at = "set" /\ r.data = c.data BY <1>1 DEF Updated, Locals, Reading
<1> HIDE DEF r
<1>6. Points(r) BY <1>1, <1>5 DEF Points, DelPlaces
<1>7. PoolInv' BY <1>1, <1>2, <1>3 DEF PoolInv, pool
<1> QED BY <1>1, <1>2, <1>3, <1>4, <1>6, <1>7, PointsOnly

LEMMA SetNotifyCareful ==
    ASSUME IInv, ~struck', NEW t \in Thread, SetNotify(t)
    PROVE  Careful'
<1> DEFINE c == call[t]
           k == << Cardinality(submitted) + 1, c.data >>
<1>1. /\ c.at = "notify" /\ c.data \in live /\ ~fault /\ PoolInv
  BY DEF IInv, Careful, Points, SetNotify, At, Reading
<1>2. Return(t) /\ UNCHANGED fault /\ UNCHANGED list BY <1>1 DEF SetNotify
<1>3. UNCHANGED pool \/ Pool!Submit(k) BY <1>1 DEF SetNotify
<1>4. live' = live /\ dataHead' = dataHead BY <1>2 DEF list, live
<1>5. call'[t] = Idle /\ \A u \in Thread \ {t} : call'[u] = call[u]
  BY <1>2, ReturnFacts DEF IInv, Steady
<1>6. k \in Nat \X live
  <2>1. Cardinality(submitted) \in Nat BY <1>1, FS_CardinalityType DEF PoolInv
  <2> QED BY <1>1, <2>1
<1> HIDE DEF k
<1>7. PoolInv'
  <2>1. CASE UNCHANGED pool BY <1>1, <1>4, <2>1 DEF PoolInv, pool
  <2>2. CASE Pool!Submit(k)
    <3>1. /\ submitted' = submitted \cup {k} /\ pending' = Append(pending, k)
          /\ running' = running
      BY <2>2 DEF Pool!Submit
    <3>2. IsFiniteSet(submitted') BY <1>1, <3>1, FS_AddElement DEF PoolInv
    <3>3. pending' \in Seq(Nat \X live) BY <1>1, <1>6, <3>1, AppendSet DEF PoolInv
    <3> QED BY <1>1, <1>4, <3>1, <3>2, <3>3 DEF PoolInv
  <2> QED BY <1>3, <2>1, <2>2
<1> QED BY <1>1, <1>2, <1>4, <1>5, <1>7, IdlePoints, PointsOnly

LEMMA SizeCareful ==
    ASSUME IInv, ~struck', NEW t \in Thread, SizeNext(t) \/ SizeReturn(t)
    PROVE  Careful'
<1> DEFINE c == call[t]
           l == [data |-> heap[c.data].next, length |-> c.length + 1]
           r == Updated(c, l)
<1>1. c.at = "size" /\ Locals(c) /\ c.data \in live \cup {Null}
  BY DEF IInv, Careful, Points, Sound, CallInv, SizeNext, SizeReturn, At
<1>2. CASE SizeReturn(t) BY <1>2, ReturnCareful DEF SizeReturn
<1>3. CASE SizeNext(t)
  <2>1. c.data \in live /\ Goto(t, l) /\ UNCHANGED << list, pool, fault >>
    BY <1>1, <1>3 DEF SizeNext
  <2>2. heap[c.data].next \in live \cup {Null} BY <2>1, ListFacts DEF IInv, Sound
  <2>3. r.at = "size" /\ r.data = heap[c.data].next BY <1>1 DEF Updated, Locals
  <2>4. Points(r)
    <3> HIDE DEF r
    <3> QED BY <2>2, <2>3 DEF Points, DelPlaces, Reading
  <2> HIDE DEF l
  <2> QED BY <2>1, <2>4, GotoCareful
<1> QED BY <1>2, <1>3

(* The first add strikes whoever read the head as null and looks again; the   *)
(* others change neither the head nor what is allocated to them.              *)
LEMMA AddCareful ==
    ASSUME IInv, ~struck', NEW t \in Thread, Add(t)
    PROVE  Careful'
<1>1. ~fault /\ PoolInv BY DEF IInv, Careful
<1>2. Return(t) /\ UNCHANGED << pool, fault >> BY DEF Add
<1>3. call'[t] = Idle /\ \A u \in Thread \ {t} : call'[u] = call[u]
  BY <1>2, ReturnFacts DEF IInv, Steady
<1>4. CASE UNCHANGED list BY <1>2, <1>4, ReturnCareful
<1>5. ASSUME NEW m \in Node \ live, DOMAIN heap' = live \cup {m},
             dataHead' = IF dataHead = Null THEN m ELSE dataHead,
             ~(dataHead = Null /\ FoundNull)
      PROVE  Careful'
  <2>1. live' = live \cup {m} BY <1>5 DEF live
  <2>2. PoolInv'
    <3>1. Nat \X live \subseteq Nat \X live' BY <2>1
    <3>2. Seq(Nat \X live) \subseteq Seq(Nat \X live')
      <4>1. \A q \in Seq(Nat \X live) : q \in Seq(Nat \X live')
        BY <3>1, ElementOfSeq, SeqDef
      <4> QED BY <4>1
    <3> QED BY <1>1, <1>2, <3>1, <3>2 DEF PoolInv, pool
  <2>3. ASSUME NEW u \in Thread \ {t} PROVE Points(call[u])'
    <3>1. call'[u] = call[u] /\ Points(call[u]) BY <1>3 DEF IInv, Careful
    <3>2. dataHead = Null => call[u].at \notin DelPlaces /\ ~(call[u].at = "has" /\ call[u].data = Null)
      BY <1>5, <3>1 DEF FoundNull, Points
    <3> QED BY <1>5, <2>1, <3>1, <3>2 DEF Points
  <2>4. Points(call[t])'
    <3>1. call'[t].at = "idle" BY <1>3 DEF Idle
    <3> QED BY <3>1 DEF Points, DelPlaces, Reading
  <2> QED BY <1>1, <1>2, <2>2, <2>3, <2>4 DEF Careful
<1>6. UNCHANGED list \/ \E m \in Node \ live :
          /\ DOMAIN heap' = live \cup {m}
          /\ dataHead' = (IF dataHead = Null THEN m ELSE dataHead)
          /\ ~(dataHead = Null /\ FoundNull)
  BY DEF Add
<1> QED BY <1>4, <1>5, <1>6

(* delData, which still has the head, neither follows a null pointer nor frees *)
(* one, if not struck.                                                         *)
LEMMA DelNoFault ==
    ASSUME IInv, ~struck', NEW t \in Thread, Del(t)
    PROVE  fault' = fault
<1> DEFINE c == call[t]
           data == DelSearch(c.data, c.name)
<1>1. c.at = "delDo" /\ ~fault /\ c.data = dataHead
  BY DEF IInv, Careful, Points, Del, At, DelPlaces
<1>2. CASE dataHead = Null BY <1>1, <1>2 DEF Del
<1>3. CASE dataHead # Null
  <2>1. PICK n \in Nat : \E s \in [1 .. n -> Node] : Chain(s, n)
    BY DEF IInv, Sound, HeapInv, IsChain
  <2>2. PICK s \in [1 .. n -> Node] : Chain(s, n) BY <2>1
  <2>3. /\ n # 0 /\ 1 \in 1 .. n /\ dataHead = s[1]
        /\ \A i \in 1 .. n : heap[s[i]].next = IF i = n THEN Null ELSE s[i + 1]
    BY <1>3, <2>2 DEF Chain
  <2>4. c.data = s[1] /\ c.data \in live BY <1>1, <1>3, <2>3, ListFacts DEF IInv, Sound
  <2>5. Stop(data, s, n, 1, c.name) BY <2>2, <2>3, <2>4, SearchFacts
  <2>6. ASSUME data # Null, data # dataHead PROVE heap[data].next # Null
    <3>1. PICK i \in 1 .. n - 1 : data = s[i] BY <2>3, <2>5, <2>6 DEF Stop
    <3>2. i \in 1 .. n /\ i # n /\ i + 1 \in 1 .. n BY <3>1
    <3>3. heap[data].next = s[i + 1] /\ s[i + 1] \in Node BY <2>2, <2>3, <3>1, <3>2
    <3> QED BY <3>3, CacheAssumption
  <2> HIDE DEF data
  <2>7. fault' = fault BY <1>3, <2>4, <2>6 DEF Del, data
  <2> QED BY <1>1, <2>7
<1> QED BY <1>2, <1>3

(* A node that is freed is nobody's, if not struck. *)
LEMMA DelCareful ==
    ASSUME IInv, ~struck', NEW t \in Thread, Del(t)
    PROVE  Careful'
<1>1. fault' = fault /\ ~fault' /\ ~fault /\ PoolInv BY DelNoFault DEF IInv, Careful
<1>2. Return(t) /\ UNCHANGED pool BY DEF Del, Fault
<1>3. call'[t] = Idle /\ \A u \in Thread \ {t} : call'[u] = call[u]
  BY <1>2, ReturnFacts DEF IInv, Steady
<1>4. CASE UNCHANGED list BY <1>1, <1>2, <1>4, ReturnCareful
<1>5. ASSUME NEW r, NEW data, r = Unlinked(data), dataHead # Null,
             dataHead' = r.head, DOMAIN heap' = live \ {r.gone},
             ~Awaited(r.gone, t)
      PROVE  Careful'
  <2>1. live' = live \ {r.gone} BY <1>5 DEF live
  <2>2. dataHead' = dataHead \/ r.gone = dataHead BY <1>5 DEF Unlinked
  <2>3. ASSUME NEW u \in Thread \ {t}, call[u].at \in Reading \cup DelPlaces \cup {"size"}
        PROVE  call[u].data # r.gone
    BY <1>5, <2>3 DEF Awaited
  <2>4. ASSUME NEW u \in Thread \ {t} PROVE Points(call[u])'
    <3>1. call'[u] = call[u] /\ Points(call[u]) BY <1>3 DEF IInv, Careful
    <3>2. call[u].at = "has" => call[u].at \in Reading BY DEF Reading
    <3> QED BY <1>5, <2>1, <2>2, <2>3, <3>1, <3>2 DEF Points
  <2>5. Points(call[t])'
    <3>1. call'[t].at = "idle" BY <1>3 DEF Idle
    <3> QED BY <3>1 DEF Points, DelPlaces, Reading
  <2>6. PoolInv'
    <3>1. \A k \in ToSet(pending) \cup running : k[2] # r.gone BY <1>5 DEF Awaited
    <3>2. running \subseteq Nat \X live' BY <1>1, <2>1, <3>1 DEF PoolInv
    <3>3. pending \in Seq(Nat \X live')
      <4>1. pending \in Seq(Nat \X live) BY <1>1 DEF PoolInv
      <4>2. \A i \in 1 .. Len(pending) : pending[i] \in Nat \X live'
        <5>1. \A i \in 1 .. Len(pending) : pending[i] \in Nat \X live /\ pending[i] \in ToSet(pending)
          BY <4>1, ElementOfSeq DEF ToSet
        <5> QED BY <2>1, <3>1, <5>1
      <4> QED BY <4>1, <4>2, SeqDef
    <3> QED BY <1>1, <1>2, <3>2, <3>3 DEF PoolInv, pool
  <2> QED BY <1>1, <2>4, <2>5, <2>6 DEF Careful
<1>6. UNCHANGED list \/ \E r, data :
          /\ r = Unlinked(data) /\ dataHead # Null
          /\ dataHead' = r.head /\ DOMAIN heap' = live \ {r.gone}
          /\ ~Awaited(r.gone, t)
  BY DEF Del
<1> QED BY <1>4, <1>5, <1>6

LEMMA ListenersCareful ==
    ASSUME IInv, ListenerStart \/ \E k \in Task : ListenerFinish(k)
    PROVE  Careful'
<1>1. UNCHANGED call /\ UNCHANGED list /\ live' = live /\ dataHead' = dataHead /\ ~struck'
  BY DEF ListenerStart, ListenerFinish, list, live, history, IInv, Careful
<1>2. PoolInv /\ ~fault BY DEF IInv, Careful
<1>3. \A u \in Thread : Points(call[u])'
  <2>1. \A u \in Thread : Points(call[u]) BY DEF IInv, Careful
  <2> QED BY <1>1, <2>1 DEF Points
<1>4. PoolInv' /\ ~fault'
  <2>1. CASE ListenerStart
    <3>1. /\ pending # << >> /\ submitted' = submitted
          /\ pending' = Tail(pending) /\ running' = running \cup {Head(pending)}
      BY <2>1 DEF ListenerStart, Pool!Start
    <3>2. Head(pending) \in Nat \X live /\ Tail(pending) \in Seq(Nat \X live)
      BY <1>2, <3>1, TailSet DEF PoolInv
    <3>3. Head(pending)[2] \in live BY <3>2
    <3>4. ~fault' BY <1>2, <2>1, <3>3 DEF ListenerStart
    <3> QED BY <1>1, <1>2, <3>1, <3>2, <3>4 DEF PoolInv
  <2>2. ASSUME NEW k \in Task, ListenerFinish(k) PROVE PoolInv' /\ ~fault'
    <3>1. k \in running /\ running' = running \ {k} /\ UNCHANGED << submitted, pending >>
      BY <2>2 DEF ListenerFinish, Pool!Finish
    <3>2. k[2] \in live BY <1>2, <3>1 DEF PoolInv
    <3> QED BY <1>1, <1>2, <2>2, <3>1, <3>2 DEF PoolInv, ListenerFinish
  <2> QED BY <2>1, <2>2
<1> QED BY <1>1, <1>3, <1>4 DEF Careful

LEMMA StepCareful ==
    ASSUME IInv, ~struck', NEW t \in Thread, Step(t)
    PROVE  Careful'
BY AddCareful, DelLockCareful, DelCareful, HasHeadCareful, SearchCareful, GetWordCareful,
   SetCompareCareful, SetWriteCareful, SetNotifyCareful, SizeCareful DEF Step

LEMMA CallsCareful ==
    ASSUME IInv, ~struck', NEW t \in Thread
    PROVE  /\ \A nm \in Name, v \in Value : AddCall(t, nm, v) => Careful'
           /\ \A nm \in Name : DelCall(t, nm) => Careful'
           /\ \A op \in {"get", "set"}, nm \in Name : \A v : HasCall(t, op, nm, v) => Careful'
           /\ SizeCall(t) => Careful'
<1>1. dataHead \in live \cup {Null} BY ListFacts DEF IInv, Sound
<1>2. ASSUME NEW nm \in Name, NEW v \in Value, AddCall(t, nm, v) PROVE Careful'
  <2> DEFINE r == Updated(Idle, [at |-> "add", name |-> nm, value |-> v])
  <2>1. r.at = "add" BY DEF Updated, Idle
  <2>2. Points(r)
    <3> HIDE DEF r
    <3> QED BY <2>1 DEF Points, DelPlaces, Reading
  <2> QED BY <1>2, <2>2, GotoCareful DEF AddCall
<1>3. ASSUME NEW nm \in Name, DelCall(t, nm) PROVE Careful'
  <2> DEFINE r == Updated(Idle, [at |-> "delLock", name |-> nm, data |-> dataHead])
  <2>1. r.at = "delLock" /\ r.data = dataHead BY DEF Updated, Idle
  <2>2. Points(r)
    <3> HIDE DEF r
    <3> QED BY <2>1 DEF Points, DelPlaces, Reading
  <2> QED BY <1>3, <2>2, GotoCareful DEF DelCall
<1>4. ASSUME NEW op \in {"get", "set"}, NEW nm \in Name, NEW v, HasCall(t, op, nm, v)
      PROVE  Careful'
  <2> DEFINE l == [at |-> "has", op |-> op, name |-> nm, value |-> v,
                   data |-> dataHead, i |-> 1, changed |-> FALSE]
             r == Updated(Idle, l)
  <2>1. r.at = "has" /\ r.data = dataHead BY DEF Updated, Idle
  <2>2. Points(r)
    <3> HIDE DEF r
    <3> QED BY <1>1, <2>1 DEF Points, DelPlaces
  <2>3. call[t] = Idle /\ Goto(t, l) /\ UNCHANGED << list, pool, fault >> BY <1>4 DEF HasCall
  <2> HIDE DEF l
  <2> QED BY <2>2, <2>3, GotoCareful
<1>5. ASSUME SizeCall(t) PROVE Careful'
  <2> DEFINE l == [at |-> "size", data |-> dataHead, length |-> 0,
                   atStart |-> Cardinality(OnList)]
             r == Updated(Idle, l)
  <2>1. r.at = "size" /\ r.data = dataHead BY DEF Updated, Idle
  <2>2. Points(r)
    <3> HIDE DEF r
    <3> QED BY <1>1, <2>1 DEF Points, DelPlaces, Reading
  <2>3. call[t] = Idle /\ Goto(t, l) /\ UNCHANGED << list, pool, fault >> BY <1>5 DEF SizeCall
  <2> HIDE DEF l
  <2> QED BY <2>2, <2>3, GotoCareful
<1> QED BY <1>2, <1>3, <1>4, <1>5

LEMMA InitIInv ==
    ASSUME Init
    PROVE  IInv
<1>1. PoolInv
  <2>1. IsFiniteSet({}) BY FS_EmptySet
  <2> QED BY <2>1 DEF Init, PoolInv, Pool!Init
<1>2. Careful BY <1>1, IdlePoints DEF Init, Careful
<1> QED BY <1>2, InitSteady, InitSound DEF IInv

(* As long as nobody is struck, nobody faults. *)
LEMMA NextIInv ==
    ASSUME IInv, [Next]_vars, ~struck'
    PROVE  IInv'
<1>1. Steady' BY NextSteady DEF IInv
<1>2. Careful'
  <2>1. CASE UNCHANGED vars
    <3>1. /\ UNCHANGED << list, pool, fault, call >> BY <2>1 DEF vars
    <3>2. live' = live /\ dataHead' = dataHead BY <3>1 DEF list, live
    <3>3. \A u \in Thread : Points(call[u]) BY DEF IInv, Careful
    <3>4. \A u \in Thread : Points(call[u])' BY <3>1, <3>2, <3>3 DEF Points
    <3>5. PoolInv' BY <3>1, <3>2 DEF IInv, Careful, PoolInv, pool
    <3> QED BY <3>1, <3>4, <3>5 DEF IInv, Careful
  <2>2. CASE \E t \in Thread : Step(t) BY <2>2, StepCareful
  <2>3. CASE \E t \in Adders, nm \in Name, v \in Value : AddCall(t, nm, v)
    BY <2>3, CallsCareful DEF Thread
  <2>4. CASE \E t \in Deleters, nm \in Name : DelCall(t, nm)
    BY <2>4, CallsCareful DEF Thread
  <2>5. CASE \E t \in Getters, nm \in Name : HasCall(t, "get", nm, Zero)
    BY <2>5, CallsCareful DEF Thread
  <2>6. CASE \E t \in Setters, nm \in Name, v \in Value : HasCall(t, "set", nm, v)
    BY <2>6, CallsCareful DEF Thread
  <2>7. CASE \E t \in Sizers : SizeCall(t) BY <2>7, CallsCareful DEF Thread
  <2>8. CASE ListenerStart \/ \E k \in Task : ListenerFinish(k) BY <2>8, ListenersCareful
  <2> QED BY <2>1, <2>2, <2>3, <2>4, <2>5, <2>6, <2>7, <2>8 DEF Next
<1>3. Sound' BY <1>2, NextCore DEF IInv, Core, Careful
<1> QED BY <1>1, <1>2, <1>3 DEF IInv

(* struck is never taken back. *)
LEMMA NextAlways ==
    ASSUME Steady, struck \/ IInv, [Next]_vars
    PROVE  Steady' /\ (struck' \/ IInv')
BY NextSteady, NextIInv

LEMMA CarefulAlways == Spec => [](Steady /\ (struck \/ IInv))
<1>1. Init => Steady /\ (struck \/ IInv) BY InitSteady, InitIInv
<1>2. Steady /\ (struck \/ IInv) /\ [Next]_vars => (Steady /\ (struck \/ IInv))'
  BY NextAlways
<1> QED BY <1>1, <1>2, PTL DEF Spec

(* get, set, getSize and the listeners take no lock, and delData reads the     *)
(* head before it takes it; they follow no null pointer and touch no freed     *)
(* node, whatever else is called meanwhile, before one of three events: a node *)
(* somebody still points to is freed, the first add falls between two reads of *)
(* the head, the last of three or more is deleted (cache.c:71-88, 169-216,     *)
(* 248-314).                                                                   *)
THEOREM NobodyFaults == Spec => []NoFault
<1>1. Steady /\ (struck \/ IInv) => NoFault BY DEF IInv, Careful, NoFault
<1> QED BY <1>1, CarefulAlways, PTL
-----------------------------------------------------------------------------
(* getSize: the list grows at its end while it is walked, and only there. *)
LEMMA WalkOfChain ==
    \A n \in Nat : \A s \in [1 .. n -> Node] : Chain(s, n) =>
        Cardinality(live) = n /\ \A k \in 0 .. n - 1 : Follow(dataHead)[k] = s[k + 1]
<1> SUFFICES ASSUME NEW n \in Nat, NEW s \in [1 .. n -> Node], Chain(s, n)
             PROVE  /\ Cardinality(live) = n
                    /\ \A k \in 0 .. n - 1 : Follow(dataHead)[k] = s[k + 1]
  OBVIOUS
<1>1. Cardinality(live) = n /\ MaxNodes \in Nat /\ n <= MaxNodes BY ChainLength
<1>2. Follow(dataHead) = [k \in 0 .. MaxNodes |-> IF k < n THEN s[k + 1] ELSE Null]
  BY HeadFollow
<1>3. \A k \in 0 .. n - 1 : k \in 0 .. MaxNodes /\ k < n BY <1>1
<1> QED BY <1>1, <1>2, <1>3

LEMMA WalkOfChainAfter ==
    (\A n \in Nat : \A s \in [1 .. n -> Node] : Chain(s, n) =>
        Cardinality(live) = n /\ \A k \in 0 .. n - 1 : Follow(dataHead)[k] = s[k + 1])'
BY WalkOfChain, PTL

(* Every node keeps its place in the walk. *)
Grows == /\ Cardinality(live) \in Nat /\ Cardinality(live') \in Nat
         /\ Cardinality(live) <= Cardinality(live')
         /\ \A k \in 0 .. Cardinality(live) - 1 : Follow(dataHead)'[k] = Follow(dataHead)[k]

LEMMA GrowsTo ==
    ASSUME NEW n \in Nat, NEW s \in [1 .. n -> Node], Chain(s, n),
           NEW m \in Nat, NEW r \in [1 .. m -> Node], Chain(r, m)', n <= m,
           \A i \in 1 .. n : r[i] = s[i]
    PROVE  Grows
<1>1. Cardinality(live) = n /\ \A k \in 0 .. n - 1 : Follow(dataHead)[k] = s[k + 1]
  BY WalkOfChain
<1>2. Cardinality(live') = m /\ \A k \in 0 .. m - 1 : Follow(dataHead)'[k] = r[k + 1]
  BY WalkOfChainAfter
<1>3. \A k \in 0 .. n - 1 : k \in 0 .. m - 1 /\ k + 1 \in 1 .. n OBVIOUS
<1> QED BY <1>1, <1>2, <1>3 DEF Grows

LEMMA StaysGrows ==
    ASSUME HeapInv, live' = live, \A m \in live : heap'[m].next = heap[m].next,
           UNCHANGED << dataHead, dataTail >>
    PROVE  Grows
<1>1. PICK n \in Nat : \E s \in [1 .. n -> Node] : Chain(s, n) BY DEF HeapInv, IsChain
<1>2. PICK s \in [1 .. n -> Node] : Chain(s, n) BY <1>1
<1>3. \A i \in 1 .. n : s[i] \in live BY <1>2 DEF Chain
<1>4. Chain(s, n)' BY <1>2, <1>3 DEF Chain
<1> QED BY <1>2, <1>4, GrowsTo

LEMMA ListGrows ==
    ASSUME HeapInv, UNCHANGED list
    PROVE  Grows
<1>1. live' = live /\ heap' = heap /\ UNCHANGED << dataHead, dataTail >> BY DEF list, live
<1> QED BY <1>1, StaysGrows

LEMMA AddGrows ==
    ASSUME HeapInv, NEW t \in Thread, Add(t)
    PROVE  Grows
<1> DEFINE c == call[t]
<1>1. PICK n \in Nat : \E s \in [1 .. n -> Node] : Chain(s, n) BY DEF HeapInv, IsChain
<1>2. PICK s \in [1 .. n -> Node] : Chain(s, n) BY <1>1
<1>3. CASE UNCHANGED list BY <1>3, ListGrows
<1>4. ASSUME NEW m \in Node \ live,
             heap' = [k \in live \cup {m} |->
                        IF k = m THEN [name |-> c.name, value |-> c.value, next |-> Null]
                        ELSE IF dataHead # Null /\ k = dataTail THEN [heap[k] EXCEPT !.next = m]
                        ELSE heap[k]],
             dataHead' = IF dataHead = Null THEN m ELSE dataHead,
             dataTail' = m
      PROVE  Grows
  <2>1. live' = live \cup {m} BY <1>4 DEF live
  <2>2. dataHead = Null => live = {} BY ListFacts
  <2>3. heap'[m].next = Null BY <1>4
  <2>4. ASSUME NEW k \in live
        PROVE  heap'[k].next = IF k = dataTail THEN m ELSE heap[k].next
    <3>1. k # m /\ dataHead # Null BY <1>4, <2>2
    <3>2. heap[k] \in [name : Name, value : Value, next : Node \cup {Null}]
      BY DEF HeapInv, HeapTypes
    <3> QED BY <1>4, <3>1, <3>2
  <2>5. PICK r \in [1 .. n + 1 -> Node] :
             Chain(r, n + 1)' /\ \A i \in 1 .. n : i \in 1 .. n + 1 /\ r[i] = s[i]
    BY <1>2, <1>4, <2>1, <2>3, <2>4, ChainAppend
  <2>6. n + 1 \in Nat /\ n <= n + 1 OBVIOUS
  <2> QED BY <1>2, <2>5, <2>6, GrowsTo
<1> QED BY <1>3, <1>4 DEF Add

LEMMA StepGrows ==
    ASSUME IInv, NEW t \in Thread, Step(t), ~Del(t)
    PROVE  Grows
<1>1. HeapInv BY DEF IInv, Sound
<1>2. CASE Add(t) BY <1>1, <1>2, AddGrows
<1>3. CASE SetWrite(t)
  <2>1. call[t].data \in live BY <1>3 DEF IInv, Careful, Points, SetWrite, At, Reading
  <2>2. heap' = [heap EXCEPT ![call[t].data].value[call[t].i] = call[t].value[call[t].i]]
    BY <1>3, <2>1 DEF SetWrite
  <2>3. live' = live BY <2>2 DEF live
  <2>4. \A m \in live : heap[m] \in [name : Name, value : Value, next : Node \cup {Null}]
    BY <1>1 DEF HeapInv, HeapTypes
  <2>5. \A m \in live : heap'[m].next = heap[m].next BY <2>2, <2>4 DEF live
  <2>6. UNCHANGED << dataHead, dataTail >> BY <1>3, <2>1 DEF SetWrite
  <2> QED BY <1>1, <2>3, <2>5, <2>6, StaysGrows
<1>4. CASE UNCHANGED list BY <1>1, <1>4, ListGrows
<1> QED BY <1>2, <1>3, <1>4 DEF Step, DelLock, HasHead, Search, GetWord, SetCompare, SetNotify,
                                SizeNext, SizeReturn

(* A thread is in getSize after a step of its own only by SizeNext. *)
LEMMA StepPlaces ==
    ASSUME IInv, NEW t \in Thread, Step(t)
    PROVE  /\ IsCalls'
           /\ \A u \in Thread \ {t} : call'[u] = call[u]
           /\ call'[t].at = "size" => SizeNext(t)
<1>1. IsCalls /\ Locals(call[t]) BY DEF IInv, Steady, Sound, CallInv
<1>2. Idle.at = "idle" BY DEF Idle
<1>3. \A l : Goto(t, l) => /\ IsCalls' /\ call'[t] = Updated(call[t], l)
                           /\ \A u \in Thread \ {t} : call'[u] = call[u]
  BY <1>1, GotoFacts
<1>4. Return(t) => /\ IsCalls' /\ call'[t].at = "idle"
                   /\ \A u \in Thread \ {t} : call'[u] = call[u]
  BY <1>1, <1>2, ReturnFacts
<1>5. CASE Add(t) BY <1>4, <1>5 DEF Add
<1>6. CASE DelLock(t)
  <2>1. Updated(call[t], [at |-> "delDo"]).at = "delDo" BY DEF Updated
  <2> QED BY <1>3, <1>6, <2>1 DEF DelLock
<1>7. CASE Del(t) BY <1>4, <1>7 DEF Del, Fault
<1>8. CASE HasHead(t)
  <2>1. Updated(call[t], [at |-> "search"]).at = "search" BY DEF Updated
  <2> QED BY <1>3, <1>4, <1>8, <2>1 DEF HasHead
<1>9. CASE Search(t)
  <2>1. call[t].at = "search" /\ call[t].op \in {"get", "set"}
    BY <1>1, <1>9 DEF Search, At, Locals, Reading
  <2>2. Updated(call[t], [at |-> call[t].op]).at = call[t].op BY DEF Updated
  <2>3. Updated(call[t], [data |-> heap[call[t].data].next]).at = "search"
    BY <1>1, <2>1 DEF Updated, Locals
  <2> QED BY <1>3, <1>4, <1>9, <2>1, <2>2, <2>3 DEF Search, Fault
<1>10. CASE GetWord(t)
  <2> DEFINE l == [i |-> call[t].i + 1,
                   value |-> [call[t].value EXCEPT ![call[t].i] = heap[call[t].data].value[call[t].i]]]
  <2>1. Updated(call[t], l).at = "get" BY <1>1, <1>10 DEF Updated, Locals, GetWord, At
  <2> QED BY <1>3, <1>4, <1>10, <2>1 DEF GetWord, Fault
<1>11. CASE SetCompare(t)
  <2> DEFINE c == call[t]
             l == [at |-> "write",
                   changed |-> c.changed \/ heap[c.data].value[c.i] # c.value[c.i]]
  <2>1. Updated(call[t], l).at = "write" /\ Updated(call[t], [at |-> "notify"]).at = "notify"
    BY DEF Updated
  <2> QED BY <1>3, <1>4, <1>11, <2>1 DEF SetCompare, Fault
<1>12. CASE SetWrite(t)
  <2>1. Updated(call[t], [at |-> "set", i |-> call[t].i + 1]).at = "set" BY DEF Updated
  <2> QED BY <1>3, <1>4, <1>12, <2>1 DEF SetWrite, Fault
<1>13. CASE SetNotify(t) BY <1>4, <1>13 DEF SetNotify, Fault
<1>14. CASE SizeNext(t) BY <1>3, <1>4, <1>14 DEF SizeNext, Fault
<1>15. CASE SizeReturn(t) BY <1>4, <1>15 DEF SizeReturn
<1> QED BY <1>5, <1>6, <1>7, <1>8, <1>9, <1>10, <1>11, <1>12, <1>13, <1>14, <1>15 DEF Step
(* A walk of getSize has counted the nodes it passed. *)
Counted(t) ==
    LET c == call[t] IN
    /\ c.atStart <= Cardinality(live)
    /\ c.data = Null => c.atStart <= c.length /\ c.length <= Cardinality(live)
    /\ c.data # Null => c.length < Cardinality(live) /\ c.data = Follow(dataHead)[c.length]

SizeInv == \A t \in Thread \ shrunk : call[t].at = "size" => Counted(t)

LEMMA CountedGrows ==
    ASSUME IInv, Grows, NEW t \in Thread, call[t].at = "size", Counted(t), call'[t] = call[t]
    PROVE  Counted(t)'
<1>1. call[t].length \in Nat /\ call[t].atStart \in Nat BY DEF IInv, Sound, CallInv, Locals
<1>2. call[t].length < Cardinality(live) =>
          Follow(dataHead)'[call[t].length] = Follow(dataHead)[call[t].length]
  BY <1>1 DEF Grows
<1> QED BY <1>1, <1>2 DEF Counted, Grows

LEMMA SizeNextCounted ==
    ASSUME IInv, NEW t \in Thread, Counted(t), SizeNext(t)
    PROVE  Counted(t)'
<1> DEFINE c == call[t]
           l == [data |-> heap[c.data].next, length |-> c.length + 1]
<1>1. c.at = "size" /\ Locals(c) /\ c.data \in live /\ c.data # Null
  BY DEF IInv, Careful, Points, Sound, CallInv, SizeNext, At
<1>2. c.length \in Nat /\ c.atStart \in Nat BY <1>1 DEF Locals
<1>3. call'[t] = Updated(c, l) BY <1>1, GotoFacts DEF SizeNext, IInv, Steady
<1>4. /\ call'[t].data = heap[c.data].next /\ call'[t].length = c.length + 1
      /\ call'[t].atStart = c.atStart
  BY <1>1, <1>3 DEF Updated, Locals
<1>5. PICK n \in Nat : \E s \in [1 .. n -> Node] : Chain(s, n)
  BY DEF IInv, Sound, HeapInv, IsChain
<1>6. PICK s \in [1 .. n -> Node] : Chain(s, n) BY <1>5
<1>7. Cardinality(live) = n /\ \A k \in 0 .. n - 1 : Follow(dataHead)[k] = s[k + 1]
  BY <1>6, WalkOfChain
<1>8. /\ c.length \in 0 .. n - 1 /\ c.length + 1 \in 1 .. n /\ c.data = s[c.length + 1]
      /\ c.atStart <= n
  BY <1>1, <1>2, <1>7 DEF Counted
<1>9. heap[c.data].next = IF c.length + 1 = n THEN Null ELSE s[c.length + 2]
  <2>1. (c.length + 1) + 1 = c.length + 2 BY <1>2
  <2> QED BY <1>6, <1>8, <2>1 DEF Chain
<1>10. UNCHANGED list BY DEF SizeNext
<1>11. Grows BY <1>10, ListGrows DEF IInv, Sound
<1>12. live' = live /\ \A k \in 0 .. n - 1 : Follow(dataHead)'[k] = s[k + 1]
  BY <1>7, <1>10, <1>11 DEF Grows, list, live
<1>13. CASE c.length + 1 = n
  <2>1. call'[t].data = Null BY <1>4, <1>9, <1>13
  <2> QED BY <1>2, <1>4, <1>7, <1>8, <1>12, <1>13, <2>1 DEF Counted
<1>14. CASE c.length + 1 # n
  <2>1. c.length + 1 \in 0 .. n - 1 /\ c.length + 2 \in 1 .. n /\ (c.length + 1) + 1 = c.length + 2
    BY <1>2, <1>8, <1>14
  <2>2. call'[t].data = s[c.length + 2] /\ s[c.length + 2] \in Node
    BY <1>4, <1>9, <1>14, <2>1
  <2>3. call'[t].data # Null BY <2>2, CacheAssumption
  <2> QED BY <1>2, <1>4, <1>7, <1>8, <1>12, <2>1, <2>2, <2>3 DEF Counted
<1> QED BY <1>13, <1>14

LEMMA SizeCallCounted ==
    ASSUME IInv, NEW t \in Thread, SizeCall(t)
    PROVE  Counted(t)'
<1> DEFINE r == Updated(Idle, [at |-> "size", data |-> dataHead, length |-> 0,
                               atStart |-> Cardinality(OnList)])
<1>1. call[t] = Idle /\ UNCHANGED list BY DEF SizeCall
<1>2. call'[t] = r BY <1>1, GotoFacts DEF IInv, Steady, SizeCall
<1>3. r.data = dataHead /\ r.length = 0 /\ r.atStart = Cardinality(OnList)
  BY DEF Updated, Idle
<1> HIDE DEF r
<1>4. PICK n \in Nat : \E s \in [1 .. n -> Node] : Chain(s, n)
  BY DEF IInv, Sound, HeapInv, IsChain
<1>5. PICK s \in [1 .. n -> Node] : Chain(s, n) BY <1>4
<1>6. Cardinality(live) = n /\ \A k \in 0 .. n - 1 : Follow(dataHead)[k] = s[k + 1]
  BY <1>5, WalkOfChain
<1>7. OnList = live BY <1>5, ChainOnList
<1>8. Grows BY <1>1, ListGrows DEF IInv, Sound
<1>9. live' = live BY <1>1 DEF list, live
<1>10. CASE dataHead = Null
  <2>1. n = 0 BY <1>5, <1>10, CacheAssumption DEF Chain
  <2> QED BY <1>2, <1>3, <1>6, <1>7, <1>9, <1>10, <2>1 DEF Counted
<1>11. CASE dataHead # Null
  <2>1. n > 0 /\ 0 \in 0 .. n - 1 /\ dataHead = s[1] BY <1>5, <1>11 DEF Chain
  <2>2. Follow(dataHead)'[0] = dataHead BY <1>6, <1>8, <2>1 DEF Grows
  <2> QED BY <1>2, <1>3, <1>6, <1>7, <1>9, <1>11, <2>1, <2>2 DEF Counted
<1> QED BY <1>10, <1>11

LEMMA OthersCounted ==
    ASSUME IInv, SizeInv, Grows, NEW t \in Thread,
           \A u \in Thread \ {t} : call'[u] = call[u],
           shrunk \subseteq shrunk' \cup {t},
           (t \notin shrunk' /\ call'[t].at = "size") => Counted(t)'
    PROVE  SizeInv'
<1> SUFFICES ASSUME NEW u \in Thread \ shrunk', call'[u].at = "size" PROVE Counted(u)'
  BY DEF SizeInv
<1>1. CASE u = t BY <1>1
<1>2. CASE u # t
  <2>1. u \notin shrunk /\ call'[u] = call[u] BY <1>2
  <2>2. Counted(u) BY <2>1 DEF SizeInv
  <2> QED BY <2>1, <2>2, CountedGrows
<1> QED BY <1>1, <1>2

(* A delete that frees a node excepts every walk in progress. *)
LEMMA DelCounted ==
    ASSUME IInv, SizeInv, NEW t \in Thread, Del(t)
    PROVE  SizeInv'
<1>1. call[t].at = "delDo" BY DEF Del, At
<1>2. \A u \in Thread \ {t} : call'[u] = call[u] BY StepPlaces DEF Step
<1>3. call'[t].at # "size" BY <1>1, StepPlaces DEF SizeNext, At, Step
<1>4. CASE UNCHANGED << list, history >>
  <2>1. Grows BY <1>4, ListGrows DEF IInv, Sound
  <2> QED BY <1>2, <1>3, <1>4, <2>1, OthersCounted DEF history
<1>5. CASE shrunk' = {u \in Thread : call[u].at = "size"}
  BY <1>2, <1>3, <1>5 DEF SizeInv
<1>6. CASE UNCHANGED << list, fault, history >> BY <1>4, <1>6
<1> QED BY <1>4, <1>5, <1>6 DEF Del

LEMMA NextCounted ==
    ASSUME IInv, SizeInv, [Next]_vars
    PROVE  SizeInv'
<1>1. UNCHANGED list => Grows BY ListGrows DEF IInv, Sound
<1>2. ASSUME UNCHANGED call, UNCHANGED list, UNCHANGED shrunk PROVE SizeInv'
  <2>1. Grows BY <1>1, <1>2
  <2> QED BY <1>2, <2>1, CountedGrows DEF SizeInv
<1>3. ASSUME NEW t \in Thread, Step(t) PROVE SizeInv'
  <2>1. CASE Del(t) BY <2>1, DelCounted
  <2>2. CASE ~Del(t)
    <3>1. Grows BY <1>3, <2>2, StepGrows
    <3>2. \A u \in Thread \ {t} : call'[u] = call[u] BY <1>3, StepPlaces
    <3>3. shrunk' = shrunk
      BY <1>3, <2>2 DEF Step, Add, DelLock, HasHead, Search, GetWord, SetCompare, SetWrite,
                        SetNotify, SizeNext, SizeReturn, history
    <3>4. t \notin shrunk' /\ call'[t].at = "size" => Counted(t)'
      BY <1>3, <3>3, StepPlaces, SizeNextCounted DEF SizeInv, SizeNext, At
    <3> QED BY <3>1, <3>2, <3>3, <3>4, OthersCounted
  <2> QED BY <2>1, <2>2
<1>4. ASSUME NEW t \in Thread, NEW l, Goto(t, l), UNCHANGED << list, shrunk >>, call[t] = Idle,
             Updated(Idle, l).at # "size"
      PROVE  SizeInv'
  <2>1. call'[t] = Updated(Idle, l) /\ \A u \in Thread \ {t} : call'[u] = call[u]
    BY <1>4, GotoFacts DEF IInv, Steady
  <2> QED BY <1>1, <1>4, <2>1, OthersCounted
<1>5. ASSUME NEW t \in Thread, NEW nm \in Name, NEW v \in Value, AddCall(t, nm, v) PROVE SizeInv'
  <2>1. Updated(Idle, [at |-> "add", name |-> nm, value |-> v]).at = "add" BY DEF Updated
  <2> QED BY <1>4, <1>5, <2>1 DEF AddCall, history
<1>6. ASSUME NEW t \in Thread, NEW nm \in Name, DelCall(t, nm) PROVE SizeInv'
  <2>1. Updated(Idle, [at |-> "delLock", name |-> nm, data |-> dataHead]).at = "delLock"
    BY DEF Updated
  <2> QED BY <1>4, <1>6, <2>1 DEF DelCall, history
<1>7. ASSUME NEW t \in Thread, NEW op, NEW nm \in Name, NEW v, HasCall(t, op, nm, v) PROVE SizeInv'
  <2>1. Updated(Idle, [at |-> "has", op |-> op, name |-> nm, value |-> v, data |-> dataHead,
                       i |-> 1, changed |-> FALSE]).at = "has"
    BY DEF Updated
  <2> QED BY <1>4, <1>7, <2>1 DEF HasCall, history
<1>8. ASSUME NEW t \in Thread, SizeCall(t) PROVE SizeInv'
  <2>1. call[t] = Idle /\ UNCHANGED list /\ shrunk' = shrunk \ {t} BY <1>8 DEF SizeCall
  <2>2. \A u \in Thread \ {t} : call'[u] = call[u]
    BY <1>8, <2>1, GotoFacts DEF IInv, Steady, SizeCall
  <2>3. Counted(t)' BY <1>8, SizeCallCounted
  <2> QED BY <1>1, <2>1, <2>2, <2>3, OthersCounted
<1>9. CASE UNCHANGED vars BY <1>2, <1>9 DEF vars, history
<1>10. CASE ListenerStart \/ \E k \in Task : ListenerFinish(k)
  BY <1>2, <1>10 DEF ListenerStart, ListenerFinish, history
<1> QED BY <1>3, <1>5, <1>6, <1>7, <1>8, <1>9, <1>10 DEF Next, Thread

(* getSize takes no lock and walks while others add: the length it returns is   *)
(* one that the list had at some time during the call, if nothing was deleted   *)
(* meanwhile and nobody struck before (cache.c:305-314).                        *)
THEOREM SizesWereTrue == Spec => []SizeWasTrue
<1>1. Init => SizeInv BY DEF Init, SizeInv, Idle
<1>2. (Steady /\ (struck \/ IInv) /\ (struck \/ SizeInv) /\ [Next]_vars)
        => (struck \/ SizeInv)'
  <2>1. ASSUME Steady, struck \/ IInv, struck \/ SizeInv, [Next]_vars
        PROVE  struck' \/ SizeInv'
    BY <2>1, NextSteady, NextCounted
  <2> QED BY <2>1
<1>3. (struck \/ IInv) /\ (struck \/ SizeInv) => SizeWasTrue
  <2> SUFFICES ASSUME ~struck, IInv, SizeInv PROVE SizeWasTrue BY DEF SizeWasTrue
  <2>1. OnList = live BY ListFacts DEF IInv, Sound
  <2> QED BY <2>1 DEF SizeInv, Counted, SizeWasTrue
<1>4. Init => struck \/ SizeInv BY <1>1
<1> QED BY <1>2, <1>3, <1>4, CarefulAlways, PTL DEF Spec
-----------------------------------------------------------------------------
(* set and the listeners, with one thread that sets. *)
Setting == {"set", "write", "notify"}

Roles == \A t \in Thread : call[t].at \in Reading =>
            /\ call[t].changed \in BOOLEAN
            /\ call[t].op = "set" => t \in Setters

(* A word that was found equal is still equal when it is written. *)
WriteInv == \A t \in Thread : call[t].at = "write" /\ ~call[t].changed =>
                heap[call[t].data].value[call[t].i] = call[t].value[call[t].i]

Queued(n) == \E k \in ToSet(pending) : k[2] = n
Changing(n) == \E t \in Thread : call[t].at \in Setting /\ call[t].data = n /\ call[t].changed

(* The listener saw the value, or will. *)
Told(n) == seen[n] = heap[n].value \/ Queued(n) \/ Changing(n)
ToldInv == \A n \in live \ missed : heap[n].name \in Listened => Told(n)

SetInv == Roles /\ WriteInv /\ ToldInv

(* A step of t that is not one of set. *)
LEMMA NotSetting ==
    ASSUME IInv, SetInv, NEW t \in Thread, UNCHANGED << list, seen, missed, pool >>,
           \A u \in Thread \ {t} : call'[u] = call[u],
           call[t].at \notin Setting, call'[t].at # "write",
           call'[t].at \in Reading => /\ call'[t].changed \in BOOLEAN
                                      /\ call'[t].op = "set" => t \in Setters
    PROVE  SetInv'
<1>1. live' = live /\ heap' = heap /\ seen' = seen /\ missed' = missed /\ pending' = pending
  BY DEF list, pool, live
<1>2. Roles' BY DEF SetInv, Roles
<1>3. WriteInv' BY <1>1 DEF SetInv, WriteInv
<1>4. ASSUME NEW n, Changing(n) PROVE Changing(n)' BY <1>4 DEF Changing
<1>5. ASSUME NEW n, Told(n) PROVE Told(n)' BY <1>1, <1>4, <1>5 DEF Told, Queued
<1>6. ToldInv' BY <1>1, <1>5 DEF SetInv, ToldInv
<1> QED BY <1>2, <1>3, <1>6 DEF SetInv

LEMMA NotSettingReturn ==
    ASSUME IInv, SetInv, NEW t \in Thread, UNCHANGED << list, seen, missed, pool >>,
           Return(t), call[t].at \notin Setting
    PROVE  SetInv'
<1>1. call'[t] = Idle /\ \A u \in Thread \ {t} : call'[u] = call[u]
  BY ReturnFacts DEF IInv, Steady
<1>2. Idle.at = "idle" BY DEF Idle
<1>3. call'[t].at # "write" /\ call'[t].at \notin Reading BY <1>1, <1>2 DEF Reading
<1> QED BY <1>1, <1>3, NotSetting

(* What addData and delData leave of the nodes. *)
LEMMA AddKeeps ==
    ASSUME HeapInv, NEW t \in Thread, Add(t), NEW n \in live'
    PROVE  /\ n \in live => /\ heap'[n].name = heap[n].name /\ heap'[n].value = heap[n].value
                            /\ seen'[n] = seen[n]
           /\ n \notin live => seen'[n] = heap'[n].value
           /\ live \subseteq live' /\ missed' = missed
<1> DEFINE c == call[t]
<1>1. CASE UNCHANGED << list, seen, missed >> BY <1>1 DEF list, live
<1>2. ASSUME NEW m \in Node \ live,
             heap' = [k \in live \cup {m} |->
                        IF k = m THEN [name |-> c.name, value |-> c.value, next |-> Null]
                        ELSE IF dataHead # Null /\ k = dataTail THEN [heap[k] EXCEPT !.next = m]
                        ELSE heap[k]],
             seen' = [k \in live \cup {m} |-> IF k = m THEN c.value ELSE seen[k]],
             missed' = missed
      PROVE  /\ n \in live => /\ heap'[n].name = heap[n].name /\ heap'[n].value = heap[n].value
                              /\ seen'[n] = seen[n]
             /\ n \notin live => seen'[n] = heap'[n].value
             /\ live \subseteq live' /\ missed' = missed
  <2>1. live' = live \cup {m} BY <1>2 DEF live
  <2>2. n \in live => heap[n] \in [name : Name, value : Value, next : Node \cup {Null}]
    BY DEF HeapInv, HeapTypes
  <2>3. CASE n \in live BY <1>2, <2>1, <2>2, <2>3
  <2>4. CASE n = m BY <1>2, <2>1, <2>4
  <2> QED BY <2>1, <2>3, <2>4
<1> QED BY <1>1, <1>2 DEF Add, history

LEMMA DelKeeps ==
    ASSUME HeapInv, NEW t \in Thread, Del(t), ~fault'
    PROVE  /\ live' \subseteq live /\ live' \ missed' \subseteq live \ missed
           /\ \A n \in live' : /\ heap'[n].name = heap[n].name
                               /\ heap'[n].value = heap[n].value /\ seen'[n] = seen[n]
<1> DEFINE c == call[t]
           data == DelSearch(c.data, c.name)
           r == Unlinked(data)
<1>1. CASE UNCHANGED << list, seen, missed >> BY <1>1 DEF list, live
<1>2. ASSUME data # Null,
             heap' = [m \in live \ {r.gone} |-> r.heap[m]],
             seen' = [m \in live \ {r.gone} |-> seen[m]], missed' = missed \ {r.gone}
      PROVE  /\ live' \subseteq live /\ live' \ missed' \subseteq live \ missed
             /\ \A n \in live' : /\ heap'[n].name = heap[n].name
                                 /\ heap'[n].value = heap[n].value /\ seen'[n] = seen[n]
  <2>1. live' = live \ {r.gone} BY <1>2 DEF live
  <2>2. ASSUME NEW n \in live
        PROVE  r.heap[n].name = heap[n].name /\ r.heap[n].value = heap[n].value
    <3>1. heap[n] \in [name : Name, value : Value, next : Node \cup {Null}]
      BY DEF HeapInv, HeapTypes
    <3>2. \A d, x : [heap EXCEPT ![d].next = x][n].name = heap[n].name
                 /\ [heap EXCEPT ![d].next = x][n].value = heap[n].value
      BY <3>1 DEF live
    <3> HIDE DEF data
    <3> QED BY <3>2 DEF Unlinked
  <2> HIDE DEF r
  <2> QED BY <1>2, <2>1, <2>2
<1> QED BY <1>1, <1>2 DEF Del, Fault, history

LEMMA AddSet ==
    ASSUME IInv, SetInv, NEW t \in Thread, Add(t)
    PROVE  SetInv'
<1>1. HeapInv /\ call[t].at = "add" /\ UNCHANGED pool /\ Return(t)
  BY DEF IInv, Sound, Add, At
<1>2. call'[t] = Idle /\ call'[t].at = "idle" /\ \A u \in Thread \ {t} : call'[u] = call[u]
  BY <1>1, ReturnFacts DEF IInv, Steady, Idle
<1>3. live \subseteq live' /\ missed' = missed
  <2>1. CASE live' = {}
    <3>1. UNCHANGED << list, missed >>
      <4>1. ASSUME NEW m, NEW f, heap' = [k \in live \cup {m} |-> f[k]] PROVE m \in live'
        BY <4>1 DEF live
      <4> QED BY <2>1 DEF Add, live, history
    <3> QED BY <3>1 DEF list, live
  <2>2. CASE live' # {} BY <1>1, <2>2, AddKeeps
  <2> QED BY <2>1, <2>2
<1>4. Roles' BY <1>2 DEF SetInv, Roles, Reading
<1>5. WriteInv'
  <2> SUFFICES ASSUME NEW u \in Thread, call'[u].at = "write", ~call'[u].changed
               PROVE  heap'[call'[u].data].value[call'[u].i] = call'[u].value[call'[u].i]
    BY DEF WriteInv
  <2>1. call'[u] = call[u] BY <1>2
  <2>2. call[u].data \in live BY <2>1 DEF IInv, Careful, Points, Reading
  <2>3. heap'[call[u].data].value = heap[call[u].data].value
    BY <1>1, <1>3, <2>2, AddKeeps
  <2> QED BY <2>1, <2>3 DEF SetInv, WriteInv
<1>6. ToldInv'
  <2> SUFFICES ASSUME NEW n \in live' \ missed', heap'[n].name \in Listened PROVE Told(n)'
    BY DEF ToldInv
  <2>1. CASE n \notin live BY <1>1, <2>1, AddKeeps DEF Told
  <2>2. CASE n \in live
    <3>1. heap'[n].name = heap[n].name /\ heap'[n].value = heap[n].value /\ seen'[n] = seen[n]
      BY <1>1, <2>2, AddKeeps
    <3>2. Told(n) BY <1>3, <2>2, <3>1 DEF SetInv, ToldInv
    <3>3. Changing(n) => Changing(n)' BY <1>1, <1>2 DEF Changing, Setting
    <3> QED BY <1>1, <3>1, <3>2, <3>3 DEF Told, Queued, pool
  <2> QED BY <2>1, <2>2
<1> QED BY <1>4, <1>5, <1>6 DEF SetInv

LEMMA DelSet ==
    ASSUME IInv, IInv', SetInv, NEW t \in Thread, Del(t)
    PROVE  SetInv'
<1>1. HeapInv /\ call[t].at = "delDo" /\ ~fault' /\ UNCHANGED pool
  BY DEF IInv, Sound, Careful, Del, At
<1>2. call'[t] = Idle /\ call'[t].at = "idle" /\ \A u \in Thread \ {t} : call'[u] = call[u]
  BY ReturnFacts DEF IInv, Steady, Del, Fault, Idle
<1>3. Roles' BY <1>2 DEF SetInv, Roles, Reading
<1>4. WriteInv'
  <2> SUFFICES ASSUME NEW u \in Thread, call'[u].at = "write", ~call'[u].changed
               PROVE  heap'[call'[u].data].value[call'[u].i] = call'[u].value[call'[u].i]
    BY DEF WriteInv
  <2>1. call'[u] = call[u] BY <1>2
  <2>2. call'[u].data \in live' BY DEF IInv, Careful, Points, Reading
  <2>3. heap'[call[u].data].value = heap[call[u].data].value BY <1>1, <2>1, <2>2, DelKeeps
  <2> QED BY <2>1, <2>3 DEF SetInv, WriteInv
<1>5. ToldInv'
  <2> SUFFICES ASSUME NEW n \in live' \ missed', heap'[n].name \in Listened PROVE Told(n)'
    BY DEF ToldInv
  <2>1. /\ n \in live \ missed
        /\ heap'[n].name = heap[n].name /\ heap'[n].value = heap[n].value /\ seen'[n] = seen[n]
    BY <1>1, DelKeeps
  <2>2. Told(n) BY <2>1 DEF SetInv, ToldInv
  <2>3. Changing(n) => Changing(n)' BY <1>1, <1>2 DEF Changing, Setting
  <2> QED BY <1>1, <2>1, <2>2, <2>3 DEF Told, Queued, pool
<1> QED BY <1>3, <1>4, <1>5 DEF SetInv

(* The steps that neither set nor add nor delete. *)
LEMMA ReadSet ==
    ASSUME IInv, SetInv, NEW t \in Thread,
           DelLock(t) \/ HasHead(t) \/ Search(t) \/ GetWord(t) \/ SizeNext(t) \/ SizeReturn(t)
    PROVE  SetInv'
<1> DEFINE c == call[t]
<1>1. /\ Locals(c)
      /\ c.at \in Reading => c.changed \in BOOLEAN /\ (c.op = "set" => t \in Setters)
      /\ c.at \in Reading \ {"has"} => c.data \in live
      /\ c.at = "size" => c.data \in live \cup {Null}
  BY DEF IInv, Sound, CallInv, Careful, Points, SetInv, Roles
<1>2. \A l : Goto(t, l) => call'[t] = Updated(c, l) /\ \A u \in Thread \ {t} : call'[u] = call[u]
  BY GotoFacts DEF IInv, Steady
<1>3. CASE DelLock(t)
  <2>1. Updated(c, [at |-> "delDo"]).at = "delDo" BY DEF Updated
  <2>2. c.at \notin Setting /\ UNCHANGED << list, seen, missed, pool >> /\ Goto(t, [at |-> "delDo"])
    BY <1>3 DEF DelLock, At, Setting, history
  <2> QED BY <1>2, <2>1, <2>2, NotSetting DEF Reading
<1>4. CASE HasHead(t)
  <2> DEFINE l == [at |-> "search"]
  <2>1. c.at = "has" /\ UNCHANGED << list, seen, missed, pool >> /\ (Return(t) \/ Goto(t, l))
    BY <1>4 DEF HasHead, At, history
  <2>2. c.at \notin Setting /\ c.at \in Reading BY <2>1 DEF Setting, Reading
  <2>3. /\ Updated(c, l).at = "search" /\ Updated(c, l).op = c.op
        /\ Updated(c, l).changed = c.changed
    BY <1>1, <2>2 DEF Updated, Locals
  <2> HIDE DEF l
  <2> QED BY <1>1, <1>2, <2>1, <2>2, <2>3, NotSetting, NotSettingReturn
<1>5. CASE Search(t)
  <2> DEFINE l == [at |-> c.op]
             m == [data |-> heap[c.data].next]
  <2>1. c.at = "search" BY <1>5 DEF Search, At
  <2>2. c.at \notin Setting /\ c.at \in Reading BY <2>1 DEF Setting, Reading
  <2>3. UNCHANGED << list, seen, missed, pool >> /\ (Return(t) \/ Goto(t, l) \/ Goto(t, m))
    <3>1. c.data \in live BY <1>1, <2>1, <2>2
    <3> QED BY <1>5, <3>1 DEF Search, history
  <2>4. c.op \in {"get", "set"} BY <1>1, <2>2 DEF Locals
  <2>5. /\ Updated(c, l).at # "write" /\ Updated(c, l).op = c.op
        /\ Updated(c, l).changed = c.changed
    BY <1>1, <2>2, <2>4 DEF Updated, Locals
  <2>6. /\ Updated(c, m).at # "write" /\ Updated(c, m).op = c.op
        /\ Updated(c, m).changed = c.changed
    BY <1>1, <2>1, <2>2 DEF Updated, Locals
  <2> HIDE DEF l, m
  <2> QED BY <1>1, <1>2, <2>2, <2>3, <2>5, <2>6, NotSetting, NotSettingReturn
<1>6. CASE GetWord(t)
  <2> DEFINE l == [i |-> c.i + 1,
                   value |-> [c.value EXCEPT ![c.i] = heap[c.data].value[c.i]]]
  <2>1. c.at = "get" BY <1>6 DEF GetWord, At
  <2>2. c.at \notin Setting /\ c.at \in Reading BY <2>1 DEF Setting, Reading
  <2>3. UNCHANGED << list, seen, missed, pool >> /\ (Return(t) \/ Goto(t, l))
    <3>1. c.data \in live BY <1>1, <2>1, <2>2
    <3> QED BY <1>6, <3>1 DEF GetWord, history
  <2>4. /\ Updated(c, l).at # "write" /\ Updated(c, l).op = c.op
        /\ Updated(c, l).changed = c.changed
    BY <1>1, <2>1, <2>2 DEF Updated, Locals
  <2> HIDE DEF l
  <2> QED BY <1>1, <1>2, <2>2, <2>3, <2>4, NotSetting, NotSettingReturn
<1>7. CASE SizeNext(t) \/ SizeReturn(t)
  <2> DEFINE l == [data |-> heap[c.data].next, length |-> c.length + 1]
  <2>1. c.at = "size" BY <1>7 DEF SizeNext, SizeReturn, At
  <2>2. c.at \notin Setting BY <2>1 DEF Setting
  <2>3. UNCHANGED << list, seen, missed, pool >> /\ (Return(t) \/ Goto(t, l))
    BY <1>1, <1>7, <2>1 DEF SizeNext, SizeReturn, history
  <2>4. Updated(c, l).at = "size" BY <1>1, <2>1 DEF Updated, Locals
  <2>5. Updated(c, l).at # "write" /\ Updated(c, l).at \notin Reading BY <2>4 DEF Reading
  <2> HIDE DEF l
  <2> QED BY <1>1, <1>2, <2>2, <2>3, <2>5, NotSetting, NotSettingReturn
<1> QED BY <1>3, <1>4, <1>5, <1>6, <1>7

LEMMA CompareSet ==
    ASSUME IInv, SetInv, NEW t \in Thread, SetCompare(t)
    PROVE  SetInv'
<1> DEFINE c == call[t]
           differs == heap[c.data].value[c.i] # c.value[c.i]
           r == call'[t]
<1>1. /\ c.at = "set" /\ Locals(c) /\ c.data \in live /\ c.changed \in BOOLEAN
      /\ c.op = "set" => t \in Setters
  BY DEF IInv, Sound, CallInv, Careful, Points, SetInv, Roles, SetCompare, At, Reading
<1>2. UNCHANGED << list, seen, missed, pool >>
  BY <1>1 DEF SetCompare, history
<1>3. live' = live /\ heap' = heap /\ seen' = seen /\ missed' = missed /\ pending' = pending
  BY <1>2 DEF list, pool, live
<1>4. /\ \A u \in Thread \ {t} : call'[u] = call[u]
      /\ r.at \in {"write", "notify"} /\ r.op = c.op /\ r.data = c.data
      /\ r.i = c.i /\ r.value = c.value /\ r.changed \in BOOLEAN
      /\ c.changed => r.changed
      /\ r.at = "write" /\ differs => r.changed
  <2>1. CASE Goto(t, [at |-> "notify"])
    <3>1. r = Updated(c, [at |-> "notify"]) /\ \A u \in Thread \ {t} : call'[u] = call[u]
      BY <2>1, GotoFacts DEF IInv, Steady
    <3> QED BY <1>1, <3>1 DEF Updated, Locals, Reading
  <2>2. CASE Goto(t, [at |-> "write", changed |-> c.changed \/ differs])
    <3> DEFINE b == c.changed \/ differs
    <3>1. b \in BOOLEAN /\ (c.changed => b) /\ (differs => b) BY <1>1
    <3> HIDE DEF b
    <3>2. Goto(t, [at |-> "write", changed |-> b]) BY <2>2 DEF b
    <3>3. r = Updated(c, [at |-> "write", changed |-> b])
          /\ \A u \in Thread \ {t} : call'[u] = call[u]
      BY <3>2, GotoFacts DEF IInv, Steady
    <3>4. /\ r.at = "write" /\ r.op = c.op /\ r.data = c.data /\ r.i = c.i
          /\ r.value = c.value /\ r.changed = b
      BY <1>1, <3>3 DEF Updated, Locals, Reading
    <3> QED BY <3>1, <3>3, <3>4
  <2> QED BY <1>1, <2>1, <2>2 DEF SetCompare
<1> HIDE DEF r
<1>5. Roles' BY <1>1, <1>4 DEF SetInv, Roles, r
<1>6. WriteInv' BY <1>3, <1>4 DEF SetInv, WriteInv, r
<1>7. ASSUME NEW n, Changing(n) PROVE Changing(n)'
  <2>1. PICK u \in Thread : call[u].at \in Setting /\ call[u].data = n /\ call[u].changed
    BY <1>7 DEF Changing
  <2>2. call'[u].at \in Setting /\ call'[u].data = n /\ call'[u].changed
    BY <1>4, <2>1 DEF Setting, r
  <2> QED BY <2>2 DEF Changing
<1>8. ASSUME NEW n, Told(n) PROVE Told(n)' BY <1>3, <1>7, <1>8 DEF Told, Queued
<1>9. ToldInv' BY <1>3, <1>8 DEF SetInv, ToldInv
<1> QED BY <1>5, <1>6, <1>9 DEF SetInv

LEMMA WriteSet ==
    ASSUME \A u, v \in Setters : u = v, IInv, SetInv, NEW t \in Thread, SetWrite(t)
    PROVE  SetInv'
<1> DEFINE c == call[t]
           r == call'[t]
<1>1. /\ c.at = "write" /\ Locals(c) /\ c.data \in live /\ c.changed \in BOOLEAN
      /\ c.op = "set" /\ t \in Setters /\ HeapTypes
  BY DEF IInv, Sound, HeapInv, CallInv, Careful, Points, SetInv, Roles, SetWrite, At, Reading, Locals
<1>2. /\ heap' = [heap EXCEPT ![c.data].value[c.i] = c.value[c.i]]
      /\ Goto(t, [at |-> "set", i |-> c.i + 1]) /\ UNCHANGED << seen, missed, pool >>
  BY <1>1 DEF SetWrite, history
<1>3. live' = live /\ seen' = seen /\ missed' = missed /\ pending' = pending
  BY <1>2 DEF pool, live
<1>4. r = Updated(c, [at |-> "set", i |-> c.i + 1]) /\ \A u \in Thread \ {t} : call'[u] = call[u]
  BY <1>2, GotoFacts DEF IInv, Steady
<1>5. r.at = "set" /\ r.op = c.op /\ r.data = c.data /\ r.changed = c.changed
  BY <1>1, <1>4 DEF Updated, Locals, Reading
<1>6. Roles' BY <1>1, <1>4, <1>5 DEF SetInv, Roles
<1>7. \A u \in Thread \ {t} : call[u].at # "write"
  <2>1. ASSUME NEW u \in Thread \ {t}, call[u].at = "write" PROVE FALSE
    <3>1. Locals(call[u]) /\ (call[u].op = "set" => u \in Setters)
      BY <2>1 DEF IInv, Sound, CallInv, SetInv, Roles, Reading
    <3>2. u \in Setters BY <2>1, <3>1 DEF Locals, Reading
    <3> QED BY <1>1, <3>2
  <2> QED BY <2>1
<1>8. WriteInv' BY <1>4, <1>5, <1>7 DEF WriteInv
<1>9. ASSUME NEW n, Changing(n) PROVE Changing(n)'
  <2>1. PICK u \in Thread : call[u].at \in Setting /\ call[u].data = n /\ call[u].changed
    BY <1>9 DEF Changing
  <2>2. call'[u].at \in Setting /\ call'[u].data = n /\ call'[u].changed
    BY <1>4, <1>5, <2>1 DEF Setting
  <2> QED BY <2>2 DEF Changing
<1>10. ASSUME NEW n \in live
       PROVE  /\ heap'[n].name = heap[n].name
              /\ n # c.data \/ ~c.changed => heap'[n].value = heap[n].value
  <2>1. heap[n] \in [name : Name, value : Value, next : Node \cup {Null}] BY <1>1 DEF HeapTypes
  <2>2. CASE n # c.data BY <1>2, <2>2 DEF live
  <2>3. CASE n = c.data
    <3>1. heap'[n] = [heap[n] EXCEPT !.value[c.i] = c.value[c.i]] BY <1>2, <2>3 DEF live
    <3>2. heap'[n].name = heap[n].name
          /\ heap'[n].value = [heap[n].value EXCEPT ![c.i] = c.value[c.i]]
      BY <2>1, <3>1
    <3>3. ~c.changed => heap[n].value[c.i] = c.value[c.i]
      BY <1>1, <2>3 DEF SetInv, WriteInv
    <3>4. heap[n].value = [i \in 1 .. Words |-> heap[n].value[i]] BY <2>1 DEF Value
    <3> QED BY <2>3, <3>2, <3>3, <3>4
  <2> QED BY <2>2, <2>3
<1>11. ASSUME NEW n, n = c.data, c.changed PROVE Changing(n)'
  BY <1>5, <1>11 DEF Changing, Setting
<1>12. ASSUME NEW n \in live, Told(n) PROVE Told(n)'
  <2>1. CASE n = c.data /\ c.changed BY <1>11, <2>1 DEF Told
  <2>2. CASE n # c.data \/ ~c.changed
    <3>1. heap'[n].value = heap[n].value BY <1>10, <2>2
    <3> QED BY <1>3, <1>9, <1>12, <3>1 DEF Told, Queued
  <2> QED BY <1>1, <2>1, <2>2
<1>13. ToldInv' BY <1>3, <1>10, <1>12 DEF SetInv, ToldInv
<1> QED BY <1>6, <1>8, <1>13 DEF SetInv
LEMMA NotifySet ==
    ASSUME IInv, SetInv, NEW t \in Thread, SetNotify(t)
    PROVE  SetInv'
<1> DEFINE c == call[t]
           k == << Cardinality(submitted) + 1, c.data >>
<1>1. c.at = "notify" /\ c.data \in live /\ PoolInv
  BY DEF IInv, Careful, Points, SetNotify, At, Reading
<1>2. Return(t) /\ UNCHANGED << list, seen >> BY DEF SetNotify, Fault
<1>3. call'[t] = Idle /\ call'[t].at = "idle" /\ \A u \in Thread \ {t} : call'[u] = call[u]
  BY <1>2, ReturnFacts DEF IInv, Steady, Idle
<1>4. live' = live /\ heap' = heap /\ seen' = seen BY <1>2 DEF list, live
<1>5. Roles' BY <1>3 DEF SetInv, Roles, Reading
<1>6. WriteInv' BY <1>3, <1>4 DEF SetInv, WriteInv
<1>7. ASSUME NEW n, n # c.data, Changing(n) PROVE Changing(n)'
  BY <1>3, <1>7 DEF Changing
<1>8. \/ Pool!Submit(k) /\ missed' = missed \ {c.data}
      \/ pending' = pending /\ missed' = missed \cup {c.data}
      \/ /\ pending' = pending /\ missed' = missed
         /\ c.changed => heap[c.data].name \notin Listened
  BY <1>1 DEF SetNotify, pool
<1>9. /\ \A n : Queued(n) => Queued(n)'
      /\ Pool!Submit(k) => \A n : n = c.data => Queued(n)'
  <2>1. ASSUME Pool!Submit(k) PROVE ToSet(pending') = ToSet(pending) \cup {k}
    <3>1. pending' = Append(pending, k) BY <2>1 DEF Pool!Submit
    <3>2. k \in Nat \X live
      <4>1. Cardinality(submitted) \in Nat BY <1>1, FS_CardinalityType DEF PoolInv
      <4> QED BY <1>1, <4>1
    <3> HIDE DEF k
    <3> QED BY <1>1, <3>1, <3>2, AppendSet DEF PoolInv
  <2>2. k[2] = c.data OBVIOUS
  <2> HIDE DEF k
  <2> QED BY <1>8, <2>1, <2>2 DEF Queued
<1> HIDE DEF k
<1>10. ToldInv'
  <2> SUFFICES ASSUME NEW n \in live \ missed', heap[n].name \in Listened PROVE Told(n)'
    BY <1>4 DEF ToldInv
  <2>1. CASE n = c.data
    <3>1. CASE Pool!Submit(k) BY <1>9, <2>1, <3>1 DEF Told
    <3>2. CASE missed' = missed \cup {c.data} BY <2>1, <3>2
    <3>3. CASE /\ pending' = pending /\ missed' = missed
               /\ c.changed => heap[c.data].name \notin Listened
      <4>1. ~c.changed /\ Told(n) BY <2>1, <3>3 DEF SetInv, ToldInv
      <4>2. Changing(n) => Changing(n)'
        <5>1. ASSUME NEW u \in Thread, call[u].at \in Setting, call[u].data = n, call[u].changed
              PROVE  Changing(n)'
          BY <1>3, <4>1, <5>1 DEF Changing
        <5> QED BY <5>1 DEF Changing
      <4> QED BY <1>4, <1>9, <4>1, <4>2 DEF Told
    <3> QED BY <1>8, <3>1, <3>2, <3>3
  <2>2. CASE n # c.data
    <3>1. n \notin missed BY <1>8, <2>2
    <3>2. Told(n) BY <3>1 DEF SetInv, ToldInv
    <3> QED BY <1>4, <1>7, <1>9, <2>2, <3>2 DEF Told
  <2> QED BY <2>1, <2>2
<1> QED BY <1>5, <1>6, <1>10 DEF SetInv

LEMMA ListenersSet ==
    ASSUME IInv, SetInv, ListenerStart \/ \E k \in Task : ListenerFinish(k)
    PROVE  SetInv'
<1>1. UNCHANGED << call, list, missed >> /\ live' = live /\ heap' = heap
  BY DEF ListenerStart, ListenerFinish, list, live, history
<1>2. Roles' /\ WriteInv' BY <1>1 DEF SetInv, Roles, WriteInv
<1>3. ASSUME NEW n, Changing(n) PROVE Changing(n)' BY <1>1, <1>3 DEF Changing
<1>4. CASE ListenerStart
  <2>1. pending # << >> /\ pending' = Tail(pending) /\ pending \in Seq(Nat \X live)
    BY <1>4 DEF ListenerStart, Pool!Start, IInv, Careful, PoolInv
  <2>2. ToSet(pending) \subseteq ToSet(pending') \cup {Head(pending)} BY <2>1, TailSet
  <2>3. Head(pending)[2] \in live
    <3>1. Head(pending) \in Nat \X live BY <2>1, TailSet
    <3> QED BY <3>1
  <2>4. seen' = [seen EXCEPT ![Head(pending)[2]] = heap[Head(pending)[2]].value]
    BY <1>4, <2>3 DEF ListenerStart
  <2>5. DOMAIN seen = live BY DEF IInv, Sound, HeapInv
  <2>6. ASSUME NEW n \in live, Told(n) PROVE Told(n)'
    <3>1. CASE n = Head(pending)[2]
      <4>1. seen'[n] = heap[n].value BY <2>4, <2>5, <3>1
      <4> QED BY <1>1, <4>1 DEF Told
    <3>2. CASE n # Head(pending)[2]
      <4>1. seen'[n] = seen[n] BY <2>4, <2>5, <3>2
      <4>2. Queued(n) => Queued(n)' BY <2>2, <3>2 DEF Queued
      <4> QED BY <1>1, <1>3, <2>6, <4>1, <4>2 DEF Told
    <3> QED BY <3>1, <3>2
  <2>7. ToldInv' BY <1>1, <2>6 DEF SetInv, ToldInv
  <2> QED BY <1>2, <2>7 DEF SetInv
<1>5. ASSUME NEW k \in Task, ListenerFinish(k) PROVE SetInv'
  <2>1. seen' = seen /\ pending' = pending
    BY <1>5 DEF ListenerFinish, Pool!Finish, history
  <2>2. ASSUME NEW n, Told(n) PROVE Told(n)' BY <1>1, <1>3, <2>1, <2>2 DEF Told, Queued
  <2>3. ToldInv' BY <1>1, <2>2 DEF SetInv, ToldInv
  <2> QED BY <1>2, <2>3 DEF SetInv
<1> QED BY <1>4, <1>5

LEMMA CallsSet ==
    ASSUME IInv, SetInv, NEW t \in Thread
    PROVE  /\ \A nm \in Name, v \in Value : AddCall(t, nm, v) => SetInv'
           /\ \A nm \in Name : DelCall(t, nm) => SetInv'
           /\ \A nm \in Name : HasCall(t, "get", nm, Zero) => SetInv'
           /\ t \in Setters => \A nm \in Name, v \in Value : HasCall(t, "set", nm, v) => SetInv'
           /\ SizeCall(t) => SetInv'
<1>1. ASSUME NEW l, Goto(t, l), UNCHANGED << list, seen, missed, pool >>, call[t] = Idle,
             Updated(Idle, l).at # "write",
             Updated(Idle, l).at \in Reading => /\ Updated(Idle, l).changed \in BOOLEAN
                                                /\ Updated(Idle, l).op = "set" => t \in Setters
      PROVE  SetInv'
  <2>1. call'[t] = Updated(Idle, l) /\ \A u \in Thread \ {t} : call'[u] = call[u]
    BY <1>1, GotoFacts DEF IInv, Steady
  <2>2. call[t].at \notin Setting BY <1>1 DEF Idle, Setting
  <2> QED BY <1>1, <2>1, <2>2, NotSetting
<1>2. ASSUME NEW nm \in Name, NEW v \in Value, AddCall(t, nm, v) PROVE SetInv'
  <2>1. Updated(Idle, [at |-> "add", name |-> nm, value |-> v]).at = "add" BY DEF Updated
  <2> QED BY <1>1, <1>2, <2>1 DEF AddCall, history, Reading
<1>3. ASSUME NEW nm \in Name, DelCall(t, nm) PROVE SetInv'
  <2>1. Updated(Idle, [at |-> "delLock", name |-> nm, data |-> dataHead]).at = "delLock"
    BY DEF Updated
  <2> QED BY <1>1, <1>3, <2>1 DEF DelCall, history, Reading
<1>4. ASSUME NEW op \in {"get", "set"}, NEW nm \in Name, NEW v, HasCall(t, op, nm, v),
             op = "set" => t \in Setters
      PROVE  SetInv'
  <2> DEFINE l == [at |-> "has", op |-> op, name |-> nm, value |-> v, data |-> dataHead,
                   i |-> 1, changed |-> FALSE]
  <2>1. Updated(Idle, l).at = "has" /\ Updated(Idle, l).op = op /\ Updated(Idle, l).changed = FALSE
    BY DEF Updated
  <2>2. Goto(t, l) /\ call[t] = Idle /\ UNCHANGED << list, seen, missed, pool >>
    BY <1>4 DEF HasCall, history
  <2> HIDE DEF l
  <2> QED BY <1>1, <1>4, <2>1, <2>2
<1>5. ASSUME SizeCall(t) PROVE SetInv'
  <2>1. Updated(Idle, [at |-> "size", data |-> dataHead, length |-> 0,
                       atStart |-> Cardinality(OnList)]).at = "size"
    BY DEF Updated
  <2> QED BY <1>1, <1>5, <2>1 DEF SizeCall, Reading
<1>6. \A nm \in Name : HasCall(t, "get", nm, Zero) => SetInv' BY <1>4
<1>7. t \in Setters => \A nm \in Name, v \in Value : HasCall(t, "set", nm, v) => SetInv' BY <1>4
<1> QED BY <1>2, <1>3, <1>5, <1>6, <1>7

LEMMA NextSet ==
    ASSUME \A u, v \in Setters : u = v, IInv, IInv', SetInv, [Next]_vars
    PROVE  SetInv'
<1>1. CASE UNCHANGED vars
  <2>1. /\ call' = call /\ heap' = heap /\ seen' = seen /\ missed' = missed
        /\ pending' = pending /\ live' = live
    BY <1>1 DEF vars, list, history, pool, live
  <2>2. \A n : Told(n) => Told(n)' BY <2>1 DEF Told, Queued, Changing
  <2> QED BY <2>1, <2>2 DEF SetInv, Roles, WriteInv, ToldInv
<1>2. CASE \E t \in Thread : Step(t)
  BY <1>2, AddSet, DelSet, ReadSet, CompareSet, WriteSet, NotifySet DEF Step
<1>3. CASE \E t \in Adders, nm \in Name, v \in Value : AddCall(t, nm, v)
  BY <1>3, CallsSet DEF Thread
<1>4. CASE \E t \in Deleters, nm \in Name : DelCall(t, nm) BY <1>4, CallsSet DEF Thread
<1>5. CASE \E t \in Getters, nm \in Name : HasCall(t, "get", nm, Zero)
  BY <1>5, CallsSet DEF Thread
<1>6. CASE \E t \in Setters, nm \in Name, v \in Value : HasCall(t, "set", nm, v)
  BY <1>6, CallsSet DEF Thread
<1>7. CASE \E t \in Sizers : SizeCall(t) BY <1>7, CallsSet DEF Thread
<1>8. CASE ListenerStart \/ \E k \in Task : ListenerFinish(k) BY <1>8, ListenersSet
<1> QED BY <1>1, <1>2, <1>3, <1>4, <1>5, <1>6, <1>7, <1>8 DEF Next

LEMMA ToldUpToDate ==
    ASSUME SetInv
    PROVE  ListenersUpToDate
<1> SUFFICES ASSUME pending = << >>, NobodyIn({"set", "write", "notify"}),
                    NEW n \in live \ missed, heap[n].name \in Listened
             PROVE  seen[n] = heap[n].value
  BY DEF ListenersUpToDate
<1>1. Told(n) BY DEF SetInv, ToldInv
<1>2. ~Queued(n) BY DEF Queued, ToSet
<1>3. ~Changing(n) BY DEF Changing, NobodyIn, Setting
<1> QED BY <1>1, <1>2, <1>3 DEF Told

(* While one thread sets, no change of a value is lost to its listener: it has  *)
(* seen the value, or a task for it waits in the pool, or the set that made the  *)
(* change is still to submit one (cache.c:271-290), but for what the pool had    *)
(* no memory for.                                                                *)
THEOREM ListenersTold ==
    ASSUME \A u, v \in Setters : u = v
    PROVE  Spec => []ListenersUpToDate
<1>1. Init => struck \/ SetInv
  BY DEF Init, SetInv, Roles, WriteInv, ToldInv, Idle, Reading, live
<1>2. (Steady /\ (struck \/ IInv) /\ (struck \/ SetInv) /\ [Next]_vars)
        => (struck \/ SetInv)'
  <2>1. ASSUME Steady, struck \/ IInv, struck \/ SetInv, [Next]_vars
        PROVE  struck' \/ SetInv'
    BY <2>1, NextSteady, NextIInv, NextSet
  <2> QED BY <2>1
<1>3. struck \/ SetInv => ListenersUpToDate BY ToldUpToDate DEF ListenersUpToDate
<1> QED BY <1>1, <1>2, <1>3, CarefulAlways, PTL DEF Spec
-----------------------------------------------------------------------------
(* What a delete takes away. *)
LEMMA DelTakes ==
    ASSUME IInv, ~struck', NEW t \in Thread, Del(t)
    PROVE  OneTaken(call[t].name)
<1> DEFINE c == call[t]
           data == DelSearch(c.data, c.name)
           r == Unlinked(data)
<1>1. ~fault' /\ ~fault /\ c.data = dataHead
  BY DelNoFault DEF IInv, Careful, Points, Del, At, DelPlaces
<1>2. NamesOnList = {heap[m].name : m \in live} /\ (dataHead = Null <=> live = {})
  BY ListFacts DEF IInv, Sound
<1>3. CASE dataHead = Null
  <2>1. c.name \notin NamesOnList BY <1>2, <1>3
  <2>2. live' = live BY <1>3 DEF Del, list, live
  <2> QED BY <2>1, <2>2 DEF OneTaken
<1>4. CASE dataHead # Null
  <2>1. PICK n \in Nat : \E s \in [1 .. n -> Node] : Chain(s, n)
    BY DEF IInv, Sound, HeapInv, IsChain
  <2>2. PICK s \in [1 .. n -> Node] : Chain(s, n) BY <2>1
  <2>3. /\ n # 0 /\ 1 \in 1 .. n /\ dataHead = s[1]
        /\ live = {s[i] : i \in 1 .. n}
        /\ \A i \in 1 .. n : heap[s[i]].next = IF i = n THEN Null ELSE s[i + 1]
    BY <1>4, <2>2 DEF Chain
  <2>4. c.data = s[1] /\ c.data \in live BY <1>1, <2>3
  <2>5. Stop(data, s, n, 1, c.name) BY <2>2, <2>3, <2>4, SearchFacts
  <2>6. CASE data = Null
    <3>1. c.name \notin NamesOnList
      <4>1. s[1] # Null /\ \A i \in 1 .. n - 1 : i \in 1 .. n /\ s[i] # Null
        BY <2>2, <2>3, CacheAssumption
      <4> HIDE DEF data
      <4>2. \A i \in 1 .. n : heap[s[i]].name # c.name BY <2>5, <2>6, <4>1 DEF Stop
      <4> QED BY <1>2, <2>3, <4>2
    <3>2. UNCHANGED list
      <4> HIDE DEF data
      <4> QED BY <1>1, <1>4, <2>4, <2>6 DEF Del, data, Fault
    <3> QED BY <3>1, <3>2 DEF OneTaken, list, live
  <2>7. CASE data # Null
    <3>1. PICK i \in 1 .. n : /\ data = s[i]
                              /\ \/ i = 1 /\ heap[s[1]].name = c.name
                                 \/ i + 1 \in 1 .. n /\ heap[s[i + 1]].name = c.name
      <4>1. \A i \in 1 .. n - 1 : i \in 1 .. n /\ i + 1 \in 1 .. n BY <2>3
      <4> HIDE DEF data
      <4> QED BY <2>3, <2>5, <2>7, <4>1 DEF Stop
    <3>2. /\ data = dataHead \/ heap[data].next # Null
          /\ r = Unlinked(data) /\ r.gone # Null
          /\ heap' = [m \in live \ {r.gone} |-> r.heap[m]]
      <4> HIDE DEF data
      <4> QED BY <1>1, <1>4, <2>4, <2>7 DEF Del, data, Fault
    <3> HIDE DEF data, r
    <3>3. PICK p \in 1 .. n : p = (IF i = 1 THEN 1 ELSE i + 1) /\ Removed(r, s, n, p)
      <4>1. /\ s[i] = dataHead \/ heap[s[i]].next # Null
            /\ Unlinked(s[i]).gone # Null /\ r = Unlinked(s[i])
        BY <3>1, <3>2
      <4>2. \E p \in 1 .. n : /\ p = (IF i = 1 THEN 1 ELSE i + 1)
                              /\ Removed(Unlinked(s[i]), s, n, p)
        BY <2>2, <4>1, UnlinkedFacts
      <4> QED BY <4>1, <4>2
    <3>4. live' = live \ {s[p]} /\ s[p] \in live BY <2>3, <3>2, <3>3 DEF live, Removed
    <3>5. c.name \in NamesOnList BY <1>2, <2>3, <3>1
    <3>6. CASE heap[s[p]].name = c.name BY <3>4, <3>5, <3>6 DEF OneTaken
    <3>7. CASE heap[s[p]].name # c.name
      <4>1. i = 1 /\ p = 1 /\ 2 \in 1 .. n /\ heap[s[2]].name = c.name
        BY <3>1, <3>3, <3>7
      <4>2. s[p] = dataHead /\ heap[s[p]].next = s[2] /\ s[2] \in live BY <2>3, <4>1
      <4>3. heap[heap[s[p]].next].name = c.name BY <4>1, <4>2
      <4> QED BY <3>4, <3>5, <4>2, <4>3 DEF OneTaken
    <3> QED BY <3>6, <3>7
  <2> QED BY <2>6, <2>7
<1> QED BY <1>3, <1>4

(* Every other step leaves the data that are there, and nobody in the middle  *)
(* of a delete goes on.                                                       *)
LEMMA StepTakes ==
    ASSUME IInv, NEW t \in Thread, Step(t), ~Del(t)
    PROVE  /\ live \subseteq live'
           /\ \A u \in Thread : call[u].at = "delDo" => call'[u] = call[u]
<1>1. call[t].at # "delDo"
  BY DEF Step, Add, DelLock, HasHead, Search, GetWord, SetCompare, SetWrite, SetNotify,
         SizeNext, SizeReturn, At
<1>2. \A u \in Thread \ {t} : call'[u] = call[u] BY StepPlaces
<1>3. CASE Add(t)
  <2>1. live' = live \/ \E m \in Node \ live : live' = live \cup {m}
    BY <1>3 DEF Add, list, live
  <2> QED BY <1>1, <1>2, <2>1
<1>4. CASE SetWrite(t)
  <2>1. call[t].data \in live BY <1>4 DEF IInv, Careful, Points, SetWrite, At, Reading
  <2>2. live' = live BY <1>4, <2>1 DEF SetWrite, live
  <2> QED BY <1>1, <1>2, <2>2
<1>5. CASE UNCHANGED list BY <1>1, <1>2, <1>5 DEF list, live
<1> QED BY <1>3, <1>4, <1>5 DEF Step, DelLock, HasHead, Search, GetWord, SetCompare, SetNotify,
                                SizeNext, SizeReturn

LEMMA NextTakes ==
    ASSUME IInv, ~struck', [Next]_vars
    PROVE  [/\ live \subseteq live' \/ \E t \in Thread : call[t].at = "delDo"
            /\ \A t \in Thread : call[t].at = "delDo" /\ call'[t].at # "delDo" =>
                                     OneTaken(call[t].name)]_vars
<1> DEFINE Kept == /\ live \subseteq live'
                   /\ \A u \in Thread : call[u].at = "delDo" => call'[u] = call[u]
<1>1. Kept => /\ live \subseteq live'
              /\ \A t \in Thread : ~(call[t].at = "delDo" /\ call'[t].at # "delDo")
  OBVIOUS
<1>2. ASSUME NEW t \in Thread, Del(t)
      PROVE  /\ call[t].at = "delDo"
             /\ \A u \in Thread : call[u].at = "delDo" /\ call'[u].at # "delDo" =>
                                      OneTaken(call[u].name)
  <2>1. call[t].at = "delDo" BY <1>2 DEF Del, At
  <2>2. \A u \in Thread \ {t} : call'[u] = call[u] BY <1>2, StepPlaces DEF Step
  <2> QED BY <1>2, <2>1, <2>2, DelTakes
<1>3. ASSUME NEW t \in Thread, NEW l, call[t] = Idle, Goto(t, l), UNCHANGED list PROVE Kept
  <2>1. call[t].at # "delDo" BY <1>3 DEF Idle
  <2>2. \A u \in Thread \ {t} : call'[u] = call[u] BY <1>3, GotoFacts DEF IInv, Steady
  <2> QED BY <1>3, <2>1, <2>2 DEF list, live
<1> HIDE DEF Kept
<1>4. ASSUME \E t \in Thread : Step(t), ~Kept PROVE \E t \in Thread : Del(t)
  BY <1>4, StepTakes DEF Kept
<1>5. ASSUME NEW t \in Thread, NEW nm, NEW v, AddCall(t, nm, v) PROVE Kept
  BY <1>3, <1>5 DEF AddCall
<1>6. ASSUME NEW t \in Thread, NEW nm, DelCall(t, nm) PROVE Kept
  BY <1>3, <1>6 DEF DelCall
<1>7. ASSUME NEW t \in Thread, NEW op, NEW nm, NEW v, HasCall(t, op, nm, v) PROVE Kept
  BY <1>3, <1>7 DEF HasCall
<1>8. ASSUME NEW t \in Thread, SizeCall(t) PROVE Kept BY <1>3, <1>8 DEF SizeCall
<1>9. ASSUME ListenerStart \/ \E k \in Task : ListenerFinish(k) PROVE Kept
  BY <1>9 DEF ListenerStart, ListenerFinish, Kept, list, live
<1>10. CASE Next
  <2>1. Kept \/ \E t \in Thread : Del(t)
    <3>1. CASE \E t \in Thread : Step(t) BY <1>4, <3>1
    <3>2. CASE \E t \in Adders, nm \in Name, v \in Value : AddCall(t, nm, v)
      BY <1>5, <3>2 DEF Thread
    <3>3. CASE \E t \in Deleters, nm \in Name : DelCall(t, nm) BY <1>6, <3>3 DEF Thread
    <3>4. CASE \E t \in Getters, nm \in Name : HasCall(t, "get", nm, Zero)
      BY <1>7, <3>4 DEF Thread
    <3>5. CASE \E t \in Setters, nm \in Name, v \in Value : HasCall(t, "set", nm, v)
      BY <1>7, <3>5 DEF Thread
    <3>6. CASE \E t \in Sizers : SizeCall(t) BY <1>8, <3>6 DEF Thread
    <3> QED BY <1>9, <1>10, <3>1, <3>2, <3>3, <3>4, <3>5, <3>6 DEF Next
  <2> QED BY <1>1, <1>2, <2>1
<1> QED BY <1>10

(* del takes away one data, whose name was asked for unless that is the       *)
(* second: then the head goes (cache.c:178-222).  The search starts at the    *)
(* head that was read before the lock, which is still the head if nobody was  *)
(* struck.                                                                    *)
THEOREM DeletesTakeOne == Spec => DelTakesOne
<1> DEFINE Takes == /\ live \subseteq live' \/ \E t \in Thread : call[t].at = "delDo"
                    /\ \A t \in Thread : call[t].at = "delDo" /\ call'[t].at # "delDo" =>
                                             OneTaken(call[t].name)
<1>1. (Steady /\ (struck \/ IInv) /\ [Next]_vars) => [struck' \/ Takes]_vars
  <2> SUFFICES ASSUME Steady, struck \/ IInv, [Next]_vars, ~struck'
               PROVE  [Takes]_vars
    OBVIOUS
  <2>1. IInv BY NextSteady
  <2> QED BY <2>1, NextTakes
<1> QED BY <1>1, CarefulAlways, PTL DEF Spec, DelTakesOne
=============================================================================
