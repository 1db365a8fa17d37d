---------------------------- MODULE RttIpcProofs ----------------------------
(***************************************************************************)
(* What the kernel calls of RttIpc return: their type, who waits after     *)
(* them and who owns the mutex; and what the proofs about the users of     *)
(* these calls need of lists and numbers.                                  *)
(***************************************************************************)
EXTENDS RttIpc, SequenceTheorems, WellFoundedInduction, TLAPS

(* A set of numbers has a least one. *)
LEMMA LeastNumber ==
    ASSUME NEW T \in SUBSET Nat, T # {}
    PROVE  \E m \in T : \A k \in T : m <= k
<1> DEFINE R == OpToRel(<, Nat)
<1>1. IsWellFoundedOn(R, Nat) BY NatLessThanWellFounded
<1>2. \A j, k \in Nat : << j, k >> \in R <=> j < k BY DEF OpToRel
<1> HIDE DEF R
<1>3. PICK m \in T : \A k \in T : ~(<< k, m >> \in R) BY <1>1, WFMin
<1>4. m \in Nat /\ \A k \in T : k \in Nat /\ ~(k < m) BY <1>2, <1>3
<1>5. \A k \in T : m <= k BY <1>4
<1> QED BY <1>5

(* Appending to a list of threads adds one thread to it. *)
LEMMA AppendSet ==
    ASSUME NEW S, NEW q \in Seq(S), NEW e \in S
    PROVE  Append(q, e) \in Seq(S) /\ ToSet(Append(q, e)) = ToSet(q) \cup {e}
<1> DEFINE r == Append(q, e)
<1>1. /\ r \in Seq(S) /\ Len(r) = Len(q) + 1 /\ r[Len(q) + 1] = e
      /\ \A i \in 1 .. Len(q) : r[i] = q[i]
  BY AppendProperties
<1>2. Len(q) \in Nat /\ DOMAIN q = 1 .. Len(q) /\ DOMAIN r = 1 .. Len(r)
  BY <1>1, LenProperties
<1>3. ToSet(r) \subseteq ToSet(q) \cup {e}
  <2> SUFFICES ASSUME NEW i \in DOMAIN r PROVE r[i] \in ToSet(q) \cup {e}
    BY DEF ToSet
  <2>1. CASE i = Len(q) + 1 BY <2>1, <1>1
  <2>2. CASE i \in 1 .. Len(q) BY <2>2, <1>1, <1>2 DEF ToSet
  <2> QED BY <2>1, <2>2, <1>1, <1>2
<1>4. ToSet(q) \cup {e} \subseteq ToSet(r)
  BY <1>1, <1>2 DEF ToSet
<1> QED BY <1>1, <1>3, <1>4

(* Taking the first thread off a list removes at most that thread. *)
LEMMA TailSet ==
    ASSUME NEW S, NEW q \in Seq(S), q # << >>
    PROVE  /\ Head(q) \in S /\ Tail(q) \in Seq(S)
           /\ Len(q) \in Nat \ {0} /\ Len(Tail(q)) = Len(q) - 1
           /\ ToSet(q) \subseteq ToSet(Tail(q)) \cup {Head(q)}
           /\ ToSet(Tail(q)) \subseteq ToSet(q)
<1>1. /\ Head(q) \in S /\ Tail(q) \in Seq(S) /\ Len(Tail(q)) = Len(q) - 1
      /\ \A i \in 1 .. Len(Tail(q)) : Tail(q)[i] = q[i + 1]
  BY HeadTailProperties
<1>2. Len(q) \in Nat \ {0} /\ DOMAIN q = 1 .. Len(q) /\ DOMAIN Tail(q) = 1 .. Len(Tail(q))
  BY <1>1, LenProperties, EmptySeq
<1>3. Head(q) = q[1] BY <1>2
<1>4. ToSet(q) \subseteq ToSet(Tail(q)) \cup {Head(q)}
  <2> SUFFICES ASSUME NEW i \in DOMAIN q, i # 1 PROVE q[i] \in ToSet(Tail(q))
    BY <1>3 DEF ToSet
  <2>1. i - 1 \in 1 .. Len(Tail(q)) BY <1>1, <1>2
  <2>2. Tail(q)[i - 1] = q[i] BY <2>1, <1>1, <1>2
  <2> QED BY <2>1, <2>2, <1>2 DEF ToSet
<1>5. ToSet(Tail(q)) \subseteq ToSet(q)
  <2> SUFFICES ASSUME NEW i \in DOMAIN Tail(q) PROVE Tail(q)[i] \in ToSet(q)
    BY DEF ToSet
  <2>1. i + 1 \in DOMAIN q /\ Tail(q)[i] = q[i + 1] BY <1>1, <1>2
  <2> QED BY <2>1 DEF ToSet
<1> QED BY <1>1, <1>2, <1>4, <1>5

(* A sequence without elements is empty. *)
LEMMA EmptyToSet ==
    ASSUME NEW S, NEW q \in Seq(S), ToSet(q) = {}
    PROVE  q = << >>
<1> SUFFICES ASSUME q # << >> PROVE FALSE
  OBVIOUS
<1>1. Len(q) \in Nat \ {0} /\ DOMAIN q = 1 .. Len(q) BY EmptySeq, LenProperties
<1>2. 1 \in DOMAIN q BY <1>1
<1> HIDE DEF ToSet
<1>3. q[1] \in ToSet(q) BY <1>2 DEF ToSet
<1> QED BY <1>3

(* What is left of a list when one place is taken out of it. *)
LEMMA RemoveAtFacts ==
    ASSUME NEW S, NEW q \in Seq(S), NEW i \in 1 .. Len(q)
    PROVE  /\ RemoveAt(q, i) \in Seq(S)
           /\ Len(q) \in Nat /\ Len(RemoveAt(q, i)) = Len(q) - 1
           /\ \A j \in 1 .. Len(q) - 1 :
                RemoveAt(q, i)[j] = IF j < i THEN q[j] ELSE q[j + 1]
<1> DEFINE a == SubSeq(q, 1, i - 1)
           b == SubSeq(q, i + 1, Len(q))
<1>1. Len(q) \in Nat /\ DOMAIN q = 1 .. Len(q) /\ \A j \in DOMAIN q : q[j] \in S
  BY LenProperties, ElementOfSeq
<1>2. a \in Seq(S) /\ Len(a) = i - 1 /\ \A j \in 1 .. i - 1 : a[j] = q[j]
  <2>1. \A j \in 1 .. i - 1 : q[j] \in S BY <1>1
  <2>2. /\ a \in Seq(S) /\ Len(a) = IF 1 <= i - 1 THEN (i - 1) - 1 + 1 ELSE 0
        /\ \A j \in 1 .. (i - 1) - 1 + 1 : a[j] = q[1 + j - 1]
    BY <2>1, <1>1, SubSeqProperties
  <2> QED BY <2>2, <1>1
<1>3. b \in Seq(S) /\ Len(b) = Len(q) - i /\ \A j \in 1 .. Len(q) - i : b[j] = q[i + j]
  <2>1. \A j \in i + 1 .. Len(q) : q[j] \in S BY <1>1
  <2>2. /\ b \in Seq(S) /\ Len(b) = IF i + 1 <= Len(q) THEN Len(q) - (i + 1) + 1 ELSE 0
        /\ \A j \in 1 .. Len(q) - (i + 1) + 1 : b[j] = q[(i + 1) + j - 1]
    BY <2>1, <1>1, SubSeqProperties
  <2> HIDE DEF b
  <2>3. Len(b) = Len(q) - i
    <3>1. Len(q) \in Nat /\ i \in Nat /\ i <= Len(q) BY <1>1
    <3>2. Len(b) = IF i + 1 <= Len(q) THEN Len(q) - (i + 1) + 1 ELSE 0 BY <2>2
    <3> QED BY <3>1, <3>2
  <2>4. ASSUME NEW j \in 1 .. Len(q) - i PROVE b[j] = q[i + j]
    <3>1. j \in 1 .. Len(q) - (i + 1) + 1 /\ (i + 1) + j - 1 = i + j BY <1>1
    <3>2. b[j] = q[(i + 1) + j - 1] BY <3>1, <2>2
    <3> QED BY <3>1, <3>2
  <2> QED BY <2>2, <2>3, <2>4
<1>4. RemoveAt(q, i) = a \o b BY DEF RemoveAt
<1> HIDE DEF a, b
<1>5. /\ a \o b \in Seq(S) /\ Len(a \o b) = Len(a) + Len(b)
      /\ \A j \in 1 .. Len(a) + Len(b) :
             (a \o b)[j] = IF j <= Len(a) THEN a[j] ELSE b[j - Len(a)]
  BY <1>2, <1>3, ConcatProperties
<1>6. ASSUME NEW j \in 1 .. Len(q) - 1
      PROVE  (a \o b)[j] = IF j < i THEN q[j] ELSE q[j + 1]
  <2>1. (a \o b)[j] = IF j <= i - 1 THEN a[j] ELSE b[j - (i - 1)] BY <1>1, <1>2, <1>3, <1>5
  <2>2. CASE j < i BY <2>1, <2>2, <1>1, <1>2
  <2>3. CASE ~(j < i)
    <3>1. j - (i - 1) \in 1 .. Len(q) - i /\ i + (j - (i - 1)) = j + 1 BY <1>1, <2>3
    <3>2. b[j - (i - 1)] = q[i + (j - (i - 1))] BY <3>1, <1>3
    <3> QED BY <2>1, <2>3, <3>1, <3>2, <1>1
  <2> QED BY <2>2, <2>3
<1> QED BY <1>1, <1>2, <1>3, <1>4, <1>5, <1>6

(* Deleting a thread takes no other thread off a list. *)
LEMMA UnlinkSet ==
    ASSUME NEW S, NEW q \in Seq(S), NEW t \in S
    PROVE  /\ Unlink(q, t) \in Seq(S)
           /\ \A u \in ToSet(q) : u # t => u \in ToSet(Unlink(q, t))
           /\ ToSet(Unlink(q, t)) \subseteq ToSet(q)
           /\ IsInjective(q) => IsInjective(Unlink(q, t)) /\ t \notin ToSet(Unlink(q, t))
<1>1. CASE t \notin ToSet(q) BY <1>1 DEF Unlink
<1>2. CASE t \in ToSet(q)
  <2> DEFINE i == CHOOSE j \in DOMAIN q : q[j] = t
             r == RemoveAt(q, i)
  <2>1. Len(q) \in Nat /\ DOMAIN q = 1 .. Len(q) BY LenProperties
  <2>2. i \in 1 .. Len(q) /\ q[i] = t BY <1>2, <2>1 DEF ToSet
  <2>3. Unlink(q, t) = r BY <1>2 DEF Unlink
  <2> HIDE DEF i
  <2>4. /\ r \in Seq(S) /\ Len(r) = Len(q) - 1
        /\ \A j \in 1 .. Len(q) - 1 : r[j] = IF j < i THEN q[j] ELSE q[j + 1]
    BY <2>2, RemoveAtFacts
  <2> HIDE DEF r
  <2>5. DOMAIN r = 1 .. Len(q) - 1 BY <2>4, LenProperties
  <2>6. ASSUME NEW j \in 1 .. Len(q), j # i PROVE q[j] \in ToSet(r)
    <3>1. CASE j < i
      <4>1. j \in DOMAIN r /\ r[j] = q[j] BY <3>1, <2>1, <2>2, <2>4, <2>5
      <4> QED BY <4>1 DEF ToSet
    <3>2. CASE j > i
      <4>1. j - 1 \in DOMAIN r /\ r[j - 1] = q[(j - 1) + 1] BY <3>2, <2>1, <2>2, <2>4, <2>5
      <4>2. (j - 1) + 1 = j BY <2>1
      <4> QED BY <4>1, <4>2 DEF ToSet
    <3> QED BY <3>1, <3>2, <2>1, <2>2, <2>6
  <2>7. \A u \in ToSet(q) : u # t => u \in ToSet(r) BY <2>1, <2>2, <2>6 DEF ToSet
  <2>8. ToSet(r) \subseteq ToSet(q)
    <3>1. ASSUME NEW j \in DOMAIN r PROVE r[j] \in ToSet(q)
      BY <2>1, <2>2, <2>4, <2>5 DEF ToSet
    <3> QED BY <3>1 DEF ToSet
  <2>9. ASSUME IsInjective(q) PROVE IsInjective(r) /\ t \notin ToSet(r)
    <3>1. \A j, k \in 1 .. Len(q) : q[j] = q[k] => j = k BY <2>1, <2>9 DEF IsInjective
    <3>2. ASSUME NEW j \in DOMAIN r, NEW k \in DOMAIN r, r[j] = r[k] PROVE j = k
      <4> DEFINE from(n) == IF n < i THEN n ELSE n + 1
      <4>1. from(j) \in 1 .. Len(q) /\ from(k) \in 1 .. Len(q) BY <2>1, <2>2, <2>5
      <4>2. r[j] = q[from(j)] /\ r[k] = q[from(k)] BY <2>1, <2>2, <2>4, <2>5
      <4> HIDE DEF from
      <4>3. from(j) = from(k) BY <3>1, <3>2, <4>1, <4>2
      <4> QED BY <4>3, <2>1, <2>2, <2>5 DEF from
    <3>3. \A j \in DOMAIN r : r[j] # t BY <3>1, <2>1, <2>2, <2>4, <2>5
    <3> QED BY <3>2, <3>3 DEF IsInjective, ToSet
  <2> QED BY <2>3, <2>4, <2>7, <2>8, <2>9
<1> QED BY <1>1, <1>2

(* A list without repetitions stays one. *)
LEMMA InjectiveAppend ==
    ASSUME NEW S, NEW q \in Seq(S), NEW e \in S, IsInjective(q), e \notin ToSet(q)
    PROVE  IsInjective(Append(q, e))
<1> DEFINE r == Append(q, e)
<1>1. /\ Len(r) = Len(q) + 1 /\ r[Len(q) + 1] = e /\ r \in Seq(S)
      /\ \A i \in 1 .. Len(q) : r[i] = q[i]
  BY AppendProperties
<1>2. Len(q) \in Nat /\ DOMAIN q = 1 .. Len(q) /\ DOMAIN r = 1 .. Len(q) + 1
  BY <1>1, LenProperties
<1> HIDE DEF r
<1>3. \A i, j \in 1 .. Len(q) : q[i] = q[j] => i = j BY <1>2 DEF IsInjective
<1>4. \A i \in 1 .. Len(q) : q[i] # e BY <1>2 DEF ToSet
<1>5. \A i, j \in 1 .. Len(q) + 1 : r[i] = r[j] => i = j BY <1>1, <1>2, <1>3, <1>4
<1>6. IsInjective(r) BY <1>2, <1>5 DEF IsInjective
<1> QED BY <1>6 DEF r

LEMMA InjectiveTail ==
    ASSUME NEW S, NEW q \in Seq(S), q # << >>, IsInjective(q)
    PROVE  IsInjective(Tail(q)) /\ Head(q) \notin ToSet(Tail(q))
<1>1. /\ Tail(q) \in Seq(S) /\ Len(Tail(q)) = Len(q) - 1
      /\ \A i \in 1 .. Len(Tail(q)) : Tail(q)[i] = q[i + 1]
  BY HeadTailProperties
<1>2. Len(q) \in Nat \ {0} /\ DOMAIN q = 1 .. Len(q) /\ DOMAIN Tail(q) = 1 .. Len(q) - 1
  BY <1>1, LenProperties, EmptySeq
<1>3. Head(q) = q[1] BY <1>2
<1>4. \A i, j \in 1 .. Len(q) : q[i] = q[j] => i = j BY <1>2 DEF IsInjective
<1>5. \A i, j \in DOMAIN Tail(q) : Tail(q)[i] = Tail(q)[j] => i = j BY <1>1, <1>2, <1>4
<1>6. \A i \in DOMAIN Tail(q) : Tail(q)[i] # q[1] BY <1>1, <1>2, <1>4
<1> QED BY <1>3, <1>5, <1>6 DEF IsInjective, ToSet

(* A mutex taken by t: t owns it or waits, and nobody else is affected. *)
LEMMA MutexTakeFacts ==
    ASSUME NEW Th, NEW m \in Mutex(Th), NEW t \in Th
    PROVE  /\ MutexTake(m, t) \in Mutex(Th)
           /\ t \in ToSet(MutexTake(m, t).waiting) \/ MutexTake(m, t).owner = t
           /\ m.owner # NoThread => MutexTake(m, t).owner = m.owner
           /\ \A u \in ToSet(m.waiting) : u \in ToSet(MutexTake(m, t).waiting)
           /\ ToSet(MutexTake(m, t).waiting) \subseteq ToSet(m.waiting) \cup {t}
<1>1. /\ m.waiting \in Seq(Th) /\ m.owner \in Th \cup {NoThread} /\ m.hold \in Nat
      /\ m = [owner |-> m.owner, hold |-> m.hold, waiting |-> m.waiting]
  BY DEF Mutex
<1>2. Append(m.waiting, t) \in Seq(Th) /\ ToSet(Append(m.waiting, t)) = ToSet(m.waiting) \cup {t}
  BY <1>1, AppendSet
<1>3. CASE m.owner = t
  <2>1. MutexTake(m, t) = [owner |-> t, hold |-> m.hold + 1, waiting |-> m.waiting]
    BY <1>1, <1>3 DEF MutexTake, Mutex
  <2> QED BY <2>1, <1>1, <1>3 DEF Mutex
<1>4. CASE m.owner # t /\ m.owner = NoThread
  <2>1. MutexTake(m, t) = [owner |-> t, hold |-> 1, waiting |-> m.waiting]
    BY <1>1, <1>4 DEF MutexTake, Mutex
  <2> QED BY <2>1, <1>1, <1>4 DEF Mutex
<1>5. CASE m.owner # t /\ m.owner # NoThread
  <2>1. MutexTake(m, t) =
          [owner |-> m.owner, hold |-> m.hold, waiting |-> Append(m.waiting, t)]
    BY <1>1, <1>5 DEF MutexTake, Mutex
  <2> QED BY <2>1, <1>1, <1>2, <1>5 DEF Mutex
<1> QED BY <1>3, <1>4, <1>5

(* A mutex released by t: whoever stops waiting owns it. *)
LEMMA MutexReleaseFacts ==
    ASSUME NEW Th, NEW m \in Mutex(Th), NEW t \in Th
    PROVE  /\ MutexRelease(m, t) \in Mutex(Th)
           /\ m.owner # t => MutexRelease(m, t) = m
           /\ \A u \in ToSet(m.waiting) :
                u \in ToSet(MutexRelease(m, t).waiting) \/ MutexRelease(m, t).owner = u
           /\ ToSet(MutexRelease(m, t).waiting) \subseteq ToSet(m.waiting)
<1>1. /\ m.waiting \in Seq(Th) /\ m.owner \in Th \cup {NoThread} /\ m.hold \in Nat
      /\ m = [owner |-> m.owner, hold |-> m.hold, waiting |-> m.waiting]
  BY DEF Mutex
<1>2. CASE m.owner # t BY <1>2 DEF MutexRelease
<1>3. CASE m.owner = t /\ m.hold > 1
  <2>1. MutexRelease(m, t) = [owner |-> t, hold |-> m.hold - 1, waiting |-> m.waiting]
    BY <1>1, <1>3 DEF MutexRelease, Mutex
  <2> QED BY <2>1, <1>1, <1>3 DEF Mutex
<1>4. CASE m.owner = t /\ ~(m.hold > 1) /\ m.waiting = << >>
  <2>1. MutexRelease(m, t) = FreeMutex BY <1>4 DEF MutexRelease
  <2>2. ToSet(m.waiting) = {} BY <1>4 DEF ToSet
  <2>3. FreeMutex \in Mutex(Th) /\ FreeMutex.waiting = m.waiting
    BY <1>4, EmptySeq DEF FreeMutex, Mutex
  <2> QED BY <2>1, <2>2, <2>3, <1>4
<1>5. CASE m.owner = t /\ ~(m.hold > 1) /\ m.waiting # << >>
  <2>1. MutexRelease(m, t) =
          [owner |-> Head(m.waiting), hold |-> 1, waiting |-> Tail(m.waiting)]
    BY <1>5 DEF MutexRelease
  <2>2. /\ Head(m.waiting) \in Th /\ Tail(m.waiting) \in Seq(Th)
        /\ ToSet(m.waiting) \subseteq ToSet(Tail(m.waiting)) \cup {Head(m.waiting)}
        /\ ToSet(Tail(m.waiting)) \subseteq ToSet(m.waiting)
    BY <1>1, <1>5, TailSet
  <2> QED BY <2>1, <2>2, <1>5 DEF Mutex
<1> QED BY <1>2, <1>3, <1>4, <1>5

(* The semaphore calls return semaphores. *)
LEMMA SemFacts ==
    ASSUME NEW Th, NEW s \in Semaphore(Th), NEW t \in Th
    PROVE  /\ SemTake(s, t) \in Semaphore(Th) /\ SemRelease(s) \in Semaphore(Th)
           /\ EmptySem \in Semaphore(Th)
           /\ [s EXCEPT !.waiting = Unlink(s.waiting, t)] \in Semaphore(Th)
<1>1. /\ s.waiting \in Seq(Th) /\ s.value \in Nat
      /\ s = [value |-> s.value, waiting |-> s.waiting]
  BY DEF Semaphore
<1>2. Append(s.waiting, t) \in Seq(Th) BY <1>1, AppendSet
<1>3. s.waiting # << >> => Tail(s.waiting) \in Seq(Th) BY <1>1, TailSet
<1>4. Unlink(s.waiting, t) \in Seq(Th) BY <1>1, UnlinkSet
<1>5. SemTake(s, t) \in Semaphore(Th)
  <2>1. CASE s.value > 0
    <3>1. SemTake(s, t) = [value |-> s.value - 1, waiting |-> s.waiting]
      BY <1>1, <2>1 DEF SemTake, Semaphore
    <3> QED BY <3>1, <1>1, <2>1 DEF Semaphore
  <2>2. CASE ~(s.value > 0)
    <3>1. SemTake(s, t) = [value |-> s.value, waiting |-> Append(s.waiting, t)]
      BY <1>1, <2>2 DEF SemTake, Semaphore
    <3> QED BY <3>1, <1>1, <1>2 DEF Semaphore
  <2> QED BY <2>1, <2>2
<1>6. SemRelease(s) \in Semaphore(Th)
  <2>1. CASE s.waiting = << >>
    <3>1. SemRelease(s) = [value |-> s.value + 1, waiting |-> s.waiting]
      BY <1>1, <2>1 DEF SemRelease, Semaphore
    <3> QED BY <3>1, <1>1 DEF Semaphore
  <2>2. CASE s.waiting # << >>
    <3>1. SemRelease(s) = [value |-> s.value, waiting |-> Tail(s.waiting)]
      BY <1>1, <2>2 DEF SemRelease, Semaphore
    <3> QED BY <3>1, <1>1, <1>3, <2>2 DEF Semaphore
  <2> QED BY <2>1, <2>2
<1>7. EmptySem \in Semaphore(Th) BY EmptySeq DEF EmptySem, Semaphore
<1> QED BY <1>1, <1>4, <1>5, <1>6, <1>7 DEF Semaphore
=============================================================================
