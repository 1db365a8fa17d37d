--------------------------- MODULE LogRingProofs ---------------------------
(***************************************************************************)
(* The ring buffer keeps what fits and returns it in order, for every      *)
(* size: RingOK says that the flags tell a full ring from an empty one,    *)
(* and a put of at least one character and any get preserve it.  With a    *)
(* put of nothing it is lost, which is what Elog_empty.cfg shows.          *)
(***************************************************************************)
EXTENDS LogRing, SequenceTheorems, FiniteSetTheorems, TLAPS

RingOK(r, C) ==
    /\ r \in Ring(C)
    /\ ~(r.full /\ r.empty)
    /\ r.write = r.read <=> r.full \/ r.empty

(* Remainders within one turn of the ring. *)
LEMMA ModSame == ASSUME NEW x \in 0 .. Size - 1 PROVE x % Size = x
BY SizeAssumption

LEMMA ModOver == ASSUME NEW x \in Size .. 2 * Size - 1 PROVE x % Size = x - Size
BY SizeAssumption

LEMMA ModUnder == ASSUME NEW x \in -Size .. -1 PROVE x % Size = x + Size
BY SizeAssumption

(* What the code computes instead of the remainders. *)
Apart(i, k) == IF i >= k THEN i - k ELSE i - k + Size
Ahead(i, n) == IF i + n < Size THEN i + n ELSE i + n - Size

(* How far apart two indices are, and where the n-th character from one is. *)
LEMMA IndexFacts ==
    ASSUME NEW i \in Index
    PROVE  /\ \A k \in Index : Distance(i, k) = Apart(i, k) /\ Apart(i, k) \in 0 .. Size - 1
           /\ \A n \in 0 .. Size : (i + n) % Size = Ahead(i, n) /\ Ahead(i, n) \in Index
<1> USE SizeAssumption DEF Index
<1>1. ASSUME NEW k \in Index
      PROVE  Distance(i, k) = Apart(i, k) /\ Apart(i, k) \in 0 .. Size - 1
  <2>1. i >= k => (i - k) % Size = i - k BY ModSame
  <2>2. i < k => (i - k) % Size = i - k + Size BY ModUnder
  <2> QED BY <2>1, <2>2 DEF Distance, Apart
<1>2. ASSUME NEW n \in 0 .. Size
      PROVE  (i + n) % Size = Ahead(i, n) /\ Ahead(i, n) \in Index
  <2>1. i + n < Size => (i + n) % Size = i + n BY ModSame
  <2>2. i + n >= Size => (i + n) % Size = i + n - Size BY ModOver
  <2>3. Ahead(i, n) \in Index BY DEF Ahead
  <2> QED BY <2>1, <2>2, <2>3 DEF Ahead
<1> QED BY <1>1, <1>2

(* elog_async_get_buf_used is right while the flags are. *)
LEMMA UsedFacts ==
    ASSUME NEW C, NEW r, RingOK(r, C)
    PROVE  /\ Used(r) = Length(r) /\ Used(r) \in 0 .. Size
           /\ Used(r) = Size <=> r.full
           /\ Used(r) = 0 <=> r.empty
           /\ Used(r) # Size => Used(r) = Apart(r.write, r.read)
<1> USE SizeAssumption
<1>1. r.write \in Index /\ r.read \in Index /\ r.full \in BOOLEAN /\ r.empty \in BOOLEAN
  BY DEF RingOK, Ring
<1>2. (r.write - r.read) % Size = Apart(r.write, r.read)
  BY <1>1, IndexFacts DEF Distance
<1> QED BY <1>1, <1>2 DEF RingOK, Used, Length, Index, Apart

(* The n characters from the read index on. *)
LEMMA CharsFacts ==
    ASSUME NEW C, NEW r, RingOK(r, C), NEW n \in 0 .. Size
    PROVE  /\ Chars(r, n) \in Seq(C) /\ Len(Chars(r, n)) = n
           /\ \A i \in 1 .. n : /\ Ahead(r.read, i - 1) \in Index
                                /\ Chars(r, n)[i] = r.buf[Ahead(r.read, i - 1)]
<1>0. n \in Nat BY SizeAssumption
<1>1. r.read \in Index /\ r.buf \in [Index -> C] BY DEF RingOK, Ring
<1>2. ASSUME NEW i \in 1 .. n
      PROVE  /\ (r.read + i - 1) % Size = Ahead(r.read, i - 1)
             /\ Ahead(r.read, i - 1) \in Index
  <2>1. i - 1 \in 0 .. Size BY <1>0, SizeAssumption
  <2>2. r.read + (i - 1) = r.read + i - 1 BY <1>1, SizeAssumption DEF Index
  <2> QED BY <1>1, <2>1, <2>2, IndexFacts
<1>3. Chars(r, n) = [i \in 1 .. n |-> r.buf[Ahead(r.read, i - 1)]] BY <1>2 DEF Chars
<1>4. Chars(r, n) \in [1 .. n -> C] BY <1>1, <1>2, <1>3
<1> QED BY <1>0, <1>2, <1>3, <1>4

(* What waits in the ring, character by character. *)
LEMMA ContentsFacts ==
    ASSUME NEW C, NEW r, RingOK(r, C)
    PROVE  /\ Contents(r) \in Seq(C) /\ Len(Contents(r)) = Used(r)
           /\ \A i \in 1 .. Used(r) : /\ Ahead(r.read, i - 1) \in Index
                                     /\ Contents(r)[i] = r.buf[Ahead(r.read, i - 1)]
BY UsedFacts, CharsFacts DEF Contents
-----------------------------------------------------------------------------
(* Indices once n characters were put behind the u that wait between v and w: *)
(* x is the new write index, k where the i-th character of what waits is now.  *)
LEMMA PutIndices ==
    ASSUME NEW w \in Index, NEW v \in Index, NEW u \in 0 .. Size, NEW n \in 1 .. Size - u,
           u = Apart(w, v), NEW x \in Index, x = Ahead(w, n)
    PROVE  /\ x = v <=> n = Size - u
           /\ n # Size - u => Apart(x, v) = u + n
           /\ \A i \in 1 .. u + n : \A k \in Index : k = Ahead(v, i - 1) =>
                 /\ i <= u => Apart(k, w) >= n
                 /\ i > u => Apart(k, w) = i - u - 1
BY SizeAssumption DEF Apart, Ahead, Index

(* Indices once the n first of the u characters were taken. *)
LEMMA GetIndices ==
    ASSUME NEW w \in Index, NEW v \in Index, NEW u \in 1 .. Size, NEW n \in 1 .. u,
           u = Size => w = v, u # Size => u = Apart(w, v), NEW x \in Index, x = Ahead(v, n)
    PROVE  /\ w = x <=> n = u
           /\ n # u => Apart(w, x) = u - n
           /\ \A i \in 1 .. u - n : Ahead(x, i - 1) = Ahead(v, n + i - 1)
BY SizeAssumption DEF Apart, Ahead, Index

-----------------------------------------------------------------------------
(* The n first characters of a log, put where there is space for them. *)
LEMMA WrittenType ==
    ASSUME NEW C, NEW r \in Ring(C), NEW log \in Seq(C), NEW n \in 1 .. Len(log),
           NEW b \in BOOLEAN
    PROVE  Written(r, log, n, b) \in Ring(C)
<1>1. /\ r.write \in Index /\ r.buf \in [Index -> C] /\ Len(log) \in Nat
  BY LenProperties DEF Ring
<1>2. (r.write + n) % Size \in Index BY <1>1, SizeAssumption DEF Index
<1>3. ASSUME NEW i \in Index, Distance(i, r.write) < n PROVE log[Distance(i, r.write) + 1] \in C
  <2>1. Distance(i, r.write) \in 0 .. Size - 1 BY <1>1, IndexFacts
  <2>2. Distance(i, r.write) + 1 \in 1 .. Len(log) BY <1>1, <1>3, <2>1, SizeAssumption
  <2> QED BY <2>2, ElementOfSeq
<1>4. r.read \in Index BY DEF Ring
<1> QED BY <1>1, <1>2, <1>3, <1>4 DEF Written, Ring

(* They follow what waits, and the full flag given must say whether all is used. *)
LEMMA WrittenFacts ==
    ASSUME NEW C, NEW r, RingOK(r, C), NEW log \in Seq(C), NEW n \in 1 .. Len(log),
           n <= Size - Used(r), NEW b \in BOOLEAN, b <=> n = Size - Used(r)
    PROVE  /\ RingOK(Written(r, log, n, b), C)
           /\ Contents(Written(r, log, n, b)) = Contents(r) \o SubSeq(log, 1, n)
<1> DEFINE s == Written(r, log, n, b)
<1>0. Size \in Nat \ {0} /\ Len(log) \in Nat BY SizeAssumption, LenProperties
<1>1. r.write \in Index /\ r.read \in Index BY DEF RingOK, Ring
<1>2. /\ s.read = r.read /\ s.write = (r.write + n) % Size
      /\ s.empty = FALSE /\ s.full = b
      /\ \A i \in Index : s.buf[i] =
            IF Distance(i, r.write) < n THEN log[Distance(i, r.write) + 1] ELSE r.buf[i]
  BY DEF Written
<1>3. s \in Ring(C) BY WrittenType DEF RingOK
<1> HIDE DEF s
<1>4. Used(r) \in 0 .. Size /\ n \in 1 .. Size - Used(r) /\ n \in 0 .. Size
  <2>1. Used(r) \in 0 .. Size BY UsedFacts
  <2> QED BY <1>0, <2>1
<1>5. Used(r) = Apart(r.write, r.read)
  <2>1. Used(r) # Size BY <1>0, <1>4
  <2> QED BY <2>1, UsedFacts
<1>6. s.write \in Index /\ s.write = Ahead(r.write, n)
  BY <1>1, <1>2, <1>4, IndexFacts
<1>7. /\ s.write = r.read <=> n = Size - Used(r)
      /\ n # Size - Used(r) => Apart(s.write, r.read) = Used(r) + n
      /\ \A i \in 1 .. Used(r) + n : \A k \in Index : k = Ahead(r.read, i - 1) =>
            /\ i <= Used(r) => Apart(k, r.write) >= n
            /\ i > Used(r) => Apart(k, r.write) = i - Used(r) - 1
  BY <1>1, <1>4, <1>5, <1>6, PutIndices
<1>8. RingOK(s, C)
  <2>1. s.write = s.read <=> s.full BY <1>2, <1>7
  <2> QED BY <1>2, <1>3, <2>1 DEF RingOK
<1>9. Used(s) = Used(r) + n
  <2>1. Used(s) \in 0 .. Size /\ (Used(s) = Size <=> s.full)
        /\ (Used(s) # Size => Used(s) = Apart(s.write, s.read))
    BY <1>8, UsedFacts
  <2>2. CASE n = Size - Used(r) BY <1>0, <1>2, <1>4, <2>1, <2>2
  <2>3. CASE n # Size - Used(r) BY <1>2, <1>7, <2>1, <2>3
  <2> QED BY <2>2, <2>3
<1>10. /\ SubSeq(log, 1, n) \in Seq(C) /\ Len(SubSeq(log, 1, n)) = n
       /\ \A i \in 1 .. n : SubSeq(log, 1, n)[i] = log[i]
  <2>1. \A i \in 1 .. n : log[i] \in C BY <1>0, ElementOfSeq
  <2> QED BY <1>0, <2>1, SubSeqProperties
<1>11. /\ Contents(r) \in Seq(C) /\ Len(Contents(r)) = Used(r)
       /\ Contents(s) \in Seq(C) /\ Len(Contents(s)) = Used(r) + n
  BY <1>8, <1>9, ContentsFacts
<1>12. /\ Contents(r) \o SubSeq(log, 1, n) \in Seq(C)
       /\ Len(Contents(r) \o SubSeq(log, 1, n)) = Used(r) + n
       /\ \A i \in 1 .. Used(r) + n : (Contents(r) \o SubSeq(log, 1, n))[i] =
              IF i <= Used(r) THEN Contents(r)[i] ELSE SubSeq(log, 1, n)[i - Used(r)]
  BY <1>10, <1>11, ConcatProperties
<1>13. ASSUME NEW i \in 1 .. Used(r) + n
       PROVE  Contents(s)[i] = (Contents(r) \o SubSeq(log, 1, n))[i]
  <2>0. i \in 1 .. Used(s) BY <1>9
  <2>1. PICK k \in Index : k = Ahead(r.read, i - 1) /\ Contents(s)[i] = s.buf[k]
    BY <1>2, <1>8, <2>0, ContentsFacts
  <2>2. Distance(k, r.write) = Apart(k, r.write) /\ Apart(k, r.write) \in 0 .. Size - 1
    BY <1>1, IndexFacts
  <2>3. CASE i <= Used(r)
    <3>1. ~(Distance(k, r.write) < n) BY <1>0, <1>4, <1>7, <2>1, <2>2, <2>3
    <3>2. i \in 1 .. Used(r) BY <1>4, <2>3
    <3>3. Contents(r)[i] = r.buf[k] BY <2>1, <3>2, ContentsFacts
    <3> QED BY <1>2, <1>12, <2>1, <2>3, <3>1, <3>3
  <2>4. CASE ~(i <= Used(r))
    <3>1. Distance(k, r.write) = i - Used(r) - 1 BY <1>4, <1>7, <2>1, <2>2, <2>4
    <3>2. i - Used(r) \in 1 .. n /\ (i - Used(r) - 1) + 1 = i - Used(r) /\ i - Used(r) - 1 < n
      BY <1>4, <2>4
    <3>3. s.buf[k] = log[i - Used(r)] BY <1>2, <3>1, <3>2
    <3> QED BY <1>10, <1>12, <2>1, <2>4, <3>2, <3>3
  <2> QED BY <2>3, <2>4
<1>14. Contents(s) = Contents(r) \o SubSeq(log, 1, n)
  BY <1>11, <1>12, <1>13, SeqEqual
<1> QED BY <1>8, <1>14 DEF s

(* async_put_log keeps what fits, to the character, behind what waits, and the *)
(* flags stay right (elog_async.c 110-147); a log of no characters breaks them. *)
THEOREM PutKeepsWhatFits ==
    ASSUME NEW C, NEW r, RingOK(r, C), NEW log \in Seq(C), log # << >>
    PROVE  /\ RingOK(Put(r, log), C)
           /\ Contents(Put(r, log)) = Contents(r)
                  \o SubSeq(log, 1, AtMost(Len(log), Size - Len(Contents(r))))
<1> DEFINE space == Size - Used(r)
           n == AtMost(space, Len(log))
           b == r.full \/ space <= Len(log)
<1>1. /\ Len(log) \in Nat \ {0} /\ space \in 0 .. Size /\ Len(Contents(r)) = Used(r)
      /\ Size \in Nat \ {0} /\ Contents(r) \in Seq(C)
      /\ (space = 0 <=> r.full) /\ Size - Len(Contents(r)) = space
  <2>1. Used(r) \in 0 .. Size /\ (Used(r) = Size <=> r.full) BY UsedFacts
  <2>2. Len(Contents(r)) = Used(r) /\ Contents(r) \in Seq(C) BY ContentsFacts
  <2> QED BY <2>1, <2>2, EmptySeq, SizeAssumption
<1>2. AtMost(Len(log), space) = n BY <1>1 DEF AtMost
<1>3. CASE space = 0
  <2>1. Put(r, log) = r BY <1>3 DEF Put
  <2>2. n = 0 BY <1>1, <1>3 DEF AtMost
  <2>3. SubSeq(log, 1, 0) = << >> BY SubSeqEmpty
  <2>4. Contents(r) \o << >> = Contents(r) BY <1>1, ConcatEmptySeq
  <2> QED BY <1>1, <1>2, <2>1, <2>2, <2>3, <2>4
<1>4. CASE space # 0
  <2>1. n \in 1 .. Len(log) /\ n <= Size - Used(r) BY <1>1, <1>4 DEF AtMost
  <2>2. space <= Len(log) <=> n = Size - Used(r) BY <1>1, <1>4 DEF AtMost
  <2>3. ~r.full BY <1>1, <1>4
  <2>4. CASE space <= Len(log)
    <3>1. Put(r, log) = Written(r, log, n, TRUE) BY <1>4, <2>4 DEF Put
    <3>2. TRUE \in BOOLEAN /\ (TRUE <=> n = Size - Used(r)) BY <2>2, <2>4
    <3> HIDE DEF n, space
    <3>3. /\ RingOK(Written(r, log, n, TRUE), C)
          /\ Contents(Written(r, log, n, TRUE)) = Contents(r) \o SubSeq(log, 1, n)
      BY <2>1, <3>2, WrittenFacts
    <3> QED BY <1>1, <1>2, <3>1, <3>3
  <2>5. CASE ~(space <= Len(log))
    <3>1. Put(r, log) = Written(r, log, n, FALSE) BY <1>4, <2>3, <2>5 DEF Put
    <3>2. FALSE \in BOOLEAN /\ (FALSE <=> n = Size - Used(r)) BY <2>2, <2>5
    <3> HIDE DEF n, space
    <3>3. /\ RingOK(Written(r, log, n, FALSE), C)
          /\ Contents(Written(r, log, n, FALSE)) = Contents(r) \o SubSeq(log, 1, n)
      BY <2>1, <3>2, WrittenFacts
    <3> QED BY <1>1, <1>2, <3>1, <3>3
  <2> QED BY <2>4, <2>5
<1> QED BY <1>3, <1>4
-----------------------------------------------------------------------------
(* A copied line is no longer than where the copying stops. *)
LEMMA CopyLineType ==
    ASSUME NEW r, NEW from, NEW n \in Nat
    PROVE  CopyLine(r, from, n) \in 0 .. n
<1> DEFINE K == {k \in 1 .. n : \A j \in 1 .. k - 1 : ~r.buf[from + j - 1].nl}
<1>1. IsFiniteSet(1 .. n) /\ Cardinality(1 .. n) = n BY FS_Interval
<1>2. K \subseteq 1 .. n OBVIOUS
<1>3. IsFiniteSet(K) /\ Cardinality(K) <= n BY <1>1, <1>2, FS_Subset
<1>4. Cardinality(K) \in Nat BY <1>3, FS_CardinalityType
<1>5. CopyLine(r, from, n) = Cardinality(K) BY DEF CopyLine
<1> HIDE DEF K
<1> QED BY <1>3, <1>4, <1>5

(* No line is longer than what waits and what the reader has room for. *)
LEMMA LineSizeType ==
    ASSUME NEW C, NEW r, RingOK(r, C), NEW size \in Nat
    PROVE  LineSize(r, size) \in 0 .. AtMost(Used(r), size)
<1> DEFINE n == AtMost(Used(r), size)
           tail == Size - r.read
<1>1. n \in Nat
  <2>1. Used(r) \in 0 .. Size BY UsedFacts
  <2> QED BY <2>1, SizeAssumption DEF AtMost
<1>2. tail \in Nat BY SizeAssumption DEF RingOK, Ring, Index
<1> HIDE DEF n, tail
<1>3. LineSize(r, size) = IF n = 0 THEN 0
                          ELSE IF n < tail THEN CopyLine(r, r.read, n)
                          ELSE IF CopyLine(r, r.read, tail) = tail
                               THEN tail + CopyLine(r, 0, n - tail)
                          ELSE CopyLine(r, r.read, tail)
  BY DEF LineSize, n, tail
<1>4. CopyLine(r, r.read, n) \in 0 .. n /\ CopyLine(r, r.read, tail) \in 0 .. tail
  BY <1>1, <1>2, CopyLineType
<1>5. n >= tail => CopyLine(r, 0, n - tail) \in 0 .. n - tail
  BY <1>1, <1>2, CopyLineType
<1>6. LineSize(r, size) \in 0 .. n BY <1>1, <1>2, <1>3, <1>4, <1>5
<1> QED BY <1>6 DEF n

(* n characters leave the ring, the others stay as they are. *)
LEMMA AdvancedFacts ==
    ASSUME NEW C, NEW r, RingOK(r, C), NEW n \in 1 .. Used(r)
    PROVE  /\ RingOK(Advanced(r, n), C)
           /\ Contents(r) = Chars(r, n) \o Contents(Advanced(r, n))
<1> DEFINE s == Advanced(r, n)
           u == Used(r)
<1>0. Size \in Nat \ {0} BY SizeAssumption
<1>1. /\ r.write \in Index /\ r.read \in Index /\ r.buf \in [Index -> C]
      /\ r.full \in BOOLEAN /\ r.empty \in BOOLEAN
  BY DEF RingOK, Ring
<1>2. /\ u \in 0 .. Size /\ (u = Size <=> r.full) /\ (u = 0 <=> r.empty)
      /\ (u # Size => u = Apart(r.write, r.read))
  BY UsedFacts
<1>3. u \in 1 .. Size /\ n \in 1 .. u /\ n \in 0 .. Size BY <1>0, <1>2
<1>4. /\ s.buf = r.buf /\ s.write = r.write /\ s.read = (r.read + n) % Size
      /\ ~s.full /\ (s.empty <=> n = u)
  <2>1. n # 0 /\ n > 0 /\ ~r.empty BY <1>2, <1>3
  <2>2. s.buf = r.buf /\ s.write = r.write /\ s.read = (r.read + n) % Size BY DEF Advanced
  <2>3. s.full = (r.full /\ n = 0) BY DEF Advanced
  <2>4. s.empty = (r.empty \/ (n > 0 /\ n = Used(r))) BY DEF Advanced
  <2> QED BY <2>1, <2>2, <2>3, <2>4
<1>5. s.read \in Index /\ s.read = Ahead(r.read, n) BY <1>1, <1>3, <1>4, IndexFacts
<1>6. s \in Ring(C)
  <2>1. s.read \in Index /\ s.full \in BOOLEAN /\ s.empty \in BOOLEAN
    BY <1>5 DEF Advanced
  <2> QED BY <1>1, <2>1 DEF Advanced, Ring
<1> HIDE DEF s, u
<1>7. u = Size => r.write = r.read BY <1>2 DEF RingOK
<1>8. /\ r.write = s.read <=> n = u
      /\ n # u => Apart(r.write, s.read) = u - n
      /\ \A i \in 1 .. u - n : Ahead(s.read, i - 1) = Ahead(r.read, n + i - 1)
  <2> DEFINE w == r.write
             v == r.read
             x == s.read
  <2>1. w \in Index /\ v \in Index /\ x \in Index BY <1>1, <1>5
  <2>2. u \in 1 .. Size /\ n \in 1 .. u BY <1>3
  <2>3. (u = Size => w = v) /\ (u # Size => u = Apart(w, v)) BY <1>2, <1>7
  <2>4. x = Ahead(v, n) BY <1>5
  <2> HIDE DEF w, v, x
  <2>5. /\ w = x <=> n = u
        /\ n # u => Apart(w, x) = u - n
        /\ \A i \in 1 .. u - n : Ahead(x, i - 1) = Ahead(v, n + i - 1)
    BY <2>1, <2>2, <2>3, <2>4, GetIndices
  <2> QED BY <2>5 DEF w, v, x
<1>9. RingOK(s, C) BY <1>4, <1>6, <1>8 DEF RingOK
<1>10. Used(s) = u - n
  <2>1. /\ Used(s) \in 0 .. Size /\ (Used(s) = Size <=> s.full) /\ (Used(s) = 0 <=> s.empty)
        /\ (Used(s) # Size => Used(s) = Apart(s.write, s.read))
    BY <1>9, UsedFacts
  <2>2. CASE n = u BY <1>3, <1>4, <2>1, <2>2
  <2>3. CASE n # u BY <1>4, <1>8, <2>1, <2>3
  <2> QED BY <2>2, <2>3
<1>11. /\ Contents(r) \in Seq(C) /\ Len(Contents(r)) = u
       /\ \A i \in 1 .. u : Contents(r)[i] = r.buf[Ahead(r.read, i - 1)]
  BY ContentsFacts DEF u
<1>12. /\ Chars(r, n) \in Seq(C) /\ Len(Chars(r, n)) = n
       /\ \A i \in 1 .. n : Chars(r, n)[i] = r.buf[Ahead(r.read, i - 1)]
  BY <1>3, CharsFacts
<1>13. /\ Contents(s) \in Seq(C) /\ Len(Contents(s)) = u - n
       /\ \A i \in 1 .. u - n : Contents(s)[i] = r.buf[Ahead(s.read, i - 1)]
  BY <1>4, <1>9, <1>10, ContentsFacts
<1>14. /\ Chars(r, n) \o Contents(s) \in Seq(C)
       /\ Len(Chars(r, n) \o Contents(s)) = u
       /\ \A i \in 1 .. u : (Chars(r, n) \o Contents(s))[i] =
                IF i <= n THEN Chars(r, n)[i] ELSE Contents(s)[i - n]
  <2>1. n + (u - n) = u BY <1>3
  <2> DEFINE first == Chars(r, n)
             rest == Contents(s)
  <2>2. first \in Seq(C) /\ rest \in Seq(C) /\ Len(first) = n /\ Len(rest) = u - n
    BY <1>12, <1>13
  <2> HIDE DEF first, rest
  <2>3. /\ first \o rest \in Seq(C)
        /\ Len(first \o rest) = Len(first) + Len(rest)
        /\ \A i \in 1 .. Len(first) + Len(rest) : (first \o rest)[i] =
                IF i <= Len(first) THEN first[i] ELSE rest[i - Len(first)]
    BY <2>2, ConcatProperties
  <2>4. \A i \in 1 .. u : (first \o rest)[i] = IF i <= n THEN first[i] ELSE rest[i - n]
    BY <2>1, <2>2, <2>3
  <2> QED BY <2>1, <2>2, <2>3, <2>4 DEF first, rest
<1>15. ASSUME NEW i \in 1 .. u
       PROVE  Contents(r)[i] = (Chars(r, n) \o Contents(s))[i]
  <2>1. CASE i <= n
    <3>1. i \in 1 .. n BY <1>3, <2>1
    <3> QED BY <1>11, <1>12, <1>14, <2>1, <3>1
  <2>2. CASE ~(i <= n)
    <3>1. i - n \in 1 .. u - n /\ n + (i - n) - 1 = i - 1 BY <1>3, <2>2
    <3>2. Contents(s)[i - n] = r.buf[Ahead(r.read, i - 1)] BY <1>8, <1>13, <3>1
    <3> QED BY <1>11, <1>14, <2>2, <3>2
  <2> QED BY <2>1, <2>2
<1>16. Contents(r) = Chars(r, n) \o Contents(s) BY <1>11, <1>14, <1>15, SeqEqual
<1> QED BY <1>9, <1>16 DEF s

(* elog_async_get_line_log (elog_async.c 155-201) hands out the first           *)
(* characters that wait, at most as many as the reader has room for, and leaves *)
(* the others in order with the flags right, also when it hands out nothing.    *)
THEOREM GetTakesTheFirst ==
    ASSUME NEW C, NEW r, RingOK(r, C), NEW size \in Nat
    PROVE  /\ RingOK(Get(r, size), C)
           /\ Chars(r, LineSize(r, size)) \in Seq(C)
           /\ Len(Chars(r, LineSize(r, size))) <= size
           /\ Contents(r) = Chars(r, LineSize(r, size)) \o Contents(Get(r, size))
<1> DEFINE n == LineSize(r, size)
<1>1. Used(r) \in 0 .. Size /\ Size \in Nat BY UsedFacts, SizeAssumption
<1>2. n \in 0 .. Used(r) /\ n <= size /\ n \in 0 .. Size
  <2>1. n \in 0 .. AtMost(Used(r), size) BY LineSizeType
  <2> QED BY <1>1, <2>1 DEF AtMost
<1> HIDE DEF n
<1>3. Chars(r, n) \in Seq(C) /\ Len(Chars(r, n)) = n BY <1>2, CharsFacts
<1>4. Get(r, size) = Advanced(r, n) BY DEF Get, n
<1>5. CASE n = 0
  <2>1. Chars(r, n) = << >> BY <1>3, <1>5, EmptySeq
  <2>2. Contents(r) \in Seq(C) BY ContentsFacts
  <2>3. << >> \o Contents(r) = Contents(r) BY <2>2, ConcatEmptySeq
  <2>4. Advanced(r, n) = r
    <3>1. (r.read + 0) % Size = r.read
      <4>1. r.read \in 0 .. Size - 1 /\ r.read + 0 = r.read
        BY SizeAssumption DEF RingOK, Ring, Index
      <4> QED BY <4>1, ModSame
    <3> QED BY <1>5, <3>1 DEF Advanced, RingOK, Ring
  <2> QED BY <1>2, <1>3, <1>4, <2>1, <2>3, <2>4 DEF n
<1>6. CASE n # 0
  <2>1. n \in 1 .. Used(r) BY <1>1, <1>2, <1>6
  <2>2. RingOK(Advanced(r, n), C) /\ Contents(r) = Chars(r, n) \o Contents(Advanced(r, n))
    BY <2>1, AdvancedFacts
  <2> QED BY <1>2, <1>3, <1>4, <2>2 DEF n
<1> QED BY <1>5, <1>6
=============================================================================
