------------------------------ MODULE LogRing ------------------------------
(***************************************************************************)
(* The ring buffer of src/elog/src/elog_async.c: two indices and two flags *)
(* that tell a full ring from an empty one, both having equal indices.     *)
(* All of it runs under the output lock, so a put and a get are operators  *)
(* on a record.  A character knows whether it is the newline sign (nl).    *)
(***************************************************************************)
EXTENDS Integers, Sequences, FiniteSets

CONSTANT Size           \* ELOG_ASYNC_OUTPUT_BUF_SIZE

ASSUME SizeAssumption == Size \in Nat \ {0}

Index == 0 .. Size - 1

Ring(Char) == [buf : [Index -> Char], write : Index, read : Index,
               full : BOOLEAN, empty : BOOLEAN]

EmptyRing(c) == [buf |-> [i \in Index |-> c], write |-> 0, read |-> 0,
                 full |-> FALSE, empty |-> TRUE]

(* What the code takes for the number of characters in the ring. *)
Used(r) == IF r.write > r.read THEN r.write - r.read
           ELSE IF ~r.full /\ ~r.empty THEN Size - (r.read - r.write)
           ELSE IF r.full THEN Size ELSE 0

(* What is in the ring: equal indices mean nothing unless full says all. *)
Length(r) == IF r.full THEN Size ELSE (r.write - r.read) % Size
Chars(r, n) == [i \in 1 .. n |-> r.buf[(r.read + i - 1) % Size]]
Contents(r) == Chars(r, Length(r))

AtMost(m, n) == IF m <= n THEN m ELSE n

(* How far index i is behind index k. *)
Distance(i, k) == (i - k) % Size

(* Mutated forms: the second part of a log begins with the log, a put that *)
(* fills the ring does not notice, a get passes over what it did not copy. *)
WrittenAgain(r, log, n, full) ==
    [buf |-> [i \in Index |-> IF Distance(i, r.write) >= n THEN r.buf[i]
                              ELSE IF i >= r.write THEN log[i - r.write + 1]
                              ELSE log[i + 1]],
     write |-> (r.write + n) % Size, read |-> r.read, full |-> full, empty |-> FALSE]

(* The n first characters of a log are copied behind what is there. *)
Written(r, log, n, full) ==
    [buf |-> [i \in Index |-> IF Distance(i, r.write) < n
                              THEN log[Distance(i, r.write) + 1] ELSE r.buf[i]],
     write |-> (r.write + n) % Size, read |-> r.read, full |-> full, empty |-> FALSE]

PutFullUnnoticed(r, log) ==
    LET space == Size - Used(r)
    IN  IF space = 0 THEN r
        ELSE Written(r, log, AtMost(space, Len(log)), r.full \/ space < Len(log))

(* async_put_log: what does not fit is dropped. *)
Put(r, log) ==
    LET space == Size - Used(r)
    IN  IF space = 0 THEN r
        ELSE Written(r, log, AtMost(space, Len(log)), r.full \/ space <= Len(log))

PutSize(r, log) == AtMost(Size - Used(r), Len(log))

(* elog_cpyln copies until it has a newline sign or all n characters from from on. *)
CopyLine(r, from, n) ==
    Cardinality({k \in 1 .. n : \A j \in 1 .. k - 1 : ~r.buf[from + j - 1].nl})

(* elog_async_get_line_log copies this many characters into a buffer of size.  *)
(* A line that ends with the array is followed by the next one from its start. *)
LineSize(r, size) ==
    LET n == AtMost(Used(r), size)
        tail == Size - r.read
    IN  IF n = 0 THEN 0
        ELSE IF n < tail THEN CopyLine(r, r.read, n)
        ELSE IF CopyLine(r, r.read, tail) = tail THEN tail + CopyLine(r, 0, n - tail)
        ELSE CopyLine(r, r.read, tail)

(* n characters leave the ring. *)
Advanced(r, n) ==
    [buf |-> r.buf, write |-> r.write, read |-> (r.read + n) % Size,
     full |-> r.full /\ n = 0, empty |-> r.empty \/ (n > 0 /\ n = Used(r))]

GetSkipsRest(r, size) == Advanced(r, AtMost(Used(r), size))

Get(r, size) == Advanced(r, LineSize(r, size))
=============================================================================
