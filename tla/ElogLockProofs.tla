--------------------------- MODULE ElogLockProofs ---------------------------
(***************************************************************************)
(* The output lock of EasyLogger excludes, and comes free, for any number  *)
(* of threads and however often it is disabled and enabled again, as long  *)
(* as nobody calls elog_raw while it is disabled.  Then one thread at most *)
(* has a line in the line buffer, and lines are printed in order.          *)
(***************************************************************************)
EXTENDS ElogProofs

(* The output lock.  Who owns the mutex of the port is inside a call, and who *)
(* is inside owns it, but for the thread that outputs an exception: it does   *)
(* not touch the mutex, and the flag it leaves behind does not outlast its    *)
(* call.  An elog_raw in an exception would leave it set (elog.c 331-399).    *)
Taken == {"inside", "format", "put", "direct", "unlock"}
InException == {"idle", "lock"} \cup Taken

Queued == ToSet(printLock.waiting)

Owned == printLock.owner # NoThread =>
             printLock.hold = 1 /\ call[printLock.owner].at \in Inside

QueuedAtLock == \A t \in Queued : call[t].at = "flag"

InsideOwns == \A t \in Thread :
    (call[t].at \in Inside /\ t \notin Queued) =>
        printLock.owner = t \/ (~lockEnabled /\ t \in Controllers)

Exception == ~lockEnabled => ~asyncEnabled /\ \A t \in Controllers :
    /\ printLock.owner # t /\ t \notin Queued
    /\ call[t].at \in InException
    /\ call[t].at # "idle" => call[t].op = "output"

FlagCleared == lockedBeforeEnable =>
    ~lockEnabled /\ \A t \in Controllers : call[t].at \in Taken

LockOK == Owned /\ QueuedAtLock /\ InsideOwns /\ Exception /\ FlagCleared

LEMMA QueuedThreads == SwitchesOK => Queued \subseteq Thread /\ printLock.owner \in Thread \cup {NoThread}
<1> SUFFICES ASSUME SwitchesOK
             PROVE  Queued \subseteq Thread /\ printLock.owner \in Thread \cup {NoThread}
  OBVIOUS
<1>1. printLock.waiting \in Seq(Thread) /\ printLock.owner \in Thread \cup {NoThread}
  BY DEF SwitchesOK, Mutex
<1>2. \A i \in DOMAIN printLock.waiting : printLock.waiting[i] \in Thread
  BY <1>1, ElementOfSeq, LenProperties
<1> QED BY <1>1, <1>2 DEF Queued, ToSet

(* A Goto moves one thread. *)
LEMMA GotoFacts ==
    ASSUME CallOK, NEW t \in Thread, NEW p, Goto(t, p)
    PROVE  /\ \A u \in Thread \ {t} : call'[u] = call[u]
           /\ call'[t].at = p
           /\ (call[t] \in LineCall /\ p # "idle") =>
                  /\ call'[t].op = call[t].op
                  /\ call'[t].len = call[t].len /\ call'[t].log = call[t].log
<1>1. \A u \in Thread \ {t} : call'[u] = call[u] BY DEF Goto, CallOK
<1>2. call'[t] = IF p = "idle" THEN [at |-> "idle"] ELSE [call[t] EXCEPT !.at = p]
  BY DEF Goto, CallOK
<1>3. call[t] \in NoLine \cup LineCall \cup OutputCall
  BY ThreadFacts DEF CallOK, LoggerCalls, OutputHolds
<1>4. call'[t].at = p BY <1>2, <1>3 DEF NoLine, LineCall, OutputCall
<1>5. ASSUME call[t] \in LineCall, p # "idle"
      PROVE  /\ call'[t].op = call[t].op
             /\ call'[t].len = call[t].len /\ call'[t].log = call[t].log
  BY <1>2, <1>5 DEF LineCall
<1> QED BY <1>1, <1>4, <1>5

(* A thread that moves inside, or outside, keeps to the lock; in an exception *)
(* it stays with what the exception may do.                                   *)
LEMMA MoveKeeps ==
    ASSUME LockOK, SwitchesOK, NEW t \in Thread, t \notin Queued,
           UNCHANGED << printLock, lockEnabled, lockedBeforeEnable, asyncEnabled >>,
           \A u \in Thread \ {t} : call'[u] = call[u],
           call'[t].at \in Inside <=> call[t].at \in Inside,
           lockEnabled \/ (/\ call'[t].at \in InException \ {"idle"}
                           /\ call'[t].op = "output"
                           /\ call[t].at \in Taken => call'[t].at \in Taken)
    PROVE  LockOK'
<1>0. Queued' = Queued /\ Queued \subseteq Thread /\ printLock.owner \in Thread \cup {NoThread}
  BY QueuedThreads DEF Queued
<1>1. Owned' BY <1>0 DEF LockOK, Owned
<1>2. QueuedAtLock' BY <1>0 DEF LockOK, QueuedAtLock
<1>3. InsideOwns' BY <1>0 DEF LockOK, InsideOwns
<1>4. Exception' BY <1>0, ThreadFacts DEF LockOK, Exception
<1>5. FlagCleared' BY ThreadFacts DEF LockOK, FlagCleared
<1> QED BY <1>1, <1>2, <1>3, <1>4, <1>5 DEF LockOK

(* In an exception only the thread that outputs it runs. *)
LEMMA Excepted ==
    ASSUME LockOK, CallOK, ~lockEnabled, NEW t \in Thread, NEW p, At(t, p)
    PROVE  /\ t \in Controllers /\ t \in Loggers /\ p \in InException
           /\ p # "idle" => call[t].op = "output" /\ call[t] \in LineCall
<1>1. t \in Controllers /\ t \in Loggers /\ call[t].at = p BY ThreadFacts DEF At
<1>2. p \in InException /\ (p # "idle" => call[t].op = "output")
  BY <1>1 DEF LockOK, Exception
<1>3. p # "idle" => call[t] \in LineCall BY <1>1, <1>2, InCall DEF InException, Taken
<1> QED BY <1>1, <1>2, <1>3

(* The actions between a take and a release, and those outside. *)
LEMMA SetFlagKeeps ==
    ASSUME LockOK, CallOK, SwitchesOK, NEW t \in Thread, SetFlag(t)
    PROVE  LockOK'
<1>1. At(t, "flag") /\ Goto(t, "inside") BY DEF SetFlag
<1>2. lockEnabled BY <1>1, Excepted DEF InException, Taken
<1>3. t \notin Queued /\ call[t].at = "flag" BY <1>1 DEF At, Queued
<1>4. UNCHANGED << printLock, lockEnabled, lockedBeforeEnable, asyncEnabled >> BY DEF SetFlag, modes
<1>5. (\A u \in Thread \ {t} : call'[u] = call[u]) /\ call'[t].at = "inside" BY <1>1, GotoFacts
<1> QED BY <1>2, <1>3, <1>4, <1>5, MoveKeeps DEF Inside, Composing

LEMMA ClearFlagKeeps ==
    ASSUME LockOK, CallOK, SwitchesOK, NEW t \in Thread, ClearFlag(t)
    PROVE  LockOK'
<1>1. At(t, "clear") /\ Goto(t, After(t)) BY DEF ClearFlag
<1>2. lockEnabled BY <1>1, Excepted DEF InException, Taken
<1>3. t \notin Queued /\ call[t].at = "clear" BY <1>1 DEF At, Queued
<1>4. UNCHANGED << printLock, lockEnabled, lockedBeforeEnable, asyncEnabled >> BY DEF ClearFlag, modes
<1>5. After(t) \in {"idle", "wait", "print"} BY DEF After
<1> HIDE DEF After
<1>6. (\A u \in Thread \ {t} : call'[u] = call[u]) /\ call'[t].at = After(t) BY <1>1, GotoFacts
<1> QED BY <1>2, <1>3, <1>4, <1>5, <1>6, MoveKeeps DEF Inside, Composing

LEMMA WorkKeeps ==
    ASSUME LockOK, CallOK, SwitchesOK, NEW t \in Loggers,
           Composes(t) \/ PutAsync(t) \/ PutDirect(t) \/ Notify(t)
    PROVE  LockOK'
<1> USE DEF Composing
<1>0. t \in Thread BY ThreadFacts
<1>1. UNCHANGED << printLock, lockEnabled, lockedBeforeEnable, asyncEnabled >>
  BY DEF Composes, Format, FormatRest, TestEnabled, PutAsync, PutDirect, Notify, lock, flags, modes
<1>2. /\ At(t, call[t].at) /\ call[t].at \in Composing \cup {"inside", "notify"}
      /\ t \notin Queued
  BY DEF Composes, Format, FormatRest, TestEnabled, PutAsync, PutDirect, Notify, At, Queued
<1>3. call[t] \in LineCall BY <1>2, InCall
<1>4. ~lockEnabled => call[t].op = "output" /\ call[t].at \in Taken /\ ~asyncEnabled
  <2>1. ~lockEnabled => call[t].op = "output" /\ call[t].at \in InException
    BY <1>0, <1>2, Excepted
  <2> QED BY <1>2, <2>1 DEF InException, Taken, LockOK, Exception
<1>5. /\ \A u \in Thread \ {t} : call'[u] = call[u]
      /\ call'[t].at \in Composing \cup {"unlock", "rawUnlock", "notify"}
      /\ call'[t].op = call[t].op
      /\ ~lockEnabled => call'[t].at \in Taken
  <2>1. CASE Format(t)
    <3>1. /\ \A u \in Thread \ {t} : call'[u] = call[u]
          /\ call'[t] = [call[t] EXCEPT !.at = "format", !.log = logged + 1]
      BY <1>0, <2>1 DEF Format, CallOK
    <3>2. call'[t].at = "format" /\ call'[t].op = call[t].op BY <1>3, <3>1 DEF LineCall
    <3> QED BY <3>1, <3>2 DEF Taken
  <2>2. CASE FormatRest(t)
    <3>1. \E p \in {"put", "unlock"} : Goto(t, p) BY <2>2 DEF FormatRest
    <3> QED BY <1>0, <1>3, <3>1, GotoFacts DEF Taken
  <2>3. CASE TestEnabled(t)
    <3>1. PICK p \in {"putAsync", "direct"} : Goto(t, p) /\ (p = "putAsync" => asyncEnabled)
      BY <2>3 DEF TestEnabled
    <3> QED BY <1>0, <1>3, <1>4, <3>1, GotoFacts DEF Taken
  <2>4. CASE PutAsync(t)
    <3>1. call[t].at = "putAsync" BY <2>4 DEF PutAsync, At
    <3>2. \E p \in {"notify", "rawUnlock", "unlock"} : Goto(t, p) BY <2>4 DEF PutAsync, AfterPut
    <3> QED BY <1>0, <1>3, <1>4, <3>1, <3>2, GotoFacts DEF Taken
  <2>5. CASE PutDirect(t)
    <3>1. PICK p \in {"rawUnlock", "unlock"} : Goto(t, p) /\ (p = "rawUnlock" => call[t].op = "raw")
      BY <2>5 DEF PutDirect, AfterPut
    <3> QED BY <1>0, <1>3, <1>4, <3>1, GotoFacts DEF Taken
  <2>6. CASE Notify(t)
    <3>1. call[t].at = "notify" BY <2>6 DEF Notify, At
    <3>2. \E p \in {"rawUnlock", "unlock"} : Goto(t, p) BY <2>6 DEF Notify, AfterPut
    <3> QED BY <1>0, <1>3, <1>4, <3>1, <3>2, GotoFacts DEF Taken
  <2> QED BY <2>1, <2>2, <2>3, <2>4, <2>5, <2>6 DEF Composes
<1> QED BY <1>0, <1>1, <1>2, <1>4, <1>5, MoveKeeps DEF Inside, Composing, InException, Taken

LEMMA CallKeeps ==
    ASSUME ~RawInException, LockOK, CallOK, SwitchesOK, NEW t \in Loggers, NEW n,
           LogCall(t, "output", n) \/ LogCall(t, "raw", n)
    PROVE  LockOK'
<1>0. t \in Thread BY ThreadFacts
<1>1. PICK op \in {"output", "raw"} : LogCall(t, op, n) OBVIOUS
<1>2. UNCHANGED << printLock, lockEnabled, lockedBeforeEnable, asyncEnabled >>
  BY <1>1 DEF LogCall, lock, flags, modes
<1>3. /\ call[t].at = "idle" /\ t \notin Queued
      /\ lockEnabled \/ op = "output"
  BY <1>1 DEF LogCall, At, Queued
<1>4. /\ \A u \in Thread \ {t} : call'[u] = call[u]
      /\ call'[t] = [at |-> "lock", op |-> op, len |-> n, log |-> 0]
  BY <1>0, <1>1 DEF LogCall, CallOK
<1>5. call'[t].at = "lock" /\ call'[t].op = op BY <1>4
<1> QED BY <1>0, <1>2, <1>3, <1>4, <1>5, MoveKeeps DEF Inside, Composing, InException, Taken

LEMMA OutputKeeps ==
    ASSUME LockOK, CallOK, SwitchesOK, WaitNotice \/ GetLine \/ PrintLine
    PROVE  LockOK'
<1>1. UNCHANGED << printLock, lockEnabled, lockedBeforeEnable, asyncEnabled >>
  BY DEF WaitNotice, GetLine, PrintLine, lock, flags, modes
<1>2. /\ lockEnabled /\ Output \notin Queued /\ call[Output].at \in {"wait", "inside", "print"}
      /\ call[Output].at = "inside" <=> GetLine
  BY ThreadFacts DEF WaitNotice, GetLine, PrintLine, At, Queued
<1>3. /\ \A u \in Thread \ {Output} : call'[u] = call[u]
      /\ call'[Output].at = IF GetLine THEN "unlock" ELSE "lock"
  <2>1. CASE WaitNotice
    <3>1. Goto(Output, "lock") BY <2>1 DEF WaitNotice
    <3>2. ~GetLine BY <1>2, <2>1 DEF WaitNotice, At
    <3> QED BY <3>1, <3>2, GotoFacts, ThreadFacts
  <2>2. CASE GetLine
    <3>1. call[Output] \in OutputCall BY DEF CallOK, OutputHolds
    <3> QED BY <2>2, <3>1, ThreadFacts DEF GetLine, CallOK, OutputCall
  <2>3. CASE PrintLine
    <3>1. call[Output] \in OutputCall BY DEF CallOK, OutputHolds
    <3>2. ~GetLine BY <1>2, <2>3 DEF PrintLine, At
    <3> QED BY <2>3, <3>1, <3>2, ThreadFacts DEF PrintLine, CallOK, OutputCall
  <2> QED BY <2>1, <2>2, <2>3
<1> QED BY <1>1, <1>2, <1>3, MoveKeeps, ThreadFacts DEF Inside, Composing

(* A queue with a thread put anywhere into it. *)
LEMMA InsertSet ==
    ASSUME NEW S, NEW q \in Seq(S), NEW e \in S, NEW i \in 1 .. Len(q) + 1
    PROVE  ToSet(InsertAt(q, i, e)) = ToSet(q) \cup {e}
<1> DEFINE a == SubSeq(q, 1, i - 1)
           b == SubSeq(q, i, Len(q))
           r == InsertAt(q, i, e)
<1>0. Len(q) \in Nat /\ DOMAIN q = 1 .. Len(q) /\ \A j \in 1 .. Len(q) : q[j] \in S
  BY LenProperties, ElementOfSeq
<1>1. a \in Seq(S) /\ Len(a) = i - 1 /\ \A j \in 1 .. i - 1 : a[j] = q[j]
  BY <1>0, SubSeqProperties
<1>2. b \in Seq(S) /\ Len(b) = Len(q) - i + 1 /\ \A j \in 1 .. Len(q) - i + 1 : b[j] = q[i + j - 1]
  BY <1>0, SubSeqProperties
<1> DEFINE one == << e >>
           c == a \o one
<1>3. one \in Seq(S) /\ Len(one) = 1 /\ one[1] = e OBVIOUS
<1>4. r = c \o b BY DEF InsertAt
<1> HIDE DEF r, a, b, one
<1>5. /\ c \in Seq(S) /\ Len(c) = i
      /\ \A j \in 1 .. i : c[j] = IF j < i THEN q[j] ELSE e
  <2>1. /\ c \in Seq(S) /\ Len(c) = Len(a) + Len(one)
        /\ \A j \in 1 .. Len(a) + Len(one) :
              c[j] = IF j <= Len(a) THEN a[j] ELSE one[j - Len(a)]
    BY <1>1, <1>3, ConcatProperties
  <2>2. Len(c) = i BY <1>1, <1>3, <2>1
  <2>3. ASSUME NEW j \in 1 .. i, j < i PROVE c[j] = q[j]
    <3>1. j \in 1 .. i - 1 /\ j \in 1 .. (i - 1) + 1 BY <1>0, <2>3
    <3> QED BY <1>1, <1>3, <2>1, <3>1
  <2>4. c[i] = e
    <3>1. i \in 1 .. (i - 1) + 1 /\ ~(i <= i - 1) /\ i - (i - 1) = 1 BY <1>0
    <3> QED BY <1>1, <1>3, <2>1, <3>1
  <2>5. \A j \in 1 .. i : ~(j < i) => j = i BY <1>0
  <2> QED BY <2>1, <2>2, <2>3, <2>4, <2>5
<1> HIDE DEF c
<1>6. /\ r \in Seq(S) /\ Len(r) = Len(c) + Len(b)
      /\ \A j \in 1 .. Len(c) + Len(b) : r[j] = IF j <= Len(c) THEN c[j] ELSE b[j - Len(c)]
  BY <1>2, <1>4, <1>5, ConcatProperties
<1>7. /\ Len(r) = Len(q) + 1
      /\ \A j \in 1 .. Len(q) + 1 : r[j] = IF j < i THEN q[j] ELSE IF j = i THEN e ELSE q[j - 1]
  <2>1. Len(c) + Len(b) = Len(q) + 1 BY <1>0, <1>2, <1>5
  <2>2. ASSUME NEW j \in 1 .. Len(q) + 1, j <= i
        PROVE  r[j] = IF j < i THEN q[j] ELSE IF j = i THEN e ELSE q[j - 1]
    <3>1. j \in 1 .. i BY <1>0, <2>2
    <3> QED BY <1>0, <1>5, <1>6, <2>1, <2>2, <3>1
  <2>3. ASSUME NEW j \in 1 .. Len(q) + 1, ~(j <= i)
        PROVE  r[j] = IF j < i THEN q[j] ELSE IF j = i THEN e ELSE q[j - 1]
    <3>1. j - i \in 1 .. Len(q) - i + 1 /\ i + (j - i) - 1 = j - 1 BY <1>0, <2>3
    <3>2. b[j - i] = q[j - 1] BY <1>2, <3>1
    <3>3. r[j] = b[j - i] BY <1>5, <1>6, <2>1, <2>3
    <3>4. ~(j < i) /\ j # i BY <1>0, <2>3
    <3> QED BY <3>2, <3>3, <3>4
  <2> QED BY <1>6, <2>1, <2>2, <2>3
<1>8. DOMAIN r = 1 .. Len(q) + 1 BY <1>6, <1>7, LenProperties
<1>9. ASSUME NEW x \in ToSet(q) \cup {e} PROVE x \in ToSet(r)
  <2>1. CASE x = e BY <1>0, <1>7, <1>8, <2>1 DEF ToSet
  <2>2. CASE x # e
    <3>1. PICK j \in 1 .. Len(q) : q[j] = x BY <1>0, <1>9, <2>2 DEF ToSet
    <3>2. CASE j < i BY <1>0, <1>7, <1>8, <3>1, <3>2 DEF ToSet
    <3>3. CASE j >= i
      <4>1. j + 1 \in 1 .. Len(q) + 1 /\ (j + 1) - 1 = j /\ ~(j + 1 < i) /\ j + 1 # i
        BY <1>0, <3>3
      <4>2. r[j + 1] = x BY <1>7, <3>1, <4>1
      <4> QED BY <1>8, <4>1, <4>2 DEF ToSet
    <3> QED BY <1>0, <3>1, <3>2, <3>3
  <2> QED BY <2>1, <2>2
<1>10. ASSUME NEW x \in ToSet(r) PROVE x \in ToSet(q) \cup {e}
  <2>1. PICK j \in 1 .. Len(q) + 1 : r[j] = x BY <1>8, <1>10 DEF ToSet
  <2>2. CASE j < i BY <1>0, <1>7, <2>1, <2>2 DEF ToSet
  <2>3. CASE j = i BY <1>7, <2>1, <2>3
  <2>4. CASE j > i
    <3>1. j - 1 \in 1 .. Len(q) BY <1>0, <2>1, <2>4
    <3> QED BY <1>0, <1>7, <2>1, <2>4, <3>1 DEF ToSet
  <2> QED BY <1>0, <2>1, <2>2, <2>3, <2>4
<1> QED BY <1>9, <1>10 DEF r

(* A thread that finds the mutex free owns it, another one queues up. *)
LEMMA TakeFacts ==
    ASSUME NEW m \in Mutex(Thread), NEW t \in Thread, m.owner # t,
           NEW taken \in MutexTakeByPriority(m, t)
    PROVE  \/ /\ m.owner = NoThread /\ taken.owner = t /\ taken.hold = 1
              /\ taken.waiting = m.waiting
           \/ /\ m.owner # NoThread /\ taken.owner = m.owner /\ taken.hold = m.hold
              /\ ToSet(taken.waiting) = ToSet(m.waiting) \cup {t}
<1>1. m.waiting \in Seq(Thread) /\ DOMAIN m = {"owner", "hold", "waiting"} BY DEF Mutex
<1>2. CASE m.owner = NoThread
  <2>1. taken = [m EXCEPT !.owner = t, !.hold = 1]
    BY <1>2 DEF MutexTakeByPriority, MutexTake
  <2> QED BY <1>1, <1>2, <2>1
<1>3. CASE m.owner # NoThread
  <2>1. PICK i \in 1 .. Len(m.waiting) + 1 : taken = [m EXCEPT !.waiting = InsertAt(m.waiting, i, t)]
    BY <1>3 DEF MutexTakeByPriority
  <2>2. ToSet(InsertAt(m.waiting, i, t)) = ToSet(m.waiting) \cup {t} BY <1>1, InsertSet
  <2> HIDE DEF InsertAt
  <2> QED BY <1>1, <1>3, <2>1, <2>2
<1> QED BY <1>2, <1>3

(* The take: the thread owns the mutex or queues, or is in an exception. *)
LEMMA LockKeeps ==
    ASSUME LockOK, CallOK, SwitchesOK, NEW t \in Thread, Lock(t)
    PROVE  LockOK'
<1>1. At(t, "lock") /\ call[t].at = "lock" /\ t \notin Queued BY DEF Lock, At, Queued
<1>2. /\ Queued \subseteq Thread /\ printLock.owner \in Thread \cup {NoThread}
      /\ printLock \in Mutex(Thread) /\ NoThread \notin Thread
  BY QueuedThreads, ElogAssumption DEF SwitchesOK
<1>3. printLock.owner # t BY <1>1, <1>2 DEF LockOK, Owned, Inside, Composing
<1>4. CASE lockEnabled
  <2>1. /\ printLock' \in MutexTakeByPriority(printLock, t) /\ Goto(t, "flag")
        /\ UNCHANGED << lockEnabled, lockedBeforeEnable, asyncEnabled >>
    BY <1>4 DEF Lock, flags, modes
  <2>2. (\A u \in Thread \ {t} : call'[u] = call[u]) /\ call'[t].at = "flag" BY <2>1, GotoFacts
  <2>3. \/ /\ printLock.owner = NoThread /\ printLock'.owner = t /\ printLock'.hold = 1
           /\ Queued' = Queued
        \/ /\ printLock.owner # NoThread /\ printLock'.owner = printLock.owner
           /\ printLock'.hold = printLock.hold /\ Queued' = Queued \cup {t}
    BY <1>2, <1>3, <2>1, TakeFacts DEF Queued
  <2>4. Owned' BY <1>2, <1>3, <2>2, <2>3 DEF LockOK, Owned, Inside, Composing
  <2>5. QueuedAtLock' BY <1>1, <1>2, <2>2, <2>3 DEF LockOK, QueuedAtLock
  <2>6. InsideOwns' BY <1>2, <1>4, <2>2, <2>3 DEF LockOK, InsideOwns
  <2>7. Exception' BY <1>4, <2>1 DEF Exception
  <2>8. FlagCleared' BY <1>4, <2>1 DEF LockOK, FlagCleared
  <2> QED BY <2>4, <2>5, <2>6, <2>7, <2>8 DEF LockOK
<1>5. CASE ~lockEnabled
  <2>1. /\ Goto(t, "inside") /\ lockedBeforeEnable'
        /\ UNCHANGED << printLock, lockEnabled, asyncEnabled >>
    BY <1>5 DEF Lock, modes
  <2>2. /\ t \in Controllers /\ call[t].op = "output" /\ call[t] \in LineCall
        /\ \A c \in Controllers : c = t
    BY <1>1, <1>5, Excepted, ElogAssumption
  <2>3. /\ \A u \in Thread \ {t} : call'[u] = call[u]
        /\ call'[t].at = "inside" /\ call'[t].op = "output" /\ Queued' = Queued
    BY <2>1, <2>2, GotoFacts DEF Queued
  <2>4. Owned' BY <1>2, <1>3, <2>1, <2>3 DEF LockOK, Owned
  <2>5. QueuedAtLock' BY <1>1, <1>2, <2>3 DEF LockOK, QueuedAtLock
  <2>6. InsideOwns' BY <1>5, <2>1, <2>2, <2>3 DEF LockOK, InsideOwns
  <2>7. Exception' BY <1>1, <1>3, <1>5, <2>1, <2>2, <2>3 DEF LockOK, Exception, InException, Taken
  <2>8. FlagCleared' BY <1>5, <2>1, <2>2, <2>3 DEF FlagCleared, Taken
  <2> QED BY <2>4, <2>5, <2>6, <2>7, <2>8 DEF LockOK
<1> QED BY <1>4, <1>5

(* The owner hands the mutex to one that queues, or leaves it free. *)
LEMMA HandOver ==
    ASSUME NEW m \in Mutex(Thread), NEW t \in Thread, m.owner = t, m.hold = 1
    PROVE  LET left == MutexRelease(m, t)
           IN  \/ left.owner = NoThread /\ ToSet(m.waiting) = {} /\ ToSet(left.waiting) = {}
               \/ /\ left.owner \in ToSet(m.waiting) /\ left.hold = 1
                  /\ ToSet(left.waiting) \subseteq ToSet(m.waiting)
                  /\ ToSet(m.waiting) \subseteq ToSet(left.waiting) \cup {left.owner}
<1>1. m.waiting \in Seq(Thread) BY DEF Mutex
<1>2. CASE m.waiting = << >>
  <2>1. MutexRelease(m, t) = FreeMutex BY <1>2 DEF MutexRelease
  <2>2. ToSet(<< >>) = {} BY DEF ToSet
  <2> QED BY <1>2, <2>1, <2>2 DEF FreeMutex
<1>3. CASE m.waiting # << >>
  <2>1. MutexRelease(m, t) = [owner |-> Head(m.waiting), hold |-> 1, waiting |-> Tail(m.waiting)]
    BY <1>3 DEF MutexRelease
  <2>2. /\ ToSet(m.waiting) \subseteq ToSet(Tail(m.waiting)) \cup {Head(m.waiting)}
        /\ ToSet(Tail(m.waiting)) \subseteq ToSet(m.waiting)
    BY <1>1, <1>3, TailSet
  <2>3. Head(m.waiting) \in ToSet(m.waiting)
    <3>1. Len(m.waiting) \in Nat \ {0} /\ Head(m.waiting) = m.waiting[1]
          /\ DOMAIN m.waiting = 1 .. Len(m.waiting)
      BY <1>1, <1>3, EmptySeq, LenProperties
    <3> QED BY <3>1 DEF ToSet
  <2> QED BY <2>1, <2>2, <2>3
<1> QED BY <1>2, <1>3

(* The release: who leaves the queue owns the mutex. *)
LEMMA ReleaseKeeps ==
    ASSUME LockOK, CallOK, SwitchesOK, NEW t \in Thread, lockEnabled,
           call[t].at \in Inside, t \notin Queued, NEW p, p \notin Inside, Goto(t, p),
           printLock' = MutexRelease(printLock, t),
           UNCHANGED << lockEnabled, lockedBeforeEnable >>
    PROVE  LockOK'
<1>1. /\ Queued \subseteq Thread /\ printLock \in Mutex(Thread) /\ NoThread \notin Thread
  BY QueuedThreads, ElogAssumption DEF SwitchesOK
<1>2. printLock.owner = t BY DEF LockOK, InsideOwns
<1>3. printLock.hold = 1 BY <1>1, <1>2 DEF LockOK, Owned
<1>4. \/ printLock'.owner = NoThread /\ Queued = {} /\ Queued' = {}
      \/ /\ printLock'.owner \in Queued /\ printLock'.hold = 1
         /\ Queued' \subseteq Queued /\ Queued \subseteq Queued' \cup {printLock'.owner}
  BY <1>1, <1>2, <1>3, HandOver DEF Queued
<1>5. (\A u \in Thread \ {t} : call'[u] = call[u]) /\ call'[t].at = p BY GotoFacts
<1>6. \A u \in Queued : call'[u].at = "flag" BY <1>1, <1>5 DEF LockOK, QueuedAtLock
<1>7. Owned' BY <1>4, <1>6 DEF Owned, Inside, Composing
<1>8. QueuedAtLock' BY <1>4, <1>6 DEF QueuedAtLock
<1>9. InsideOwns' BY <1>2, <1>4, <1>5 DEF LockOK, InsideOwns
<1>10. Exception' BY DEF Exception
<1>11. FlagCleared' BY DEF LockOK, FlagCleared
<1> QED BY <1>7, <1>8, <1>9, <1>10, <1>11 DEF LockOK

LEMMA UnlockKeeps ==
    ASSUME LockOK, CallOK, SwitchesOK, NEW t \in Thread, Unlock(t)
    PROVE  LockOK'
<1>1. At(t, "unlock") /\ call[t].at = "unlock" /\ t \notin Queued BY DEF Unlock, At, Queued
<1>2. CASE lockEnabled
  <2>1. /\ printLock' = MutexRelease(printLock, t) /\ Goto(t, "clear")
        /\ UNCHANGED << lockEnabled, lockedBeforeEnable >>
    BY <1>2 DEF Unlock, flags
  <2> QED BY <1>1, <1>2, <2>1, ReleaseKeeps DEF Inside, Composing
<1>3. CASE ~lockEnabled
  <2>1. /\ Goto(t, After(t)) /\ lockedBeforeEnable' = FALSE
        /\ UNCHANGED << printLock, lockEnabled, asyncEnabled >>
    BY <1>3 DEF Unlock, modes
  <2>2. t \in Controllers /\ t # Output BY <1>1, <1>3, Excepted, ThreadFacts
  <2>3. /\ \A u \in Thread \ {t} : call'[u] = call[u]
        /\ call'[t].at = "idle" /\ Queued' = Queued
    BY <2>1, <2>2, GotoFacts DEF After, Queued
  <2>4. /\ Queued \subseteq Thread /\ printLock.owner \in Thread \cup {NoThread}
        /\ printLock.owner # t /\ \A c \in Controllers : c = t
    BY <1>3, <2>2, QueuedThreads, ElogAssumption DEF LockOK, Exception
  <2>5. Owned' BY <2>1, <2>3, <2>4 DEF LockOK, Owned
  <2>6. QueuedAtLock' BY <1>1, <2>3, <2>4 DEF LockOK, QueuedAtLock
  <2>7. InsideOwns' BY <2>1, <2>3 DEF LockOK, InsideOwns, Inside, Composing
  <2>8. Exception' BY <1>1, <1>3, <2>1, <2>3, <2>4 DEF LockOK, Exception, InException, Taken
  <2>9. FlagCleared' BY <2>1 DEF FlagCleared
  <2> QED BY <2>5, <2>6, <2>7, <2>8, <2>9 DEF LockOK
<1> QED BY <1>2, <1>3

LEMMA RawUnlockKeeps ==
    ASSUME LockOK, CallOK, SwitchesOK, NEW t \in Thread, RawUnlock(t)
    PROVE  LockOK'
<1>1. At(t, "rawUnlock") /\ call[t].at = "rawUnlock" /\ t \notin Queued
  BY DEF RawUnlock, At, Queued
<1>2. lockEnabled BY <1>1, Excepted DEF InException, Taken
<1>3. /\ printLock' = MutexRelease(printLock, t) /\ Goto(t, "idle")
      /\ UNCHANGED << lockEnabled, lockedBeforeEnable >>
  BY DEF RawUnlock, flags
<1> QED BY <1>1, <1>2, <1>3, ReleaseKeeps DEF Inside, Composing

(* What elog_output_lock_enabled(true) catches up with is nothing. *)
LEMMA RelockKeeps ==
    ASSUME LockOK, CallOK, SwitchesOK, NEW t \in Thread, Relock(t)
    PROVE  LockOK'
<1>1. At(t, "relock") /\ Goto(t, "idle") /\ call[t].at = "relock" /\ t \notin Queued
  BY DEF Relock, At, Queued
<1>2. lockEnabled BY <1>1, Excepted DEF InException, Taken
<1>3. ~lockedBeforeEnable BY <1>2 DEF LockOK, FlagCleared
<1>4. printLock.owner # t
  <2>1. NoThread \notin Thread BY ElogAssumption
  <2> QED BY <1>1, <2>1 DEF LockOK, Owned, Inside, Composing
<1>5. MutexRelease(printLock, t) = printLock BY <1>4, MutexReleaseFacts DEF SwitchesOK
<1>6. UNCHANGED << printLock, lockEnabled, lockedBeforeEnable, asyncEnabled >>
  BY <1>3, <1>5 DEF Relock, flags, modes
<1>7. (\A u \in Thread \ {t} : call'[u] = call[u]) /\ call'[t].at = "idle" BY <1>1, GotoFacts
<1> QED BY <1>1, <1>2, <1>6, <1>7, MoveKeeps DEF Inside, Composing

(* The lock is disabled and enabled from outside of it. *)
LEMMA SwitchKeeps ==
    ASSUME LockOK, CallOK, SwitchesOK, NEW t \in Controllers, Switching(t)
    PROVE  LockOK'
<1>0. /\ t \in Thread /\ t \in Loggers /\ call[t].at = "idle" /\ t \notin Queued
      /\ printLock' = printLock /\ Queued' = Queued /\ lockedBeforeEnable' = lockedBeforeEnable
  BY ThreadFacts DEF Switching, LockDisable, LockEnable, SetOutputEnabled, AsyncEnabled, At,
                     Queued, lock, flags
<1>1. /\ Queued \subseteq Thread /\ printLock.owner \in Thread \cup {NoThread}
      /\ NoThread \notin Thread /\ \A c \in Controllers : c = t
  BY QueuedThreads, ElogAssumption
<1>2. printLock.owner # t BY <1>0, <1>1 DEF LockOK, Owned, Inside, Composing
<1>3. CASE LockDisable(t)
  <2>1. lockEnabled /\ ~lockEnabled' /\ ~asyncEnabled' /\ call' = call
    BY <1>3 DEF LockDisable, modes
  <2>2. ~lockedBeforeEnable' BY <1>0, <2>1 DEF LockOK, FlagCleared
  <2> QED BY <1>0, <1>1, <1>2, <2>1, <2>2
         DEF LockOK, Owned, QueuedAtLock, InsideOwns, Exception, FlagCleared, InException, Taken
<1>4. CASE LockEnable(t)
  <2>1. lockEnabled' /\ Goto(t, "relock") BY <1>4 DEF LockEnable
  <2>2. (\A u \in Thread \ {t} : call'[u] = call[u]) /\ call'[t].at = "relock"
    BY <1>0, <2>1, GotoFacts
  <2>3. ~lockedBeforeEnable'
    BY <1>0 DEF LockOK, FlagCleared, Taken
  <2>4. Owned' BY <1>0, <1>1, <1>2, <2>2 DEF LockOK, Owned
  <2>5. QueuedAtLock' BY <1>0, <1>1, <2>2 DEF LockOK, QueuedAtLock
  <2>6. InsideOwns' BY <1>0, <1>1, <2>2 DEF LockOK, InsideOwns, Inside, Composing
  <2> QED BY <2>1, <2>3, <2>4, <2>5, <2>6 DEF LockOK, Exception, FlagCleared
<1>5. CASE \E b \in BOOLEAN : SetOutputEnabled(t, b) \/ AsyncEnabled(t, b)
  <2>1. call' = call /\ lockEnabled' = lockEnabled /\ (lockEnabled \/ asyncEnabled' = asyncEnabled)
    BY <1>5 DEF SetOutputEnabled, AsyncEnabled, lock, flags
  <2> QED BY <1>0, <2>1
         DEF LockOK, Owned, QueuedAtLock, InsideOwns, Exception, FlagCleared
<1> QED BY <1>3, <1>4, <1>5 DEF Switching

LEMMA LockInit == Init => LockOK
<1> SUFFICES ASSUME Init PROVE LockOK OBVIOUS
<1>1. /\ printLock.owner = NoThread /\ Queued = {} /\ lockEnabled /\ ~lockedBeforeEnable
  BY DEF Init, FreeMutex, Queued, ToSet
<1>2. \A t \in Thread : call[t].at \in {"wait", "idle"} BY DEF Init
<1> QED BY <1>1, <1>2
       DEF LockOK, Owned, QueuedAtLock, InsideOwns, Exception, FlagCleared, Inside, Composing

(* One step per action. *)
LEMMA LockStep ==
    ASSUME ~RawInException, LockOK, CallOK, SwitchesOK, [Next]_vars
    PROVE  LockOK'
<1>1. CASE UNCHANGED vars
  BY <1>1 DEF vars, lock, flags, modes, LockOK, Owned, QueuedAtLock, InsideOwns, Exception,
              FlagCleared, Queued
<1>2. ASSUME NEW t \in Thread, Silent(t) PROVE LockOK'
  <2>1. CASE Notify(t)
    <3>1. t \in Loggers
      BY <2>1, ThreadFacts DEF Notify, At, CallOK, OutputHolds
    <3> QED BY <2>1, <3>1, WorkKeeps
  <2> QED BY <1>2, <2>1, LockKeeps, SetFlagKeeps, UnlockKeeps, ClearFlagKeeps, RawUnlockKeeps,
             RelockKeeps DEF Silent, Locking
<1>3. ASSUME NEW t \in Loggers, Composes(t) \/ PutAsync(t) \/ PutDirect(t) PROVE LockOK'
  BY <1>3, WorkKeeps
<1> QED BY <1>1, <1>2, <1>3, StepCases, OutputKeeps, CallKeeps, SwitchKeeps

LEMMA LockInvariant ==
    ASSUME 0 \notin RawLengths, ~RawInException
    PROVE  Spec => [](Inv /\ LockOK)
<1>1. LockOK /\ Inv /\ [Next]_vars => LockOK' BY LockStep DEF Inv
<1> QED BY <1>1, LockInit, Invariant, PTL DEF Spec

(* One thread at most uses the line buffer and the ring while the lock is    *)
(* enabled, however often it was disabled and enabled with others inside     *)
(* (elog.c 304-323, 545-565), ...                                            *)
THEOREM LockExcludes ==
    ASSUME 0 \notin RawLengths, ~RawInException PROVE Spec => []OutputLockExcludes
<1>1. LockOK => OutputLockExcludes
  BY DEF LockOK, InsideOwns, OutputLockExcludes, Queued
<1> QED BY <1>1, LockInvariant, PTL

(* ... and the mutex is never left with a thread that has gone on.           *)
THEOREM LockReleased ==
    ASSUME 0 \notin RawLengths, ~RawInException PROVE Spec => []NothingLeftLocked
<1>1. LockOK => NothingLeftLocked BY DEF LockOK, Owned, NothingLeftLocked
<1> QED BY <1>1, LockInvariant, PTL
-----------------------------------------------------------------------------
(* The order of the lines.  Everything that was output, on the console or    *)
(* waiting, ascends; whoever has a line in the line buffer has the newest,   *)
(* with nothing of it output yet, and is the only one; what is going to be   *)
(* output directly has nothing waiting before it, and what goes into the     *)
(* ring finds asynchronous mode still on.                                    *)
Out == console \o Waiting
Ascending(s) == \A i, k \in 1 .. Len(s) : i < k => Before(s[i], s[k])
Newest(s) == \A i \in 1 .. Len(s) : s[i].log <= logged

Composed(t) == IF call[t].at = "format" THEN 1 ELSE call[t].len
Fresh(t) ==
    /\ \A i \in 1 .. Len(Out) : Out[i].log < logged
    /\ \A i \in 1 .. Composed(t) : lineBuf[i].log = logged /\ lineBuf[i].pos = i
    /\ call[t].at = "format" => call[t].log = logged
    /\ call[t].at = "direct" => Waiting = << >>
    /\ call[t].at = "putAsync" => asyncEnabled
    /\ lockEnabled \/ t \in Controllers

InOrder == /\ Ascending(Out) /\ Newest(Out)
           /\ \A t \in Loggers : call[t].at \in Composing => Fresh(t)
           /\ ~asyncEnabled => Waiting = << >>
OrderOK == ~outOfTurn => InOrder

LEMMA OutTypes ==
    ASSUME CallOK, DataOK
    PROVE  Waiting \in Seq(Char) /\ console \in Seq(Char) /\ Out \in Seq(Char)
<1>1. Waiting \in Seq(Char) /\ console \in Seq(Char)
  BY WaitingIs, QueueTypes, ConcatProperties
<1> QED BY <1>1, ConcatProperties DEF Out

LEMMA OutLogs ==
    ASSUME CallOK, DataOK
    PROVE  \A i \in 1 .. Len(Out) : Out[i].log \in Nat
<1>1. Out \in Seq(Char) BY OutTypes
<1>2. \A i \in 1 .. Len(Out) : Out[i] \in Char BY <1>1, ElementOfSeq
<1> QED BY <1>2 DEF Char

(* The characters of a log after those of earlier ones are in order. *)
LEMMA AppendAscends ==
    ASSUME NEW s \in Seq(Char), NEW e \in Seq(Char), NEW k \in Nat, Ascending(s),
           \A i \in 1 .. Len(s) : s[i].log < k,
           \A i \in 1 .. Len(e) : e[i].log = k /\ e[i].pos = i
    PROVE  Ascending(s \o e) /\ \A i \in 1 .. Len(s \o e) : (s \o e)[i].log <= k
<1>1. /\ Len(s \o e) = Len(s) + Len(e) /\ Len(s) \in Nat /\ Len(e) \in Nat
      /\ \A i \in 1 .. Len(s) : (s \o e)[i] = s[i] /\ s[i].log \in Nat
      /\ \A i \in Len(s) + 1 .. Len(s) + Len(e) : (s \o e)[i] = e[i - Len(s)]
  <2>1. \A i \in 1 .. Len(s) : s[i] \in Char BY ElementOfSeq
  <2> QED BY <2>1, ConcatProperties, LenProperties DEF Char
<1>2. ASSUME NEW i \in 1 .. Len(s \o e)
      PROVE  \/ i <= Len(s) /\ (s \o e)[i] = s[i] /\ s[i].log < k /\ s[i].log \in Nat
             \/ /\ i > Len(s) /\ (s \o e)[i].log = k /\ (s \o e)[i].pos = i - Len(s)
  <2>1. CASE i <= Len(s) BY <1>1, <2>1
  <2>2. CASE i > Len(s)
    <3>1. i - Len(s) \in 1 .. Len(e) /\ i \in Len(s) + 1 .. Len(s) + Len(e) BY <1>1, <2>2
    <3> QED BY <1>1, <2>2, <3>1
  <2> QED BY <1>1, <2>1, <2>2
<1>3. \A i \in 1 .. Len(s \o e) : (s \o e)[i].log <= k BY <1>2
<1>4. ASSUME NEW i \in 1 .. Len(s \o e), NEW j \in 1 .. Len(s \o e), i < j
      PROVE  Before((s \o e)[i], (s \o e)[j])
  <2>1. CASE j <= Len(s)
    <3>1. i \in 1 .. Len(s) /\ j \in 1 .. Len(s) BY <1>1, <1>4, <2>1
    <3> QED BY <1>1, <1>4, <3>1 DEF Ascending
  <2>2. CASE i <= Len(s) /\ j > Len(s) BY <1>2, <2>2 DEF Before
  <2>3. CASE i > Len(s) BY <1>1, <1>2, <1>4, <2>3 DEF Before
  <2> QED BY <1>1, <2>1, <2>2, <2>3
<1> QED BY <1>3, <1>4 DEF Ascending

(* Only one thread has a line in the line buffer. *)
LEMMA OnePuts ==
    ASSUME LockOK, InOrder, NEW t \in Loggers, NEW p \in {"inside"} \cup Composing, At(t, p)
    PROVE  \A u \in Loggers : call[u].at \in Composing => u = t
<1> SUFFICES ASSUME NEW u \in Loggers, call[u].at \in Composing PROVE u = t OBVIOUS
<1>1. t \in Thread /\ u \in Thread BY ThreadFacts
<1>2. call[t].at \in Inside /\ t \notin Queued /\ (lockEnabled \/ t \in Controllers)
  BY DEF At, Inside, Composing, Queued
<1>3. call[u].at \in Inside /\ u \notin Queued /\ (lockEnabled \/ u \in Controllers)
  BY DEF LockOK, QueuedAtLock, InOrder, Fresh, Inside, Composing
<1>4. CASE lockEnabled BY <1>1, <1>2, <1>3, <1>4 DEF LockOK, InsideOwns
<1>5. CASE ~lockEnabled BY <1>2, <1>3, <1>5, ElogAssumption
<1> QED BY <1>4, <1>5

(* A piece of the line is output behind everything else. *)
LEMMA PutInOrder ==
    ASSUME CallOK, DataOK, LockOK, InOrder, NEW t \in Loggers,
           NEW q \in {"putAsync", "direct"}, At(t, q),
           NEW n \in 0 .. Len(Line(t)), SubSeq(Line(t), 1, n) \in Seq(Char),
           Out' = Out \o SubSeq(Line(t), 1, n), ~asyncEnabled' => Waiting' = << >>,
           NEW p, Goto(t, p), p \notin Composing, logged' = logged
    PROVE  InOrder'
<1> DEFINE e == SubSeq(Line(t), 1, n)
<1>1. call[t].at = q /\ call[t].at \in Composing /\ Fresh(t) BY DEF At, InOrder, Composing
<1>2. Line(t) \in Seq(Char) /\ Len(Line(t)) = call[t].len /\ call[t].len \in 1 .. LineSpace
  <2>1. call[t] \in LineCall BY <1>1, InCall
  <2> QED BY <1>1, <2>1, LineFacts DEF LineCall
<1>3. Len(e) = n /\ n \in 0 .. call[t].len /\ \A i \in 1 .. n : e[i] = lineBuf[i]
  <2>1. lineBuf \in Seq(Char) /\ Len(lineBuf) = LineSpace /\ LineSpace \in Nat
    BY ElogAssumption DEF DataOK
  <2>2. n \in Nat /\ n <= call[t].len /\ call[t].len <= LineSpace BY <1>2, <2>1
  <2>3. \A i \in 1 .. call[t].len : Line(t)[i] = lineBuf[i]
    BY <1>2, <2>1, <2>2, SubSeqProperties DEF Line
  <2>4. Len(e) = n /\ \A i \in 1 .. n : e[i] = Line(t)[i] BY <1>2, <2>2, SubSeqProperties
  <2> HIDE DEF e
  <2>5. n \in 0 .. call[t].len /\ \A i \in 1 .. n : i \in 1 .. call[t].len
    <3>1. call[t].len \in Nat BY <1>2
    <3> QED BY <2>2, <3>1
  <2>6. \A i \in 1 .. n : e[i] = lineBuf[i] BY <2>3, <2>4, <2>5
  <2> QED BY <2>4, <2>5, <2>6
<1>4. e \in Seq(Char) /\ Out' = Out \o e OBVIOUS
<1> HIDE DEF e
<1>5. \A i \in 1 .. Len(e) : e[i].log = logged /\ e[i].pos = i
  <2>1. \A i \in 1 .. n : i \in 1 .. call[t].len BY <1>2, <1>3
  <2> QED BY <1>1, <1>3, <2>1 DEF Fresh, Composed
<1>6. Ascending(Out') /\ \A i \in 1 .. Len(Out') : Out'[i].log <= logged
  <2>1. \A i \in 1 .. Len(Out) : Out[i].log < logged BY <1>1 DEF Fresh
  <2> QED BY <1>4, <1>5, <2>1, OutTypes, AppendAscends DEF DataOK, InOrder
<1>7. \A u \in Loggers : call'[u].at \notin Composing
  <2>1. q \in Composing BY DEF Composing
  <2> QED BY <2>1, GotoFacts, ThreadFacts, OnePuts
<1> QED BY <1>6, <1>7 DEF InOrder, Newest, Ascending

LEMMA PutAsyncInOrder ==
    ASSUME CallOK, DataOK, LockOK, InOrder, NEW t \in Loggers, PutAsync(t)
    PROVE  InOrder'
<1>1. PICK n \in 0 .. Len(Line(t)) : /\ SubSeq(Line(t), 1, n) \in Seq(Char)
                                     /\ Waiting' = Waiting \o SubSeq(Line(t), 1, n)
  BY PutAppends
<1> DEFINE e == SubSeq(Line(t), 1, n)
<1>2. e \in Seq(Char) /\ Waiting' = Waiting \o e BY <1>1
<1>3. /\ At(t, "putAsync") /\ console' = console /\ logged' = logged
      /\ \E p \in {"notify", "rawUnlock", "unlock"} : Goto(t, p) /\ p \notin Composing
  BY DEF PutAsync, AfterPut, Composing
<1>0. asyncEnabled'
  <2>1. asyncEnabled BY <1>3 DEF At, InOrder, Fresh, Composing
  <2> QED BY <2>1 DEF PutAsync, modes
<1>4. Out' = Out \o e
  <2> HIDE DEF e
  <2>1. console \o (Waiting \o e) = (console \o Waiting) \o e
    <3>1. e \in Seq(Char) /\ Waiting \in Seq(Char) /\ console \in Seq(Char)
      BY <1>2, OutTypes
    <3> QED BY <3>1, ConcatAssociative
  <2> QED BY <1>2, <1>3, <2>1 DEF Out
<1> QED BY <1>0, <1>1, <1>3, <1>4, PutInOrder

LEMMA PutDirectInOrder ==
    ASSUME CallOK, DataOK, LockOK, InOrder, NEW t \in Loggers, PutDirect(t)
    PROVE  InOrder'
<1>1. /\ At(t, "direct") /\ console' = console \o Line(t) /\ logged' = logged
      /\ \E p \in {"rawUnlock", "unlock"} : Goto(t, p) /\ p \notin Composing
  BY DEF PutDirect, AfterPut, Composing
<1>2. Waiting = << >> /\ Waiting' = << >>
  <2>1. Waiting' = Waiting BY DirectRefines DEF Promise!Direct
  <2> QED BY <1>1, <2>1 DEF At, InOrder, Fresh, Composing
<1>3. Line(t) \in Seq(Char) /\ Len(Line(t)) \in Nat BY DirectKeeps, LenProperties
<1>4. SubSeq(Line(t), 1, Len(Line(t))) = Line(t) BY <1>3, SubSeqFull
<1>5. Out' = Out \o Line(t)
  <2>1. console' \in Seq(Char) BY DirectKeeps DEF DataOK
  <2>2. Out' = console' /\ Out = console BY <1>2, <2>1, OutTypes, ConcatEmptySeq DEF Out
  <2> QED BY <1>1, <2>2
<1>6. Len(Line(t)) \in 0 .. Len(Line(t)) BY <1>3
<1> QED BY <1>1, <1>2, <1>3, <1>4, <1>5, <1>6, PutInOrder

(* Putting a line together outputs nothing. *)
LEMMA ComposeSameOut ==
    ASSUME CallOK, DataOK, NEW t \in Loggers, Composes(t)
    PROVE  Waiting' = Waiting /\ Out' = Out
<1>1. CallOK' /\ Held' = Held BY LoggingCall DEF Logging, Composes
<1>2. ring' = ring /\ console' = console BY ComposeKeeps
<1>3. Waiting' = Waiting BY <1>1, <1>2, WaitingIs, WaitingIsNext
<1> QED BY <1>2, <1>3 DEF Out

(* A new line is newer than all that was output, ... *)
LEMMA FormatInOrder ==
    ASSUME CallOK, DataOK, LockOK, InOrder, NEW t \in Loggers, Format(t)
    PROVE  InOrder'
<1>1. /\ At(t, "inside") /\ logged' = logged + 1 /\ logged \in Nat
      /\ asyncEnabled' = asyncEnabled /\ lockEnabled' = lockEnabled
  BY DEF Format, lock, flags, modes, DataOK
<1>2. Waiting' = Waiting /\ Out' = Out BY ComposeSameOut DEF Composes
<1>3. call[t] \in LineCall BY <1>1, InCall DEF At
<1>4. /\ call'[t].at = "format" /\ call'[t].log = logged' /\ call[t].len \in 1 .. LineSpace
      /\ \A u \in Thread \ {t} : call'[u] = call[u]
  <2>1. /\ call'[t] = [call[t] EXCEPT !.at = "format", !.log = logged + 1]
        /\ \A u \in Thread \ {t} : call'[u] = call[u]
    BY ThreadFacts DEF Format, CallOK
  <2> QED BY <1>1, <1>3, <2>1 DEF LineCall
<1>5. \A i \in 1 .. Len(Out) : Out[i].log < logged'
  <2>1. \A i \in 1 .. Len(Out) : Out[i].log \in Nat /\ Out[i].log <= logged
    BY OutLogs DEF InOrder, Newest
  <2> QED BY <1>1, <2>1
<1>6. Newest(Out)'
  <2>1. \A i \in 1 .. Len(Out) : Out[i].log \in Nat BY OutLogs
  <2> QED BY <1>1, <1>2, <1>5, <2>1 DEF Newest
<1>7. lineBuf'[1].log = logged' /\ lineBuf'[1].pos = 1
  <2>1. 1 \in 1 .. call[t].len /\ 1 \in 1 .. LineSpace /\ call[t].len > 0 /\ logged + 1 \in Nat
    BY <1>1, <1>4, ElogAssumption
  <2>2. lineBuf'[1] = LogOf(t, logged + 1)[1] BY <2>1 DEF Format
  <2> QED BY <1>1, <1>3, <2>1, <2>2, LogFacts
<1>8. lockEnabled \/ t \in Controllers BY <1>1 DEF At
<1>9. ASSUME NEW u \in Loggers, call'[u].at \in Composing PROVE Fresh(u)'
  <2>1. u = t BY <1>1, <1>4, <1>9, OnePuts, ThreadFacts
  <2>2. \A i \in 1 .. 1 : i = 1 OBVIOUS
  <2> QED BY <1>1, <1>2, <1>4, <1>5, <1>7, <1>8, <2>1, <2>2 DEF Fresh, Composed
<1> QED BY <1>1, <1>2, <1>6, <1>9 DEF InOrder, Ascending

(* ... it stays the newest until it is complete, ... *)
LEMMA FormatRestInOrder ==
    ASSUME CallOK, DataOK, LockOK, InOrder, NEW t \in Loggers, FormatRest(t)
    PROVE  InOrder'
<1>1. /\ At(t, "format") /\ call[t].at = "format" /\ logged' = logged /\ logged \in Nat
      /\ asyncEnabled' = asyncEnabled /\ lockEnabled' = lockEnabled
      /\ \E p \in {"put", "unlock"} : Goto(t, p)
  BY DEF FormatRest, At, lock, flags, modes, DataOK
<1>2. Waiting' = Waiting /\ Out' = Out BY ComposeSameOut DEF Composes
<1>3. call[t] \in LineCall /\ Fresh(t) BY <1>1, InCall DEF InOrder, Composing
<1>4. /\ call'[t].at \in {"put", "unlock"} /\ call'[t].len = call[t].len
      /\ \A u \in Thread \ {t} : call'[u] = call[u]
  BY <1>1, <1>3, GotoFacts, ThreadFacts
<1>5. \A i \in 1 .. call[t].len : lineBuf'[i].log = logged /\ lineBuf'[i].pos = i
  <2>0. call[t].len \in 1 .. LineSpace /\ LineSpace \in Nat /\ call[t].log = logged
    BY <1>1, <1>3, ElogAssumption DEF LineCall, Fresh
  <2>1. lineBuf' = [i \in 1 .. LineSpace |->
                       IF i \in 2 .. call[t].len THEN LogOf(t, call[t].log)[i] ELSE lineBuf[i]]
    BY DEF FormatRest
  <2>2. lineBuf'[1] = lineBuf[1] /\ lineBuf[1].log = logged /\ lineBuf[1].pos = 1
    <3>1. 1 \in 1 .. LineSpace /\ 1 \notin 2 .. call[t].len BY <2>0
    <3>2. 1 \in 1 .. 1 OBVIOUS
    <3> QED BY <1>1, <1>3, <2>1, <3>1, <3>2 DEF Fresh, Composed
  <2>3. ASSUME NEW i \in 1 .. call[t].len, i # 1
        PROVE  lineBuf'[i].log = logged /\ lineBuf'[i].pos = i
    <3>1. i \in 2 .. call[t].len /\ i \in 1 .. LineSpace BY <2>0, <2>3
    <3>2. lineBuf'[i] = LogOf(t, logged)[i] BY <2>0, <2>1, <3>1
    <3> QED BY <1>1, <1>3, <3>2, LogFacts
  <2> QED BY <2>2, <2>3
<1>6. ASSUME NEW u \in Loggers, call'[u].at \in Composing PROVE Fresh(u)'
  <2>1. u = t
    <3>1. "format" \in Composing BY DEF Composing
    <3> QED BY <1>1, <1>4, <1>6, <3>1, OnePuts, ThreadFacts
  <2>2. call'[t].at = "put" BY <1>4, <1>6, <2>1 DEF Composing
  <2> QED BY <1>1, <1>2, <1>3, <1>4, <1>5, <2>1, <2>2 DEF Fresh, Composed
<1> QED BY <1>1, <1>2, <1>6 DEF InOrder, Ascending, Newest

(* ... and the mode it is output in is the mode that was read. *)
LEMMA TestInOrder ==
    ASSUME CallOK, DataOK, LockOK, InOrder, NEW t \in Loggers, TestEnabled(t)
    PROVE  InOrder'
<1>1. /\ At(t, "put") /\ call[t].at = "put" /\ logged' = logged /\ lineBuf' = lineBuf
      /\ asyncEnabled' = asyncEnabled /\ lockEnabled' = lockEnabled
      /\ \E p \in {"putAsync", "direct"} : Goto(t, p) /\ (p = "putAsync" <=> asyncEnabled)
  BY DEF TestEnabled, At, lock, flags, modes, text
<1>2. Waiting' = Waiting /\ Out' = Out BY ComposeSameOut DEF Composes
<1>3. call[t] \in LineCall /\ Fresh(t) BY <1>1, InCall DEF InOrder, Composing
<1>4. /\ call'[t].at \in {"putAsync", "direct"} /\ call'[t].len = call[t].len
      /\ call'[t].at = "putAsync" <=> asyncEnabled
      /\ \A u \in Thread \ {t} : call'[u] = call[u]
  BY <1>1, <1>3, GotoFacts, ThreadFacts
<1>5. ASSUME NEW u \in Loggers, call'[u].at \in Composing PROVE Fresh(u)'
  <2>1. u = t
    <3>1. "put" \in Composing BY DEF Composing
    <3> QED BY <1>1, <1>4, <1>5, <3>1, OnePuts, ThreadFacts
  <2>2. call'[t].at = "direct" => Waiting' = << >> BY <1>2, <1>4 DEF InOrder
  <2> QED BY <1>1, <1>2, <1>3, <1>4, <2>1, <2>2 DEF Fresh, Composed
<1> QED BY <1>1, <1>2, <1>5 DEF InOrder, Ascending, Newest

(* The output thread moves what waits, and changes none of it. *)
LEMMA SameOut ==
    ASSUME InOrder, Out' = Out, logged' = logged, lineBuf' = lineBuf,
           \A t \in Loggers : call'[t].at \in Composing =>
               call[t] = call'[t] /\ (lockEnabled' \/ t \in Controllers),
           \A t \in Loggers : call[t].at = "putAsync" /\ asyncEnabled => asyncEnabled',
           Waiting = << >> => Waiting' = << >>,
           ~asyncEnabled' => Waiting' = << >>
    PROVE  InOrder'
<1>1. Ascending(Out)' /\ Newest(Out)' BY DEF InOrder, Ascending, Newest
<1>2. \A t \in Loggers : call'[t].at \in Composing => Fresh(t)' BY DEF InOrder, Fresh, Composed
<1> QED BY <1>1, <1>2 DEF InOrder

LEMMA TakeInOrder ==
    ASSUME CallOK, DataOK, LockOK, InOrder, GetLine \/ PrintLine
    PROVE  InOrder'
<1>1. /\ UNCHANGED << logged, lineBuf, asyncEnabled, lockEnabled >>
      /\ \A u \in Loggers : call'[u] = call[u]
  BY ThreadFacts DEF GetLine, PrintLine, lock, flags, modes, CallOK
<1>2. /\ Out' = Out /\ (~asyncEnabled => Waiting' = << >>)
      /\ Waiting = << >> => Waiting' = << >>
  <2>1. CASE GetLine
    <3>1. Waiting' = Waiting /\ console' = console BY <2>1, GetRefines DEF Promise!vars
    <3> QED BY <3>1 DEF Out, InOrder
  <2>2. CASE PrintLine
    <3>1. /\ Held \in Seq(Char) /\ Held # << >> /\ Contents(ring) \in Seq(Char)
          /\ Waiting = Held \o Contents(ring) /\ Waiting' = Contents(ring)
          /\ console' = console \o Held
      BY <2>2, PrintTakes
    <3>2. console \in Seq(Char) BY DEF DataOK
    <3>3. (console \o Held) \o Contents(ring) = console \o (Held \o Contents(ring))
      BY <3>1, <3>2, ConcatAssociative
    <3>4. Waiting # << >>
      <4>1. Len(Waiting) = Len(Held) + Len(Contents(ring)) BY <3>1, ConcatProperties
      <4>2. Len(Held) \in Nat \ {0} /\ Len(Contents(ring)) \in Nat
        BY <3>1, EmptySeq, LenProperties
      <4> QED BY <4>1, <4>2, EmptySeq
    <3> QED BY <3>1, <3>3, <3>4 DEF Out, InOrder
  <2> QED BY <2>1, <2>2
<1>3. \A u \in Loggers : call[u].at \in Composing => lockEnabled \/ u \in Controllers
  BY DEF InOrder, Fresh
<1> QED BY <1>1, <1>2, <1>3, SameOut

(* Nobody has a line in the line buffer but who put it together there. *)
QuietCallsOK == \A u \in Loggers : call'[u].at \in Composing => call[u] = call'[u]

LEMMA QuietCalls == ASSUME CallOK, Quiet PROVE QuietCallsOK
<1> USE DEF QuietCallsOK
<1>1. ASSUME NEW t \in Thread, NEW p, Goto(t, p), p \notin Composing PROVE QuietCallsOK
  BY <1>1, GotoFacts, ThreadFacts
<1>2. CASE UNCHANGED vars BY <1>2 DEF vars
<1>3. ASSUME NEW t \in Thread, Silent(t) PROVE \E p : Goto(t, p) /\ p \notin Composing
  <2>1. \E p \in {"flag", "inside", "clear", "idle", "wait", "print", "rawUnlock", "unlock"} : Goto(t, p)
    BY <1>3 DEF Silent, Locking, Lock, SetFlag, Unlock, ClearFlag, RawUnlock, Notify, Relock,
                After, AfterPut
  <2> QED BY <2>1 DEF Composing
<1>4. CASE WaitNotice
  <2>1. Goto(Output, "lock") /\ "lock" \notin Composing BY <1>4 DEF WaitNotice, Composing
  <2> QED BY <1>1, <2>1, ThreadFacts
<1>5. ASSUME NEW t \in Loggers, NEW n, LogCall(t, "output", n) \/ LogCall(t, "raw", n)
      PROVE  QuietCallsOK
  <2>1. PICK op : call' = [call EXCEPT ![t] = [at |-> "lock", op |-> op, len |-> n, log |-> 0]]
    BY <1>5 DEF LogCall
  <2>2. /\ \A u \in Thread \ {t} : call'[u] = call[u]
        /\ call'[t] = [at |-> "lock", op |-> op, len |-> n, log |-> 0]
    BY <2>1, ThreadFacts DEF CallOK
  <2>3. call'[t].at = "lock" BY <2>2
  <2> QED BY <2>2, <2>3, ThreadFacts DEF Composing
<1>6. ASSUME NEW t \in Controllers, Switching(t) PROVE QuietCallsOK
  <2>1. call' = call \/ Goto(t, "relock")
    BY <1>6 DEF Switching, LockDisable, LockEnable, SetOutputEnabled, AsyncEnabled
  <2>2. "relock" \notin Composing BY DEF Composing
  <2> QED BY <1>1, <2>1, <2>2, ThreadFacts
<1>7. CASE \E t \in Thread : Silent(t) BY <1>1, <1>3, <1>7
<1> QED BY <1>2, <1>4, <1>5, <1>6, <1>7 DEF Quiet

(* Asynchronous mode goes off with nothing waiting or on its way to the ring *)
(* and the lock is disabled with nothing in the line buffer, or the lines    *)
(* may be out of turn.                                                       *)
QuietlySwitched ==
    /\ ~outOfTurn
    /\ \/ asyncEnabled' \/ ~asyncEnabled
       \/ Waiting = << >> /\ \A u \in Loggers : call[u].at # "putAsync"
    /\ \/ lockEnabled' \/ lockEnabled' = lockEnabled
       \/ \A u \in Loggers : call'[u].at \notin Composing

LEMMA QuietSwitches ==
    ASSUME Quiet, ~outOfTurn'
    PROVE  QuietlySwitched
<1> USE DEF QuietlySwitched
<1>1. CASE UNCHANGED vars BY <1>1 DEF vars, text, lock, flags, modes
<1>2. CASE \E t \in Thread : Silent(t)
  <2>1. UNCHANGED << outOfTurn, asyncEnabled, lockEnabled >>
    BY <1>2 DEF Silent, Locking, Lock, SetFlag, Unlock, ClearFlag, RawUnlock, Notify, Relock,
                text, lock, modes, flags
  <2> QED BY <2>1
<1>3. CASE WaitNotice BY <1>3 DEF WaitNotice, text, lock, flags, modes
<1>4. CASE \E t \in Loggers, n \in 0 .. LineSpace : LogCall(t, "output", n) \/ LogCall(t, "raw", n)
  BY <1>4 DEF LogCall, text, lock, flags, modes
<1>5. ASSUME NEW t \in Controllers, LockDisable(t) PROVE QuietlySwitched
  BY <1>5 DEF LockDisable, modes
<1>6. ASSUME NEW t \in Controllers, Switching(t), ~LockDisable(t) PROVE QuietlySwitched
  <2>1. CASE LockEnable(t)
    <3>1. UNCHANGED << outOfTurn, asyncEnabled >> /\ lockEnabled'
      BY <2>1 DEF LockEnable, text, modes
    <3> QED BY <3>1
  <2>2. ASSUME NEW b \in BOOLEAN, SetOutputEnabled(t, b) PROVE QuietlySwitched
    <3>1. UNCHANGED << outOfTurn, asyncEnabled, lockEnabled >>
      BY <2>2 DEF SetOutputEnabled, text, lock, flags
    <3> QED BY <3>1
  <2>3. ASSUME NEW b \in BOOLEAN, AsyncEnabled(t, b) PROVE QuietlySwitched
    <3>1. asyncEnabled' = b /\ lockEnabled' = lockEnabled BY <2>3 DEF AsyncEnabled, lock, flags
    <3>2. /\ ~outOfTurn
          /\ b \/ (Waiting = << >> /\ \A u \in Loggers : call[u].at # "putAsync")
      BY <2>3 DEF AsyncEnabled
    <3> QED BY <3>1, <3>2
  <2> QED BY <1>6, <2>1, <2>2, <2>3 DEF Switching
<1> QED BY <1>1, <1>2, <1>3, <1>4, <1>5, <1>6 DEF Quiet

LEMMA QuietInOrder ==
    ASSUME 0 \notin RawLengths, CallOK, DataOK, InOrder, QuietlySwitched, [Next]_vars, Quiet
    PROVE  InOrder'
<1>1. Waiting' = Waiting /\ console' = console BY QuietRefines DEF Promise!vars
<1>2. Out' = Out /\ logged' = logged /\ lineBuf' = lineBuf BY <1>1, QuietKeeps DEF Out
<1>3. ASSUME NEW t \in Loggers, call'[t].at \in Composing
      PROVE  call[t] = call'[t] /\ (lockEnabled' \/ t \in Controllers)
  <2>1. call[t] = call'[t] BY <1>3, QuietCalls DEF QuietCallsOK
  <2>2. lockEnabled \/ t \in Controllers BY <1>3, <2>1 DEF InOrder, Fresh
  <2> QED BY <1>3, <2>1, <2>2 DEF QuietlySwitched
<1>4. ~asyncEnabled' => Waiting' = << >> BY <1>1 DEF InOrder, QuietlySwitched
<1>5. \A t \in Loggers : call[t].at = "putAsync" /\ asyncEnabled => asyncEnabled'
  BY DEF QuietlySwitched
<1> QED BY <1>1, <1>2, <1>3, <1>4, <1>5, SameOut

LEMMA OrderInit == Init => OrderOK
<1> SUFFICES ASSUME Init PROVE InOrder BY DEF OrderOK
<1>1. Waiting = << >> /\ console = << >> BY InitRefines DEF Promise!Init
<1>2. Out = << >> /\ Len(Out) = 0
  <2>1. << >> \in Seq(Char) BY EmptyTypes
  <2> QED BY <1>1, <2>1, ConcatEmptySeq, EmptySeq DEF Out
<1>3. \A t \in Loggers : call[t].at = "idle" BY ThreadFacts DEF Init
<1> QED BY <1>1, <1>2, <1>3 DEF InOrder, Ascending, Newest, Composing

LEMMA OrderStep ==
    ASSUME 0 \notin RawLengths, Inv, LockOK, OrderOK, [Next]_vars
    PROVE  OrderOK'
<1> SUFFICES ASSUME ~outOfTurn' PROVE InOrder' BY DEF OrderOK
<1>0. CallOK /\ DataOK BY DEF Inv
<1>1. CASE Quiet
  <2>1. QuietlySwitched /\ InOrder BY <1>1, QuietSwitches DEF QuietlySwitched, OrderOK
  <2> QED BY <1>0, <1>1, <2>1, QuietInOrder
<1>2. ASSUME NEW t \in Loggers, Composes(t) \/ PutAsync(t) \/ PutDirect(t) PROVE InOrder'
  <2>1. InOrder
    BY <1>2 DEF Composes, Format, FormatRest, TestEnabled, PutAsync, PutDirect, OrderOK, text
  <2> QED BY <1>0, <1>2, <2>1, FormatInOrder, FormatRestInOrder, TestInOrder, PutAsyncInOrder,
             PutDirectInOrder DEF Composes
<1>3. CASE GetLine \/ PrintLine
  <2>1. InOrder BY <1>3 DEF GetLine, PrintLine, OrderOK
  <2> QED BY <1>0, <1>3, <2>1, TakeInOrder
<1> QED BY <1>1, <1>2, <1>3, StepCases DEF Quiet

(* Neighbours on the console are neighbours in what was output. *)
LEMMA InOrderPrints ==
    ASSUME CallOK, DataOK, OrderOK
    PROVE  PrintedInOrder
<1> SUFFICES ASSUME ~outOfTurn, NEW i \in 1 .. Len(console) - 1
             PROVE  Before(console[i], console[i + 1])
  BY DEF PrintedInOrder
<1>1. /\ Len(Out) = Len(console) + Len(Waiting) /\ Len(console) \in Nat /\ Len(Waiting) \in Nat
      /\ \A k \in 1 .. Len(console) : Out[k] = console[k]
  BY OutTypes, ConcatProperties, LenProperties DEF Out
<1>2. /\ i \in 1 .. Len(console) /\ i + 1 \in 1 .. Len(console)
      /\ i \in 1 .. Len(Out) /\ i + 1 \in 1 .. Len(Out) /\ i < i + 1
  BY <1>1
<1>3. Before(Out[i], Out[i + 1]) BY <1>2 DEF OrderOK, InOrder, Ascending
<1> QED BY <1>1, <1>2, <1>3

(* Lines reach the console in the order in which they were put together and  *)
(* every character once, whether they wait in the ring or are output         *)
(* directly, and however often the modes and the lock are switched (elog.c   *)
(* 257-400, elog_async.c 289-305), unless asynchronous mode goes off with    *)
(* lines waiting or on their way to the ring, or an exception finds a line   *)
(* in the line buffer.                                                       *)
THEOREM LinesInOrder ==
    ASSUME 0 \notin RawLengths, ~RawInException PROVE Spec => []PrintedInOrder
<1>1. OrderOK /\ (Inv /\ LockOK) /\ [Next]_vars => OrderOK' BY OrderStep
<1>2. OrderOK /\ (Inv /\ LockOK) => PrintedInOrder BY InOrderPrints DEF Inv
<1> QED BY <1>1, <1>2, OrderInit, LockInvariant, PTL DEF Spec
=============================================================================
