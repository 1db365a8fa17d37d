----------------------------- MODULE ElogProofs -----------------------------
(***************************************************************************)
(* What the logger does with characters, for any number of threads, any    *)
(* sizes of the ring, the line buffer and the buffer of the output thread, *)
(* and whatever is switched on and off: as long as elog_raw is not called  *)
(* with an empty text, nothing accepted into the ring is lost, repeated or *)
(* reordered, and only what does not fit is dropped.                       *)
(***************************************************************************)
EXTENDS Elog, LogRingProofs, RttIpcProofs

Places == Inside \cup {"idle", "lock", "clear", "relock", "wait", "print"}

(* A call of a logger, before its first line and from then on. *)
NoLine == [at : {"idle", "relock"}]
LineCall == [at : Places, op : {"output", "raw"}, len : 1 .. LineSpace, log : Nat]
OutputCall == [at : Places, op : {"get"}, text : Seq(Char)]

LoggerCalls == \A t \in Loggers : call[t] \in NoLine \cup LineCall

(* The output thread holds characters from the get to the print. *)
OutputHolds ==
    /\ call[Output] \in OutputCall
    /\ call[Output].at \in {"lock", "flag", "inside", "unlock", "clear", "wait", "print"}
    /\ call[Output].at = "print" => call[Output].text # << >>
    /\ call[Output].at \in {"unlock", "clear", "print"} \/ call[Output].text = << >>
    /\ Len(call[Output].text) <= PollSpace

CallOK == DOMAIN call = Thread /\ LoggerCalls /\ OutputHolds

DataOK ==
    /\ lineBuf \in [1 .. LineSpace -> Char] /\ RingOK(ring, Char)
    /\ logged \in Nat /\ console \in Seq(Char)

SwitchesOK ==
    /\ outputEnabled \in BOOLEAN /\ asyncEnabled \in BOOLEAN /\ outOfTurn \in BOOLEAN
    /\ printLock \in Mutex(Thread) /\ notice \in Semaphore(Thread)
    /\ lockEnabled \in BOOLEAN
    /\ lockedBeforeDisable \in BOOLEAN /\ lockedBeforeEnable \in BOOLEAN

Inv == CallOK /\ DataOK /\ SwitchesOK

(* The invariant has the types, and more of the calls and the ring. *)
LEMMA InvTypes == Inv => TypeOK
<1> SUFFICES ASSUME Inv PROVE TypeOK OBVIOUS
<1>1. ring \in Ring(Char) BY DEF Inv, DataOK, RingOK
<1>2. ASSUME NEW t \in Thread PROVE call[t].at \in Places
  <2>1. CASE t \in Loggers
    BY <2>1 DEF Inv, CallOK, LoggerCalls, NoLine, LineCall, Places
  <2>2. CASE t = Output BY <2>2 DEF Inv, CallOK, OutputHolds, OutputCall
  <2> QED BY <2>1, <2>2 DEF Thread
<1> QED BY <1>1, <1>2 DEF Inv, DataOK, SwitchesOK, TypeOK, Places
-----------------------------------------------------------------------------
(* Initially the ring is empty and the output thread waits. *)
LEMMA EmptyRingFacts ==
    ASSUME NEW c \in Char
    PROVE  RingOK(EmptyRing(c), Char) /\ Contents(EmptyRing(c)) = << >>
<1> DEFINE r == EmptyRing(c)
<1>1. RingOK(r, Char) BY SizeAssumption DEF RingOK, Ring, EmptyRing, Index
<1>2. Used(r) = 0 BY <1>1, UsedFacts DEF EmptyRing
<1>3. Contents(r) \in Seq(Char) /\ Len(Contents(r)) = 0 BY <1>1, <1>2, ContentsFacts
<1> QED BY <1>1, <1>3, EmptySeq

LEMMA NoCharType == NoChar \in Char
BY DEF NoChar, Char

LEMMA EmptyTypes ==
    << >> \in Seq(Char) /\ FreeMutex \in Mutex(Thread) /\ EmptySem \in Semaphore(Thread)
<1>1. << >> \in Seq(Thread) /\ << >> \in Seq(Char) BY EmptySeq
<1> QED BY <1>1 DEF FreeMutex, Mutex, EmptySem, Semaphore

LEMMA InvInit == Init => Inv
<1> SUFFICES ASSUME Init PROVE Inv OBVIOUS
<1>1. DataOK
  BY EmptyRingFacts, NoCharType, EmptyTypes, ElogAssumption DEF Init, DataOK
<1>2. SwitchesOK BY EmptyTypes DEF Init, SwitchesOK
<1>3. DOMAIN call = Thread /\ LoggerCalls
  <2>1. \A t \in Loggers : t \in Thread /\ t # Output BY ElogAssumption DEF Thread
  <2> QED BY <2>1 DEF Init, LoggerCalls, NoLine
<1>4. OutputHolds
  <2>1. call[Output] = [at |-> "wait", op |-> "get", text |-> << >>] BY DEF Init, Thread
  <2>2. Len(<< >>) = 0 /\ PollSpace \in Nat BY EmptySeq, ElogAssumption
  <2> QED BY <2>1, <2>2, EmptyTypes DEF OutputHolds, OutputCall, Places
<1> QED BY <1>1, <1>2, <1>3, <1>4 DEF Inv, CallOK
-----------------------------------------------------------------------------
(* Where a call goes next. *)
LEMMA LoggerGoto ==
    ASSUME CallOK, NEW t \in Loggers, NEW p \in Places, Goto(t, p),
           call[t] \in LineCall \/ p \in {"idle", "relock"}
    PROVE  CallOK' /\ call'[Output] = call[Output]
<1>1. t \in Thread /\ t # Output /\ Output \in Thread BY ElogAssumption DEF Thread
<1>2. DOMAIN call' = Thread /\ \A u \in Thread \ {t} : call'[u] = call[u]
  BY DEF Goto, CallOK
<1>3. call'[t] = IF p = "idle" THEN [at |-> "idle"] ELSE [call[t] EXCEPT !.at = p]
  BY <1>1 DEF Goto, CallOK
<1>4. call[t] \in NoLine \cup LineCall BY DEF CallOK, LoggerCalls
<1>5. call'[t] \in NoLine \cup LineCall
  <2>1. CASE p = "idle" BY <1>3, <2>1 DEF NoLine
  <2>2. CASE p # "idle" /\ call[t] \in LineCall BY <1>3, <2>2 DEF LineCall
  <2>3. CASE call[t] \in NoLine /\ p = "relock" BY <1>3, <2>3 DEF NoLine
  <2> QED BY <1>4, <2>1, <2>2, <2>3
<1>6. LoggerCalls' BY <1>2, <1>5 DEF CallOK, LoggerCalls, Thread
<1>7. call'[Output] = call[Output] BY <1>1, <1>2
<1>8. OutputHolds' BY <1>7 DEF CallOK, OutputHolds
<1> QED BY <1>2, <1>6, <1>7, <1>8 DEF CallOK

(* The output thread prints only when it holds something. *)
LEMMA OutputGoto ==
    ASSUME CallOK, NEW p, Goto(Output, p),
           p \in {"lock", "flag", "inside", "unlock", "clear", "wait", "print"},
           p = "print" => call[Output].text # << >>,
           p \in {"unlock", "clear", "print"} \/ call[Output].text = << >>
    PROVE  CallOK' /\ call'[Output].text = call[Output].text
<1>1. Output \in Thread /\ \A t \in Loggers : t \in Thread /\ t # Output
  BY ElogAssumption DEF Thread
<1>2. DOMAIN call' = Thread /\ \A u \in Thread \ {Output} : call'[u] = call[u]
  BY DEF Goto, CallOK
<1>3. call'[Output] = [call[Output] EXCEPT !.at = p] BY <1>1 DEF Goto, CallOK
<1>4. call[Output] \in OutputCall BY DEF CallOK, OutputHolds
<1>5. /\ call'[Output] \in OutputCall /\ call'[Output].at = p
      /\ call'[Output].text = call[Output].text
  BY <1>3, <1>4 DEF OutputCall, Places, Inside, Composing
<1>6. LoggerCalls' BY <1>1, <1>2 DEF CallOK, LoggerCalls
<1>7. OutputHolds' BY <1>5 DEF CallOK, OutputHolds
<1> QED BY <1>2, <1>5, <1>6, <1>7 DEF CallOK

(* What a thread in the middle of a call has. *)
LEMMA InCall ==
    ASSUME CallOK, NEW t \in Loggers, call[t].at \notin {"idle", "relock"}
    PROVE  call[t] \in LineCall
BY DEF CallOK, LoggerCalls, NoLine

(* What elog_output put together is a part of the line buffer. *)
LEMMA LineFacts ==
    ASSUME CallOK, DataOK, NEW t \in Loggers, call[t].at \in Composing
    PROVE  Line(t) \in Seq(Char) /\ Len(Line(t)) = call[t].len /\ Line(t) # << >>
<1>1. call[t] \in LineCall BY InCall DEF Composing
<1>2. call[t].len \in 1 .. LineSpace BY <1>1 DEF LineCall
<1>3. lineBuf \in [1 .. LineSpace -> Char] /\ LineSpace \in Nat
  BY ElogAssumption DEF DataOK
<1>4. lineBuf \in Seq(Char) /\ Len(lineBuf) = LineSpace BY <1>3
<1>5. Line(t) \in Seq(Char) /\ Len(Line(t)) = call[t].len
  <2>1. \A i \in 1 .. call[t].len : lineBuf[i] \in Char BY <1>2, <1>3
  <2> QED BY <1>2, <1>4, <2>1, SubSeqProperties DEF Line
<1> QED BY <1>2, <1>5, EmptySeq
-----------------------------------------------------------------------------
(* Each action keeps the calls in their shape, and only a get and a print *)
(* change what the output thread holds.                                   *)
Held == call[Output].text

LEMMA ThreadFacts ==
    /\ Output \in Thread /\ Output \notin Loggers
    /\ \A t \in Thread : t \in Loggers \/ t = Output
    /\ \A t \in Loggers : t \in Thread /\ t # Output
    /\ Controllers \subseteq Loggers
BY ElogAssumption DEF Thread

LEMMA LockingCall ==
    ASSUME CallOK, NEW t \in Thread, Locking(t)
    PROVE  CallOK' /\ Held' = Held
<1>1. CASE t \in Loggers
  <2>1. \E p \in {"flag", "inside", "clear", "idle"} : Goto(t, p)
    BY <1>1, ThreadFacts DEF Locking, Lock, SetFlag, Unlock, ClearFlag, After
  <2>2. call[t] \in LineCall
    BY <1>1, InCall DEF Locking, Lock, SetFlag, Unlock, ClearFlag, At
  <2> QED BY <1>1, <2>1, <2>2, LoggerGoto DEF Places, Inside, Composing, Held
<1>2. CASE t = Output
  <2>0. OutputHolds BY DEF CallOK
  <2>1. CASE Lock(t)
    BY <1>2, <2>0, <2>1, OutputGoto DEF Lock, At, OutputHolds, Held
  <2>2. CASE SetFlag(t)
    BY <1>2, <2>0, <2>2, OutputGoto DEF SetFlag, At, OutputHolds, Held
  <2>3. CASE Unlock(t) \/ ClearFlag(t)
    <3>1. Goto(Output, "clear") \/ Goto(Output, After(Output))
      BY <1>2, <2>3 DEF Unlock, ClearFlag
    <3>2. CASE Goto(Output, "clear") BY <3>2, OutputGoto DEF Held
    <3>3. CASE Goto(Output, After(Output))
      <4>1. CASE Held = << >> BY <3>3, <4>1, OutputGoto DEF After, Held
      <4>2. CASE Held # << >> BY <3>3, <4>2, OutputGoto DEF After, Held
      <4> QED BY <4>1, <4>2
    <3> QED BY <3>1, <3>2, <3>3
  <2> QED BY <2>1, <2>2, <2>3 DEF Locking
<1> QED BY <1>1, <1>2, ThreadFacts

LEMMA LoggingCall ==
    ASSUME CallOK, DataOK, NEW t \in Loggers, Logging(t)
    PROVE  CallOK' /\ Held' = Held
<1>0. t \in Thread BY ThreadFacts
<1>1. CASE Locking(t) BY <1>0, <1>1, LockingCall
<1>2. CASE RawUnlock(t) \/ Relock(t)
  BY <1>2, LoggerGoto DEF RawUnlock, Relock, Places, Held
<1>3. CASE Format(t)
  <2>1. call[t] \in LineCall /\ logged + 1 \in Nat BY <1>3, InCall DEF Format, At, DataOK
  <2>2. call' = [call EXCEPT ![t].at = "format", ![t].log = logged + 1] BY <1>3 DEF Format
  <2>3. /\ DOMAIN call' = Thread /\ \A u \in Thread \ {t} : call'[u] = call[u]
        /\ call'[t] = [call[t] EXCEPT !.at = "format", !.log = logged + 1]
    BY <1>0, <2>2 DEF CallOK
  <2>4. call'[t] \in LineCall BY <2>1, <2>3 DEF LineCall, Places, Inside, Composing
  <2>5. LoggerCalls' BY <2>3, <2>4, ThreadFacts DEF CallOK, LoggerCalls
  <2>6. call'[Output] = call[Output] BY <2>3, ThreadFacts
  <2>7. OutputHolds' BY <2>6 DEF CallOK, OutputHolds
  <2> QED BY <2>3, <2>5, <2>6, <2>7 DEF CallOK, Held
<1>4. CASE FormatRest(t) \/ TestEnabled(t) \/ PutAsync(t) \/ PutDirect(t) \/ Notify(t)
  <2>1. \E p \in {"put", "putAsync", "direct", "unlock", "rawUnlock", "notify"} : Goto(t, p)
    BY <1>4 DEF FormatRest, TestEnabled, PutAsync, PutDirect, Notify, AfterPut
  <2>2. call[t] \in LineCall
    BY <1>4, InCall DEF FormatRest, TestEnabled, PutAsync, PutDirect, Notify, At
  <2> QED BY <2>1, <2>2, LoggerGoto DEF Places, Inside, Composing, Held
<1> QED BY <1>1, <1>2, <1>3, <1>4 DEF Logging

LEMMA LogCallCall ==
    ASSUME 0 \notin RawLengths, CallOK, NEW t \in Loggers, NEW n,
           LogCall(t, "output", n) \/ LogCall(t, "raw", n)
    PROVE  CallOK' /\ Held' = Held
<1>1. PICK op \in {"output", "raw"} : LogCall(t, op, n) OBVIOUS
<1>2. n \in 1 .. LineSpace BY <1>1, ElogAssumption DEF LogCall
<1>3. call' = [call EXCEPT ![t] = [at |-> "lock", op |-> op, len |-> n, log |-> 0]] BY <1>1 DEF LogCall
<1>4. /\ DOMAIN call' = Thread /\ \A u \in Thread \ {t} : call'[u] = call[u]
      /\ call'[t] = [at |-> "lock", op |-> op, len |-> n, log |-> 0]
  BY <1>3, ThreadFacts DEF CallOK
<1>5. call'[t] \in LineCall BY <1>1, <1>2, <1>4 DEF LineCall, Places
<1>6. LoggerCalls' BY <1>4, <1>5, ThreadFacts DEF CallOK, LoggerCalls
<1>7. call'[Output] = call[Output] BY <1>4, ThreadFacts
<1>8. OutputHolds' BY <1>7 DEF CallOK, OutputHolds
<1> QED BY <1>4, <1>6, <1>7, <1>8 DEF CallOK, Held

LEMMA ControlCall ==
    ASSUME CallOK, NEW t \in Controllers,
           \/ LockDisable(t) \/ LockEnable(t)
           \/ \E b \in BOOLEAN : SetOutputEnabled(t, b) \/ AsyncEnabled(t, b)
    PROVE  CallOK' /\ Held' = Held
<1>1. CASE LockEnable(t)
  BY <1>1, LoggerGoto, ThreadFacts DEF LockEnable, Places, Held
<1>2. CASE ~LockEnable(t)
  <2>1. UNCHANGED call BY <1>2 DEF LockDisable, SetOutputEnabled, AsyncEnabled
  <2> QED BY <2>1 DEF CallOK, LoggerCalls, OutputHolds, Held
<1> QED BY <1>1, <1>2

(* What elog_async_get_line_log returned is what the output thread holds. *)
LEMMA OutputTakes ==
    ASSUME CallOK, NEW p \in {"lock", "unlock"}, NEW s \in Seq(Char), Len(s) <= PollSpace,
           call' = [call EXCEPT ![Output].at = p, ![Output].text = s],
           s = << >> \/ p = "unlock"
    PROVE  CallOK' /\ Held' = s
<1>1. /\ DOMAIN call' = Thread /\ \A u \in Thread \ {Output} : call'[u] = call[u]
      /\ call[Output] \in OutputCall
  BY ThreadFacts DEF CallOK, OutputHolds
<1>2. /\ call'[Output].at = p /\ call'[Output].text = s
      /\ call'[Output] \in OutputCall
  BY <1>1, ThreadFacts DEF CallOK, OutputCall, Places, Inside, Composing
<1>3. LoggerCalls' BY <1>1, ThreadFacts DEF CallOK, LoggerCalls
<1>4. OutputHolds' BY <1>2 DEF OutputHolds
<1> QED BY <1>1, <1>2, <1>3, <1>4 DEF CallOK, Held

LEMMA GetCall ==
    ASSUME CallOK, DataOK, GetLine
    PROVE  CallOK' /\ Held' = Chars(ring, LineSize(ring, PollSpace))
<1> DEFINE s == Chars(ring, LineSize(ring, PollSpace))
<1>1. s \in Seq(Char) /\ Len(s) <= PollSpace
  <2>1. RingOK(ring, Char) /\ PollSpace \in Nat BY ElogAssumption DEF DataOK
  <2> QED BY <2>1, GetTakesTheFirst
<1>2. call' = [call EXCEPT ![Output].at = "unlock", ![Output].text = s] BY DEF GetLine
<1> HIDE DEF s
<1>3. CallOK' /\ Held' = s BY <1>1, <1>2, OutputTakes
<1> QED BY <1>3 DEF s

LEMMA PrintCall ==
    ASSUME CallOK, PrintLine
    PROVE  CallOK' /\ Held' = << >>
<1>1. call' = [call EXCEPT ![Output].at = "lock", ![Output].text = << >>] BY DEF PrintLine
<1>2. << >> \in Seq(Char) /\ Len(<< >>) <= PollSpace
  BY EmptySeq, EmptyTypes, ElogAssumption
<1> QED BY <1>1, <1>2, OutputTakes

LEMMA WaitCall ==
    ASSUME CallOK, WaitNotice
    PROVE  CallOK' /\ Held' = Held
BY OutputGoto DEF WaitNotice, At, CallOK, OutputHolds, Held

LEMMA CallStep == ASSUME 0 \notin RawLengths, CallOK, DataOK, [Next]_vars PROVE CallOK'
<1>1. CASE UNCHANGED vars BY <1>1 DEF vars, CallOK, LoggerCalls, OutputHolds
<1>2. CASE Printing BY <1>2, LockingCall, WaitCall, GetCall, PrintCall, ThreadFacts DEF Printing
<1> QED BY <1>1, <1>2, LoggingCall, LogCallCall, ControlCall DEF Next
-----------------------------------------------------------------------------
(* What the actions do to the line buffer, the ring and the console. *)
LEMMA PutKeeps ==
    ASSUME CallOK, DataOK, NEW t \in Loggers, PutAsync(t)
    PROVE  /\ DataOK'
           /\ Contents(ring') = Contents(ring)
                  \o SubSeq(Line(t), 1, AtMost(Len(Line(t)), Size - Len(Contents(ring))))
<1>1. call[t].at \in Composing BY DEF PutAsync, At, Composing
<1>2. Line(t) \in Seq(Char) /\ Line(t) # << >> BY <1>1, LineFacts
<1>3. ring' = Put(ring, Line(t)) /\ UNCHANGED << lineBuf, logged, console >>
  BY DEF PutAsync
<1>4. RingOK(ring, Char) BY DEF DataOK
<1>5. /\ RingOK(ring', Char)
      /\ Contents(ring') = Contents(ring)
             \o SubSeq(Line(t), 1, AtMost(Len(Line(t)), Size - Len(Contents(ring))))
  BY <1>2, <1>3, <1>4, PutKeepsWhatFits
<1> QED BY <1>3, <1>5 DEF DataOK

LEMMA GetKeeps ==
    ASSUME DataOK, GetLine
    PROVE  /\ DataOK'
           /\ Contents(ring) = Chars(ring, LineSize(ring, PollSpace)) \o Contents(ring')
<1>1. RingOK(ring, Char) /\ PollSpace \in Nat BY ElogAssumption DEF DataOK
<1>2. ring' = Get(ring, PollSpace) /\ UNCHANGED << lineBuf, logged, console >> BY DEF GetLine
<1>3. /\ RingOK(ring', Char)
      /\ Contents(ring) = Chars(ring, LineSize(ring, PollSpace)) \o Contents(ring')
  BY <1>1, <1>2, GetTakesTheFirst
<1> QED BY <1>2, <1>3 DEF DataOK

LEMMA LogFacts ==
    ASSUME NEW t, call[t] \in LineCall, NEW k \in Nat, NEW i \in 1 .. call[t].len
    PROVE  LogOf(t, k)[i] \in Char /\ LogOf(t, k)[i].log = k /\ LogOf(t, k)[i].pos = i
<1>1. call[t].len \in Nat /\ i \in Nat BY ElogAssumption DEF LineCall
<1>2. PICK newline : newline = (call[t].op = "output") OBVIOUS
<1>3. PICK b \in BOOLEAN : b = (newline /\ i = call[t].len)
  <2>1. (newline /\ i = call[t].len) \in BOOLEAN OBVIOUS
  <2> QED BY <2>1
<1>4. LogOf(t, k)[i] = [log |-> k, pos |-> i, nl |-> b] BY <1>2, <1>3 DEF LogOf, LogText
<1> QED BY <1>1, <1>4 DEF Char

(* The steps that put a line together, and the test of the mode. *)
Composes(t) == Format(t) \/ FormatRest(t) \/ TestEnabled(t)

LEMMA ComposeKeeps ==
    ASSUME CallOK, DataOK, NEW t \in Loggers, Composes(t)
    PROVE  DataOK' /\ ring' = ring /\ console' = console
<1>1. call[t] \in LineCall BY InCall DEF Composes, Format, FormatRest, TestEnabled, At
<1>2. logged \in Nat /\ logged + 1 \in Nat /\ call[t].log \in Nat /\ call[t].len \in Nat
  BY <1>1, ElogAssumption DEF DataOK, LineCall
<1>3. CASE Format(t)
  <2>1. lineBuf' = [i \in 1 .. LineSpace |->
                       IF i = 1 /\ call[t].len > 0 THEN LogOf(t, logged + 1)[1] ELSE lineBuf[i]]
    BY <1>3 DEF Format
  <2>2. ASSUME call[t].len > 0 PROVE LogOf(t, logged + 1)[1] \in Char
    <3>1. 1 \in 1 .. call[t].len BY <1>2, <2>2
    <3> QED BY <1>1, <1>2, <3>1, LogFacts
  <2>3. lineBuf' \in [1 .. LineSpace -> Char] BY <2>1, <2>2 DEF DataOK
  <2> QED BY <1>2, <1>3, <2>3 DEF DataOK, Format
<1>4. CASE FormatRest(t)
  <2>1. \A i \in 2 .. call[t].len : i \in 1 .. call[t].len BY <1>2
  <2>2. lineBuf' = [i \in 1 .. LineSpace |->
                       IF i \in 2 .. call[t].len THEN LogOf(t, call[t].log)[i] ELSE lineBuf[i]]
    BY <1>4 DEF FormatRest
  <2>3. \A i \in 2 .. call[t].len : LogOf(t, call[t].log)[i] \in Char
    BY <1>1, <1>2, <2>1, LogFacts
  <2>4. lineBuf' \in [1 .. LineSpace -> Char] BY <2>2, <2>3 DEF DataOK
  <2> QED BY <1>4, <2>4 DEF DataOK, FormatRest
<1>5. CASE TestEnabled(t) BY <1>5 DEF DataOK, TestEnabled, text
<1> QED BY <1>3, <1>4, <1>5 DEF Composes

LEMMA DirectKeeps ==
    ASSUME CallOK, DataOK, NEW t \in Loggers, PutDirect(t)
    PROVE  /\ DataOK' /\ ring' = ring
           /\ console' = console \o Line(t) /\ Line(t) \in Seq(Char) /\ Line(t) # << >>
<1>1. call[t].at \in Composing BY DEF PutDirect, At, Composing
<1>2. Line(t) \in Seq(Char) /\ Line(t) # << >> BY <1>1, LineFacts
<1>3. console' = console \o Line(t) /\ UNCHANGED << lineBuf, ring, logged >> BY DEF PutDirect
<1>4. console' \in Seq(Char) BY <1>2, <1>3, ConcatProperties DEF DataOK
<1> QED BY <1>2, <1>3, <1>4 DEF DataOK

LEMMA PrintKeeps ==
    ASSUME CallOK, DataOK, PrintLine
    PROVE  /\ DataOK' /\ ring' = ring
           /\ console' = console \o Held /\ Held \in Seq(Char) /\ Held # << >>
<1>1. Held \in Seq(Char) /\ Held # << >>
  BY DEF PrintLine, At, CallOK, OutputHolds, OutputCall, Held
<1>2. console' = console \o Held /\ UNCHANGED << lineBuf, ring, logged >> BY DEF PrintLine, Held
<1>3. console' \in Seq(Char) BY <1>1, <1>2, ConcatProperties DEF DataOK
<1> QED BY <1>1, <1>2, <1>3 DEF DataOK

(* The other actions move no character. *)
Silent(t) == Locking(t) \/ RawUnlock(t) \/ Notify(t) \/ Relock(t)
Switching(t) == \/ LockDisable(t) \/ LockEnable(t)
                \/ \E b \in BOOLEAN : SetOutputEnabled(t, b) \/ AsyncEnabled(t, b)

LEMMA StepCases ==
    ASSUME [Next]_vars
    PROVE  \/ UNCHANGED vars
           \/ \E t \in Thread : Silent(t)
           \/ WaitNotice
           \/ \E t \in Loggers, n \in 0 .. LineSpace : LogCall(t, "output", n) \/ LogCall(t, "raw", n)
           \/ \E t \in Controllers : Switching(t)
           \/ \E t \in Loggers : Composes(t) \/ PutAsync(t) \/ PutDirect(t)
           \/ GetLine \/ PrintLine
BY ThreadFacts DEF Next, Logging, Printing, Silent, Switching, Composes

Quiet == \/ UNCHANGED vars
         \/ \E t \in Thread : Silent(t)
         \/ WaitNotice
         \/ \E t \in Loggers, n \in 0 .. LineSpace : LogCall(t, "output", n) \/ LogCall(t, "raw", n)
         \/ \E t \in Controllers : Switching(t)

(* They change neither the buffers nor the console. *)
LEMMA QuietKeeps ==
    ASSUME Quiet
    PROVE  UNCHANGED << lineBuf, ring, logged, console >>
<1>1. CASE \E t \in Thread : Silent(t)
  BY <1>1 DEF Silent, Locking, Lock, SetFlag, Unlock, ClearFlag, RawUnlock, Notify, Relock, text
<1>2. CASE \E t \in Controllers : Switching(t)
  BY <1>2 DEF Switching, LockDisable, LockEnable, SetOutputEnabled, AsyncEnabled, text
<1> QED BY <1>1, <1>2 DEF Quiet, vars, text, WaitNotice, LogCall

LEMMA DataStep == ASSUME CallOK, DataOK, [Next]_vars PROVE DataOK'
<1>1. CASE Quiet BY <1>1, QuietKeeps DEF DataOK
<1>2. CASE ~Quiet
  BY <1>2, StepCases, ComposeKeeps, PutKeeps, DirectKeeps, GetKeeps, PrintKeeps DEF Quiet
<1> QED BY <1>1, <1>2
-----------------------------------------------------------------------------
(* The mutex, the semaphore and the switches keep their types. *)
LEMMA PriorityTakeType ==
    ASSUME NEW m \in Mutex(Thread), NEW t \in Thread
    PROVE  MutexTakeByPriority(m, t) \subseteq Mutex(Thread)
<1>1. MutexTake(m, t) \in Mutex(Thread) BY MutexTakeFacts
<1>2. /\ m.waiting \in Seq(Thread) /\ Len(m.waiting) \in Nat
      /\ DOMAIN m = {"owner", "hold", "waiting"}
  BY LenProperties DEF Mutex
<1>3. ASSUME NEW i \in 1 .. Len(m.waiting) + 1
      PROVE  [m EXCEPT !.waiting = InsertAt(m.waiting, i, t)] \in Mutex(Thread)
  <2>1. SubSeq(m.waiting, 1, i - 1) \in Seq(Thread)
    <3>1. \A j \in 1 .. i - 1 : m.waiting[j] \in Thread BY <1>2, ElementOfSeq
    <3> QED BY <1>2, <3>1, SubSeqProperties
  <2>2. SubSeq(m.waiting, i, Len(m.waiting)) \in Seq(Thread)
    <3>1. \A j \in i .. Len(m.waiting) : m.waiting[j] \in Thread BY <1>2, ElementOfSeq
    <3> QED BY <1>2, <3>1, SubSeqProperties
  <2>3. << t >> \in Seq(Thread) OBVIOUS
  <2>4. InsertAt(m.waiting, i, t) \in Seq(Thread)
    BY <2>1, <2>2, <2>3, ConcatProperties DEF InsertAt
  <2> HIDE DEF InsertAt
  <2> QED BY <2>4 DEF Mutex
<1> QED BY <1>1, <1>3 DEF MutexTakeByPriority

LEMMA SwitchesStep == ASSUME SwitchesOK, [Next]_vars PROVE SwitchesOK'
<1>1. CASE \E t \in Thread : Silent(t)
  <2>1. PICK t \in Thread : Silent(t) BY <1>1
  <2>2. /\ printLock' = printLock \/ printLock' \in MutexTakeByPriority(printLock, t)
           \/ printLock' = MutexRelease(printLock, t)
        /\ notice' = notice \/ notice' = SemRelease(notice)
        /\ UNCHANGED << outputEnabled, asyncEnabled, outOfTurn, lockEnabled >>
        /\ lockedBeforeDisable' \in {TRUE, FALSE, lockedBeforeDisable}
        /\ lockedBeforeEnable' \in {TRUE, FALSE, lockedBeforeEnable}
    BY <2>1 DEF Silent, Locking, Lock, SetFlag, Unlock, ClearFlag, RawUnlock, Notify, Relock,
                lock, flags, modes, text
  <2>3. printLock' \in Mutex(Thread)
    BY <2>2, PriorityTakeType, MutexReleaseFacts DEF SwitchesOK
  <2>4. notice' \in Semaphore(Thread) BY <2>2, SemFacts DEF SwitchesOK
  <2> QED BY <2>2, <2>3, <2>4 DEF SwitchesOK
<1>2. CASE \E t \in Controllers : Switching(t)
  <2>1. /\ UNCHANGED << printLock, notice, lockedBeforeDisable, lockedBeforeEnable >>
        /\ outputEnabled' \in BOOLEAN /\ asyncEnabled' \in BOOLEAN /\ lockEnabled' \in BOOLEAN
    BY <1>2 DEF SwitchesOK, Switching, LockDisable, LockEnable, SetOutputEnabled, AsyncEnabled,
                lock, flags, modes, text
  <2>2. outOfTurn' \in BOOLEAN
    BY <1>2 DEF SwitchesOK, Switching, LockDisable, LockEnable, SetOutputEnabled, AsyncEnabled,
                text
  <2> QED BY <2>1, <2>2 DEF SwitchesOK
<1>3. CASE WaitNotice
  <2>1. notice' \in Semaphore(Thread) BY <1>3, SemFacts, ThreadFacts DEF SwitchesOK, WaitNotice
  <2> QED BY <1>3, <2>1 DEF SwitchesOK, WaitNotice, lock, flags, modes, text
<1>4. CASE ~((\E t \in Thread : Silent(t)) \/ WaitNotice \/ (\E t \in Controllers : Switching(t)))
  <2>1. UNCHANGED << lock, modes, outOfTurn, notice >>
    BY <1>4, StepCases 
       DEF vars, text, LogCall, Composes, Format, FormatRest, TestEnabled, PutAsync, PutDirect,
           GetLine, PrintLine
  <2> QED BY <2>1 DEF SwitchesOK, lock, flags, modes
<1> QED BY <1>1, <1>2, <1>3, <1>4

LEMMA Invariant == ASSUME 0 \notin RawLengths PROVE Spec => []Inv
<1>1. Inv /\ [Next]_vars => Inv' BY CallStep, DataStep, SwitchesStep DEF Inv
<1> QED BY <1>1, InvInit, PTL DEF Spec

(* Every variable of the logger stays in its type; with the ring's flags and *)
(* the shapes of the calls, this is what the theorems below start from.      *)
THEOREM TypeCorrect == ASSUME 0 \notin RawLengths PROVE Spec => []TypeOK
BY Invariant, InvTypes, PTL
-----------------------------------------------------------------------------
(* The call that leaves "putAsync" is the one that put. *)
LEMMA PutLeaves ==
    ASSUME CallOK, [Next]_vars, NEW t \in Loggers,
           call[t].at = "putAsync", call'[t].at # "putAsync"
    PROVE  PutAsync(t)
<1>0. t \in Thread BY ThreadFacts
<1>1. ASSUME NEW u \in Thread, u # t, \E p : Goto(u, p) PROVE FALSE
  BY <1>0, <1>1 DEF Goto, CallOK
<1>2. ASSUME NEW u \in Thread, Silent(u) PROVE FALSE
  <2>1. u # t
    BY <1>2 DEF Silent, Locking, Lock, SetFlag, Unlock, ClearFlag, RawUnlock, Notify, Relock, At
  <2>2. \E p : Goto(u, p)
    BY <1>2 DEF Silent, Locking, Lock, SetFlag, Unlock, ClearFlag, RawUnlock, Notify, Relock
  <2> QED BY <1>1, <2>1, <2>2
<1>3. ASSUME NEW u \in Loggers, Composes(u) \/ PutDirect(u) PROVE FALSE
  <2>1. u # t BY <1>3 DEF Composes, Format, FormatRest, TestEnabled, PutDirect, At
  <2>2. CASE Format(u)
    <3>1. call'[t] = call[t] BY <1>0, <2>1, <2>2 DEF Format, CallOK
    <3> QED BY <3>1
  <2>3. CASE ~Format(u)
    <3>1. \E p : Goto(u, p) BY <1>3, <2>3 DEF Composes, FormatRest, TestEnabled, PutDirect
    <3> QED BY <1>1, <2>1, <3>1, ThreadFacts
  <2> QED BY <2>2, <2>3
<1>4. ASSUME NEW u \in Loggers, u # t, PutAsync(u) PROVE FALSE
  <2>1. \E p : Goto(u, p) BY <1>4 DEF PutAsync
  <2> QED BY <1>1, <1>4, <2>1, ThreadFacts
<1>5. ASSUME NEW u \in Loggers, NEW n, LogCall(u, "output", n) \/ LogCall(u, "raw", n)
      PROVE  FALSE
  BY <1>0, <1>5 DEF LogCall, At, CallOK
<1>6. ASSUME NEW u \in Controllers, Switching(u) PROVE FALSE
  <2>1. u \in Thread /\ call[u].at = "idle"
    BY <1>6, ThreadFacts DEF Switching, LockDisable, LockEnable, SetOutputEnabled, AsyncEnabled, At
  <2>2. UNCHANGED call \/ \E p : Goto(u, p)
    BY <1>6 DEF Switching, LockDisable, LockEnable, SetOutputEnabled, AsyncEnabled
  <2> QED BY <1>1, <2>1, <2>2
<1>7. ASSUME WaitNotice \/ GetLine \/ PrintLine PROVE FALSE
  <2>1. call'[t] = call[t]
    BY <1>0, <1>7, ThreadFacts DEF WaitNotice, GetLine, PrintLine, Goto, CallOK
  <2> QED BY <2>1
<1>8. CASE UNCHANGED vars BY <1>8 DEF vars
<1> QED BY <1>2, <1>3, <1>4, <1>5, <1>6, <1>7, <1>8, StepCases

(* A line loses at most the characters for which the ring has no space left  *)
(* (async_put_log, elog_async.c 110-150).                                    *)
THEOREM KeepsWhatFits == ASSUME 0 \notin RawLengths PROVE Spec => DroppedOnlyWhenFull
<1> DEFINE Kept(t) ==
      Contents(ring') = Contents(ring)
          \o SubSeq(Line(t), 1, AtMost(Len(Line(t)), Size - Len(Contents(ring))))
<1>1. ASSUME Inv, [Next]_vars
      PROVE  \A t \in Loggers :
                (call[t].at = "putAsync" /\ call'[t].at # "putAsync") => Kept(t)
  BY <1>1, PutLeaves, PutKeeps DEF Inv
<1>2. Inv /\ [Next]_vars =>
        [\A t \in Loggers : (call[t].at = "putAsync" /\ call'[t].at # "putAsync") =>
            Contents(ring)' = Contents(ring)
                \o SubSeq(Line(t), 1, AtMost(Len(Line(t)), Size - Len(Contents(ring))))]_vars
  BY <1>1
<1> QED BY <1>2, Invariant, PTL DEF Spec, DroppedOnlyWhenFull
-----------------------------------------------------------------------------
(* The queue of the promise is what the output thread holds and the ring.    *)
LEMMA WaitingIs == CallOK => Waiting = Held \o Contents(ring)
<1> SUFFICES ASSUME CallOK PROVE Waiting = Held \o Contents(ring) OBVIOUS
<1>1. call[Output].at = "wait" => Held = << >> BY DEF CallOK, OutputHolds, Held
<1> QED BY <1>1 DEF Waiting, Held

LEMMA WaitingIsNext == CallOK' => Waiting' = Held' \o Contents(ring')
<1> SUFFICES ASSUME CallOK' PROVE Waiting' = Held' \o Contents(ring') OBVIOUS
<1>1. call'[Output].at = "wait" => Held' = << >> BY DEF CallOK, OutputHolds, Held
<1> QED BY <1>1 DEF Waiting, Held

LEMMA QueueTypes ==
    ASSUME CallOK, DataOK
    PROVE  /\ Held \in Seq(Char) /\ Len(Held) <= PollSpace
           /\ Contents(ring) \in Seq(Char) /\ Len(Contents(ring)) \in 0 .. Size
           /\ console \in Seq(Char)
<1>1. RingOK(ring, Char) BY DEF DataOK
<1>2. Contents(ring) \in Seq(Char) /\ Len(Contents(ring)) \in 0 .. Size
  BY <1>1, ContentsFacts, UsedFacts
<1>3. Held \in Seq(Char) /\ Len(Held) <= PollSpace
  BY DEF CallOK, OutputHolds, OutputCall, Held
<1> QED BY <1>2, <1>3 DEF DataOK

(* The ring and the reader's buffer bound the queue. *)
LEMMA SpaceNext ==
    ASSUME CallOK', DataOK'
    PROVE  Len(Waiting') <= Size + PollSpace
<1>1. RingOK(ring', Char) BY DEF DataOK
<1>2. Contents(ring') \in Seq(Char) /\ Len(Contents(ring')) \in 0 .. Size
  BY <1>1, ContentsFacts, UsedFacts
<1>3. Held' \in Seq(Char) /\ Len(Held') <= PollSpace
  BY DEF CallOK, OutputHolds, OutputCall, Held
<1>4. Len(Held' \o Contents(ring')) = Len(Held') + Len(Contents(ring'))
  BY <1>2, <1>3, ConcatProperties
<1>5. Len(Held') \in Nat BY <1>3, LenProperties
<1> QED BY <1>2, <1>3, <1>4, <1>5, WaitingIsNext, SizeAssumption, ElogAssumption

(* Appending something gives a longer sequence, and cutting gives both parts back. *)
LEMMA ConcatGrows ==
    ASSUME NEW S, NEW s \in Seq(S), NEW e \in Seq(S), e # << >>
    PROVE  Promise!IsStrictPrefix(s, s \o e)
<1>1. /\ s \o e \in Seq(S) /\ Len(s \o e) = Len(s) + Len(e)
      /\ \A i \in 1 .. Len(s) : (s \o e)[i] = s[i]
  BY ConcatProperties
<1>2. Len(s) \in Nat /\ Len(e) \in Nat \ {0} BY EmptySeq, LenProperties
<1>3. SubSeq(s \o e, 1, Len(s)) = SubSeq(s, 1, Len(s)) BY <1>2, SubSeqOfConcat1
<1>4. s \o e # s BY <1>1, <1>2
<1> QED BY <1>1, <1>2, <1>3, <1>4 DEF Promise!IsStrictPrefix, Promise!IsPrefix

LEMMA ConcatSplits ==
    ASSUME NEW S, NEW s \in Seq(S), NEW e \in Seq(S)
    PROVE  /\ SubSeq(s \o e, 1, Len(s)) = s
           /\ SubSeq(s \o e, Len(s) + 1, Len(s \o e)) = e
<1>1. Len(s \o e) = Len(s) + Len(e) /\ Len(s) \in Nat /\ Len(e) \in Nat
  BY ConcatProperties, LenProperties
<1>2. SubSeq(s \o e, 1, Len(s)) = SubSeq(s, 1, Len(s)) BY <1>1, SubSeqOfConcat1
<1>3. SubSeq(s, 1, Len(s)) = s BY SubSeqFull
<1>4. SubSeq(s \o e, Len(s) + 1, Len(s) + Len(e)) = SubSeq(e, 1, Len(e))
  <2>1. SubSeq(s \o e, Len(s) + 1, Len(s) + Len(e))
            = SubSeq(e, (Len(s) + 1) - Len(s), (Len(s) + Len(e)) - Len(s))
    BY <1>1, SubSeqOfConcat2
  <2> QED BY <1>1, <2>1
<1>5. SubSeq(e, 1, Len(e)) = e BY SubSeqFull
<1> QED BY <1>1, <1>2, <1>3, <1>4, <1>5

(* A put appends the first characters of its line to what waits. *)
LEMMA PutAppends ==
    ASSUME CallOK, DataOK, NEW t \in Loggers, PutAsync(t)
    PROVE  \E n \in 0 .. Len(Line(t)) :
              /\ SubSeq(Line(t), 1, n) \in Seq(Char)
              /\ Waiting' = Waiting \o SubSeq(Line(t), 1, n)
<1> DEFINE n == AtMost(Len(Line(t)), Size - Len(Contents(ring)))
           more == SubSeq(Line(t), 1, n)
<1>1. CallOK' /\ Held' = Held BY LoggingCall DEF Logging
<1>2. DataOK' /\ Contents(ring') = Contents(ring) \o more BY PutKeeps
<1>3. Line(t) \in Seq(Char) /\ Line(t) # << >> BY LineFacts DEF PutAsync, At, Composing
<1>4. n \in 0 .. Len(Line(t)) /\ more \in Seq(Char)
  <2>1. Len(Line(t)) \in Nat /\ Len(Contents(ring)) \in 0 .. Size /\ Size \in Nat
    BY <1>3, LenProperties, QueueTypes, SizeAssumption
  <2>2. n \in Nat /\ n <= Len(Line(t)) BY <2>1 DEF AtMost
  <2> HIDE DEF n
  <2>3. \A i \in 1 .. n : Line(t)[i] \in Char BY <1>3, <2>1, <2>2, ElementOfSeq
  <2> QED BY <1>3, <2>1, <2>2, <2>3, SubSeqProperties
<1>5. Waiting' = Waiting \o more
  <2> HIDE DEF more
  <2>1. Waiting = Held \o Contents(ring) BY WaitingIs
  <2>2. Waiting' = Held' \o Contents(ring') BY <1>1, WaitingIsNext
  <2>3. Held \o (Contents(ring) \o more) = (Held \o Contents(ring)) \o more
    <3>1. Held \in Seq(Char) /\ Contents(ring) \in Seq(Char) /\ more \in Seq(Char)
      BY <1>4, QueueTypes
    <3> QED BY <3>1, ConcatAssociative
  <2> QED BY <1>1, <1>2, <2>1, <2>2, <2>3
<1>6. SubSeq(Line(t), 1, n) \in Seq(Char) /\ Waiting' = Waiting \o SubSeq(Line(t), 1, n)
  BY <1>4, <1>5
<1> HIDE DEF n, more
<1> QED BY <1>4, <1>6

(* It is accepted; it may add nothing. *)
LEMMA PutRefines ==
    ASSUME CallOK, DataOK, NEW t \in Loggers, PutAsync(t)
    PROVE  Promise!Accept \/ UNCHANGED Promise!vars
<1>1. PICK n \in 0 .. Len(Line(t)) : /\ SubSeq(Line(t), 1, n) \in Seq(Char)
                                     /\ Waiting' = Waiting \o SubSeq(Line(t), 1, n)
  BY PutAppends
<1> DEFINE more == SubSeq(Line(t), 1, n)
<1>2. more \in Seq(Char) /\ Waiting' = Waiting \o more BY <1>1
<1> HIDE DEF more
<1>3. Waiting \in Seq(Char) BY WaitingIs, QueueTypes, ConcatProperties
<1>4. CallOK' /\ DataOK' BY LoggingCall, PutKeeps DEF Logging
<1>5. Len(Waiting') <= Size + PollSpace BY <1>4, SpaceNext
<1>6. UNCHANGED console BY DEF PutAsync
<1>7. CASE more = << >> BY <1>2, <1>3, <1>6, <1>7, ConcatEmptySeq DEF Promise!vars
<1>8. CASE more # << >>
  <2>1. Promise!IsStrictPrefix(Waiting, Waiting') BY <1>2, <1>3, <1>8, ConcatGrows
  <2> QED BY <1>5, <1>6, <2>1 DEF Promise!Accept
<1> QED BY <1>7, <1>8

(* The print takes the oldest characters to the console, ... *)
LEMMA PrintTakes ==
    ASSUME CallOK, DataOK, PrintLine
    PROVE  /\ Held \in Seq(Char) /\ Held # << >> /\ Contents(ring) \in Seq(Char)
           /\ Waiting = Held \o Contents(ring) /\ Waiting' = Contents(ring)
           /\ console' = console \o Held
<1>1. CallOK' /\ Held' = << >> BY PrintCall
<1>2. ring' = ring /\ console' = console \o Held /\ Held # << >> BY PrintKeeps
<1>3. Held \in Seq(Char) /\ Contents(ring) \in Seq(Char) BY QueueTypes
<1>4. Waiting = Held \o Contents(ring) BY WaitingIs
<1>5. Waiting' = Held' \o Contents(ring') BY <1>1, WaitingIsNext
<1> QED BY <1>1, <1>2, <1>3, <1>4, <1>5, ConcatEmptySeq

LEMMA PrintRefines ==
    ASSUME CallOK, DataOK, PrintLine
    PROVE  Promise!Emit
<1>1. /\ SubSeq(Waiting, 1, Len(Held)) = Held
      /\ SubSeq(Waiting, Len(Held) + 1, Len(Waiting)) = Contents(ring)
  BY PrintTakes, ConcatSplits
<1>2. Len(Held) \in 1 .. Len(Waiting)
  <2>1. Len(Waiting) = Len(Held) + Len(Contents(ring)) BY PrintTakes, ConcatProperties
  <2>2. Len(Held) \in Nat \ {0} /\ Len(Contents(ring)) \in Nat
    BY PrintTakes, EmptySeq, LenProperties
  <2> QED BY <2>1, <2>2
<1> QED BY <1>1, <1>2, PrintTakes DEF Promise!Emit

(* ... a direct output passes them, ... *)
LEMMA DirectRefines ==
    ASSUME CallOK, DataOK, NEW t \in Loggers, PutDirect(t)
    PROVE  Promise!Direct
<1>1. CallOK' /\ Held' = Held BY LoggingCall DEF Logging
<1>2. ring' = ring /\ console' = console \o Line(t) /\ Line(t) \in Seq(Char) /\ Line(t) # << >>
  BY DirectKeeps
<1>3. Waiting' = Waiting
  <2>1. Waiting = Held \o Contents(ring) /\ Waiting' = Held' \o Contents(ring')
    BY <1>1, WaitingIs, WaitingIsNext
  <2> QED BY <1>1, <1>2, <2>1
<1>4. Promise!IsStrictPrefix(console, console') BY <1>2, QueueTypes, ConcatGrows
<1> QED BY <1>3, <1>4 DEF Promise!Direct

(* ... and a get only moves them to the output thread. *)
LEMMA GetRefines ==
    ASSUME CallOK, DataOK, GetLine
    PROVE  UNCHANGED Promise!vars
<1>1. CallOK' /\ Held' = Chars(ring, LineSize(ring, PollSpace)) BY GetCall
<1>2. Contents(ring) = Chars(ring, LineSize(ring, PollSpace)) \o Contents(ring') BY GetKeeps
<1>3. Held = << >> BY DEF GetLine, At, CallOK, OutputHolds, Held
<1>4. Waiting = Held \o Contents(ring) /\ Waiting' = Held' \o Contents(ring')
  BY <1>1, WaitingIs, WaitingIsNext
<1>5. Waiting = Contents(ring) BY <1>3, <1>4, QueueTypes, ConcatEmptySeq
<1>6. UNCHANGED console BY DEF GetLine
<1> QED BY <1>1, <1>2, <1>4, <1>5, <1>6 DEF Promise!vars

LEMMA QuietRefines ==
    ASSUME 0 \notin RawLengths, CallOK, DataOK, [Next]_vars, Quiet \/ \E t \in Loggers : Composes(t)
    PROVE  UNCHANGED Promise!vars
<1>1. CallOK' BY CallStep
<1>2. ring' = ring /\ console' = console
  BY QuietKeeps, ComposeKeeps
<1>3. Held' = Held
  <2>1. CASE \E t \in Loggers : Composes(t) BY <2>1, LoggingCall DEF Logging, Composes
  <2>2. CASE UNCHANGED vars BY <2>2 DEF vars, Held
  <2>3. CASE \E t \in Thread : Silent(t)
    <3>1. PICK t \in Thread : Silent(t) BY <2>3
    <3>2. CASE Locking(t) BY <3>2, LockingCall
    <3>3. CASE ~Locking(t)
      <4>1. t \in Loggers
        BY <3>1, <3>3, ThreadFacts DEF Silent, RawUnlock, Notify, Relock, At, CallOK, OutputHolds
      <4> QED BY <3>1, <4>1, LoggingCall DEF Silent, Logging
    <3> QED BY <3>2, <3>3
  <2> QED BY <2>1, <2>2, <2>3, WaitCall, LogCallCall, ControlCall DEF Quiet, Switching
<1>4. Waiting = Held \o Contents(ring) /\ Waiting' = Held' \o Contents(ring')
  BY <1>1, WaitingIs, WaitingIsNext
<1> QED BY <1>2, <1>3, <1>4 DEF Promise!vars

(* Every step is one of the queue or leaves it alone. *)
LEMMA StepRefines ==
    ASSUME 0 \notin RawLengths, CallOK, DataOK, [Next]_vars
    PROVE  [Promise!Next]_(Promise!vars)
<1>1. CASE Quiet \/ \E t \in Loggers : Composes(t) BY <1>1, QuietRefines
<1>2. CASE ~(Quiet \/ \E t \in Loggers : Composes(t))
  BY <1>2, StepCases, PutRefines, PrintRefines, DirectRefines, GetRefines DEF Quiet, Promise!Next
<1> QED BY <1>1, <1>2

LEMMA InitRefines == Init => Promise!Init
<1> SUFFICES ASSUME Init PROVE Promise!Init OBVIOUS
<1>1. Inv BY InvInit
<1>2. Held = << >> BY <1>1 DEF Init, Inv, CallOK, OutputHolds, Held, Thread
<1>3. Contents(ring) = << >> BY EmptyRingFacts, NoCharType DEF Init
<1>4. Waiting = << >> BY <1>1, <1>2, <1>3, WaitingIs, EmptySeq, ConcatEmptySeq DEF Inv
<1> QED BY <1>4 DEF Init, Promise!Init

(* Asynchronous output is a queue of at most Size + PollSpace characters     *)
(* (elog_async.c 110-201) : whatever is switched meanwhile, what was accepted *)
(* reaches the console once and in order.                                    *)
THEOREM QueueKept == ASSUME 0 \notin RawLengths PROVE Spec => QueuePromise
<1>1. Inv /\ [Next]_vars => [Promise!Next]_(Promise!vars) BY StepRefines DEF Inv
<1> QED BY <1>1, InitRefines, Invariant, PTL DEF Spec, QueuePromise, Promise!Spec
=============================================================================
