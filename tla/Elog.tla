-------------------------------- MODULE Elog --------------------------------
(***************************************************************************)
(* EasyLogger as this project configures it: src/elog/src/elog.c with      *)
(* asynchronous line output (elog_async.c) and the RT-Thread port          *)
(* (elog_port.c).  Loggers call elog_output and elog_raw; the thread       *)
(* Output takes lines from the ring buffer and prints them; Controllers    *)
(* switch output, asynchronous mode and the output lock on and off.        *)
(*                                                                         *)
(* A line that the level or the tag filter holds back returns before it    *)
(* changes anything and is left out.  A thread that disables the output    *)
(* lock does so to output a system exception (elog.c:545): nobody else     *)
(* runs until it enables the lock again, and it outputs directly.          *)
(***************************************************************************)
EXTENDS LogRing, RttIpc, FiniteSets

CONSTANTS Loggers, Controllers, Output,
          LineSpace,    \* ELOG_LINE_BUF_SIZE
          PollSpace,    \* size of poll_get_buf
          Lengths,      \* of what elog_output puts together, newline included
          RawLengths,   \* of what elog_raw puts together
          RawInException,   \* whether elog_raw is called with the lock disabled
          MaxLogs       \* bound: calls in a behaviour

Thread == Loggers \cup {Output}

ASSUME ElogAssumption ==
    /\ Controllers \subseteq Loggers /\ \A s, t \in Controllers : s = t
    /\ Output \notin Loggers
    /\ NoThread \notin Thread
    /\ LineSpace \in Nat \ {0} /\ PollSpace \in Nat \ {0} /\ MaxLogs \in Nat
    /\ Lengths \subseteq 1 .. LineSpace /\ RawLengths \subseteq 0 .. LineSpace
    /\ RawInException \in BOOLEAN

VARIABLES lineBuf,          \* log_buf of elog.c, shared by all callers
          ring,             \* log_buf of elog_async.c, its indices and flags
          outputEnabled, asyncEnabled,
          printLock,        \* the mutex of the port
          lockEnabled, lockedBeforeDisable, lockedBeforeEnable,
          notice,           \* the semaphore output_notice
          call,             \* where each thread is, its operation and length,
                            \* and what the output thread has taken to print
          logged,           \* number of lines put together so far
          console,          \* what was printed
          outOfTurn         \* a line may have overtaken another, see below

flags == << lockEnabled, lockedBeforeDisable, lockedBeforeEnable >>
lock == << printLock, flags >>
modes == << outputEnabled, asyncEnabled >>
text == << lineBuf, ring, logged, console, outOfTurn >>
vars == << lock, modes, text, notice, call >>

(* The i-th character of the k-th log; an elog_raw has no newline sign. *)
Char == [log : Nat, pos : Nat, nl : BOOLEAN]
NoChar == [log |-> 0, pos |-> 0, nl |-> FALSE]
LogText(k, n, newline) == [i \in 1 .. n |-> [log |-> k, pos |-> i, nl |-> newline /\ i = n]]

Init ==
    /\ lineBuf = [i \in 1 .. LineSpace |-> NoChar]
    /\ ring = EmptyRing(NoChar)
    /\ outputEnabled = FALSE /\ asyncEnabled = FALSE
    /\ printLock = FreeMutex
    /\ lockEnabled = TRUE /\ lockedBeforeDisable = FALSE /\ lockedBeforeEnable = FALSE
    /\ notice = EmptySem
    /\ call = [t \in Thread |-> IF t = Output THEN [at |-> "wait", op |-> "get", text |-> << >>]
                                              ELSE [at |-> "idle"]]
    /\ logged = 0 /\ console = << >> /\ outOfTurn = FALSE

(* With the lock disabled only the thread that disabled it runs. *)
At(t, place) == /\ call[t].at = place
                /\ t \notin ToSet(printLock.waiting) \cup ToSet(notice.waiting)
                /\ lockEnabled \/ t \in Controllers

(* A call that ends leaves nothing behind. *)
Goto(t, place) ==
    call' = [call EXCEPT ![t] = IF place = "idle" THEN [at |-> "idle"] ELSE [@ EXCEPT !.at = place]]

(* Where a thread has a line in the line buffer, and where it uses the buffer *)
(* or the ring.                                                               *)
Composing == {"format", "put", "putAsync", "direct"}
Inside == Composing \cup {"flag", "inside", "notify", "unlock", "rawUnlock"}

(* Taken from the callers and not printed yet. *)
Waiting == (IF call[Output].at = "wait" THEN << >> ELSE call[Output].text) \o Contents(ring)
-----------------------------------------------------------------------------
(* Mutated forms of actions below, each with one mistake.                    *)
FilterKeepsLock(t) ==
    /\ At(t, "format")
    /\ lineBuf' = [i \in 1 .. LineSpace |->
                      IF i \in 2 .. call[t].len
                      THEN LogText(call[t].log, call[t].len, call[t].op = "output")[i] ELSE lineBuf[i]]
    /\ \/ Goto(t, "put")
       \/ call[t].op = "output" /\ Goto(t, "idle")
    /\ UNCHANGED << lock, modes, ring, logged, console, outOfTurn, notice >>

PrintLineOnce ==
    /\ At(Output, "print")
    /\ console' = console \o call[Output].text
    /\ call' = [call EXCEPT ![Output].at = "wait", ![Output].text = << >>]
    /\ UNCHANGED << lock, modes, lineBuf, ring, logged, outOfTurn, notice >>
-----------------------------------------------------------------------------
(* elog_output_lock reads output_lock_enabled once; the thread may be        *)
(* suspended on the mutex before it sets the flag.                           *)
Lock(t) ==
    /\ At(t, "lock")
    /\ \/ /\ lockEnabled
          /\ printLock' \in MutexTakeByPriority(printLock, t)
          /\ Goto(t, "flag") /\ UNCHANGED flags
       \/ /\ ~lockEnabled
          /\ lockedBeforeEnable' = TRUE
          /\ Goto(t, "inside") /\ UNCHANGED << printLock, lockEnabled, lockedBeforeDisable >>
    /\ UNCHANGED << modes, text, notice >>

SetFlag(t) ==
    /\ At(t, "flag")
    /\ lockedBeforeDisable' = TRUE
    /\ Goto(t, "inside")
    /\ UNCHANGED << printLock, lockEnabled, lockedBeforeEnable, modes, text, notice >>

(* Where a thread goes when it has left the lock. *)
After(t) == IF t # Output THEN "idle" ELSE IF call[t].text = << >> THEN "wait" ELSE "print"

(* elog_output_unlock: others may take the lock before the flag is cleared. *)
Unlock(t) ==
    /\ At(t, "unlock")
    /\ \/ /\ lockEnabled
          /\ printLock' = MutexRelease(printLock, t)
          /\ Goto(t, "clear") /\ UNCHANGED flags
       \/ /\ ~lockEnabled
          /\ lockedBeforeEnable' = FALSE
          /\ Goto(t, After(t)) /\ UNCHANGED << printLock, lockEnabled, lockedBeforeDisable >>
    /\ UNCHANGED << modes, text, notice >>

ClearFlag(t) ==
    /\ At(t, "clear")
    /\ lockedBeforeDisable' = FALSE
    /\ Goto(t, After(t))
    /\ UNCHANGED << printLock, lockEnabled, lockedBeforeEnable, modes, text, notice >>

(* elog_raw calls the port's unlock and leaves the flags alone. *)
RawUnlock(t) ==
    /\ At(t, "rawUnlock")
    /\ printLock' = MutexRelease(printLock, t)
    /\ Goto(t, "idle")
    /\ UNCHANGED << flags, modes, text, notice >>
-----------------------------------------------------------------------------
(* elog_output and elog_raw, once output is enabled and the filters let the  *)
(* line through.                                                             *)
LogCall(t, op, n) ==
    /\ At(t, "idle") /\ outputEnabled
    /\ logged + Cardinality({u \in Loggers : call[u].at \in {"lock", "flag", "inside"}}) < MaxLogs
    /\ n \in IF op = "raw" THEN RawLengths ELSE Lengths
    /\ op = "raw" => lockEnabled \/ RawInException
    /\ call' = [call EXCEPT ![t] = [at |-> "lock", op |-> op, len |-> n, log |-> 0]]
    /\ UNCHANGED << lock, modes, text, notice >>

(* A line is put together in steps (an exception may come between them): its  *)
(* head, ...                                                                  *)
LogOf(t, k) == LogText(k, call[t].len, call[t].op = "output")

Format(t) ==
    /\ At(t, "inside") /\ t \in Loggers
    /\ logged' = logged + 1
    /\ lineBuf' = [i \in 1 .. LineSpace |->
                      IF i = 1 /\ call[t].len > 0 THEN LogOf(t, logged + 1)[1] ELSE lineBuf[i]]
    /\ call' = [call EXCEPT ![t].at = "format", ![t].log = logged + 1]
    /\ UNCHANGED << lock, modes, ring, console, outOfTurn, notice >>

(* ... and the rest; without the keyword of the filter it goes no further. *)
FormatRest(t) ==
    /\ At(t, "format")
    /\ lineBuf' = [i \in 1 .. LineSpace |->
                      IF i \in 2 .. call[t].len THEN LogOf(t, call[t].log)[i] ELSE lineBuf[i]]
    /\ \/ Goto(t, "put")
       \/ call[t].op = "output" /\ Goto(t, "unlock")
    /\ UNCHANGED << lock, modes, ring, logged, console, outOfTurn, notice >>

AfterPut(t) == IF call[t].op = "raw" THEN "rawUnlock" ELSE "unlock"
Line(t) == SubSeq(lineBuf, 1, call[t].len)

(* elog_async_output reads is_enabled, which another thread may change before *)
(* the line goes into the ring or straight to the console.                    *)
TestEnabled(t) ==
    /\ At(t, "put")
    /\ Goto(t, IF asyncEnabled THEN "putAsync" ELSE "direct")
    /\ UNCHANGED << lock, modes, text, notice >>

PutAsync(t) ==
    /\ At(t, "putAsync")
    /\ ring' = Put(ring, Line(t))
    /\ Goto(t, IF PutSize(ring, Line(t)) > 0 THEN "notify" ELSE AfterPut(t))
    /\ UNCHANGED << lock, modes, lineBuf, logged, console, outOfTurn, notice >>

PutDirect(t) ==
    /\ At(t, "direct")
    /\ console' = console \o Line(t)
    /\ Goto(t, AfterPut(t))
    /\ UNCHANGED << lock, modes, lineBuf, ring, logged, outOfTurn, notice >>

Notify(t) ==
    /\ At(t, "notify")
    /\ notice' = SemRelease(notice)
    /\ Goto(t, AfterPut(t))
    /\ UNCHANGED << lock, modes, text >>
-----------------------------------------------------------------------------
(* The output thread: a notice, then lines until there are none. *)
WaitNotice ==
    /\ At(Output, "wait")
    /\ notice' = SemTake(notice, Output)
    /\ Goto(Output, "lock")
    /\ UNCHANGED << lock, modes, text >>

GetLine ==
    /\ At(Output, "inside")
    /\ ring' = Get(ring, PollSpace)
    /\ call' = [call EXCEPT ![Output].at = "unlock",
                            ![Output].text = Chars(ring, LineSize(ring, PollSpace))]
    /\ UNCHANGED << lock, modes, lineBuf, logged, console, outOfTurn, notice >>

(* Printing happens outside the lock. *)
PrintLine ==
    /\ At(Output, "print")
    /\ console' = console \o call[Output].text
    /\ call' = [call EXCEPT ![Output].at = "lock", ![Output].text = << >>]
    /\ UNCHANGED << lock, modes, lineBuf, ring, logged, outOfTurn, notice >>
-----------------------------------------------------------------------------
(* elog_set_output_enabled, elog_async_enabled (both in elog_start). *)
SetOutputEnabled(t, enabled) ==
    /\ At(t, "idle") /\ outputEnabled' = enabled
    /\ UNCHANGED << lock, asyncEnabled, text, notice, call >>

(* Lines that wait, or are about to go into the ring, when asynchronous mode  *)
(* goes off can be overtaken.                                                 *)
AsyncEnabled(t, enabled) ==
    /\ At(t, "idle") /\ lockEnabled
    /\ asyncEnabled' = enabled
    /\ outOfTurn' = (\/ outOfTurn
                      \/ /\ ~enabled
                         /\ Waiting # << >> \/ \E u \in Loggers : call[u].at = "putAsync")
    /\ UNCHANGED << lock, outputEnabled, lineBuf, ring, logged, console, notice, call >>

(* elog_output_lock_enabled(false).  An exception while somebody has a line   *)
(* in the line buffer overwrites it.                                          *)
LockDisable(t) ==
    /\ At(t, "idle") /\ lockEnabled /\ ~asyncEnabled
    /\ lockEnabled' = FALSE
    /\ outOfTurn' = (outOfTurn \/ \E u \in Loggers : call[u].at \in Composing)
    /\ UNCHANGED << printLock, lockedBeforeDisable, lockedBeforeEnable, modes, lineBuf, ring,
                    logged, console, notice, call >>

(* elog_output_lock_enabled(true) catches up with what happened meanwhile. *)
LockEnable(t) ==
    /\ At(t, "idle") /\ ~lockEnabled
    /\ lockEnabled' = TRUE
    /\ Goto(t, "relock")
    /\ UNCHANGED << printLock, lockedBeforeDisable, lockedBeforeEnable, modes, text, notice >>

Relock(t) ==
    /\ At(t, "relock")
    /\ \/ /\ ~lockedBeforeDisable /\ lockedBeforeEnable
          /\ printLock' \in MutexTakeByPriority(printLock, t)
       \/ /\ lockedBeforeDisable /\ ~lockedBeforeEnable
          /\ printLock' = MutexRelease(printLock, t)
       \/ lockedBeforeDisable = lockedBeforeEnable /\ UNCHANGED printLock
    /\ Goto(t, "idle")
    /\ UNCHANGED << flags, modes, text, notice >>
-----------------------------------------------------------------------------
Locking(t) == Lock(t) \/ SetFlag(t) \/ Unlock(t) \/ ClearFlag(t)
Logging(t) == \/ Locking(t) \/ RawUnlock(t) \/ Format(t) \/ FormatRest(t)
              \/ TestEnabled(t) \/ PutAsync(t) \/ PutDirect(t) \/ Notify(t) \/ Relock(t)
Printing == Locking(Output) \/ WaitNotice \/ GetLine \/ PrintLine

Next == \/ \E t \in Loggers : Logging(t)
        \/ \E t \in Loggers, n \in 0 .. LineSpace : LogCall(t, "output", n) \/ LogCall(t, "raw", n)
        \/ Printing
        \/ \E t \in Controllers : \/ LockDisable(t) \/ LockEnable(t)
                                  \/ \E b \in BOOLEAN : SetOutputEnabled(t, b) \/ AsyncEnabled(t, b)

Spec == Init /\ [][Next]_vars

(* Every thread in the middle of a call, and the output thread, is scheduled. *)
FairSpec == Spec /\ WF_vars(Printing) /\ \A t \in Loggers : WF_vars(Logging(t))
-----------------------------------------------------------------------------
TypeOK ==
    /\ lineBuf \in [1 .. LineSpace -> Char] /\ ring \in Ring(Char)
    /\ outputEnabled \in BOOLEAN /\ asyncEnabled \in BOOLEAN
    /\ printLock \in Mutex(Thread) /\ notice \in Semaphore(Thread)
    /\ lockEnabled \in BOOLEAN
    /\ lockedBeforeDisable \in BOOLEAN /\ lockedBeforeEnable \in BOOLEAN
    /\ \A t \in Thread : call[t].at \in Inside \cup {"idle", "lock", "clear", "relock", "wait", "print"}
    /\ logged \in Nat /\ console \in Seq(Char) /\ outOfTurn \in BOOLEAN

(* While the lock is enabled, one thread at most uses the line buffer and    *)
(* the ring, although somebody disabled it and enabled it again while others *)
(* were inside (elog.c 304-323, 552-564): a release by a thread that does    *)
(* not own the mutex changes nothing.                                        *)
OutputLockExcludes ==
    lockEnabled => \A s, t \in Thread :
        (/\ call[s].at \in Inside /\ s \notin ToSet(printLock.waiting)
         /\ call[t].at \in Inside /\ t \notin ToSet(printLock.waiting)) => s = t

(* Whoever owns the mutex of the port is in a call that will release it: the *)
(* lock comes free however often it was disabled and enabled in between, as  *)
(* long as no elog_raw is called while it is disabled.                       *)
NothingLeftLocked ==
    printLock.owner # NoThread => call[printLock.owner].at \in Inside

(* Lines reach the console in the order they were put together, each         *)
(* character once, from whichever thread and through whichever mode, unless  *)
(* asynchronous mode was switched off with lines waiting or under way to the *)
(* ring, or an exception came upon a thread with a line in the line buffer.  *)
Before(c, d) == c.log < d.log \/ (c.log = d.log /\ c.pos < d.pos)
PrintedInOrder ==
    ~outOfTurn => \A i \in 1 .. Len(console) - 1 : Before(console[i], console[i + 1])

(* "the log which beyond ring buffer space will be dropped" (elog_async.c    *)
(* line 117): what fits beside the lines that wait is kept, to the character.*)
DroppedOnlyWhenFull ==
    [][\A t \in Loggers : (call[t].at = "putAsync" /\ call'[t].at # "putAsync") =>
           Contents(ring)' = Contents(ring)
               \o SubSeq(Line(t), 1, AtMost(Len(Line(t)), Size - Len(Contents(ring))))]_vars

(* Asynchronous output implements a bounded queue between the callers and the*)
(* console: nothing accepted is lost, invented, repeated or reordered.       *)
Promise == INSTANCE LogQueue WITH waiting <- Waiting, console <- console,
                                  Capacity <- Size + PollSpace
QueuePromise == Promise!Spec

(* What waits in the ring is printed, unless an exception stops everything:  *)
(* no notice is lost between a put and the output thread's last look.        *)
WaitingIsPrinted == (Waiting # << >>) ~> (Waiting = << >> \/ ~lockEnabled)
=============================================================================
