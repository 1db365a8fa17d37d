------------------------- MODULE PthreadPoolProofs -------------------------
(***************************************************************************)
(* The POSIX pool for any sets of workers and clients, any counter width   *)
(* and any number of tasks: its types, the mutual exclusion of queueLock,  *)
(* the counter, the absence of lost wakeups, and the promises of TaskPool. *)
(*                                                                         *)
(* A wakeup could only be lost when the last worker goes to sleep, and     *)
(* SleepInv says that the counter is still 0 then, because that worker has *)
(* held queueLock since it looked.  The refinement needs to know where     *)
(* each task is: in one addTask, in the list, or in one worker (TaskInv).  *)
(***************************************************************************)
EXTENDS PthreadPool, SequenceTheorems, TLAPS

Places == InLock \cup {"lock", "wait", "run", "exited", "idle", "addLock",
                       "addSignal", "desSet", "desWake", "desJoin", "gone"}

LEMMA ThreadSets ==
    /\ Workers \subseteq Thread /\ Adders \subseteq Thread /\ Destroyers \subseteq Thread
BY DEF Thread, Clients

(* What a thread does to its place is all that happens to the places. *)
LEMMA GoToFacts ==
    ASSUME TypeOK, NEW t \in Thread, NEW l \in Places, GoTo(t, l)
    PROVE  /\ pc' \in [Thread -> Places]
           /\ pc'[t] = l
           /\ \A u \in Thread \ {t} : pc'[u] = pc[u]
BY DEF TypeOK, GoTo, Places

LEMMA HomeFacts ==
    ASSUME NEW t \in Thread
    PROVE  Home(t) \in {"run", "idle"} /\ (t \in Workers => Home(t) = "run")
BY DEF Home

LEMMA CounterType ==
    ASSUME NEW n \in 0 .. CounterMod - 1
    PROVE  Inc(n) \in 0 .. CounterMod - 1 /\ Dec(n) \in 0 .. CounterMod - 1
BY PthreadAssumption DEF Inc, Dec

LEMMA TypeInit == Init => TypeOK
<1> SUFFICES ASSUME Init PROVE TypeOK OBVIOUS
<1>1. << >> \in Seq(Nat) BY EmptySeq
<1>2. cur \in 0 .. CounterMod - 1 BY PthreadAssumption DEF Init
<1>3. pc \in [Thread -> Places] BY DEF Init, Places
<1>4. newtask \in [Adders -> Nat] /\ running \in [Workers -> Nat] BY DEF Init, NoTask
<1> QED BY <1>1, <1>2, <1>3, <1>4 DEF Init, TypeOK, Places

(* Every step keeps every variable in its type. *)
LEMMA TypeStep == TypeOK /\ [Next]_vars => TypeOK'
<1> SUFFICES ASSUME TypeOK, [Next]_vars PROVE TypeOK'
  OBVIOUS
<1> USE ThreadSets
<1>1. CASE UNCHANGED vars
  BY <1>1 DEF TypeOK, vars, sync, list, tasks
<1>2. ASSUME NEW w \in Workers, Job(w) \/ Lock(w) \/ Relock(w) \/ WakeAnyway(w)
      PROVE  TypeOK'
  <2>1. CASE Lock(w)
    BY <2>1 DEF TypeOK, Lock, At, Take, GoTo, InLock, list, tasks
  <2>2. CASE Relock(w)
    BY <2>2 DEF TypeOK, Relock, At, Take, GoTo, InLock, list, tasks
  <2>3. CASE WakeAnyway(w)
    BY <2>3 DEF TypeOK, WakeAnyway, InLock, list, tasks
  <2>4. CASE FindNothing(w)
    BY <2>4 DEF TypeOK, FindNothing, At, GoTo, InLock, sync, list, tasks
  <2>5. CASE Sleep(w)
    BY <2>5 DEF TypeOK, Sleep, At, Release, GoTo, InLock, list, tasks
  <2>6. CASE Exit(w)
    BY <2>6 DEF TypeOK, Exit, At, Release, GoTo, InLock, list, tasks
  <2>7. CASE Dequeue(w)
    <3>1. Head(queue) \in Nat /\ Tail(queue) \in Seq(Nat)
      BY <2>7, HeadTailProperties DEF Dequeue, TypeOK
    <3>2. Dec(cur) \in 0 .. CounterMod - 1 BY CounterType DEF TypeOK
    <3> QED BY <2>7, <3>1, <3>2 DEF TypeOK, Dequeue, At, Release, GoTo, InLock
  <2>8. CASE Finish(w)
    BY <2>8 DEF TypeOK, Finish, At, GoTo, InLock, NoTask, sync, list
  <2> QED BY <1>2, <2>1, <2>2, <2>3, <2>4, <2>5, <2>6, <2>7, <2>8 DEF Job
<1>3. ASSUME NEW a \in Adders, AddAlloc(a) \/ AddLock(a) \/ Adding(a)
      PROVE  TypeOK'
  <2>0. Home(a) \in {"run", "idle"} BY HomeFacts
  <2>1. CASE AddAlloc(a)
    BY <2>0, <2>1 DEF TypeOK, AddAlloc, At, GoTo, InLock, sync, list
  <2>2. CASE AddLock(a)
    BY <2>2 DEF TypeOK, AddLock, At, Take, GoTo, InLock, list, tasks
  <2>3. CASE AddLink(a)
    <3>1. Append(queue, newtask[a]) \in Seq(Nat) BY AppendProperties DEF TypeOK
    <3>2. Inc(cur) \in 0 .. CounterMod - 1 BY CounterType DEF TypeOK
    <3> QED BY <2>3, <3>1, <3>2 DEF TypeOK, AddLink, At, Release, GoTo, InLock, NoTask
  <2>4. CASE AddSignal(a)
    BY <2>0, <2>4 DEF TypeOK, AddSignal, At, GoTo, InLock, list, tasks
  <2> QED BY <1>3, <2>1, <2>2, <2>3, <2>4 DEF Adding
<1>4. ASSUME NEW d \in Destroyers, DesCheck(d) \/ Destroying(d)
      PROVE  TypeOK'
  <2>1. CASE DesCheck(d)
    BY <2>1 DEF TypeOK, DesCheck, At, GoTo, InLock, sync, list, tasks
  <2>2. CASE DesSet(d)
    BY <2>2 DEF TypeOK, DesSet, At, GoTo, InLock, list, tasks
  <2>3. CASE DesBroadcast(d)
    BY <2>3 DEF TypeOK, DesBroadcast, At, GoTo, InLock, list, tasks
  <2>4. CASE DesFree(d)
    <3>1. << >> \in Seq(Nat) BY EmptySeq
    <3> QED BY <2>4, <3>1 DEF TypeOK, DesFree, At, GoTo, InLock, tasks
  <2> QED BY <1>4, <2>1, <2>2, <2>3, <2>4 DEF Destroying
<1> QED BY <1>1, <1>2, <1>3, <1>4 DEF Next, Locking

(* Every variable keeps its type.  In particular whoever is known to the     *)
(* condition variable is at its wait, through signals, broadcasts and        *)
(* spurious wakeups (lines 100, 137, 183).                                   *)
THEOREM TypeCorrect == Spec => []TypeOK
<1> QED BY TypeInit, TypeStep, PTL DEF Spec
-----------------------------------------------------------------------------
(* The three ways a step treats the lock: a take enters, a release leaves,   *)
(* any other step stays on its side.                                         *)
LEMMA TakeStep ==
    ASSUME TypeOK, LockHeldInside, NEW t \in Thread, NEW l \in InLock, Take(t), GoTo(t, l)
    PROVE  LockHeldInside'
<1>1. \A u \in Thread : pc[u] \notin InLock
  BY PthreadAssumption DEF LockHeldInside, Take
<1>2. pc'[t] = l /\ \A u \in Thread \ {t} : pc'[u] = pc[u]
  BY GoToFacts DEF Places
<1> QED BY <1>1, <1>2 DEF LockHeldInside, Take

LEMMA ReleaseStep ==
    ASSUME TypeOK, LockHeldInside, NEW t \in Thread, NEW l \in Places \ InLock,
           Release(t), GoTo(t, l)
    PROVE  LockHeldInside'
<1>1. \A u \in Thread \ {t} : pc[u] \notin InLock BY DEF LockHeldInside, Release
<1>2. pc'[t] = l /\ \A u \in Thread \ {t} : pc'[u] = pc[u] BY GoToFacts
<1> QED BY <1>1, <1>2, PthreadAssumption DEF LockHeldInside, Release

LEMMA OtherStep ==
    ASSUME TypeOK, LockHeldInside, NEW t \in Thread, NEW l \in Places, GoTo(t, l),
           l \in InLock <=> pc[t] \in InLock, UNCHANGED queueLock
    PROVE  LockHeldInside'
<1>1. pc'[t] = l /\ \A u \in Thread \ {t} : pc'[u] = pc[u] BY GoToFacts
<1> QED BY <1>1 DEF LockHeldInside

LEMMA LockStep == TypeOK /\ LockHeldInside /\ [Next]_vars => LockHeldInside'
<1> SUFFICES ASSUME TypeOK, LockHeldInside, [Next]_vars PROVE LockHeldInside'
  OBVIOUS
<1> USE ThreadSets DEF At
<1>1. CASE UNCHANGED vars
  BY <1>1 DEF LockHeldInside, vars, sync
<1>2. ASSUME NEW w \in Workers, Job(w) \/ Lock(w) \/ Relock(w) \/ WakeAnyway(w)
      PROVE  LockHeldInside'
  <2>1. CASE Lock(w) BY <2>1, TakeStep DEF Lock, InLock
  <2>2. CASE Relock(w) BY <2>2, TakeStep DEF Relock, InLock
  <2>3. CASE WakeAnyway(w) BY <2>3 DEF WakeAnyway, LockHeldInside
  <2>4. CASE FindNothing(w) BY <2>4, OtherStep DEF FindNothing, Places, InLock, sync
  <2>5. CASE Sleep(w) BY <2>5, ReleaseStep DEF Sleep, Places, InLock
  <2>6. CASE Exit(w) BY <2>6, ReleaseStep DEF Exit, Places, InLock
  <2>7. CASE Dequeue(w) BY <2>7, ReleaseStep DEF Dequeue, Places, InLock
  <2>8. CASE Finish(w) BY <2>8, OtherStep DEF Finish, Places, InLock, sync
  <2> QED BY <1>2, <2>1, <2>2, <2>3, <2>4, <2>5, <2>6, <2>7, <2>8 DEF Job
<1>3. ASSUME NEW a \in Adders, AddAlloc(a) \/ AddLock(a) \/ Adding(a)
      PROVE  LockHeldInside'
  <2>0. Home(a) \in Places \ InLock BY HomeFacts DEF Places, InLock
  <2>1. CASE AddAlloc(a) BY <2>0, <2>1, OtherStep DEF AddAlloc, Places, InLock, sync
  <2>2. CASE AddLock(a) BY <2>2, TakeStep DEF AddLock, InLock
  <2>3. CASE AddLink(a) BY <2>3, ReleaseStep DEF AddLink, Places, InLock
  <2>4. CASE AddSignal(a) BY <2>0, <2>4, OtherStep DEF AddSignal, Places, InLock
  <2> QED BY <1>3, <2>1, <2>2, <2>3, <2>4 DEF Adding
<1>4. ASSUME NEW d \in Destroyers, DesCheck(d) \/ Destroying(d)
      PROVE  LockHeldInside'
  <2>1. CASE DesCheck(d) BY <2>1, OtherStep DEF DesCheck, Places, InLock, sync
  <2>2. CASE DesSet(d) BY <2>2, OtherStep DEF DesSet, Places, InLock
  <2>3. CASE DesBroadcast(d) BY <2>3, OtherStep DEF DesBroadcast, Places, InLock
  <2>4. CASE DesFree(d) BY <2>4, OtherStep DEF DesFree, Places, InLock
  <2> QED BY <1>4, <2>1, <2>2, <2>3, <2>4 DEF Destroying
<1> QED BY <1>1, <1>2, <1>3, <1>4 DEF Next, Locking

(* queueLock excludes: who is between a lock and an unlock holds it, alone,  *)
(* also across the wait on the condition (lines 84-98, 176-195).             *)
THEOREM LockCorrect == Spec => []LockHeldInside
<1>1. Init => LockHeldInside
  BY PthreadAssumption, ThreadSets DEF Init, LockHeldInside, InLock
<1> QED BY <1>1, LockStep, TypeCorrect, PTL DEF Spec

(* Two threads are not inside together. *)
LEMMA Alone ==
    ASSUME LockHeldInside, NEW s \in Thread, NEW t \in Thread,
           pc[s] \in InLock, pc[t] \in InLock
    PROVE  s = t
BY DEF LockHeldInside
-----------------------------------------------------------------------------
(* n tasks are counted by c, a number of limited width. *)
Counts(c, n) == \E k \in 0 .. n : n = c + k * CounterMod

LEMMA CountsInc ==
    ASSUME NEW c \in 0 .. CounterMod - 1, NEW n \in Nat, Counts(c, n)
    PROVE  Counts(Inc(c), n + 1)
<1>1. PICK k \in 0 .. n : n = c + k * CounterMod BY DEF Counts
<1>2. CounterMod \in Nat \ {0} BY PthreadAssumption
<1>3. k * CounterMod \in Nat /\ (k + 1) * CounterMod = k * CounterMod + CounterMod BY <1>2
<1>4. CASE c + 1 = CounterMod
  <2>1. n + 1 = 0 + (k + 1) * CounterMod /\ k + 1 \in 0 .. n + 1 BY <1>1, <1>2, <1>3, <1>4
  <2> QED BY <2>1, <1>4 DEF Counts, Inc
<1>5. CASE c + 1 # CounterMod
  <2>1. n + 1 = (c + 1) + k * CounterMod /\ k \in 0 .. n + 1 BY <1>1, <1>2, <1>3
  <2> QED BY <2>1, <1>5 DEF Counts, Inc
<1> QED BY <1>4, <1>5

LEMMA CountsDec ==
    ASSUME NEW c \in 1 .. CounterMod - 1, NEW n \in Nat \ {0}, Counts(c, n)
    PROVE  Counts(Dec(c), n - 1)
<1>1. PICK k \in 0 .. n : n = c + k * CounterMod BY DEF Counts
<1>2. CounterMod \in Nat \ {0} BY PthreadAssumption
<1>3. k <= k * CounterMod /\ k * CounterMod \in Nat
  <2>1. k * (CounterMod - 1) = k * CounterMod - k BY <1>2
  <2>2. k * (CounterMod - 1) \in Nat /\ k * CounterMod \in Nat BY <1>2
  <2> QED BY <2>1, <2>2
<1>4. n - 1 = (c - 1) + k * CounterMod /\ k \in 0 .. n - 1 BY <1>1, <1>2, <1>3
<1> QED BY <1>4 DEF Counts, Dec

LEMMA CountStep == TypeOK /\ CounterMatchesQueue /\ [Next]_vars => CounterMatchesQueue'
<1> SUFFICES ASSUME TypeOK, CounterMatchesQueue, [Next]_vars PROVE CounterMatchesQueue'
  OBVIOUS
<1>0. CounterMatchesQueue <=> (~freed => Counts(cur, Len(queue)))
  BY DEF CounterMatchesQueue, Counts
<1>1. ASSUME UNCHANGED << queue, cur, freed >> PROVE CounterMatchesQueue'
  BY <1>1 DEF CounterMatchesQueue
<1>2. ASSUME NEW w \in Workers, Dequeue(w) PROVE CounterMatchesQueue'
  <2>1. Len(queue) \in Nat \ {0} /\ Len(Tail(queue)) = Len(queue) - 1
    BY <1>2, EmptySeq, HeadTailProperties DEF TypeOK, Dequeue
  <2>2. cur \in 1 .. CounterMod - 1 BY <1>2, PthreadAssumption DEF TypeOK, Dequeue
  <2>3. CASE freed BY <1>2, <2>3 DEF Dequeue, CounterMatchesQueue
  <2>4. CASE ~freed
    <3>1. Counts(Dec(cur), Len(queue) - 1) BY <1>0, <2>1, <2>2, <2>4, CountsDec
    <3> QED BY <1>2, <2>1, <3>1 DEF Dequeue, CounterMatchesQueue, Counts
  <2> QED BY <2>3, <2>4
<1>3. ASSUME NEW a \in Adders, AddLink(a) PROVE CounterMatchesQueue'
  <2>1. Len(queue) \in Nat /\ Len(Append(queue, newtask[a])) = Len(queue) + 1
    BY AppendProperties, LenProperties DEF TypeOK
  <2>2. CASE freed BY <1>3, <2>2 DEF AddLink, CounterMatchesQueue
  <2>3. CASE ~freed
    <3>1. Counts(Inc(cur), Len(queue) + 1) BY <1>0, <2>1, <2>3, CountsInc DEF TypeOK
    <3> QED BY <1>3, <2>1, <3>1 DEF AddLink, CounterMatchesQueue, Counts
  <2> QED BY <2>2, <2>3
<1>4. ASSUME NEW d \in Destroyers, DesFree(d) PROVE CounterMatchesQueue'
  BY <1>4 DEF DesFree, CounterMatchesQueue
<1>5. CASE UNCHANGED vars BY <1>1, <1>5 DEF vars, sync, list
<1>6. ASSUME NEW t \in Thread, Locking(t) PROVE CounterMatchesQueue'
  BY <1>1, <1>6 DEF Locking, Lock, Relock, AddLock, Take, list
<1>7. ASSUME NEW w \in Workers, Job(w) \/ WakeAnyway(w) PROVE CounterMatchesQueue'
  BY <1>1, <1>2, <1>7 DEF Job, WakeAnyway, FindNothing, Sleep, Exit, Finish, list, sync
<1>8. ASSUME NEW a \in Adders, AddAlloc(a) \/ Adding(a) PROVE CounterMatchesQueue'
  BY <1>1, <1>3, <1>8 DEF Adding, AddAlloc, AddSignal, list, sync
<1>9. ASSUME NEW d \in Destroyers, DesCheck(d) \/ Destroying(d) PROVE CounterMatchesQueue'
  BY <1>1, <1>4, <1>9 DEF Destroying, DesCheck, DesSet, DesBroadcast, list, sync
<1> QED BY <1>5, <1>6, <1>7, <1>8, <1>9 DEF Next

(* curWaitThreadNum is the length of the list modulo its width for as long   *)
(* as the pool exists, whoever adds and takes (lines 93-97, 189-195).        *)
THEOREM CounterCorrect == Spec => []CounterMatchesQueue
<1>1. Init => CounterMatchesQueue
  BY EmptySeq, PthreadAssumption DEF Init, CounterMatchesQueue
<1> QED BY <1>1, CountStep, TypeCorrect, PTL DEF Spec
-----------------------------------------------------------------------------
(* A worker that is about to wait has seen the counter at 0 under the lock   *)
(* it still holds.                                                           *)
SleepInv == \A w \in Workers : pc[w] = "sleep" => cur = 0

WakeInv == SleepInv /\ NoLostWakeup

(* A step that does not touch the list leaves the workers that wait, at most *)
(* wakes some, and takes no signal away.                                     *)
LEMMA NoSleeper ==
    ASSUME TypeOK, WakeInv, NEW t \in Thread, NEW l \in Places \ {"sleep"}, GoTo(t, l),
           UNCHANGED list, queueReady' \subseteq queueReady, pc[t] # "addSignal"
    PROVE  WakeInv'
<1>1. pc'[t] = l /\ \A u \in Thread \ {t} : pc'[u] = pc[u] BY GoToFacts
<1>2. SleepInv' BY <1>1, ThreadSets DEF WakeInv, SleepInv, list
<1>3. NoLostWakeup'
  <2> SUFFICES ASSUME queue # << >>, cur = Len(queue), queueReady' = Workers
               PROVE  \E a \in Adders : pc'[a] = "addSignal"
    BY DEF NoLostWakeup, list
  <2>1. queueReady = Workers BY DEF TypeOK
  <2>2. PICK a \in Adders : pc[a] = "addSignal" BY <2>1 DEF WakeInv, NoLostWakeup
  <2> QED BY <1>1, <2>2, ThreadSets
<1> QED BY <1>2, <1>3 DEF WakeInv

LEMMA WakeStep ==
    ASSUME Workers # {}
    PROVE  TypeOK /\ LockHeldInside /\ WakeInv /\ [Next]_vars => WakeInv'
<1> SUFFICES ASSUME TypeOK, LockHeldInside, WakeInv, [Next]_vars PROVE WakeInv'
  OBVIOUS
<1> USE ThreadSets DEF At
<1>1. CASE UNCHANGED vars
  BY <1>1 DEF WakeInv, SleepInv, NoLostWakeup, vars, sync, list
<1>2. ASSUME NEW w \in Workers, Job(w) \/ Lock(w) \/ Relock(w) \/ WakeAnyway(w)
      PROVE  WakeInv'
  <2>1. CASE Lock(w) BY <2>1, NoSleeper DEF Lock, Places, InLock
  <2>2. CASE Relock(w) BY <2>2, NoSleeper DEF Relock, Places, InLock
  <2>3. CASE WakeAnyway(w)
    <3>1. SleepInv' BY <2>3 DEF WakeAnyway, WakeInv, SleepInv, list
    <3>2. queueReady' # Workers BY <2>3 DEF WakeAnyway
    <3> QED BY <3>1, <3>2 DEF WakeInv, NoLostWakeup
  <2>4. CASE FindNothing(w)
    <3>1. pc'[w] = "sleep" /\ \A u \in Thread \ {w} : pc'[u] = pc[u]
      BY <2>4, GoToFacts DEF FindNothing, Places, InLock
    <3>2. cur' = 0 /\ UNCHANGED << queue, cur, queueReady >> BY <2>4 DEF FindNothing, list, sync
    <3>3. SleepInv' BY <3>2 DEF SleepInv
    <3>4. pc[w] # "addSignal" BY <2>4 DEF FindNothing
    <3>5. NoLostWakeup' BY <3>1, <3>2, <3>4 DEF WakeInv, NoLostWakeup
    <3> QED BY <3>3, <3>5 DEF WakeInv
  <2>5. CASE Sleep(w)
    <3>1. cur = 0 /\ UNCHANGED << queue, cur >>
      BY <2>5 DEF Sleep, WakeInv, SleepInv, list
    <3>2. SleepInv' BY <3>1 DEF SleepInv
    <3>3. Len(queue) = 0 => queue = << >> BY EmptySeq DEF TypeOK
    <3>4. NoLostWakeup' BY <3>1, <3>3 DEF NoLostWakeup
    <3> QED BY <3>2, <3>4 DEF WakeInv
  <2>6. CASE Exit(w) BY <2>6, NoSleeper DEF Exit, Places, InLock
  <2>7. CASE Dequeue(w)
    <3>1. pc'[w] = "run" /\ \A u \in Thread \ {w} : pc'[u] = pc[u]
      BY <2>7, GoToFacts DEF Dequeue, Places
    <3>2. pc[w] = "check" /\ UNCHANGED queueReady BY <2>7 DEF Dequeue
    <3>3. \A u \in Workers : pc[u] # "sleep" BY <3>2, Alone DEF InLock
    <3>4. SleepInv' BY <3>1, <3>3 DEF SleepInv
    <3>5. queueReady' # Workers BY <3>2 DEF TypeOK
    <3> QED BY <3>4, <3>5 DEF WakeInv, NoLostWakeup
  <2>8. CASE Finish(w) BY <2>8, NoSleeper DEF Finish, Places, InLock, sync
  <2> QED BY <1>2, <2>1, <2>2, <2>3, <2>4, <2>5, <2>6, <2>7, <2>8 DEF Job
<1>3. ASSUME NEW a \in Adders, AddAlloc(a) \/ AddLock(a) \/ Adding(a)
      PROVE  WakeInv'
  <2>0. Home(a) \in {"run", "idle"} BY HomeFacts
  <2>1. CASE AddAlloc(a) BY <2>0, <2>1, NoSleeper DEF AddAlloc, Places, InLock, sync
  <2>2. CASE AddLock(a) BY <2>2, NoSleeper DEF AddLock, Places, InLock
  <2>3. CASE AddLink(a)
    <3>1. pc'[a] = "addSignal" /\ \A u \in Thread \ {a} : pc'[u] = pc[u]
      BY <2>3, GoToFacts DEF AddLink, Places
    <3>2. \A u \in Workers : pc[u] # "sleep" BY <2>3, Alone DEF AddLink, InLock
    <3>3. SleepInv' BY <3>1, <3>2 DEF SleepInv
    <3>4. NoLostWakeup' BY <3>1 DEF NoLostWakeup
    <3> QED BY <3>3, <3>4 DEF WakeInv
  <2>4. CASE AddSignal(a)
    <3>1. pc'[a] = Home(a) /\ \A u \in Thread \ {a} : pc'[u] = pc[u]
      BY <2>0, <2>4, GoToFacts DEF AddSignal, Places
    <3>2. SleepInv' BY <2>0, <2>4, <3>1 DEF AddSignal, WakeInv, SleepInv, list
    <3>3. queueReady' # Workers BY <2>4 DEF AddSignal, TypeOK
    <3> QED BY <3>2, <3>3 DEF WakeInv, NoLostWakeup
  <2> QED BY <1>3, <2>1, <2>2, <2>3, <2>4 DEF Adding
<1>4. ASSUME NEW d \in Destroyers, DesCheck(d) \/ Destroying(d)
      PROVE  WakeInv'
  <2>1. CASE DesCheck(d) BY <2>1, NoSleeper DEF DesCheck, Places, InLock, sync
  <2>2. CASE DesSet(d) BY <2>2, NoSleeper DEF DesSet, Places, InLock
  <2>3. CASE DesBroadcast(d) BY <2>3, NoSleeper DEF DesBroadcast, Places, InLock
  <2>4. CASE DesFree(d)
    <3>1. pc'[d] = "gone" /\ \A u \in Thread \ {d} : pc'[u] = pc[u]
      BY <2>4, GoToFacts DEF DesFree, Places
    <3>2. SleepInv' BY <2>4, <3>1 DEF DesFree, WakeInv, SleepInv
    <3>3. NoLostWakeup' BY <2>4 DEF DesFree, NoLostWakeup
    <3> QED BY <3>2, <3>3 DEF WakeInv
  <2> QED BY <1>4, <2>1, <2>2, <2>3, <2>4 DEF Destroying
<1> QED BY <1>1, <1>2, <1>3, <1>4 DEF Next, Locking

(* No wakeup is lost in a pool with workers: while tasks wait and all        *)
(* workers wait on the condition, an addTask is about to signal, although    *)
(* it signals after the unlock and workers take tasks that were signalled    *)
(* to others (lines 98-100, 181-184).                                        *)
THEOREM NoWakeupLost == ASSUME Workers # {} PROVE Spec => []NoLostWakeup
<1>1. Init => WakeInv BY DEF Init, WakeInv, SleepInv, NoLostWakeup
<1>2. TypeOK /\ LockHeldInside /\ WakeInv /\ [Next]_vars => WakeInv' BY WakeStep
<1>3. WakeInv => NoLostWakeup BY DEF WakeInv
<1> QED BY <1>1, <1>2, <1>3, TypeCorrect, LockCorrect, PTL DEF Spec
-----------------------------------------------------------------------------
(* Every task that was allocated and not finished is in one place: the       *)
(* newtask of one addTask, one position of the list, or one worker.          *)
HoldsNew(t) == pc[t] \in {"addLock", "addLink"}
Executes(w) == pc[w] \in {"run", "addLock", "addLink", "addSignal"}

TaskTypes ==
    /\ allocated \in 0 .. MaxTasks
    /\ \A a \in Adders : newtask[a] \in 0 .. allocated /\ (newtask[a] # 0 <=> HoldsNew(a))
    /\ \A w \in Workers : running[w] \in 0 .. allocated /\ (running[w] # 0 <=> Executes(w))
    /\ \A i \in 1 .. Len(queue) : queue[i] \in 1 .. allocated

OnePlace ==
    /\ \A a, b \in Adders : newtask[a] # 0 /\ newtask[a] = newtask[b] => a = b
    /\ \A v, w \in Workers : running[v] # 0 /\ running[v] = running[w] => v = w
    /\ \A i, j \in 1 .. Len(queue) : queue[i] = queue[j] => i = j
    /\ \A a \in Adders, w \in Workers : newtask[a] # 0 => newtask[a] # running[w]
    /\ \A a \in Adders, i \in 1 .. Len(queue) : newtask[a] # queue[i]
    /\ \A w \in Workers, i \in 1 .. Len(queue) : running[w] # queue[i]

TaskInv == TaskTypes /\ OnePlace

(* A step that moves no task. *)
LEMMA TasksStay ==
    ASSUME TypeOK, TaskInv, NEW t \in Thread, NEW l \in Places, GoTo(t, l),
           UNCHANGED << queue, tasks >>,
           t \in Adders => (l \in {"addLock", "addLink"} <=> HoldsNew(t)),
           t \in Workers => (l \in {"run", "addLock", "addLink", "addSignal"} <=> Executes(t))
    PROVE  TaskInv'
<1>1. pc'[t] = l /\ \A u \in Thread \ {t} : pc'[u] = pc[u] BY GoToFacts
<1>2. TaskTypes' BY <1>1, ThreadSets DEF TaskInv, TaskTypes, HoldsNew, Executes, tasks
<1>3. OnePlace' BY DEF TaskInv, OnePlace, tasks
<1> QED BY <1>2, <1>3 DEF TaskInv

LEMMA AllocStep ==
    ASSUME TypeOK, TaskInv, NEW a \in Adders, AddAlloc(a)
    PROVE  TaskInv'
<1> USE ThreadSets
<1>1. pc'[a] = "addLock" /\ \A u \in Thread \ {a} : pc'[u] = pc[u]
  BY GoToFacts DEF AddAlloc, Places
<1>2. /\ allocated' = allocated + 1 /\ allocated' \in 0 .. MaxTasks
      /\ newtask' = [newtask EXCEPT ![a] = allocated + 1] /\ newtask \in [Adders -> Nat]
      /\ UNCHANGED << queue, running >>
  BY PthreadAssumption DEF AddAlloc, TypeOK, sync, list, TaskInv, TaskTypes
<1>3. a \in Workers => (Executes(a) /\ Executes(a)')
  BY <1>1, HomeFacts DEF AddAlloc, At, Executes
<1>4. TaskTypes'
  <2>1. ASSUME NEW b \in Adders
        PROVE  newtask'[b] \in 0 .. allocated' /\ (newtask'[b] # 0 <=> HoldsNew(b)')
    BY <1>1, <1>2 DEF TaskInv, TaskTypes, HoldsNew
  <2>2. ASSUME NEW w \in Workers
        PROVE  running'[w] \in 0 .. allocated' /\ (running'[w] # 0 <=> Executes(w)')
    BY <1>1, <1>2, <1>3 DEF TaskInv, TaskTypes, Executes
  <2>3. \A i \in 1 .. Len(queue') : queue'[i] \in 1 .. allocated'
    BY <1>2 DEF TaskInv, TaskTypes
  <2> QED BY <1>2, <2>1, <2>2, <2>3 DEF TaskTypes
<1>5. OnePlace' BY <1>2 DEF TaskInv, TaskTypes, OnePlace
<1> QED BY <1>4, <1>5 DEF TaskInv

LEMMA LinkStep ==
    ASSUME TypeOK, TaskInv, NEW a \in Adders, AddLink(a)
    PROVE  TaskInv'
<1> USE ThreadSets
<1>1. pc'[a] = "addSignal" /\ \A u \in Thread \ {a} : pc'[u] = pc[u]
  BY GoToFacts DEF AddLink, Places
<1>2. /\ newtask' = [newtask EXCEPT ![a] = 0] /\ newtask \in [Adders -> Nat]
      /\ UNCHANGED << running, allocated >>
  BY DEF AddLink, TypeOK, NoTask
<1>3. /\ Len(queue') = Len(queue) + 1 /\ Len(queue) \in Nat
      /\ \A i \in 1 .. Len(queue) : queue'[i] = queue[i]
      /\ queue'[Len(queue) + 1] = newtask[a]
  BY AppendProperties, LenProperties DEF AddLink, TypeOK
<1>4. newtask[a] \in 1 .. allocated BY DEF AddLink, At, TaskInv, TaskTypes, HoldsNew
<1>5. TaskTypes'
  <2>1. ASSUME NEW b \in Adders
        PROVE  newtask'[b] \in 0 .. allocated' /\ (newtask'[b] # 0 <=> HoldsNew(b)')
    BY <1>1, <1>2 DEF TaskInv, TaskTypes, HoldsNew
  <2>2. ASSUME NEW w \in Workers
        PROVE  running'[w] \in 0 .. allocated' /\ (running'[w] # 0 <=> Executes(w)')
    BY <1>1, <1>2 DEF TaskInv, TaskTypes, Executes, AddLink, At
  <2>3. \A i \in 1 .. Len(queue') : queue'[i] \in 1 .. allocated'
    BY <1>2, <1>3, <1>4 DEF TaskInv, TaskTypes
  <2> QED BY <1>2, <2>1, <2>2, <2>3 DEF TaskInv, TaskTypes
<1>6. OnePlace'
  <2>1. \A b, c \in Adders : newtask'[b] # 0 /\ newtask'[b] = newtask'[c] => b = c
    BY <1>2 DEF TaskInv, OnePlace
  <2>2. \A i, j \in 1 .. Len(queue') : queue'[i] = queue'[j] => i = j
    BY <1>3 DEF TaskInv, OnePlace
  <2>3. \A b \in Adders, i \in 1 .. Len(queue') : newtask'[b] # queue'[i]
    BY <1>2, <1>3, <1>4 DEF TaskInv, TaskTypes, OnePlace
  <2>4. \A w \in Workers, i \in 1 .. Len(queue') : running'[w] # queue'[i]
    BY <1>2, <1>3, <1>4 DEF TaskInv, OnePlace
  <2>5. \A b \in Adders, w \in Workers : newtask'[b] # 0 => newtask'[b] # running'[w]
    BY <1>2 DEF TaskInv, OnePlace
  <2> QED BY <1>2, <2>1, <2>2, <2>3, <2>4, <2>5 DEF TaskInv, OnePlace
<1> QED BY <1>5, <1>6 DEF TaskInv

LEMMA DequeueStep ==
    ASSUME TypeOK, TaskInv, NEW w \in Workers, Dequeue(w)
    PROVE  TaskInv'
<1> USE ThreadSets
<1>1. pc'[w] = "run" /\ \A u \in Thread \ {w} : pc'[u] = pc[u]
  BY GoToFacts DEF Dequeue, Places
<1>2. /\ running' = [running EXCEPT ![w] = queue[1]] /\ running \in [Workers -> Nat]
      /\ UNCHANGED << newtask, allocated >>
  BY DEF Dequeue, TypeOK
<1>3. /\ Len(queue) \in Nat \ {0} /\ Len(queue') = Len(queue) - 1
      /\ \A i \in 1 .. Len(queue') : queue'[i] = queue[i + 1]
  BY EmptySeq, HeadTailProperties DEF Dequeue, TypeOK
<1>4. queue[1] \in 1 .. allocated BY <1>3 DEF TaskInv, TaskTypes
<1>5. TaskTypes'
  <2>1. ASSUME NEW b \in Adders
        PROVE  newtask'[b] \in 0 .. allocated' /\ (newtask'[b] # 0 <=> HoldsNew(b)')
    BY <1>1, <1>2 DEF TaskInv, TaskTypes, HoldsNew, Dequeue, At
  <2>2. ASSUME NEW v \in Workers
        PROVE  running'[v] \in 0 .. allocated' /\ (running'[v] # 0 <=> Executes(v)')
    BY <1>1, <1>2, <1>4 DEF TaskInv, TaskTypes, Executes
  <2>3. \A i \in 1 .. Len(queue') : queue'[i] \in 1 .. allocated'
    BY <1>2, <1>3 DEF TaskInv, TaskTypes
  <2> QED BY <1>2, <2>1, <2>2, <2>3 DEF TaskInv, TaskTypes
<1>6. OnePlace'
  <2>1. \A u, v \in Workers : running'[u] # 0 /\ running'[u] = running'[v] => u = v
    BY <1>2, <1>3 DEF TaskInv, OnePlace
  <2>2. \A i, j \in 1 .. Len(queue') : queue'[i] = queue'[j] => i = j
    BY <1>3 DEF TaskInv, OnePlace
  <2>3. \A b \in Adders, i \in 1 .. Len(queue') : newtask'[b] # queue'[i]
    BY <1>2, <1>3 DEF TaskInv, OnePlace
  <2>4. \A v \in Workers, i \in 1 .. Len(queue') : running'[v] # queue'[i]
    BY <1>2, <1>3 DEF TaskInv, OnePlace
  <2>5. \A b \in Adders, v \in Workers : newtask'[b] # 0 => newtask'[b] # running'[v]
    BY <1>2, <1>3 DEF TaskInv, OnePlace
  <2> QED BY <1>2, <2>1, <2>2, <2>3, <2>4, <2>5 DEF TaskInv, OnePlace
<1> QED BY <1>5, <1>6 DEF TaskInv

LEMMA FinishStep ==
    ASSUME TypeOK, TaskInv, NEW w \in Workers, Finish(w)
    PROVE  TaskInv'
<1> USE ThreadSets
<1>1. pc'[w] = "lock" /\ \A u \in Thread \ {w} : pc'[u] = pc[u]
  BY GoToFacts DEF Finish, Places
<1>2. /\ running' = [running EXCEPT ![w] = 0] /\ running \in [Workers -> Nat]
      /\ UNCHANGED << queue, newtask, allocated >> /\ pc[w] = "run"
  BY DEF Finish, TypeOK, At, NoTask, list
<1>3. TaskTypes' BY <1>1, <1>2 DEF TaskInv, TaskTypes, HoldsNew, Executes
<1>4. OnePlace' BY <1>2 DEF TaskInv, TaskTypes, OnePlace
<1> QED BY <1>3, <1>4 DEF TaskInv

LEMMA TaskStep == TypeOK /\ TaskInv /\ [Next]_vars => TaskInv'
<1> SUFFICES ASSUME TypeOK, TaskInv, [Next]_vars PROVE TaskInv'
  OBVIOUS
<1> USE ThreadSets DEF At
<1>1. CASE UNCHANGED vars
  BY <1>1 DEF TaskInv, TaskTypes, OnePlace, HoldsNew, Executes, vars, list, tasks
<1>2. ASSUME NEW w \in Workers, Job(w) \/ Lock(w) \/ Relock(w) \/ WakeAnyway(w)
      PROVE  TaskInv'
  <2> USE DEF Places, InLock, HoldsNew, Executes, list
  <2>1. CASE Lock(w) BY <2>1, TasksStay DEF Lock
  <2>2. CASE Relock(w) BY <2>2, TasksStay DEF Relock
  <2>3. CASE WakeAnyway(w)
    BY <2>3 DEF WakeAnyway, TaskInv, TaskTypes, OnePlace, tasks
  <2>4. CASE FindNothing(w) BY <2>4, TasksStay DEF FindNothing
  <2>5. CASE Sleep(w) BY <2>5, TasksStay DEF Sleep
  <2>6. CASE Exit(w) BY <2>6, TasksStay DEF Exit
  <2>7. CASE Dequeue(w) BY <2>7, DequeueStep
  <2>8. CASE Finish(w) BY <2>8, FinishStep
  <2> QED BY <1>2, <2>1, <2>2, <2>3, <2>4, <2>5, <2>6, <2>7, <2>8 DEF Job
<1>3. ASSUME NEW a \in Adders, AddAlloc(a) \/ AddLock(a) \/ Adding(a)
      PROVE  TaskInv'
  <2> USE DEF Places, InLock, HoldsNew, Executes, list
  <2>0. Home(a) \in {"run", "idle"} /\ (a \in Workers => Home(a) = "run") BY HomeFacts
  <2>1. CASE AddAlloc(a) BY <2>1, AllocStep
  <2>2. CASE AddLock(a) BY <2>2, TasksStay DEF AddLock
  <2>3. CASE AddLink(a) BY <2>3, LinkStep
  <2>4. CASE AddSignal(a) BY <2>0, <2>4, TasksStay DEF AddSignal
  <2> QED BY <1>3, <2>1, <2>2, <2>3, <2>4 DEF Adding
<1>4. ASSUME NEW d \in Destroyers, DesCheck(d) \/ Destroying(d)
      PROVE  TaskInv'
  <2> USE PthreadAssumption DEF Places, InLock, HoldsNew, Executes, list
  <2>1. CASE DesCheck(d) BY <2>1, TasksStay DEF DesCheck
  <2>2. CASE DesSet(d) BY <2>2, TasksStay DEF DesSet
  <2>3. CASE DesBroadcast(d) BY <2>3, TasksStay DEF DesBroadcast
  <2>4. CASE DesFree(d)
    <3>1. pc'[d] = "gone" /\ pc[d] = "desJoin" /\ \A u \in Thread \ {d} : pc'[u] = pc[u]
      BY <2>4, GoToFacts DEF DesFree
    <3>2. queue' = << >> /\ UNCHANGED << newtask, running, allocated >>
      BY <2>4 DEF DesFree, tasks
    <3>3. 1 .. Len(queue') = {} BY <3>2, EmptySeq
    <3>4. TaskTypes' BY <3>1, <3>2, <3>3 DEF TaskInv, TaskTypes
    <3>5. OnePlace' BY <3>2, <3>3 DEF TaskInv, OnePlace
    <3> QED BY <3>4, <3>5 DEF TaskInv
  <2> QED BY <1>4, <2>1, <2>2, <2>3, <2>4 DEF Destroying
<1> QED BY <1>1, <1>2, <1>3, <1>4 DEF Next, Locking

LEMMA TaskInit == Init => TaskInv
<1> SUFFICES ASSUME Init PROVE TaskInv OBVIOUS
<1>1. 1 .. Len(queue) = {} BY EmptySeq DEF Init
<1>2. TaskTypes
  BY <1>1, ThreadSets, PthreadAssumption DEF Init, TaskTypes, HoldsNew, Executes, NoTask
<1>3. OnePlace BY <1>1 DEF Init, OnePlace, NoTask
<1> QED BY <1>2, <1>3 DEF TaskInv

LEMMA TaskInvariant == Spec => [](TypeOK /\ TaskInv)
<1> QED BY TaskInit, TaskStep, TypeCorrect, PTL DEF Spec
-----------------------------------------------------------------------------
(* The refinement mapping. *)
submittedBar == (1 .. allocated) \ {newtask[a] : a \in Adders}
runningBar == {running[w] : w \in Workers} \ {NoTask}

(* A step that moves no task is a stutter of the promised pool. *)
LEMMA StutterStep ==
    ASSUME UNCHANGED << queue, tasks >>
    PROVE  UNCHANGED Promise!vars
BY DEF Promise!vars, tasks

LEMMA AllocRefines ==
    ASSUME TypeOK, TaskInv, NEW a \in Adders, AddAlloc(a)
    PROVE  UNCHANGED Promise!vars
<1>1. /\ allocated' = allocated + 1 /\ allocated \in Nat
      /\ newtask' = [newtask EXCEPT ![a] = allocated + 1] /\ newtask \in [Adders -> Nat]
      /\ UNCHANGED << queue, running >>
  BY DEF AddAlloc, TypeOK, sync, list
<1>2. newtask[a] = 0
  BY HomeFacts, ThreadSets DEF AddAlloc, At, TaskInv, TaskTypes, HoldsNew
<1>3. submittedBar' = submittedBar
  <2>1. ASSUME NEW k \in Nat PROVE k \in submittedBar' <=> k \in submittedBar
    <3>1. k \in submittedBar <=> (k \in 1 .. allocated /\ \A b \in Adders : newtask[b] # k)
      BY DEF submittedBar
    <3>2. k \in submittedBar' <=> (k \in 1 .. allocated' /\ \A b \in Adders : newtask'[b] # k)
      BY DEF submittedBar
    <3> QED BY <1>1, <1>2, <3>1, <3>2
  <2>2. submittedBar \subseteq Nat /\ submittedBar' \subseteq Nat BY DEF submittedBar
  <2> QED BY <2>1, <2>2
<1> QED BY <1>1, <1>3 DEF Promise!vars, submittedBar

(* addTask submits its task when it links it. *)
LEMMA LinkRefines ==
    ASSUME TypeOK, TaskInv, NEW a \in Adders, AddLink(a)
    PROVE  \E k \in Task : Promise!Submit(k)
<1>1. /\ newtask' = [newtask EXCEPT ![a] = 0] /\ newtask \in [Adders -> Nat]
      /\ queue' = Append(queue, newtask[a])
      /\ UNCHANGED << running, allocated >>
  BY DEF AddLink, TypeOK, NoTask
<1>2. newtask[a] \in 1 .. allocated
  BY ThreadSets DEF AddLink, At, TaskInv, TaskTypes, HoldsNew
<1>3. newtask[a] \in Task BY <1>2, PthreadAssumption DEF TaskInv, TaskTypes, Task
<1>4. newtask[a] \notin submittedBar BY DEF submittedBar
<1>5. submittedBar' = submittedBar \cup {newtask[a]}
  <2>1. ASSUME NEW k \in Nat
        PROVE  k \in submittedBar' <=> k \in submittedBar \/ k = newtask[a]
    <3>1. k \in submittedBar <=> (k \in 1 .. allocated /\ \A b \in Adders : newtask[b] # k)
      BY DEF submittedBar
    <3>2. k \in submittedBar' <=> (k \in 1 .. allocated /\ \A b \in Adders : newtask'[b] # k)
      BY <1>1 DEF submittedBar
    <3>3. \A b \in Adders \ {a} : newtask[b] # newtask[a] BY <1>2 DEF TaskInv, OnePlace
    <3> QED BY <1>1, <1>2, <3>1, <3>2, <3>3
  <2>2. submittedBar \subseteq Nat /\ submittedBar' \subseteq Nat BY DEF submittedBar
  <2>3. newtask[a] \in Nat BY DEF TypeOK
  <2> QED BY <2>1, <2>2, <2>3
<1> QED BY <1>1, <1>3, <1>4, <1>5 DEF Promise!Submit, submittedBar

(* A worker that dequeues starts the oldest task, ... *)
LEMMA DequeueRefines ==
    ASSUME TypeOK, TaskInv, NEW w \in Workers, Dequeue(w)
    PROVE  Promise!Start
<1>1. /\ running' = [running EXCEPT ![w] = Head(queue)] /\ running \in [Workers -> Nat]
      /\ queue # << >> /\ queue' = Tail(queue)
      /\ UNCHANGED << newtask, allocated >>
  BY DEF Dequeue, TypeOK
<1>2. running[w] = 0
  BY ThreadSets DEF Dequeue, At, TaskInv, TaskTypes, Executes
<1>3. Head(queue) = queue[1] /\ Len(queue) \in Nat \ {0} BY <1>1, EmptySeq DEF TypeOK
<1>4. Head(queue) \in Nat \ {0} BY <1>3 DEF TaskInv, TaskTypes
<1>5. runningBar' = runningBar \cup {Head(queue)} BY <1>1, <1>2, <1>4 DEF runningBar, NoTask
<1> QED BY <1>1, <1>5 DEF Promise!Start, runningBar

(* ... and finishes it once. *)
LEMMA FinishRefines ==
    ASSUME TypeOK, TaskInv, NEW w \in Workers, Finish(w)
    PROVE  \E k \in Task : Promise!Finish(k)
<1>1. /\ running' = [running EXCEPT ![w] = 0] /\ running \in [Workers -> Nat]
      /\ UNCHANGED << queue, newtask, allocated >>
  BY DEF Finish, TypeOK, NoTask, list
<1>2. running[w] \in 1 .. allocated
  BY ThreadSets DEF Finish, At, TaskInv, TaskTypes, Executes
<1>3. running[w] \in Task BY <1>2, PthreadAssumption DEF TaskInv, TaskTypes, Task
<1>4. running[w] \in runningBar BY <1>2 DEF runningBar, NoTask
<1>5. \A v \in Workers \ {w} : running[v] # running[w] BY <1>2 DEF TaskInv, OnePlace
<1>6. runningBar' = runningBar \ {running[w]} BY <1>1, <1>2, <1>5 DEF runningBar, NoTask
<1> QED BY <1>1, <1>3, <1>4, <1>6 DEF Promise!Finish, runningBar

(* What still waits when destroy frees the pool is thrown away. *)
LEMMA FreeRefines ==
    ASSUME NEW d \in Destroyers, DesFree(d)
    PROVE  Promise!Discard \/ UNCHANGED Promise!vars
BY DEF DesFree, Promise!Discard, Promise!vars, tasks

LEMMA StepRefines == TypeOK /\ TaskInv /\ [Next]_vars => [Promise!Next]_(Promise!vars)
<1> SUFFICES ASSUME TypeOK, TaskInv, [Next]_vars
             PROVE  Promise!Next \/ UNCHANGED Promise!vars
  OBVIOUS
<1>1. CASE UNCHANGED vars BY <1>1, StutterStep DEF vars, list
<1>2. ASSUME NEW t \in Thread, Locking(t) PROVE UNCHANGED Promise!vars
  BY <1>2, StutterStep DEF Locking, Lock, Relock, AddLock, list
<1>3. ASSUME NEW w \in Workers, Job(w) \/ WakeAnyway(w)
      PROVE  Promise!Next \/ UNCHANGED Promise!vars
  <2>1. CASE Dequeue(w) BY <2>1, DequeueRefines DEF Promise!Next
  <2>2. CASE Finish(w) BY <2>2, FinishRefines DEF Promise!Next
  <2>3. CASE FindNothing(w) \/ Sleep(w) \/ Exit(w) \/ WakeAnyway(w)
    BY <2>3, StutterStep DEF FindNothing, Sleep, Exit, WakeAnyway, list
  <2> QED BY <1>3, <2>1, <2>2, <2>3 DEF Job
<1>4. ASSUME NEW a \in Adders, AddAlloc(a) \/ Adding(a)
      PROVE  Promise!Next \/ UNCHANGED Promise!vars
  <2>1. CASE AddAlloc(a) BY <2>1, AllocRefines
  <2>2. CASE AddLink(a) BY <2>2, LinkRefines DEF Promise!Next
  <2>3. CASE AddSignal(a) BY <2>3, StutterStep DEF AddSignal, list
  <2> QED BY <1>4, <2>1, <2>2, <2>3 DEF Adding
<1>5. ASSUME NEW d \in Destroyers, DesCheck(d) \/ Destroying(d)
      PROVE  Promise!Next \/ UNCHANGED Promise!vars
  <2>1. CASE DesFree(d) BY <2>1, FreeRefines DEF Promise!Next
  <2>2. CASE DesCheck(d) \/ DesSet(d) \/ DesBroadcast(d)
    BY <2>2, StutterStep DEF DesCheck, DesSet, DesBroadcast, list
  <2> QED BY <1>5, <2>1, <2>2 DEF Destroying
<1> QED BY <1>1, <1>2, <1>3, <1>4, <1>5 DEF Next

(* The POSIX pool keeps the promises of TaskPool: a task is started at most  *)
(* once and in the order of submission, by whichever worker, and none is     *)
(* dropped before destroy has joined the workers (lines 84-98, 189-201).     *)
THEOREM PromiseKept == Spec => PromiseSafety
<1>1. Init => Promise!Init BY PthreadAssumption DEF Init, Promise!Init, NoTask
<1> QED BY <1>1, StepRefines, TaskInvariant, PTL DEF Spec, PromiseSafety, Promise!Spec
-----------------------------------------------------------------------------
(* No task block is ever with two workers, nor twice in the list, nor both:   *)
(* so each is run and freed at most once, which happens without queueLock     *)
(* (pthread_pool.c:193-199).                                               *)
THEOREM TasksAreApart == Spec => []NoTaskTwice
<1>1. TypeOK /\ TaskInv => NoTaskTwice
  <2> SUFFICES ASSUME TypeOK, TaskTypes, OnePlace PROVE NoTaskTwice BY DEF TaskInv
  <2>1. queue \in Seq(Nat) /\ DOMAIN queue = 1 .. Len(queue) BY DEF TypeOK
  <2>2. ToSet(queue) = {queue[i] : i \in 1 .. Len(queue)} BY <2>1 DEF ToSet
  <2>3. IsInjective(queue) BY <2>1 DEF OnePlace, IsInjective
  <2>4. \A w \in Workers : running[w] \notin ToSet(queue) BY <2>2 DEF OnePlace
  <2>5. \A a \in Adders : newtask[a] \notin ToSet(queue) BY <2>2 DEF OnePlace
  <2> QED BY <2>3, <2>4, <2>5 DEF OnePlace, NoTaskTwice, NoTask
<1> QED BY <1>1, TaskInvariant, PTL
=============================================================================
