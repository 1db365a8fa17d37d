--------------------------- MODULE RttPoolProofs ---------------------------
(***************************************************************************)
(* The pool's types, the mutual exclusion of queueLock, the agreement of   *)
(* curWaitThreadNum with the list, the absence of lost wakeups and the     *)
(* promises of TaskPool, for any sets of workers and clients, any counter  *)
(* width and any number of tasks.                                          *)
(*                                                                         *)
(* MutualExclusion is not inductive: it does not say who owns the mutex.   *)
(* LockOwned does; it survives the hand-off because whoever leaves the     *)
(* waiting list has just become the owner.  CounterMatchesQueue needs, at  *)
(* the second half of a delAll iteration, that the list is still not       *)
(* empty (DelNextInv), which mutual exclusion gives because a thread that  *)
(* waits for queueLock is at one of the places that follow a take          *)
(* (WaitingInv), never in the middle of delAll's loop.                     *)
(*                                                                         *)
(* NoLostWakeup looks at the workers that sleep.  WakeupComes also counts  *)
(* those about to, for whom a token in the semaphore is as good as a       *)
(* signal to come.  It rests on SleepersInv (nobody sleeps twice, nor      *)
(* while there is a token) and on DrainInv (a token is taken under the     *)
(* lock only while the counter is 0).                                      *)
(* SuspendedHoldsNoLock is proved of pools with one worker, where it holds *)
(* because nobody else can empty the semaphore between the test and the    *)
(* take (AloneInv).  The refinement follows each task from place to place  *)
(* (TaskInv).                                                              *)
(***************************************************************************)
EXTENDS RttPool, RttIpcProofs

LockOwned ==
    ~deleted => \A t \in Thread :
        (pc[t] \in InLock /\ t \notin ToSet(queueLock.waiting)) => queueLock.owner = t

WaitingInv ==
    \A t \in Thread : t \in ToSet(queueLock.waiting)
                        => pc[t] \in {"check", "addLink", "delLoop", "dead"}

DeletedInv == \A t \in Thread : pc[t] \in {"desSem", "desFree", "gone"} => deleted

DelNextInv == ~deleted => \A t \in Thread : pc[t] = "delNext" => queue # << >>

-----------------------------------------------------------------------------
LEMMA ThreadSets ==
    /\ Workers \subseteq Thread /\ Adders \subseteq Thread
    /\ Deleters \subseteq Thread /\ Destroyers \subseteq Thread
BY DEF Thread, Clients

(* The counter stays within its width. *)
LEMMA CounterType ==
    ASSUME NEW n \in 0 .. CounterMod - 1
    PROVE  Inc(n) \in 0 .. CounterMod - 1 /\ Dec(n) \in 0 .. CounterMod - 1
BY PoolAssumption DEF Inc, Dec

(* Every step keeps every variable in its type. *)
LEMMA TypeStep == TypeOK /\ [Next]_vars => TypeOK'
<1> SUFFICES ASSUME TypeOK, [Next]_vars PROVE TypeOK'
  OBVIOUS
<1> USE ThreadSets
<1>1. CASE UNCHANGED vars
  BY <1>1 DEF TypeOK, vars, sync, list, tasks
<1>2. ASSUME NEW w \in Workers, Job(w) PROVE TypeOK'
  <2>0. /\ MutexTake(queueLock, w) \in Mutex(Thread)
        /\ MutexRelease(queueLock, w) \in Mutex(Thread)
        /\ SemTake(queueReady, w) \in Semaphore(Thread)
    BY MutexTakeFacts, MutexReleaseFacts, SemFacts DEF TypeOK
  <2>1. CASE Lock(w)
    BY <2>0, <2>1 DEF TypeOK, Lock, Take, GoTo, PcTypes, InLock, list, tasks
  <2>2. CASE Sleep(w)
    BY <2>0, <2>2 DEF TypeOK, Sleep, Release, GoTo, PcTypes, InLock, list, tasks
  <2>3. CASE SemWait(w)
    BY <2>0, <2>3 DEF TypeOK, SemWait, GoTo, PcTypes, InLock, list, tasks
  <2>4. CASE Relock(w)
    BY <2>0, <2>4 DEF TypeOK, Relock, Take, GoTo, PcTypes, InLock, list, tasks
  <2>5. CASE SeeValue(w)
    BY <2>5 DEF TypeOK, SeeValue, GoTo, PcTypes, InLock, sync, list, tasks
  <2>6. CASE Drain(w)
    BY <2>0, <2>6 DEF TypeOK, Drain, GoTo, PcTypes, InLock, list, tasks
  <2>7. CASE Exit(w)
    BY <2>0, <2>7 DEF TypeOK, Exit, Release, GoTo, PcTypes, InLock, list, tasks
  <2>8. CASE Dequeue(w)
    <3>1. Head(queue) \in Nat /\ Tail(queue) \in Seq(Nat)
      BY <2>8, TailSet DEF TypeOK, Dequeue
    <3>2. Dec(cur) \in 0 .. CounterMod - 1 BY CounterType DEF TypeOK
    <3> QED BY <2>0, <2>8, <3>1, <3>2 DEF TypeOK, Dequeue, Release, GoTo, PcTypes, InLock
  <2>9. CASE Finish(w)
    BY <2>9 DEF TypeOK, Finish, GoTo, PcTypes, InLock, sync, list, NoTask
  <2> QED BY <1>2, <2>1, <2>2, <2>3, <2>4, <2>5, <2>6, <2>7, <2>8, <2>9 DEF Job
<1>3. ASSUME NEW a \in Adders, AddAlloc(a) \/ Adding(a) PROVE TypeOK'
  <2>0. /\ MutexTake(queueLock, a) \in Mutex(Thread)
        /\ MutexRelease(queueLock, a) \in Mutex(Thread)
        /\ SemRelease(queueReady) \in Semaphore(Thread)
    BY MutexTakeFacts, MutexReleaseFacts, SemFacts DEF TypeOK
  <2>1. CASE AddAlloc(a)
    BY <2>1 DEF TypeOK, AddAlloc, GoTo, PcTypes, InLock, sync
  <2>2. CASE AddLock(a)
    BY <2>0, <2>2 DEF TypeOK, AddLock, Take, GoTo, PcTypes, InLock, list, tasks
  <2>3. CASE AddLink(a)
    <3>1. Append(queue, newtask[a]) \in Seq(Nat) BY AppendSet DEF TypeOK
    <3>2. Inc(cur) \in 0 .. CounterMod - 1 BY CounterType DEF TypeOK
    <3> QED BY <2>0, <2>3, <3>1, <3>2
        DEF TypeOK, AddLink, Release, GoTo, PcTypes, InLock, NoTask
  <2>4. CASE AddSignal(a)
    BY <2>0, <2>4 DEF TypeOK, AddSignal, Home, GoTo, PcTypes, InLock, list, tasks
  <2> QED BY <1>3, <2>1, <2>2, <2>3, <2>4 DEF Adding
<1>4. ASSUME NEW d \in Deleters, DelLock(d) \/ Deleting(d) PROVE TypeOK'
  <2>0. /\ MutexTake(queueLock, d) \in Mutex(Thread)
        /\ MutexRelease(queueLock, d) \in Mutex(Thread)
        /\ EmptySem \in Semaphore(Thread)
    BY MutexTakeFacts, MutexReleaseFacts, SemFacts DEF TypeOK
  <2>1. CASE DelLock(d)
    BY <2>0, <2>1 DEF TypeOK, DelLock, Take, GoTo, PcTypes, InLock, list, tasks
  <2>2. CASE DelFree(d)
    BY <2>2 DEF TypeOK, DelFree, GoTo, PcTypes, InLock, sync, tasks
  <2>3. CASE DelNext(d)
    <3>1. Tail(queue) \in Seq(Nat) BY <2>3, TailSet DEF TypeOK, DelNext
    <3>2. ToSet(Tail(queue)) \subseteq Nat
      BY <3>1, LenProperties, ElementOfSeq DEF ToSet
    <3>3. Dec(cur) \in 0 .. CounterMod - 1 BY CounterType DEF TypeOK
    <3>4. << >> \in Seq(Nat) BY EmptySeq
    <3> QED BY <2>3, <3>1, <3>2, <3>3, <3>4
        DEF TypeOK, DelNext, GoTo, PcTypes, InLock, sync, tasks
  <2>4. CASE DelReset(d)
    BY <2>0, <2>4 DEF TypeOK, DelReset, Release, GoTo, PcTypes, InLock, list, tasks
  <2> QED BY <1>4, <2>1, <2>2, <2>3, <2>4 DEF Deleting
<1>5. ASSUME NEW d \in Destroyers, DesCheck(d) \/ Destroying(d) PROVE TypeOK'
  <2>1. CASE DesCheck(d)
    BY <2>1 DEF TypeOK, DesCheck, GoTo, PcTypes, InLock, sync, list, tasks
  <2>2. CASE DesSet(d)
    BY <2>2 DEF TypeOK, DesSet, GoTo, PcTypes, InLock, list, tasks
  <2>3. ASSUME NEW w \in Workers, DesKill(d, w) PROVE TypeOK'
    <3>1. [queueReady EXCEPT !.waiting = Unlink(@, w)] \in Semaphore(Thread)
      BY SemFacts DEF TypeOK
    <3>2. [queueLock EXCEPT !.waiting = Unlink(@, w)] \in Mutex(Thread)
      <4>1. Unlink(queueLock.waiting, w) \in Seq(Thread)
        BY UnlinkSet DEF TypeOK, Mutex
      <4> QED BY <4>1 DEF TypeOK, Mutex
    <3> QED BY <2>3, <3>1, <3>2 DEF TypeOK, DesKill, GoTo, PcTypes, InLock, list, tasks
  <2>4. CASE DesKilled(d)
    BY <2>4 DEF TypeOK, DesKilled, GoTo, PcTypes, InLock, sync, list, tasks
  <2>5. CASE DesLock(d)
    <3>1. FreeMutex \in Mutex(Thread) BY EmptySeq DEF FreeMutex, Mutex
    <3> QED BY <2>5, <3>1 DEF TypeOK, DesLock, GoTo, PcTypes, InLock, list, tasks
  <2>6. CASE DesSem(d)
    <3>1. EmptySem \in Semaphore(Thread) BY EmptySeq DEF EmptySem, Semaphore
    <3> QED BY <2>6, <3>1 DEF TypeOK, DesSem, GoTo, PcTypes, InLock, list, tasks
  <2>7. CASE DesFree(d)
    <3>1. << >> \in Seq(Nat) BY EmptySeq
    <3> QED BY <2>7, <3>1 DEF TypeOK, DesFree, GoTo, PcTypes, InLock, sync, tasks
  <2> QED BY <1>5, <2>1, <2>2, <2>3, <2>4, <2>5, <2>6, <2>7 DEF Destroying
<1> QED BY <1>1, <1>2, <1>3, <1>4, <1>5 DEF Next

(* The type invariant: the cells of the pool, the kernel objects and the    *)
(* program counters never leave their types, whoever calls what and when.   *)
THEOREM TypeCorrect == Spec => []TypeOK
<1>1. Init => TypeOK
  <2>1. FreeMutex \in Mutex(Thread) /\ EmptySem \in Semaphore(Thread)
    BY EmptySeq DEF FreeMutex, Mutex, EmptySem, Semaphore
  <2>2. << >> \in Seq(Nat) BY EmptySeq
  <2>3. 0 \in 0 .. CounterMod - 1 BY PoolAssumption
  <2>4. Init => pc \in [Thread -> PcTypes] BY DEF Init, PcTypes
  <2>5. Init => isShutdown \in BOOLEAN /\ deleted \in BOOLEAN BY DEF Init
  <2>6. Init => newtask \in [Adders -> Nat] /\ running \in [Workers -> Nat]
    BY DEF Init, NoTask
  <2> QED BY <2>1, <2>2, <2>3, <2>4, <2>5, <2>6 DEF Init, TypeOK
<1>2. TypeOK /\ [Next]_vars => TypeOK' BY TypeStep
<1> QED BY <1>1, <1>2, PTL DEF Spec
-----------------------------------------------------------------------------
(* How the ownership and the waiting list of queueLock come through a take, *)
(* a release, a step that leaves the mutex alone, and the end of a thread.  *)
LockInv == LockOwned /\ WaitingInv

LEMMA TakeStep ==
    ASSUME TypeOK, LockInv, NEW t \in Thread, NEW l \in {"check", "addLink", "delLoop"},
           Take(t), GoTo(t, l), UNCHANGED deleted
    PROVE  LockInv'
<1>1. /\ t \in ToSet(queueLock'.waiting) \/ queueLock'.owner = t
      /\ queueLock.owner # NoThread => queueLock'.owner = queueLock.owner
      /\ \A u \in ToSet(queueLock.waiting) : u \in ToSet(queueLock'.waiting)
      /\ ToSet(queueLock'.waiting) \subseteq ToSet(queueLock.waiting) \cup {t}
  <2>1. queueLock \in Mutex(Thread) /\ queueLock' = MutexTake(queueLock, t)
    BY DEF TypeOK, Take
  <2> QED BY <2>1, MutexTakeFacts
<1>2. pc' = [pc EXCEPT ![t] = l] /\ pc \in [Thread -> PcTypes] BY DEF GoTo, TypeOK
<1>3. LockOwned'
  <2> SUFFICES ASSUME ~deleted, NEW u \in Thread, pc'[u] \in InLock,
                      u \notin ToSet(queueLock'.waiting), u # t
               PROVE  queueLock'.owner = u
    BY <1>1 DEF LockOwned, Take
  <2>1. queueLock.owner = u BY <1>1, <1>2 DEF LockInv, LockOwned
  <2>2. NoThread \notin Thread BY PoolAssumption
  <2> QED BY <1>1, <2>1, <2>2
<1>4. WaitingInv' BY <1>1, <1>2 DEF LockInv, WaitingInv
<1> QED BY <1>3, <1>4 DEF LockInv

LEMMA ReleaseStep ==
    ASSUME TypeOK, LockInv, NEW t \in Thread, NEW l, l \notin InLock,
           pc[t] \in InLock, ~Suspended(t),
           Release(t), GoTo(t, l), UNCHANGED deleted
    PROVE  LockInv'
<1>0. t \notin ToSet(queueLock.waiting) BY DEF Suspended
<1>1. /\ \A u \in ToSet(queueLock.waiting) :
             u \in ToSet(queueLock'.waiting) \/ queueLock'.owner = u
      /\ ToSet(queueLock'.waiting) \subseteq ToSet(queueLock.waiting)
  BY MutexReleaseFacts DEF TypeOK, Release
<1>2. pc' = [pc EXCEPT ![t] = l] /\ pc \in [Thread -> PcTypes] BY DEF GoTo, TypeOK
<1>3. LockOwned'
  <2> SUFFICES ASSUME ~deleted, NEW u \in Thread, pc'[u] \in InLock,
                      u \notin ToSet(queueLock'.waiting)
               PROVE  queueLock'.owner = u
    BY DEF LockOwned, Release
  <2>1. u # t /\ pc[u] \in InLock BY <1>2
  <2>2. CASE u \in ToSet(queueLock.waiting) BY <2>2, <1>1
  <2>3. CASE u \notin ToSet(queueLock.waiting)
    BY <2>1, <2>3, <1>0 DEF LockInv, LockOwned
  <2> QED BY <2>2, <2>3
<1>4. WaitingInv' BY <1>0, <1>1, <1>2 DEF LockInv, WaitingInv
<1> QED BY <1>3, <1>4 DEF LockInv

LEMMA OtherStep ==
    ASSUME TypeOK, LockInv, NEW t \in Thread, NEW l,
           t \notin ToSet(queueLock.waiting), l \in InLock => pc[t] \in InLock,
           GoTo(t, l), UNCHANGED << queueLock, deleted >>
    PROVE  LockInv'
<1>1. pc' = [pc EXCEPT ![t] = l] /\ pc \in [Thread -> PcTypes] BY DEF GoTo, TypeOK
<1>2. LockOwned' BY <1>1 DEF LockInv, LockOwned
<1>3. WaitingInv' BY <1>1 DEF LockInv, WaitingInv
<1> QED BY <1>2, <1>3 DEF LockInv

LEMMA KillStep ==
    ASSUME TypeOK, LockInv, NEW d, NEW w \in Workers, DesKill(d, w)
    PROVE  LockInv'
<1>0. w \in Thread /\ queueLock.waiting \in Seq(Thread)
  BY ThreadSets DEF TypeOK, Mutex
<1>1. /\ \A u \in ToSet(queueLock.waiting) : u # w => u \in ToSet(queueLock'.waiting)
      /\ ToSet(queueLock'.waiting) \subseteq ToSet(queueLock.waiting)
      /\ queueLock'.owner = queueLock.owner
  <2>1. /\ \A u \in ToSet(queueLock.waiting) : u # w => u \in ToSet(Unlink(queueLock.waiting, w))
        /\ ToSet(Unlink(queueLock.waiting, w)) \subseteq ToSet(queueLock.waiting)
    BY <1>0, UnlinkSet
  <2>2. /\ queueLock'.waiting = Unlink(queueLock.waiting, w)
        /\ queueLock'.owner = queueLock.owner
    BY DEF DesKill, TypeOK, Mutex
  <2> QED BY <2>1, <2>2
<1>2. pc' = [pc EXCEPT ![w] = "dead"] /\ pc \in [Thread -> PcTypes] /\ deleted' = deleted
  BY DEF DesKill, GoTo, TypeOK
<1>3. LockOwned' BY <1>0, <1>1, <1>2 DEF LockInv, LockOwned, InLock
<1>4. WaitingInv' BY <1>0, <1>1, <1>2 DEF LockInv, WaitingInv
<1> QED BY <1>3, <1>4 DEF LockInv

(* Every step keeps the ownership invariant. *)
LEMMA LockStep == TypeOK /\ LockInv /\ [Next]_vars => LockInv'
<1> SUFFICES ASSUME TypeOK, LockInv, [Next]_vars PROVE LockInv'
  OBVIOUS
<1> USE ThreadSets
<1>1. CASE UNCHANGED vars
  BY <1>1 DEF LockInv, LockOwned, WaitingInv, vars, sync
<1>2. ASSUME NEW w \in Workers, Job(w) PROVE LockInv'
  <2>1. CASE Lock(w) BY <2>1, TakeStep DEF Lock
  <2>2. CASE Sleep(w) BY <2>2, ReleaseStep DEF Sleep, At, InLock
  <2>3. CASE SemWait(w) BY <2>3, OtherStep DEF SemWait, At, Suspended, InLock
  <2>4. CASE Relock(w) BY <2>4, TakeStep DEF Relock
  <2>5. CASE SeeValue(w) BY <2>5, OtherStep DEF SeeValue, At, Suspended, InLock, sync
  <2>6. CASE Drain(w) BY <2>6, OtherStep DEF Drain, At, Suspended, InLock
  <2>7. CASE Exit(w) BY <2>7, ReleaseStep DEF Exit, At, InLock
  <2>8. CASE Dequeue(w) BY <2>8, ReleaseStep DEF Dequeue, At, InLock
  <2>9. CASE Finish(w) BY <2>9, OtherStep DEF Finish, At, Suspended, InLock, sync
  <2> QED BY <1>2, <2>1, <2>2, <2>3, <2>4, <2>5, <2>6, <2>7, <2>8, <2>9 DEF Job
<1>3. ASSUME NEW a \in Adders, AddAlloc(a) \/ Adding(a) PROVE LockInv'
  <2>1. CASE AddAlloc(a)
    <3>1. a \notin ToSet(queueLock.waiting)
      BY <2>1 DEF AddAlloc, Home, LockInv, WaitingInv
    <3> QED BY <2>1, <3>1, OtherStep DEF AddAlloc, InLock, sync
  <2>2. CASE AddLock(a) BY <2>2, TakeStep DEF AddLock
  <2>3. CASE AddLink(a) BY <2>3, ReleaseStep DEF AddLink, At, InLock
  <2>4. CASE AddSignal(a)
    BY <2>4, OtherStep DEF AddSignal, At, Suspended, InLock, Home
  <2> QED BY <1>3, <2>1, <2>2, <2>3, <2>4 DEF Adding
<1>4. ASSUME NEW d \in Deleters, DelLock(d) \/ Deleting(d) PROVE LockInv'
  <2>1. CASE DelLock(d) BY <2>1, TakeStep DEF DelLock
  <2>2. CASE DelFree(d) BY <2>2, OtherStep DEF DelFree, At, Suspended, InLock, sync
  <2>3. CASE DelNext(d) BY <2>3, OtherStep DEF DelNext, At, Suspended, InLock, sync
  <2>4. CASE DelReset(d) BY <2>4, ReleaseStep DEF DelReset, At, InLock
  <2> QED BY <1>4, <2>1, <2>2, <2>3, <2>4 DEF Deleting
<1>5. ASSUME NEW d \in Destroyers, DesCheck(d) \/ Destroying(d) PROVE LockInv'
  <2>0. pc[d] \in {"desSet", "desKill", "desLock", "desSem", "desFree"}
          => d \notin ToSet(queueLock.waiting)
    BY DEF LockInv, WaitingInv
  <2>1. CASE DesCheck(d) BY <2>1, OtherStep DEF DesCheck, At, Suspended, InLock, sync
  <2>2. CASE DesSet(d) BY <2>0, <2>2, OtherStep DEF DesSet, InLock
  <2>3. ASSUME NEW w \in Workers, DesKill(d, w) PROVE LockInv' BY <2>3, KillStep
  <2>4. CASE DesKilled(d) BY <2>0, <2>4, OtherStep DEF DesKilled, InLock, sync
  <2>5. CASE DesLock(d)
    <3>1. ToSet(queueLock'.waiting) = {} /\ deleted'
      BY <2>5 DEF DesLock, FreeMutex, ToSet
    <3> QED BY <3>1 DEF LockInv, LockOwned, WaitingInv
  <2>6. CASE DesSem(d) BY <2>0, <2>6, OtherStep DEF DesSem, InLock
  <2>7. CASE DesFree(d) BY <2>0, <2>7, OtherStep DEF DesFree, InLock, sync
  <2> QED BY <1>5, <2>1, <2>2, <2>3, <2>4, <2>5, <2>6, <2>7 DEF Destroying
<1> QED BY <1>1, <1>2, <1>3, <1>4, <1>5 DEF Next

LEMMA LockInit == Init => LockInv
<1>1. Init => ToSet(queueLock.waiting) = {} BY DEF Init, FreeMutex, ToSet
<1> QED BY <1>1 DEF Init, LockInv, LockOwned, WaitingInv, InLock

LEMMA LockInvariant == Spec => [](TypeOK /\ LockInv)
<1>1. Init => LockInv BY LockInit
<1>2. TypeOK /\ LockInv /\ [Next]_vars => LockInv' BY LockStep
<1> QED BY <1>1, <1>2, TypeCorrect, PTL DEF Spec

(* At most one thread is between a take and a release of queueLock, until  *)
(* destroy deletes it: rtthread_pool.c's list and counter are accessed by  *)
(* one thread at a time.                                                   *)
THEOREM QueueLockExcludes == Spec => []MutualExclusion
<1>1. LockInv => MutualExclusion BY DEF LockInv, LockOwned, MutualExclusion
<1> QED BY <1>1, LockInvariant, PTL
-----------------------------------------------------------------------------
(* n tasks are counted by the 8-bit counter c. *)
Counts(c, n) == \E k \in 0 .. n : n = c + k * CounterMod

LEMMA CountsInc ==
    ASSUME NEW c \in 0 .. CounterMod - 1, NEW n \in Nat, Counts(c, n)
    PROVE  Counts(Inc(c), n + 1)
<1>1. PICK k \in 0 .. n : n = c + k * CounterMod BY DEF Counts
<1>2. CounterMod \in Nat \ {0} BY PoolAssumption
<1>3. CASE c + 1 = CounterMod
  <2>1. (k + 1) * CounterMod = k * CounterMod + CounterMod BY <1>2
  <2>2. k * CounterMod \in Nat BY <1>2
  <2>3. n + 1 = 0 + (k + 1) * CounterMod BY <1>1, <1>2, <1>3, <2>1, <2>2
  <2>4. k + 1 \in 0 .. n + 1 OBVIOUS
  <2> QED BY <2>3, <2>4, <1>3 DEF Counts, Inc
<1>4. CASE c + 1 # CounterMod
  <2>1. k * CounterMod \in Nat BY <1>2
  <2>2. n + 1 = (c + 1) + k * CounterMod /\ k \in 0 .. n + 1 BY <1>1, <1>2, <2>1
  <2> QED BY <2>2, <1>4 DEF Counts, Inc
<1> QED BY <1>3, <1>4

LEMMA CountsDec ==
    ASSUME NEW c \in 0 .. CounterMod - 1, NEW n \in Nat \ {0}, Counts(c, n)
    PROVE  Counts(Dec(c), n - 1)
<1>1. PICK k \in 0 .. n : n = c + k * CounterMod BY DEF Counts
<1>2. CounterMod \in Nat \ {0} BY PoolAssumption
<1>3. CASE c = 0
  <2>1. k # 0 BY <1>1, <1>2, <1>3
  <2>2. k - 1 \in 0 .. n - 1 BY <2>1
  <2>3. (k - 1) * CounterMod = k * CounterMod - CounterMod BY <1>2
  <2>4. k * CounterMod \in Nat BY <1>2
  <2>5. n - 1 = (CounterMod - 1) + (k - 1) * CounterMod BY <1>1, <1>2, <1>3, <2>3, <2>4
  <2> QED BY <2>2, <2>5, <1>3 DEF Counts, Dec
<1>4. CASE c # 0
  <2>1. k * CounterMod \in Nat BY <1>2
  <2>2. k <= k * CounterMod
    <3>1. (CounterMod - 1) * k = CounterMod * k - k BY <1>2
    <3>2. (CounterMod - 1) * k \in Nat BY <1>2
    <3>3. CounterMod * k = k * CounterMod BY <1>2
    <3> QED BY <3>1, <3>2, <3>3, <2>1
  <2>3. n - 1 = (c - 1) + k * CounterMod /\ k \in 0 .. n - 1 BY <1>1, <1>2, <1>4, <2>1, <2>2
  <2> QED BY <2>3, <1>4 DEF Counts, Dec
<1> QED BY <1>3, <1>4

CountInv == /\ DeletedInv /\ DelNextInv /\ CounterMatchesQueue

(* A step that touches neither the list nor the counter. *)
LEMMA QuietStep ==
    ASSUME TypeOK, CountInv, NEW t \in Thread, NEW l,
           l \notin {"delNext", "desSem", "desFree", "gone"},
           GoTo(t, l), UNCHANGED << queue, cur, leaked, deleted >>
    PROVE  CountInv'
<1>1. pc' = [pc EXCEPT ![t] = l] /\ pc \in [Thread -> PcTypes] BY DEF GoTo, TypeOK
<1>2. DeletedInv' BY <1>1 DEF CountInv, DeletedInv
<1>3. DelNextInv' BY <1>1 DEF CountInv, DelNextInv
<1>4. CounterMatchesQueue' BY DEF CountInv, CounterMatchesQueue
<1> QED BY <1>2, <1>3, <1>4 DEF CountInv

(* Nobody else is in delAll's loop while a thread holds queueLock. *)
LEMMA AloneInLoop ==
    ASSUME TypeOK, LockInv, ~deleted, NEW t \in Thread, pc[t] \in InLock, ~Suspended(t)
    PROVE  \A u \in Thread : pc[u] = "delNext" => u = t
<1>1. queueLock.owner = t BY DEF LockInv, LockOwned, Suspended
<1>2. ASSUME NEW u \in Thread, pc[u] = "delNext" PROVE queueLock.owner = u
  <2>1. u \notin ToSet(queueLock.waiting) BY <1>2 DEF LockInv, WaitingInv
  <2> QED BY <1>2, <2>1 DEF LockInv, LockOwned, InLock
<1> QED BY <1>1, <1>2

(* Every step keeps the counter in agreement with the list. *)
LEMMA CountStep == TypeOK /\ LockInv /\ CountInv /\ [Next]_vars => CountInv'
<1> SUFFICES ASSUME TypeOK, LockInv, CountInv, [Next]_vars PROVE CountInv'
  OBVIOUS
<1> USE ThreadSets
<1>0. Len(queue) \in Nat /\ cur \in 0 .. CounterMod - 1 /\ queue \in Seq(Nat)
  BY LenProperties DEF TypeOK
<1>1. CASE UNCHANGED vars
  BY <1>1 DEF CountInv, DeletedInv, DelNextInv, CounterMatchesQueue, vars, sync, list
<1>2. ASSUME NEW w \in Workers, Job(w) PROVE CountInv'
  <2>1. CASE Lock(w) BY <2>1, QuietStep DEF Lock, list
  <2>2. CASE Sleep(w) BY <2>2, QuietStep DEF Sleep, list
  <2>3. CASE SemWait(w) BY <2>3, QuietStep DEF SemWait, list
  <2>4. CASE Relock(w) BY <2>4, QuietStep DEF Relock, list
  <2>5. CASE SeeValue(w) BY <2>5, QuietStep DEF SeeValue, sync, list
  <2>6. CASE Drain(w) BY <2>6, QuietStep DEF Drain, list
  <2>7. CASE Exit(w) BY <2>7, QuietStep DEF Exit, list
  <2>8. CASE Dequeue(w)
    <3>1. pc' = [pc EXCEPT ![w] = "run"] /\ pc \in [Thread -> PcTypes] /\ ~deleted
      BY <2>8 DEF Dequeue, GoTo, Release, TypeOK
    <3>2. DeletedInv' BY <3>1, <2>8 DEF Dequeue, CountInv, DeletedInv
    <3>3. DelNextInv'
      <4>1. \A u \in Thread : pc[u] = "delNext" => u = w
        BY <2>8, <3>1, AloneInLoop DEF Dequeue, At, InLock
      <4> QED BY <4>1, <3>1 DEF DelNextInv
    <3>4. CounterMatchesQueue'
      <4>1. Len(queue) \in Nat \ {0} /\ Len(queue') = Len(queue) - 1
        BY <1>0, <2>8, TailSet DEF Dequeue
      <4>2. leaked' = leaked /\ cur' = Dec(cur) BY <2>8 DEF Dequeue
      <4>3. leaked = {} => Counts(cur', Len(queue'))
        BY <1>0, <3>1, <4>1, <4>2, CountsDec DEF CountInv, CounterMatchesQueue, Counts
      <4> QED BY <4>2, <4>3 DEF CounterMatchesQueue, Counts
    <3> QED BY <3>2, <3>3, <3>4 DEF CountInv
  <2>9. CASE Finish(w) BY <2>9, QuietStep DEF Finish, sync, list
  <2> QED BY <1>2, <2>1, <2>2, <2>3, <2>4, <2>5, <2>6, <2>7, <2>8, <2>9 DEF Job
<1>3. ASSUME NEW a \in Adders, AddAlloc(a) \/ Adding(a) PROVE CountInv'
  <2>1. CASE AddAlloc(a) BY <2>1, QuietStep DEF AddAlloc, sync
  <2>2. CASE AddLock(a) BY <2>2, QuietStep DEF AddLock, list
  <2>3. CASE AddLink(a)
    <3>1. /\ pc' = [pc EXCEPT ![a] = "addSignal"] /\ pc \in [Thread -> PcTypes]
          /\ ~deleted /\ deleted' = deleted
      BY <2>3 DEF AddLink, GoTo, Release, TypeOK
    <3>2. /\ Append(queue, newtask[a]) # << >>
          /\ Len(Append(queue, newtask[a])) = Len(queue) + 1
      <4>1. newtask[a] \in Nat BY DEF TypeOK
      <4> QED BY <1>0, <4>1, AppendProperties
    <3>3. DeletedInv' BY <3>1 DEF CountInv, DeletedInv
    <3>4. DelNextInv' BY <2>3, <3>2 DEF AddLink, DelNextInv
    <3>5. CounterMatchesQueue'
      <4>1. leaked' = leaked /\ cur' = Inc(cur) /\ Len(queue') = Len(queue) + 1
        BY <2>3, <3>2 DEF AddLink
      <4>2. leaked = {} => Counts(cur', Len(queue'))
        BY <1>0, <3>1, <4>1, CountsInc DEF CountInv, CounterMatchesQueue, Counts
      <4> QED BY <4>1, <4>2 DEF CounterMatchesQueue, Counts
    <3> QED BY <3>3, <3>4, <3>5 DEF CountInv
  <2>4. CASE AddSignal(a) BY <2>4, QuietStep DEF AddSignal, Home, list
  <2> QED BY <1>3, <2>1, <2>2, <2>3, <2>4 DEF Adding
<1>4. ASSUME NEW d \in Deleters, DelLock(d) \/ Deleting(d) PROVE CountInv'
  <2>1. CASE DelLock(d) BY <2>1, QuietStep DEF DelLock, list
  <2>2. CASE DelFree(d)
    <3>1. /\ pc' = [pc EXCEPT ![d] = "delNext"] /\ pc \in [Thread -> PcTypes]
          /\ queue # << >> /\ UNCHANGED << queue, cur, leaked, deleted >>
      BY <2>2 DEF DelFree, GoTo, TypeOK, sync
    <3> QED BY <3>1 DEF CountInv, DeletedInv, DelNextInv, CounterMatchesQueue
  <2>3. CASE DelNext(d)
    <3>1. /\ pc' = [pc EXCEPT ![d] = "delLoop"] /\ pc \in [Thread -> PcTypes]
          /\ deleted' = deleted /\ ~Suspended(d) /\ pc[d] = "delNext" /\ queue # << >>
      BY <2>3 DEF DelNext, GoTo, At, TypeOK, sync
    <3>2. DeletedInv' BY <3>1 DEF CountInv, DeletedInv
    <3>3. DelNextInv'
      <4>1. ~deleted => \A u \in Thread : pc[u] = "delNext" => u = d
        BY <3>1, AloneInLoop DEF InLock
      <4> QED BY <4>1, <3>1 DEF DelNextInv
    <3>4. CounterMatchesQueue'
      <4>1. Tail(queue) \in Seq(Nat) /\ Len(queue) \in Nat \ {0} /\ Len(Tail(queue)) = Len(queue) - 1
        BY <1>0, <3>1, TailSet
      <4>2. cur' = Dec(cur) BY <2>3 DEF DelNext
      <4>3. ASSUME leaked' = {} PROVE leaked = {} /\ Len(queue') = Len(queue) - 1
        <5>1. CASE freed = "reused"
          <6>1. queue' = << >> /\ leaked = {} /\ ToSet(Tail(queue)) = {}
            BY <2>3, <4>3, <5>1 DEF DelNext
          <6>2. Tail(queue) = << >>
            BY <4>1, <6>1, EmptyToSet
          <6> QED BY <6>1, <6>2, <4>1
        <5>2. CASE freed # "reused" BY <2>3, <4>1, <4>3, <5>2 DEF DelNext
        <5> QED BY <5>1, <5>2
      <4>4. (~deleted /\ leaked' = {}) => Counts(cur', Len(queue'))
        BY <1>0, <4>1, <4>2, <4>3, CountsDec DEF CountInv, CounterMatchesQueue, Counts
      <4> QED BY <3>1, <4>4 DEF CounterMatchesQueue, Counts
    <3> QED BY <3>2, <3>3, <3>4 DEF CountInv
  <2>4. CASE DelReset(d) BY <2>4, QuietStep DEF DelReset, list
  <2> QED BY <1>4, <2>1, <2>2, <2>3, <2>4 DEF Deleting
<1>5. ASSUME NEW d \in Destroyers, DesCheck(d) \/ Destroying(d) PROVE CountInv'
  <2>1. CASE DesCheck(d) BY <2>1, QuietStep DEF DesCheck, sync, list
  <2>2. CASE DesSet(d) BY <2>2, QuietStep DEF DesSet, list
  <2>3. ASSUME NEW w \in Workers, DesKill(d, w) PROVE CountInv'
    BY <2>3, QuietStep DEF DesKill, list
  <2>4. CASE DesKilled(d) BY <2>4, QuietStep DEF DesKilled, sync, list
  <2>5. CASE DesLock(d)
    BY <2>5 DEF DesLock, CountInv, DeletedInv, DelNextInv, CounterMatchesQueue
  <2>6. CASE DesSem(d) \/ DesFree(d)
    <3>1. deleted /\ deleted' = deleted
      BY <2>6 DEF DesSem, DesFree, CountInv, DeletedInv, sync
    <3> QED BY <3>1 DEF CountInv, DeletedInv, DelNextInv, CounterMatchesQueue
  <2> QED BY <1>5, <2>1, <2>2, <2>3, <2>4, <2>5, <2>6 DEF Destroying
<1> QED BY <1>1, <1>2, <1>3, <1>4, <1>5 DEF Next

LEMMA CountInit == Init => CountInv
<1> SUFFICES ASSUME Init PROVE CountInv
  OBVIOUS
<1>1. \A t \in Thread : pc[t] \in {"lock", "idle"} BY DEF Init
<1>2. Len(queue) = 0 /\ cur = 0 BY EmptySeq DEF Init
<1>3. Counts(cur, Len(queue)) BY <1>2, PoolAssumption DEF Counts
<1> QED BY <1>1, <1>3 DEF CountInv, DeletedInv, DelNextInv, CounterMatchesQueue, Counts

LEMMA CountInvariant == Spec => [](TypeOK /\ LockInv /\ CountInv)
<1>1. Init => CountInv BY CountInit
<1>2. TypeOK /\ LockInv /\ CountInv /\ [Next]_vars => CountInv' BY CountStep
<1> QED BY <1>1, <1>2, LockInvariant, PTL DEF Spec

(* curWaitThreadNum is the length of the task list modulo its width until   *)
(* a delAll loses part of the list to a reused block, or destroy has come.  *)
THEOREM CounterCorrect == Spec => []CounterMatchesQueue
<1>1. CountInv => CounterMatchesQueue BY DEF CountInv
<1> QED BY <1>1, CountInvariant, PTL
-----------------------------------------------------------------------------
LEMMA GoToFacts ==
    ASSUME TypeOK, NEW t \in Thread, NEW l, GoTo(t, l)
    PROVE  pc'[t] = l /\ \A u \in Thread \ {t} : pc'[u] = pc[u]
BY DEF TypeOK, GoTo

(* Who is suspended on queueReady: workers, each once, and only when there is *)
(* no token.                                                                  *)
Sleepers == ToSet(queueReady.waiting)

SleepersInv ==
    /\ IsInjective(queueReady.waiting)
    /\ queueReady.waiting # << >> => queueReady.value = 0
    /\ \A t \in Sleepers : t \in Workers /\ pc[t] \in {"relock", "check"}

LEMMA SleepersStay ==
    ASSUME TypeOK, SleepersInv, NEW t \in Thread, NEW l, t \notin Sleepers,
           GoTo(t, l), UNCHANGED queueReady
    PROVE  SleepersInv'
<1>1. pc'[t] = l /\ \A u \in Thread \ {t} : pc'[u] = pc[u] BY GoToFacts
<1> QED BY <1>1, ThreadSets DEF SleepersInv, Sleepers

LEMMA SleepersTake ==
    ASSUME TypeOK, SleepersInv, NEW w \in Workers, w \notin Sleepers,
           NEW l \in {"relock", "check"}, GoTo(w, l),
           queueReady' = SemTake(queueReady, w)
    PROVE  SleepersInv'
<1>1. pc'[w] = l /\ \A u \in Thread \ {w} : pc'[u] = pc[u] BY GoToFacts, ThreadSets
<1>2. /\ queueReady.waiting \in Seq(Thread) /\ queueReady.value \in Nat
      /\ queueReady = [value |-> queueReady.value, waiting |-> queueReady.waiting]
      /\ w \in Thread
  BY ThreadSets DEF TypeOK, Semaphore
<1>3. CASE queueReady.value > 0
  <2>1. queueReady'.waiting = queueReady.waiting BY <1>2, <1>3 DEF SemTake
  <2>2. queueReady.waiting = << >> BY <1>3 DEF SleepersInv
  <2>3. Sleepers' = {} BY <2>1, <2>2 DEF Sleepers, ToSet
  <2> QED BY <2>1, <2>2, <2>3 DEF SleepersInv
<1>4. CASE ~(queueReady.value > 0)
  <2>1. queueReady'.waiting = Append(queueReady.waiting, w) /\ queueReady'.value = 0
    BY <1>2, <1>4 DEF SemTake
  <2>2. Sleepers' = Sleepers \cup {w} BY <1>2, <2>1, AppendSet DEF Sleepers
  <2>3. IsInjective(queueReady'.waiting)
    BY <1>2, <2>1, InjectiveAppend DEF SleepersInv, Sleepers
  <2>4. \A t \in Sleepers' : t \in Workers /\ pc'[t] \in {"relock", "check"}
    BY <1>1, <2>2, ThreadSets DEF SleepersInv
  <2> QED BY <2>1, <2>3, <2>4 DEF SleepersInv
<1> QED BY <1>3, <1>4

(* A release wakes the first sleeper, if there is one, and nobody else. *)
LEMMA ReleaseWakes ==
    ASSUME TypeOK, SleepersInv
    PROVE  LET s == SemRelease(queueReady) IN
           /\ queueReady.waiting = << >> => s.value = queueReady.value + 1 /\ s.waiting = << >>
           /\ queueReady.waiting # << >> =>
                 /\ s.value = 0 /\ ToSet(s.waiting) \subseteq Sleepers
                 /\ Head(queueReady.waiting) \in Sleepers \ ToSet(s.waiting)
                 /\ IsInjective(s.waiting)
<1>1. /\ queueReady.waiting \in Seq(Thread) /\ queueReady.value \in Nat
      /\ queueReady = [value |-> queueReady.value, waiting |-> queueReady.waiting]
  BY DEF TypeOK, Semaphore
<1>2. CASE queueReady.waiting = << >> BY <1>1, <1>2 DEF SemRelease
<1>3. CASE queueReady.waiting # << >>
  <2>1. /\ SemRelease(queueReady).waiting = Tail(queueReady.waiting)
        /\ SemRelease(queueReady).value = 0
    BY <1>1, <1>3 DEF SemRelease, SleepersInv
  <2>2. ToSet(Tail(queueReady.waiting)) \subseteq Sleepers
    BY <1>1, <1>3, TailSet DEF Sleepers
  <2>3. /\ IsInjective(Tail(queueReady.waiting))
        /\ Head(queueReady.waiting) \notin ToSet(Tail(queueReady.waiting))
    BY <1>1, <1>3, InjectiveTail DEF SleepersInv
  <2>4. Head(queueReady.waiting) \in Sleepers
    <3>1. 1 \in DOMAIN queueReady.waiting BY <1>1, <1>3, EmptySeq, LenProperties
    <3> QED BY <3>1, <1>3 DEF Sleepers, ToSet
  <2> QED BY <1>3, <2>1, <2>2, <2>3, <2>4
<1> QED BY <1>2, <1>3

LEMMA SleepersStep == TypeOK /\ SleepersInv /\ [Next]_vars => SleepersInv'
<1> SUFFICES ASSUME TypeOK, SleepersInv, [Next]_vars PROVE SleepersInv'
  OBVIOUS
<1> USE ThreadSets
<1>0. \A t \in Thread : At(t, pc[t]) => t \notin Sleepers BY DEF At, Suspended, Sleepers
<1>1. CASE UNCHANGED vars BY <1>1 DEF SleepersInv, Sleepers, vars, sync
<1>2. ASSUME NEW w \in Workers, Job(w) PROVE SleepersInv'
  <2>0. w \notin Sleepers
    BY <1>2, <1>0 DEF Job, Lock, Sleep, SemWait, Relock, SeeValue, Drain, Exit, Dequeue, Finish, At
  <2>1. CASE Lock(w) BY <2>0, <2>1, SleepersStay DEF Lock
  <2>2. CASE Sleep(w) BY <2>0, <2>2, SleepersStay DEF Sleep
  <2>3. CASE SemWait(w) BY <2>0, <2>3, SleepersTake DEF SemWait
  <2>4. CASE Relock(w) BY <2>0, <2>4, SleepersStay DEF Relock
  <2>5. CASE SeeValue(w) BY <2>0, <2>5, SleepersStay DEF SeeValue, sync
  <2>6. CASE Drain(w) BY <2>0, <2>6, SleepersTake DEF Drain
  <2>7. CASE Exit(w) BY <2>0, <2>7, SleepersStay DEF Exit
  <2>8. CASE Dequeue(w) BY <2>0, <2>8, SleepersStay DEF Dequeue
  <2>9. CASE Finish(w) BY <2>0, <2>9, SleepersStay DEF Finish, sync
  <2> QED BY <1>2, <2>1, <2>2, <2>3, <2>4, <2>5, <2>6, <2>7, <2>8, <2>9 DEF Job
<1>3. ASSUME NEW a \in Adders, AddAlloc(a) \/ Adding(a) PROVE SleepersInv'
  <2>0. a \notin Sleepers
    BY <1>3, <1>0 DEF Adding, AddAlloc, AddLock, AddLink, AddSignal, At, Home, SleepersInv
  <2>1. CASE AddAlloc(a) BY <2>0, <2>1, SleepersStay DEF AddAlloc, sync
  <2>2. CASE AddLock(a) BY <2>0, <2>2, SleepersStay DEF AddLock
  <2>3. CASE AddLink(a) BY <2>0, <2>3, SleepersStay DEF AddLink
  <2>4. CASE AddSignal(a)
    <3>1. pc'[a] = Home(a) /\ \A u \in Thread \ {a} : pc'[u] = pc[u]
      BY <2>4, GoToFacts DEF AddSignal
    <3>2. queueReady' = SemRelease(queueReady) BY <2>4 DEF AddSignal
    <3>3. CASE queueReady.waiting = << >>
      <4>1. queueReady'.waiting = << >> BY <3>2, <3>3, ReleaseWakes
      <4>2. Sleepers' = {} BY <4>1 DEF Sleepers, ToSet
      <4> QED BY <4>1, <4>2, <3>3 DEF SleepersInv
    <3>4. CASE queueReady.waiting # << >>
      <4>1. /\ queueReady'.value = 0 /\ Sleepers' \subseteq Sleepers
            /\ IsInjective(queueReady'.waiting)
        BY <3>2, <3>4, ReleaseWakes DEF Sleepers
      <4> QED BY <2>0, <3>1, <4>1 DEF SleepersInv
    <3> QED BY <3>3, <3>4
  <2> QED BY <1>3, <2>1, <2>2, <2>3, <2>4 DEF Adding
<1>4. ASSUME queueReady' = EmptySem PROVE SleepersInv'
  <2>1. queueReady'.waiting = << >> BY <1>4 DEF EmptySem
  <2>2. Sleepers' = {} /\ IsInjective(queueReady'.waiting)
    BY <2>1 DEF Sleepers, ToSet, IsInjective
  <2> QED BY <2>1, <2>2 DEF SleepersInv
<1>5. ASSUME NEW d \in Deleters, DelLock(d) \/ Deleting(d) PROVE SleepersInv'
  <2>0. d \notin Sleepers
    BY <1>5, <1>0 DEF Deleting, DelLock, DelFree, DelNext, DelReset, At
  <2>1. CASE DelLock(d) BY <2>0, <2>1, SleepersStay DEF DelLock
  <2>2. CASE DelFree(d) BY <2>0, <2>2, SleepersStay DEF DelFree, sync
  <2>3. CASE DelNext(d) BY <2>0, <2>3, SleepersStay DEF DelNext, sync
  <2>4. CASE DelReset(d) BY <2>4, <1>4 DEF DelReset
  <2> QED BY <1>5, <2>1, <2>2, <2>3, <2>4 DEF Deleting
<1>6. ASSUME NEW d \in Destroyers, DesCheck(d) \/ Destroying(d) PROVE SleepersInv'
  <2>0. d \notin Sleepers BY PoolAssumption DEF SleepersInv
  <2>1. CASE DesCheck(d) BY <2>0, <2>1, SleepersStay DEF DesCheck, sync
  <2>2. CASE DesSet(d) BY <2>0, <2>2, SleepersStay DEF DesSet
  <2>3. ASSUME NEW w \in Workers, DesKill(d, w) PROVE SleepersInv'
    <3>1. pc'[w] = "dead" /\ \A u \in Thread \ {w} : pc'[u] = pc[u]
      BY <2>3, GoToFacts DEF DesKill
    <3>2. /\ queueReady'.waiting = Unlink(queueReady.waiting, w)
          /\ queueReady'.value = queueReady.value
          /\ queueReady.waiting \in Seq(Thread)
      BY <2>3 DEF DesKill, TypeOK, Semaphore
    <3>3. /\ Sleepers' \subseteq Sleepers /\ w \notin Sleepers'
          /\ IsInjective(queueReady'.waiting)
      BY <3>2, UnlinkSet DEF SleepersInv, Sleepers
    <3>4. queueReady.waiting = << >> => queueReady'.waiting = << >>
      BY <3>2 DEF Unlink, ToSet
    <3> QED BY <3>1, <3>2, <3>3, <3>4 DEF SleepersInv
  <2>4. CASE DesKilled(d) BY <2>0, <2>4, SleepersStay DEF DesKilled, sync
  <2>5. CASE DesLock(d) BY <2>0, <2>5, SleepersStay DEF DesLock
  <2>6. CASE DesSem(d) BY <2>6, <1>4 DEF DesSem
  <2>7. CASE DesFree(d) BY <2>0, <2>7, SleepersStay DEF DesFree, sync
  <2> QED BY <1>6, <2>1, <2>2, <2>3, <2>4, <2>5, <2>6, <2>7 DEF Destroying
<1> QED BY <1>1, <1>2, <1>3, <1>5, <1>6 DEF Next

-----------------------------------------------------------------------------
(* destroy goes on to the mutex only when it has deleted every worker. *)
AllDead == \A w \in Workers : pc[w] = "dead"
Killing == {"desLock", "desSem", "desFree", "gone"}

KilledInv ==
    /\ deleted => AllDead
    /\ \A d \in Destroyers : pc[d] \in Killing => AllDead

LEMMA KilledStays ==
    ASSUME TypeOK, KilledInv, NEW t \in Thread, NEW l, GoTo(t, l),
           pc[t] # "dead" \/ l = "dead",
           l \in Killing => pc[t] \in Killing \/ AllDead,
           t \in Destroyers \/ l \notin Killing,
           deleted' => deleted
    PROVE  KilledInv'
<1>1. pc'[t] = l /\ \A u \in Thread \ {t} : pc'[u] = pc[u] BY GoToFacts
<1>2. AllDead => AllDead' BY <1>1, ThreadSets DEF AllDead
<1>3. \A d \in Destroyers : pc'[d] \in Killing => AllDead
  BY <1>1, ThreadSets DEF KilledInv
<1> QED BY <1>2, <1>3 DEF KilledInv

LEMMA KilledStep == TypeOK /\ KilledInv /\ [Next]_vars => KilledInv'
<1> SUFFICES ASSUME TypeOK, KilledInv, [Next]_vars PROVE KilledInv'
  OBVIOUS
<1> USE ThreadSets DEF Killing
<1>1. CASE UNCHANGED vars BY <1>1 DEF KilledInv, AllDead, vars, sync
<1>2. ASSUME NEW w \in Workers, Job(w) PROVE KilledInv'
  <2>1. CASE Lock(w) BY <2>1, KilledStays DEF Lock, At
  <2>2. CASE Sleep(w) BY <2>2, KilledStays DEF Sleep, At
  <2>3. CASE SemWait(w) BY <2>3, KilledStays DEF SemWait, At
  <2>4. CASE Relock(w) BY <2>4, KilledStays DEF Relock, At
  <2>5. CASE SeeValue(w) BY <2>5, KilledStays DEF SeeValue, At, sync
  <2>6. CASE Drain(w) BY <2>6, KilledStays DEF Drain, At
  <2>7. CASE Exit(w) BY <2>7, KilledStays DEF Exit, At
  <2>8. CASE Dequeue(w) BY <2>8, KilledStays DEF Dequeue, At
  <2>9. CASE Finish(w) BY <2>9, KilledStays DEF Finish, At, sync
  <2> QED BY <1>2, <2>1, <2>2, <2>3, <2>4, <2>5, <2>6, <2>7, <2>8, <2>9 DEF Job
<1>3. ASSUME NEW a \in Adders, AddAlloc(a) \/ Adding(a) PROVE KilledInv'
  <2>1. CASE AddAlloc(a) BY <2>1, KilledStays DEF AddAlloc, Home, sync
  <2>2. CASE AddLock(a) BY <2>2, KilledStays DEF AddLock, At
  <2>3. CASE AddLink(a) BY <2>3, KilledStays DEF AddLink, At
  <2>4. CASE AddSignal(a) BY <2>4, KilledStays DEF AddSignal, At, Home
  <2> QED BY <1>3, <2>1, <2>2, <2>3, <2>4 DEF Adding
<1>4. ASSUME NEW d \in Deleters, DelLock(d) \/ Deleting(d) PROVE KilledInv'
  <2>1. CASE DelLock(d) BY <2>1, KilledStays DEF DelLock, At
  <2>2. CASE DelFree(d) BY <2>2, KilledStays DEF DelFree, At, sync
  <2>3. CASE DelNext(d) BY <2>3, KilledStays DEF DelNext, At, sync
  <2>4. CASE DelReset(d) BY <2>4, KilledStays DEF DelReset, At
  <2> QED BY <1>4, <2>1, <2>2, <2>3, <2>4 DEF Deleting
<1>5. ASSUME NEW d \in Destroyers, DesCheck(d) \/ Destroying(d) PROVE KilledInv'
  <2>1. CASE DesCheck(d) BY <2>1, KilledStays DEF DesCheck, At, sync
  <2>2. CASE DesSet(d) BY <2>2, KilledStays DEF DesSet
  <2>3. ASSUME NEW w \in Workers, DesKill(d, w) PROVE KilledInv'
    BY <2>3, KilledStays DEF DesKill
  <2>4. CASE DesKilled(d) BY <2>4, KilledStays DEF DesKilled, AllDead, sync
  <2>5. CASE DesLock(d)
    <3>1. AllDead /\ pc[d] = "desLock" BY <2>5 DEF DesLock, KilledInv
    <3>2. pc'[d] = "desSem" /\ \A u \in Thread \ {d} : pc'[u] = pc[u]
      BY <2>5, GoToFacts DEF DesLock
    <3>3. AllDead' BY <3>1, <3>2 DEF AllDead
    <3> QED BY <3>3 DEF KilledInv
  <2>6. CASE DesSem(d) BY <2>6, KilledStays DEF DesSem
  <2>7. CASE DesFree(d) BY <2>7, KilledStays DEF DesFree, sync
  <2> QED BY <1>5, <2>1, <2>2, <2>3, <2>4, <2>5, <2>6, <2>7 DEF Destroying
<1> QED BY <1>1, <1>2, <1>3, <1>4, <1>5 DEF Next
-----------------------------------------------------------------------------
(* A worker that takes the token it saw still finds nothing to do: it has     *)
(* held queueLock since.                                                      *)
DrainInv == \A w \in Workers : pc[w] = "drain" => cur = 0

LEMMA DrainStays ==
    ASSUME TypeOK, DrainInv, NEW t \in Thread, NEW l, GoTo(t, l), l # "drain",
           UNCHANGED cur
    PROVE  DrainInv'
<1>1. pc'[t] = l /\ \A u \in Thread \ {t} : pc'[u] = pc[u] BY GoToFacts
<1> QED BY <1>1, ThreadSets DEF DrainInv

(* Nobody drains while another thread holds queueLock. *)
LEMMA NobodyDrains ==
    ASSUME TypeOK, LockInv, KilledInv, NEW t \in Thread, pc[t] \in InLock \ {"drain"},
           ~Suspended(t)
    PROVE  \A w \in Workers : pc[w] # "drain"
<1>1. CASE deleted BY <1>1 DEF KilledInv, AllDead
<1>2. CASE ~deleted
  <2>1. queueLock.owner = t BY <1>2 DEF LockInv, LockOwned, Suspended
  <2>2. ASSUME NEW w \in Workers, pc[w] = "drain" PROVE queueLock.owner = w
    <3>1. w \in Thread /\ w \notin ToSet(queueLock.waiting)
      BY <2>2, ThreadSets DEF LockInv, WaitingInv
    <3> QED BY <1>2, <2>2, <3>1 DEF LockInv, LockOwned, InLock
  <2> QED BY <2>1, <2>2
<1> QED BY <1>1, <1>2

LEMMA DrainStep == TypeOK /\ LockInv /\ KilledInv /\ DrainInv /\ [Next]_vars => DrainInv'
<1> SUFFICES ASSUME TypeOK, LockInv, KilledInv, DrainInv, [Next]_vars PROVE DrainInv'
  OBVIOUS
<1> USE ThreadSets
<1>0. ASSUME NEW t \in Thread, pc[t] \in InLock \ {"drain"}, ~Suspended(t),
             NEW l, GoTo(t, l), l # "drain"
      PROVE  DrainInv'
  <2>1. \A w \in Workers : pc[w] # "drain" BY <1>0, NobodyDrains
  <2>2. pc'[t] = l /\ \A u \in Thread \ {t} : pc'[u] = pc[u] BY <1>0, GoToFacts
  <2> QED BY <1>0, <2>1, <2>2 DEF DrainInv
<1>1. CASE UNCHANGED vars BY <1>1 DEF DrainInv, vars, list
<1>2. ASSUME NEW w \in Workers, Job(w) PROVE DrainInv'
  <2>1. CASE Lock(w) BY <2>1, DrainStays DEF Lock, list
  <2>2. CASE Sleep(w) BY <2>2, DrainStays DEF Sleep, list
  <2>3. CASE SemWait(w) BY <2>3, DrainStays DEF SemWait, list
  <2>4. CASE Relock(w) BY <2>4, DrainStays DEF Relock, list
  <2>5. CASE SeeValue(w) BY <2>5 DEF SeeValue, DrainInv, list
  <2>6. CASE Drain(w) BY <2>6, DrainStays DEF Drain, list
  <2>7. CASE Exit(w) BY <2>7, DrainStays DEF Exit, list
  <2>8. CASE Dequeue(w) BY <2>8, <1>0 DEF Dequeue, At, InLock
  <2>9. CASE Finish(w) BY <2>9, DrainStays DEF Finish, list
  <2> QED BY <1>2, <2>1, <2>2, <2>3, <2>4, <2>5, <2>6, <2>7, <2>8, <2>9 DEF Job
<1>3. ASSUME NEW a \in Adders, AddAlloc(a) \/ Adding(a) PROVE DrainInv'
  <2>1. CASE AddAlloc(a) BY <2>1, DrainStays DEF AddAlloc
  <2>2. CASE AddLock(a) BY <2>2, DrainStays DEF AddLock, list
  <2>3. CASE AddLink(a) BY <2>3, <1>0 DEF AddLink, At, InLock
  <2>4. CASE AddSignal(a) BY <2>4, DrainStays DEF AddSignal, Home, list
  <2> QED BY <1>3, <2>1, <2>2, <2>3, <2>4 DEF Adding
<1>4. ASSUME NEW d \in Deleters, DelLock(d) \/ Deleting(d) PROVE DrainInv'
  <2>1. CASE DelLock(d) BY <2>1, DrainStays DEF DelLock, list
  <2>2. CASE DelFree(d) BY <2>2, DrainStays DEF DelFree
  <2>3. CASE DelNext(d) BY <2>3, <1>0 DEF DelNext, At, InLock
  <2>4. CASE DelReset(d) BY <2>4, DrainStays DEF DelReset, list
  <2> QED BY <1>4, <2>1, <2>2, <2>3, <2>4 DEF Deleting
<1>5. ASSUME NEW d \in Destroyers, DesCheck(d) \/ Destroying(d) PROVE DrainInv'
  <2>1. CASE DesCheck(d) BY <2>1, DrainStays DEF DesCheck, list
  <2>2. CASE DesSet(d) BY <2>2, DrainStays DEF DesSet, list
  <2>3. ASSUME NEW w \in Workers, DesKill(d, w) PROVE DrainInv'
    BY <2>3, DrainStays DEF DesKill, list
  <2>4. CASE DesKilled(d) BY <2>4, DrainStays DEF DesKilled, list
  <2>5. CASE DesLock(d) BY <2>5, DrainStays DEF DesLock, list
  <2>6. CASE DesSem(d) BY <2>6, DrainStays DEF DesSem, list
  <2>7. CASE DesFree(d) BY <2>7, DrainStays DEF DesFree
  <2> QED BY <1>5, <2>1, <2>2, <2>3, <2>4, <2>5, <2>6, <2>7 DEF Destroying
<1> QED BY <1>1, <1>2, <1>3, <1>4, <1>5 DEF Next
-----------------------------------------------------------------------------
(* When tasks wait and every worker sleeps or is about to, there is a token   *)
(* to find or a call under way that leaves one.                               *)
WakeupDue == \/ queueReady.value > 0
             \/ \E a \in Adders : pc[a] = "addSignal"
             \/ \E d \in Deleters : pc[d] \in {"delLoop", "delNext"}

WakeupComes ==
    (/\ queue # << >> /\ cur = Len(queue)
     /\ \A w \in Workers : w \in Sleepers \/ pc[w] = "semTake") => WakeupDue

LEMMA WakeupStays ==
    ASSUME TypeOK, WakeupComes, NEW t \in Thread, NEW l, GoTo(t, l), l # "semTake",
           pc[t] \notin {"addSignal", "delLoop", "delNext"},
           UNCHANGED << queue, cur, queueReady >>
    PROVE  WakeupComes'
<1>1. pc'[t] = l /\ \A u \in Thread \ {t} : pc'[u] = pc[u] BY GoToFacts
<1>2. WakeupDue => WakeupDue' BY <1>1, ThreadSets DEF WakeupDue
<1>3. ASSUME NEW w \in Workers, w \in Sleepers' \/ pc'[w] = "semTake"
      PROVE  w \in Sleepers \/ pc[w] = "semTake"
  BY <1>1, <1>3, ThreadSets DEF Sleepers
<1> QED BY <1>2, <1>3 DEF WakeupComes

(* A worker that neither sleeps nor is about to. *)
LEMMA SomebodyAwake ==
    ASSUME NEW w \in Workers, w \notin Sleepers', pc'[w] # "semTake"
    PROVE  WakeupComes'
BY DEF WakeupComes

LEMMA WakeupStep ==
    ASSUME Workers # {}
    PROVE  TypeOK /\ LockInv /\ SleepersInv /\ KilledInv /\ DrainInv /\ WakeupComes
              /\ [Next]_vars => WakeupComes'
<1> SUFFICES ASSUME TypeOK, LockInv, SleepersInv, KilledInv, DrainInv, WakeupComes, [Next]_vars
             PROVE  WakeupComes'
  OBVIOUS
<1> USE ThreadSets
<1>0. /\ queue \in Seq(Nat) /\ Len(queue) \in Nat /\ (queue # << >> => Len(queue) # 0)
      /\ queueReady.value \in Nat /\ queueReady.waiting \in Seq(Thread)
      /\ queueReady = [value |-> queueReady.value, waiting |-> queueReady.waiting]
  BY LenProperties, EmptySeq DEF TypeOK, Semaphore
<1>1. CASE UNCHANGED vars
  BY <1>1 DEF WakeupComes, WakeupDue, Sleepers, vars, sync, list
<1>2. ASSUME NEW w \in Workers, Job(w) PROVE WakeupComes'
  <2>1. CASE Lock(w) BY <2>1, WakeupStays DEF Lock, At, list
  <2>2. CASE Sleep(w)
    <3>1. cur' = 0 /\ queue' = queue BY <2>2 DEF Sleep, list
    <3> QED BY <1>0, <3>1 DEF WakeupComes
  <2>3. CASE SemWait(w)
    <3>1. pc'[w] = "relock" /\ \A u \in Thread \ {w} : pc'[u] = pc[u]
      BY <2>3, GoToFacts DEF SemWait
    <3>2. CASE queueReady.value > 0
      <4>1. queueReady'.waiting = queueReady.waiting BY <1>0, <2>3, <3>2 DEF SemWait, SemTake
      <4>2. w \notin Sleepers' BY <2>3, <4>1 DEF SemWait, At, Suspended, Sleepers
      <4> QED BY <3>1, <4>2, SomebodyAwake
    <3>3. CASE ~(queueReady.value > 0)
      <4>1. /\ queueReady'.waiting = Append(queueReady.waiting, w)
            /\ UNCHANGED << queue, cur >> /\ pc[w] = "semTake"
        BY <1>0, <2>3, <3>3 DEF SemWait, SemTake, At, list
      <4>2. Sleepers' = Sleepers \cup {w} BY <1>0, <4>1, AppendSet DEF Sleepers
      <4>3. ASSUME NEW u \in Workers, u \in Sleepers' \/ pc'[u] = "semTake"
            PROVE  u \in Sleepers \/ pc[u] = "semTake"
        BY <3>1, <4>1, <4>2, <4>3
      <4>4. WakeupDue => WakeupDue' BY <3>1, <3>3, <4>1 DEF WakeupDue
      <4> QED BY <4>1, <4>3, <4>4 DEF WakeupComes
    <3> QED BY <3>2, <3>3
  <2>4. CASE Relock(w) BY <2>4, WakeupStays DEF Relock, At, list
  <2>5. CASE SeeValue(w) BY <2>5, WakeupStays DEF SeeValue, At, list, sync
  <2>6. CASE Drain(w)
    <3>1. cur' = 0 /\ queue' = queue BY <2>6 DEF Drain, DrainInv, At, list
    <3> QED BY <1>0, <3>1 DEF WakeupComes
  <2>7. CASE Exit(w) BY <2>7, WakeupStays DEF Exit, At, list
  <2>8. CASE Dequeue(w)
    <3>1. pc'[w] = "run" /\ queueReady' = queueReady /\ w \notin Sleepers
      BY <2>8, GoToFacts DEF Dequeue, At, Suspended, Sleepers
    <3> QED BY <3>1, SomebodyAwake DEF Sleepers
  <2>9. CASE Finish(w) BY <2>9, WakeupStays DEF Finish, At, list, sync
  <2> QED BY <1>2, <2>1, <2>2, <2>3, <2>4, <2>5, <2>6, <2>7, <2>8, <2>9 DEF Job
<1>3. ASSUME NEW a \in Adders, AddAlloc(a) \/ Adding(a) PROVE WakeupComes'
  <2>1. CASE AddAlloc(a) BY <2>1, WakeupStays DEF AddAlloc, Home, sync
  <2>2. CASE AddLock(a) BY <2>2, WakeupStays DEF AddLock, At, list
  <2>3. CASE AddLink(a)
    <3>1. pc'[a] = "addSignal" BY <2>3, GoToFacts DEF AddLink
    <3> QED BY <3>1 DEF WakeupComes, WakeupDue
  <2>4. CASE AddSignal(a)
    <3>1. queueReady' = SemRelease(queueReady) BY <2>4 DEF AddSignal
    <3>2. CASE queueReady.waiting = << >>
      <4>1. queueReady'.value > 0 BY <1>0, <3>1, <3>2, ReleaseWakes
      <4> QED BY <4>1 DEF WakeupComes, WakeupDue
    <3>3. CASE queueReady.waiting # << >>
      <4> DEFINE w == Head(queueReady.waiting)
      <4>1. w \in Sleepers /\ w \notin Sleepers' BY <3>1, <3>3, ReleaseWakes DEF Sleepers
      <4> HIDE DEF w
      <4>2. w \in Workers /\ pc[w] \in {"relock", "check"} BY <4>1 DEF SleepersInv
      <4>3. pc'[w] = pc[w]
        BY <2>4, <4>2, GoToFacts DEF AddSignal, At
      <4> QED BY <4>1, <4>2, <4>3, SomebodyAwake
    <3> QED BY <3>2, <3>3
  <2> QED BY <1>3, <2>1, <2>2, <2>3, <2>4 DEF Adding
<1>4. ASSUME NEW d \in Deleters, DelLock(d) \/ Deleting(d) PROVE WakeupComes'
  <2>1. CASE DelLock(d) \/ DelFree(d) \/ DelNext(d)
    <3>1. pc'[d] \in {"delLoop", "delNext"}
      BY <2>1, GoToFacts DEF DelLock, DelFree, DelNext
    <3> QED BY <3>1 DEF WakeupComes, WakeupDue
  <2>2. CASE DelReset(d) BY <2>2 DEF DelReset, WakeupComes, list
  <2> QED BY <1>4, <2>1, <2>2 DEF Deleting
<1>5. ASSUME NEW d \in Destroyers, DesCheck(d) \/ Destroying(d) PROVE WakeupComes'
  <2>1. CASE DesCheck(d) BY <2>1, WakeupStays DEF DesCheck, At, list, sync
  <2>2. CASE DesSet(d) BY <2>2, WakeupStays DEF DesSet, list
  <2>3. ASSUME NEW w \in Workers, DesKill(d, w) PROVE WakeupComes'
    <3>1. pc'[w] = "dead" BY <2>3, GoToFacts DEF DesKill
    <3>2. queueReady'.waiting = Unlink(queueReady.waiting, w) BY <1>0, <2>3 DEF DesKill
    <3>3. w \notin Sleepers' BY <1>0, <3>2, UnlinkSet DEF SleepersInv, Sleepers
    <3> QED BY <3>1, <3>3, SomebodyAwake
  <2>4. CASE DesKilled(d) BY <2>4, WakeupStays DEF DesKilled, list, sync
  <2>5. CASE DesLock(d) BY <2>5, WakeupStays DEF DesLock, list
  <2>6. CASE DesSem(d)
    <3>1. PICK w \in Workers : TRUE OBVIOUS
    <3>2. pc[w] = "dead" /\ pc[d] = "desSem" BY <2>6 DEF DesSem, KilledInv, AllDead, Killing
    <3>3. pc'[w] = "dead" BY <2>6, <3>2, GoToFacts DEF DesSem
    <3>4. Sleepers' = {} BY <2>6 DEF DesSem, EmptySem, Sleepers, ToSet
    <3> QED BY <3>3, <3>4, SomebodyAwake
  <2>7. CASE DesFree(d) BY <2>7 DEF DesFree, WakeupComes
  <2> QED BY <1>5, <2>1, <2>2, <2>3, <2>4, <2>5, <2>6, <2>7 DEF Destroying
<1> QED BY <1>1, <1>2, <1>3, <1>4, <1>5 DEF Next

LEMMA SleepInit == Init => SleepersInv /\ KilledInv /\ DrainInv /\ WakeupComes
<1> SUFFICES ASSUME Init PROVE SleepersInv /\ KilledInv /\ DrainInv /\ WakeupComes
  OBVIOUS
<1>1. queueReady.waiting = << >> /\ queue = << >> BY DEF Init, EmptySem
<1>2. Sleepers = {} /\ IsInjective(queueReady.waiting)
  BY <1>1 DEF Sleepers, ToSet, IsInjective
<1>3. \A t \in Thread : pc[t] \in {"lock", "idle"} BY DEF Init
<1>4. ~deleted BY DEF Init
<1> QED BY <1>1, <1>2, <1>3, <1>4, ThreadSets
    DEF SleepersInv, KilledInv, Killing, DrainInv, WakeupComes

LEMMA SleepInvariant == Spec => [](SleepersInv /\ KilledInv /\ DrainInv)
<1> QED BY SleepInit, SleepersStep, KilledStep, DrainStep, LockInvariant, PTL DEF Spec

(* No wakeup is lost in a pool with workers: while tasks wait, the counter    *)
(* knows it and all workers sleep, an addTask has its rt_sem_release, or a    *)
(* delAll its reset, still to come, although a worker goes to sleep after it  *)
(* released the lock, tokens are taken by workers that need none, and delAll  *)
(* throws tokens away (lines 113-115, 141, 201-209).                          *)
THEOREM NoWakeupLost == ASSUME Workers # {} PROVE Spec => []NoLostWakeup
<1>1. Init => WakeupComes BY SleepInit
<1>2. TypeOK /\ SleepersInv /\ WakeupComes => NoLostWakeup
  <2> SUFFICES ASSUME TypeOK, SleepersInv, WakeupComes, queue # << >>, cur = Len(queue),
                      \A w \in Workers : w \in Sleepers
               PROVE  \/ \E a \in Adders : pc[a] = "addSignal"
                      \/ \E d \in Deleters : pc[d] \in {"delLoop", "delNext"}
    BY DEF NoLostWakeup, Sleepers
  <2>1. WakeupDue BY DEF WakeupComes
  <2>2. queueReady.waiting # << >>
    <3> SUFFICES ASSUME queueReady.waiting = << >> PROVE FALSE OBVIOUS
    <3>1. Sleepers = {} BY DEF Sleepers, ToSet
    <3> QED BY <3>1
  <2>3. ~(queueReady.value > 0) BY <2>2 DEF SleepersInv
  <2> QED BY <2>1, <2>3 DEF WakeupDue
<1> QED BY <1>1, <1>2, WakeupStep, SleepInvariant, LockInvariant, PTL DEF Spec
-----------------------------------------------------------------------------
(* Nobody takes queueLock twice: its owner is between a take and a release,   *)
(* or was deleted there.                                                      *)
OwnerInv ==
    queueLock.owner # NoThread =>
        queueLock.hold = 1 /\ pc[queueLock.owner] \in InLock \cup {"dead"}

LEMMA OwnerTakes ==
    ASSUME TypeOK, OwnerInv, NEW t \in Thread, pc[t] \notin InLock \cup {"dead"},
           NEW l \in InLock, Take(t), GoTo(t, l)
    PROVE  OwnerInv'
<1>1. pc'[t] = l /\ \A u \in Thread \ {t} : pc'[u] = pc[u] BY GoToFacts
<1>2. /\ queueLock.owner \in Thread \cup {NoThread} /\ NoThread \notin Thread
      /\ queueLock = [owner |-> queueLock.owner, hold |-> queueLock.hold,
                      waiting |-> queueLock.waiting]
      /\ queueLock' = MutexTake(queueLock, t)
  BY PoolAssumption DEF TypeOK, Mutex, Take
<1>3. queueLock.owner # t BY <1>2 DEF OwnerInv
<1>4. CASE queueLock.owner = NoThread
  <2>1. queueLock'.owner = t /\ queueLock'.hold = 1 BY <1>2, <1>3, <1>4 DEF MutexTake
  <2> QED BY <1>1, <2>1 DEF OwnerInv
<1>5. CASE queueLock.owner # NoThread
  <2>1. queueLock'.owner = queueLock.owner /\ queueLock'.hold = queueLock.hold
    BY <1>2, <1>3, <1>5 DEF MutexTake
  <2> QED BY <1>1, <1>2, <1>3, <1>5, <2>1 DEF OwnerInv
<1> QED BY <1>4, <1>5

LEMMA OwnerReleases ==
    ASSUME TypeOK, LockInv, OwnerInv, NEW t \in Thread, pc[t] \in InLock, ~Suspended(t),
           NEW l, Release(t), GoTo(t, l)
    PROVE  OwnerInv'
<1>1. pc'[t] = l /\ \A u \in Thread \ {t} : pc'[u] = pc[u] BY GoToFacts
<1>2. /\ queueLock.waiting \in Seq(Thread) /\ NoThread \notin Thread
      /\ queueLock' = MutexRelease(queueLock, t)
  BY PoolAssumption DEF TypeOK, Mutex, Release
<1>3. t \notin ToSet(queueLock.waiting) BY DEF Suspended
<1>4. queueLock.owner = t BY <1>3 DEF LockInv, LockOwned, Release
<1>5. queueLock.hold = 1 BY <1>2, <1>4 DEF OwnerInv
<1>6. CASE queueLock.waiting = << >>
  BY <1>2, <1>4, <1>5, <1>6 DEF MutexRelease, FreeMutex, OwnerInv
<1>7. CASE queueLock.waiting # << >>
  <2> DEFINE u == Head(queueLock.waiting)
  <2>1. queueLock'.owner = u /\ queueLock'.hold = 1
    BY <1>2, <1>4, <1>5, <1>7 DEF MutexRelease
  <2>2. u \in ToSet(queueLock.waiting) /\ u \in Thread
    <3>1. 1 \in DOMAIN queueLock.waiting BY <1>2, <1>7, EmptySeq, LenProperties
    <3>2. u \in Thread BY <1>2, <1>7, TailSet
    <3> QED BY <3>1, <3>2, <1>7 DEF ToSet
  <2> HIDE DEF u
  <2>3. pc[u] \in {"check", "addLink", "delLoop", "dead"} BY <2>2 DEF LockInv, WaitingInv
  <2>4. pc'[u] = pc[u] BY <1>1, <1>3, <2>2
  <2> QED BY <2>1, <2>3, <2>4 DEF OwnerInv, InLock
<1> QED BY <1>6, <1>7

LEMMA OwnerStays ==
    ASSUME TypeOK, OwnerInv, NEW t \in Thread, NEW l, GoTo(t, l), UNCHANGED queueLock,
           pc[t] \in InLock \cup {"dead"} => l \in InLock \cup {"dead"}
    PROVE  OwnerInv'
<1>1. pc'[t] = l /\ \A u \in Thread \ {t} : pc'[u] = pc[u] BY GoToFacts
<1>2. queueLock.owner \in Thread \cup {NoThread} BY DEF TypeOK, Mutex
<1> QED BY <1>1, <1>2 DEF OwnerInv

LEMMA OwnerStep == TypeOK /\ LockInv /\ OwnerInv /\ [Next]_vars => OwnerInv'
<1> SUFFICES ASSUME TypeOK, LockInv, OwnerInv, [Next]_vars PROVE OwnerInv'
  OBVIOUS
<1> USE ThreadSets
<1>1. CASE UNCHANGED vars BY <1>1 DEF OwnerInv, vars, sync
<1>2. ASSUME NEW w \in Workers, Job(w) PROVE OwnerInv'
  <2>1. CASE Lock(w) BY <2>1, OwnerTakes DEF Lock, At, InLock
  <2>2. CASE Sleep(w) BY <2>2, OwnerReleases DEF Sleep, At, InLock
  <2>3. CASE SemWait(w) BY <2>3, OwnerStays DEF SemWait, At, InLock
  <2>4. CASE Relock(w) BY <2>4, OwnerTakes DEF Relock, At, InLock
  <2>5. CASE SeeValue(w) BY <2>5, OwnerStays DEF SeeValue, At, InLock, sync
  <2>6. CASE Drain(w) BY <2>6, OwnerStays DEF Drain, At, InLock
  <2>7. CASE Exit(w) BY <2>7, OwnerReleases DEF Exit, At, InLock
  <2>8. CASE Dequeue(w) BY <2>8, OwnerReleases DEF Dequeue, At, InLock
  <2>9. CASE Finish(w) BY <2>9, OwnerStays DEF Finish, At, InLock, sync
  <2> QED BY <1>2, <2>1, <2>2, <2>3, <2>4, <2>5, <2>6, <2>7, <2>8, <2>9 DEF Job
<1>3. ASSUME NEW a \in Adders, AddAlloc(a) \/ Adding(a) PROVE OwnerInv'
  <2>1. CASE AddAlloc(a) BY <2>1, OwnerStays DEF AddAlloc, Home, InLock, sync
  <2>2. CASE AddLock(a) BY <2>2, OwnerTakes DEF AddLock, At, InLock
  <2>3. CASE AddLink(a) BY <2>3, OwnerReleases DEF AddLink, At, InLock
  <2>4. CASE AddSignal(a) BY <2>4, OwnerStays DEF AddSignal, At, InLock
  <2> QED BY <1>3, <2>1, <2>2, <2>3, <2>4 DEF Adding
<1>4. ASSUME NEW d \in Deleters, DelLock(d) \/ Deleting(d) PROVE OwnerInv'
  <2>1. CASE DelLock(d) BY <2>1, OwnerTakes DEF DelLock, At, InLock
  <2>2. CASE DelFree(d) BY <2>2, OwnerStays DEF DelFree, At, InLock, sync
  <2>3. CASE DelNext(d) BY <2>3, OwnerStays DEF DelNext, At, InLock, sync
  <2>4. CASE DelReset(d) BY <2>4, OwnerReleases DEF DelReset, At, InLock
  <2> QED BY <1>4, <2>1, <2>2, <2>3, <2>4 DEF Deleting
<1>5. ASSUME NEW d \in Destroyers, DesCheck(d) \/ Destroying(d) PROVE OwnerInv'
  <2>1. CASE DesCheck(d) BY <2>1, OwnerStays DEF DesCheck, At, InLock, sync
  <2>2. CASE DesSet(d) BY <2>2, OwnerStays DEF DesSet, InLock
  <2>3. ASSUME NEW w \in Workers, DesKill(d, w) PROVE OwnerInv'
    <3>1. pc'[w] = "dead" /\ \A u \in Thread \ {w} : pc'[u] = pc[u]
      BY <2>3, GoToFacts DEF DesKill
    <3>2. /\ queueLock'.owner = queueLock.owner /\ queueLock'.hold = queueLock.hold
          /\ queueLock.owner \in Thread \cup {NoThread}
      BY <2>3 DEF DesKill, TypeOK, Mutex
    <3> QED BY <3>1, <3>2 DEF OwnerInv
  <2>4. CASE DesKilled(d) BY <2>4, OwnerStays DEF DesKilled, InLock, sync
  <2>5. CASE DesLock(d) BY <2>5 DEF DesLock, FreeMutex, OwnerInv
  <2>6. CASE DesSem(d) BY <2>6, OwnerStays DEF DesSem, InLock
  <2>7. CASE DesFree(d) BY <2>7, OwnerStays DEF DesFree, InLock, sync
  <2> QED BY <1>5, <2>1, <2>2, <2>3, <2>4, <2>5, <2>6, <2>7 DEF Destroying
<1> QED BY <1>1, <1>2, <1>3, <1>4, <1>5 DEF Next
-----------------------------------------------------------------------------
(* A worker that is alone gets the token it saw, and sleeps without the lock. *)
AloneInv ==
    /\ \A w \in Workers : pc[w] = "drain" => queueReady.value > 0
    /\ \A t \in Sleepers : pc[t] = "relock"

LEMMA AloneStays ==
    ASSUME TypeOK, AloneInv, NEW t \in Thread, NEW l, t \notin Sleepers,
           GoTo(t, l), l # "drain", UNCHANGED queueReady
    PROVE  AloneInv'
<1>1. pc'[t] = l /\ \A u \in Thread \ {t} : pc'[u] = pc[u] BY GoToFacts
<1>2. \A u \in Sleepers' : pc'[u] = "relock"
  <2> SUFFICES ASSUME NEW u \in Sleepers PROVE pc'[u] = "relock" BY DEF Sleepers
  <2>1. u \in Thread
    BY ElementOfSeq, LenProperties DEF TypeOK, Semaphore, Sleepers, ToSet
  <2> QED BY <1>1, <2>1 DEF AloneInv
<1> QED BY <1>1, <1>2, ThreadSets DEF AloneInv

LEMMA AloneStep ==
    ASSUME \A v, w \in Workers : v = w
    PROVE  TypeOK /\ LockInv /\ SleepersInv /\ KilledInv /\ AloneInv /\ [Next]_vars => AloneInv'
<1> SUFFICES ASSUME TypeOK, LockInv, SleepersInv, KilledInv, AloneInv, [Next]_vars
             PROVE  AloneInv'
  OBVIOUS
<1> USE ThreadSets
<1>0. /\ queueReady.value \in Nat /\ queueReady.waiting \in Seq(Thread)
      /\ queueReady = [value |-> queueReady.value, waiting |-> queueReady.waiting]
      /\ \A t \in Thread : ~Suspended(t) => t \notin Sleepers
  BY DEF TypeOK, Semaphore, Suspended, Sleepers
<1>1. CASE UNCHANGED vars BY <1>1 DEF AloneInv, Sleepers, vars, sync
<1>2. ASSUME NEW w \in Workers, Job(w) PROVE AloneInv'
  <2>0. w \notin Sleepers
    BY <1>0, <1>2 DEF Job, Lock, Sleep, SemWait, Relock, SeeValue, Drain, Exit, Dequeue, Finish, At
  <2>1. CASE Lock(w) BY <2>0, <2>1, AloneStays DEF Lock
  <2>2. CASE Sleep(w) BY <2>0, <2>2, AloneStays DEF Sleep
  <2>3. CASE SemWait(w)
    <3>1. pc'[w] = "relock" BY <2>3, GoToFacts DEF SemWait
    <3>2. Sleepers' \subseteq {w}
      <4>1. SleepersInv' BY SleepersStep
      <4> QED BY <4>1 DEF SleepersInv
    <3> QED BY <3>1, <3>2 DEF AloneInv
  <2>4. CASE Relock(w) BY <2>0, <2>4, AloneStays DEF Relock
  <2>5. CASE SeeValue(w)
    <3>1. pc'[w] = "drain" BY <2>5, GoToFacts DEF SeeValue
    <3>2. queueReady' = queueReady /\ queueReady.value > 0 BY <2>5 DEF SeeValue, sync
    <3>3. Sleepers' = {} BY <2>0, <3>2 DEF SleepersInv, Sleepers
    <3> QED BY <3>2, <3>3 DEF AloneInv
  <2>6. CASE Drain(w)
    <3>1. pc'[w] = "check" BY <2>6, GoToFacts DEF Drain
    <3>2. queueReady.value > 0 BY <2>6 DEF Drain, At, AloneInv
    <3>3. queueReady'.waiting = queueReady.waiting BY <1>0, <2>6, <3>2 DEF Drain, SemTake
    <3>4. Sleepers' = {} BY <2>0, <3>3 DEF SleepersInv, Sleepers
    <3> QED BY <3>1, <3>4 DEF AloneInv
  <2>7. CASE Exit(w) BY <2>0, <2>7, AloneStays DEF Exit
  <2>8. CASE Dequeue(w) BY <2>0, <2>8, AloneStays DEF Dequeue
  <2>9. CASE Finish(w) BY <2>0, <2>9, AloneStays DEF Finish, sync
  <2> QED BY <1>2, <2>1, <2>2, <2>3, <2>4, <2>5, <2>6, <2>7, <2>8, <2>9 DEF Job
<1>3. ASSUME NEW a \in Adders, AddAlloc(a) \/ Adding(a) PROVE AloneInv'
  <2>0. a \notin Sleepers
    BY <1>0, <1>3 DEF Adding, AddAlloc, AddLock, AddLink, AddSignal, At, Home, SleepersInv
  <2>1. CASE AddAlloc(a) BY <2>0, <2>1, AloneStays DEF AddAlloc, sync
  <2>2. CASE AddLock(a) BY <2>0, <2>2, AloneStays DEF AddLock
  <2>3. CASE AddLink(a) BY <2>0, <2>3, AloneStays DEF AddLink
  <2>4. CASE AddSignal(a)
    <3>1. pc'[a] = Home(a) /\ \A u \in Thread \ {a} : pc'[u] = pc[u]
      BY <2>4, GoToFacts DEF AddSignal
    <3>2. queueReady' = SemRelease(queueReady) BY <2>4 DEF AddSignal
    <3>3. CASE queueReady.waiting = << >>
      <4>1. queueReady'.value > 0 /\ queueReady'.waiting = << >>
        BY <1>0, <3>2, <3>3, ReleaseWakes
      <4>2. Sleepers' = {} BY <4>1 DEF Sleepers, ToSet
      <4> QED BY <4>1, <4>2 DEF AloneInv
    <3>4. CASE queueReady.waiting # << >>
      <4> DEFINE w == Head(queueReady.waiting)
      <4>1. w \in Sleepers /\ Sleepers' \subseteq Sleepers /\ w \notin Sleepers'
        BY <3>2, <3>4, ReleaseWakes DEF Sleepers
      <4> HIDE DEF w
      <4>2. Sleepers' = {} BY <4>1 DEF SleepersInv
      <4>3. w \in Workers /\ pc[w] = "relock" BY <4>1 DEF SleepersInv, AloneInv
      <4>4. pc'[w] # "drain" BY <3>1, <4>3 DEF Home
      <4> QED BY <4>2, <4>3, <4>4 DEF AloneInv
    <3> QED BY <3>3, <3>4
  <2> QED BY <1>3, <2>1, <2>2, <2>3, <2>4 DEF Adding
<1>4. ASSUME NEW d \in Deleters, DelLock(d) \/ Deleting(d) PROVE AloneInv'
  <2>0. d \notin Sleepers
    BY <1>0, <1>4 DEF Deleting, DelLock, DelFree, DelNext, DelReset, At
  <2>1. CASE DelLock(d) BY <2>0, <2>1, AloneStays DEF DelLock
  <2>2. CASE DelFree(d) BY <2>0, <2>2, AloneStays DEF DelFree, sync
  <2>3. CASE DelNext(d) BY <2>0, <2>3, AloneStays DEF DelNext, sync
  <2>4. CASE DelReset(d)
    <3>1. pc'[d] = "idle" /\ \A u \in Thread \ {d} : pc'[u] = pc[u]
      BY <2>4, GoToFacts DEF DelReset
    <3>2. \A w \in Workers : pc[w] # "drain" BY <2>4, NobodyDrains DEF DelReset, At, InLock
    <3>3. Sleepers' = {} BY <2>4 DEF DelReset, EmptySem, Sleepers, ToSet
    <3> QED BY <3>1, <3>2, <3>3 DEF AloneInv
  <2> QED BY <1>4, <2>1, <2>2, <2>3, <2>4 DEF Deleting
<1>5. ASSUME NEW d \in Destroyers, DesCheck(d) \/ Destroying(d) PROVE AloneInv'
  <2>0. d \notin Sleepers BY PoolAssumption DEF SleepersInv
  <2>1. CASE DesCheck(d) BY <2>0, <2>1, AloneStays DEF DesCheck, sync
  <2>2. CASE DesSet(d) BY <2>0, <2>2, AloneStays DEF DesSet
  <2>3. ASSUME NEW w \in Workers, DesKill(d, w) PROVE AloneInv'
    <3>1. pc'[w] = "dead" BY <2>3, GoToFacts DEF DesKill
    <3>2. queueReady'.waiting = Unlink(queueReady.waiting, w) BY <1>0, <2>3 DEF DesKill
    <3>3. w \notin Sleepers' /\ Sleepers' \subseteq Sleepers
      BY <1>0, <3>2, UnlinkSet DEF SleepersInv, Sleepers
    <3>4. Sleepers' = {} BY <3>3 DEF SleepersInv
    <3> QED BY <3>1, <3>4 DEF AloneInv
  <2>4. CASE DesKilled(d) BY <2>0, <2>4, AloneStays DEF DesKilled, sync
  <2>5. CASE DesLock(d) BY <2>0, <2>5, AloneStays DEF DesLock
  <2>6. CASE DesSem(d)
    <3>1. AllDead /\ pc[d] = "desSem" BY <2>6 DEF DesSem, KilledInv, Killing
    <3>2. pc'[d] = "desFree" /\ \A u \in Thread \ {d} : pc'[u] = pc[u]
      BY <2>6, GoToFacts DEF DesSem
    <3>3. Sleepers' = {} BY <2>6 DEF DesSem, EmptySem, Sleepers, ToSet
    <3> QED BY <3>1, <3>2, <3>3 DEF AloneInv, AllDead
  <2>7. CASE DesFree(d) BY <2>0, <2>7, AloneStays DEF DesFree, sync
  <2> QED BY <1>5, <2>1, <2>2, <2>3, <2>4, <2>5, <2>6, <2>7 DEF Destroying
<1> QED BY <1>1, <1>2, <1>3, <1>4, <1>5 DEF Next

(* With one worker, and whatever adds tasks, the worker itself included,      *)
(* whoever sleeps on queueReady does not own queueLock, as line 203 has it:   *)
(* the take under the lock of line 209 does not block.  With two it can, see  *)
(* RttPool_blocked.cfg.                                                       *)
THEOREM AloneSleepsUnlocked ==
    ASSUME \A v, w \in Workers : v = w PROVE Spec => []SuspendedHoldsNoLock
<1>1. Init => OwnerInv BY DEF Init, FreeMutex, OwnerInv
<1>2. Init => AloneInv
  <2> SUFFICES ASSUME Init PROVE AloneInv OBVIOUS
  <2>1. Sleepers = {} BY DEF Init, EmptySem, Sleepers, ToSet
  <2>2. \A t \in Workers : pc[t] # "drain" BY ThreadSets DEF Init
  <2> QED BY <2>1, <2>2 DEF AloneInv
<1>3. OwnerInv /\ AloneInv => SuspendedHoldsNoLock
  <2> SUFFICES ASSUME OwnerInv, AloneInv, NEW w \in Workers, w \in Sleepers
               PROVE  queueLock.owner # w
    BY DEF SuspendedHoldsNoLock, Sleepers
  <2>1. pc[w] = "relock" /\ w # NoThread BY ThreadSets, PoolAssumption DEF AloneInv
  <2> QED BY <2>1 DEF OwnerInv, InLock
<1> QED BY <1>1, <1>2, <1>3, OwnerStep, AloneStep, SleepInvariant, LockInvariant, PTL DEF Spec
-----------------------------------------------------------------------------
(* Every task that was allocated and neither finished nor thrown away is in   *)
(* one place: the newtask of one addTask, one position of the list, or one    *)
(* worker.  A worker that destroy deletes keeps what it had.                  *)
HoldsNew(t) == pc[t] \in {"addLock", "addLink"}
Executes(w) == pc[w] \in {"run", "addLock", "addLink", "addSignal"}

TaskTypes ==
    /\ allocated \in 0 .. MaxTasks
    /\ \A a \in Adders : /\ newtask[a] \in 0 .. allocated
                         /\ HoldsNew(a) => newtask[a] # 0
                         /\ newtask[a] # 0 => HoldsNew(a) \/ pc[a] = "dead"
    /\ \A w \in Workers : /\ running[w] \in 0 .. allocated
                          /\ Executes(w) => running[w] # 0
                          /\ running[w] # 0 => Executes(w) \/ pc[w] = "dead"
    /\ \A i \in 1 .. Len(queue) : queue[i] \in 1 .. allocated

OnePlace ==
    /\ \A a, b \in Adders : newtask[a] # 0 /\ newtask[a] = newtask[b] => a = b
    /\ \A v, w \in Workers : running[v] # 0 /\ running[v] = running[w] => v = w
    /\ \A i, j \in 1 .. Len(queue) : queue[i] = queue[j] => i = j
    /\ \A a \in Adders, w \in Workers : newtask[a] # 0 => newtask[a] # running[w]
    /\ \A a \in Adders, i \in 1 .. Len(queue) : newtask[a] # queue[i]
    /\ \A w \in Workers, i \in 1 .. Len(queue) : running[w] # queue[i]

TaskInv == TaskTypes /\ OnePlace

LEMMA HomeFacts ==
    ASSUME NEW t \in Thread
    PROVE  Home(t) \in {"run", "idle"} /\ (t \in Workers => Home(t) = "run")
BY DEF Home

(* A step that moves no task. *)
LEMMA TasksStay ==
    ASSUME TypeOK, TaskInv, NEW t \in Thread, NEW l, GoTo(t, l),
           UNCHANGED << queue, tasks >>, pc[t] # "dead" \/ l = "dead",
           t \in Adders => l = "dead" \/ (l \in {"addLock", "addLink"} <=> HoldsNew(t)),
           t \in Workers => \/ l = "dead"
                            \/ l \in {"run", "addLock", "addLink", "addSignal"}
                                  <=> Executes(t)
    PROVE  TaskInv'
<1>1. pc'[t] = l /\ \A u \in Thread \ {t} : pc'[u] = pc[u] BY GoToFacts
<1>2. UNCHANGED << queue, newtask, running, allocated >> BY DEF tasks
<1>3. TaskTypes'
  <2>1. ASSUME NEW a \in Adders
        PROVE  /\ newtask'[a] \in 0 .. allocated'
               /\ HoldsNew(a)' => newtask'[a] # 0
               /\ newtask'[a] # 0 => HoldsNew(a)' \/ pc'[a] = "dead"
    BY <1>1, <1>2, ThreadSets DEF TaskInv, TaskTypes, HoldsNew
  <2>2. ASSUME NEW w \in Workers
        PROVE  /\ running'[w] \in 0 .. allocated'
               /\ Executes(w)' => running'[w] # 0
               /\ running'[w] # 0 => Executes(w)' \/ pc'[w] = "dead"
    BY <1>1, <1>2, ThreadSets DEF TaskInv, TaskTypes, Executes
  <2> QED BY <1>2, <2>1, <2>2 DEF TaskInv, TaskTypes
<1>4. OnePlace' BY <1>2 DEF TaskInv, OnePlace
<1> QED BY <1>3, <1>4 DEF TaskInv

(* A step that only shortens the list: delAll and destroy throw tasks away. *)
LEMMA TasksDropped ==
    ASSUME TypeOK, TaskInv, NEW t \in Thread \ Workers, NEW l, GoTo(t, l),
           UNCHANGED tasks, ~HoldsNew(t), pc[t] # "dead", l \notin {"addLock", "addLink"},
           queue' = << >> \/ (queue # << >> /\ queue' = Tail(queue))
    PROVE  TaskInv'
<1>1. pc'[t] = l /\ \A u \in Thread \ {t} : pc'[u] = pc[u] BY GoToFacts
<1>2. UNCHANGED << newtask, running, allocated >> BY DEF tasks
<1>3. PICK k \in {0, 1} : \A i \in 1 .. Len(queue') :
          i + k \in 1 .. Len(queue) /\ queue'[i] = queue[i + k]
  <2>1. CASE queue' = << >> BY <2>1, EmptySeq
  <2>2. CASE queue # << >> /\ queue' = Tail(queue)
    <3>1. /\ Len(queue) \in Nat \ {0} /\ Len(queue') = Len(queue) - 1
          /\ \A i \in 1 .. Len(queue') : queue'[i] = queue[i + 1]
      BY <2>2, EmptySeq, HeadTailProperties DEF TypeOK
    <3> QED BY <3>1
  <2> QED BY <2>1, <2>2
<1>4. Len(queue') \in Nat
  <2>1. queue \in Seq(Nat) BY DEF TypeOK
  <2>2. queue' \in Seq(Nat) BY <2>1, EmptySeq, HeadTailProperties
  <2> QED BY <2>2, LenProperties
<1>5. TaskTypes'
  <2>1. ASSUME NEW a \in Adders
        PROVE  /\ newtask'[a] \in 0 .. allocated'
               /\ HoldsNew(a)' => newtask'[a] # 0
               /\ newtask'[a] # 0 => HoldsNew(a)' \/ pc'[a] = "dead"
    BY <1>1, <1>2, ThreadSets DEF TaskInv, TaskTypes, HoldsNew
  <2>2. ASSUME NEW w \in Workers
        PROVE  /\ running'[w] \in 0 .. allocated'
               /\ Executes(w)' => running'[w] # 0
               /\ running'[w] # 0 => Executes(w)' \/ pc'[w] = "dead"
    BY <1>1, <1>2, ThreadSets DEF TaskInv, TaskTypes, Executes
  <2>3. \A i \in 1 .. Len(queue') : queue'[i] \in 1 .. allocated'
    BY <1>2, <1>3 DEF TaskInv, TaskTypes
  <2> QED BY <1>2, <2>1, <2>2, <2>3 DEF TaskInv, TaskTypes
<1>6. OnePlace'
  <2>1. \A i, j \in 1 .. Len(queue') : queue'[i] = queue'[j] => i = j
    <3> SUFFICES ASSUME NEW i \in 1 .. Len(queue'), NEW j \in 1 .. Len(queue'),
                        queue'[i] = queue'[j]
                 PROVE  i = j
      OBVIOUS
    <3>1. i + k = j + k BY <1>3 DEF TaskInv, OnePlace
    <3> QED BY <1>4, <3>1
  <2>2. \A a \in Adders, i \in 1 .. Len(queue') : newtask'[a] # queue'[i]
    BY <1>2, <1>3 DEF TaskInv, OnePlace
  <2>3. \A w \in Workers, i \in 1 .. Len(queue') : running'[w] # queue'[i]
    BY <1>2, <1>3 DEF TaskInv, OnePlace
  <2> QED BY <1>2, <2>1, <2>2, <2>3 DEF TaskInv, OnePlace
<1> QED BY <1>5, <1>6 DEF TaskInv

LEMMA AllocStep ==
    ASSUME TypeOK, TaskInv, NEW a \in Adders, AddAlloc(a)
    PROVE  TaskInv'
<1> USE ThreadSets
<1>1. pc'[a] = "addLock" /\ \A u \in Thread \ {a} : pc'[u] = pc[u]
  BY GoToFacts DEF AddAlloc
<1>2. /\ allocated' = allocated + 1 /\ allocated' \in 0 .. MaxTasks
      /\ newtask' = [newtask EXCEPT ![a] = allocated + 1] /\ newtask \in [Adders -> Nat]
      /\ UNCHANGED << queue, running >>
  BY PoolAssumption DEF AddAlloc, TypeOK, TaskInv, TaskTypes
<1>3. a \in Workers => (Executes(a) /\ Executes(a)')
  BY <1>1, HomeFacts DEF AddAlloc, Executes
<1>4. TaskTypes'
  <2>1. ASSUME NEW b \in Adders
        PROVE  /\ newtask'[b] \in 0 .. allocated'
               /\ HoldsNew(b)' => newtask'[b] # 0
               /\ newtask'[b] # 0 => HoldsNew(b)' \/ pc'[b] = "dead"
    BY <1>1, <1>2 DEF TaskInv, TaskTypes, HoldsNew
  <2>2. ASSUME NEW w \in Workers
        PROVE  /\ running'[w] \in 0 .. allocated'
               /\ Executes(w)' => running'[w] # 0
               /\ running'[w] # 0 => Executes(w)' \/ pc'[w] = "dead"
    BY <1>1, <1>2, <1>3 DEF TaskInv, TaskTypes, Executes
  <2>3. \A i \in 1 .. Len(queue') : queue'[i] \in 1 .. allocated'
    BY <1>2 DEF TaskInv, TaskTypes
  <2> QED BY <1>2, <2>1, <2>2, <2>3 DEF TaskTypes
<1>5. OnePlace' BY <1>2 DEF TaskInv, TaskTypes, OnePlace
<1> QED BY <1>4, <1>5 DEF TaskInv

LEMMA LinkStep ==
    ASSUME TypeOK, TaskInv, NEW a \in Adders, AddLink(a)
    PROVE  TaskInv'
<1> USE ThreadSets
<1>1. pc'[a] = "addSignal" /\ \A u \in Thread \ {a} : pc'[u] = pc[u]
  BY GoToFacts DEF AddLink
<1>2. /\ newtask' = [newtask EXCEPT ![a] = 0] /\ newtask \in [Adders -> Nat]
      /\ UNCHANGED << running, allocated >>
  BY DEF AddLink, TypeOK, NoTask
<1>3. /\ Len(queue') = Len(queue) + 1 /\ Len(queue) \in Nat
      /\ \A i \in 1 .. Len(queue) : queue'[i] = queue[i]
      /\ queue'[Len(queue) + 1] = newtask[a]
  BY AppendProperties, LenProperties DEF AddLink, TypeOK
<1>4. newtask[a] \in 1 .. allocated BY DEF AddLink, At, TaskInv, TaskTypes, HoldsNew
<1>5. TaskTypes'
  <2>1. ASSUME NEW b \in Adders
        PROVE  /\ newtask'[b] \in 0 .. allocated'
               /\ HoldsNew(b)' => newtask'[b] # 0
               /\ newtask'[b] # 0 => HoldsNew(b)' \/ pc'[b] = "dead"
    BY <1>1, <1>2 DEF TaskInv, TaskTypes, HoldsNew
  <2>2. ASSUME NEW w \in Workers
        PROVE  /\ running'[w] \in 0 .. allocated'
               /\ Executes(w)' => running'[w] # 0
               /\ running'[w] # 0 => Executes(w)' \/ pc'[w] = "dead"
    BY <1>1, <1>2 DEF TaskInv, TaskTypes, Executes, AddLink, At
  <2>3. \A i \in 1 .. Len(queue') : queue'[i] \in 1 .. allocated'
    BY <1>2, <1>3, <1>4 DEF TaskInv, TaskTypes
  <2> QED BY <1>2, <2>1, <2>2, <2>3 DEF TaskInv, TaskTypes
<1>6. OnePlace'
  <2>1. \A b, c \in Adders : newtask'[b] # 0 /\ newtask'[b] = newtask'[c] => b = c
    BY <1>2 DEF TaskInv, OnePlace
  <2>2. \A i, j \in 1 .. Len(queue') : queue'[i] = queue'[j] => i = j
    BY <1>3 DEF TaskInv, OnePlace
  <2>3. \A b \in Adders, i \in 1 .. Len(queue') : newtask'[b] # queue'[i]
    BY <1>2, <1>3, <1>4 DEF TaskInv, TaskTypes, OnePlace
  <2>4. \A w \in Workers, i \in 1 .. Len(queue') : running'[w] # queue'[i]
    BY <1>2, <1>3, <1>4 DEF TaskInv, OnePlace
  <2>5. \A b \in Adders, w \in Workers : newtask'[b] # 0 => newtask'[b] # running'[w]
    BY <1>2 DEF TaskInv, OnePlace
  <2> QED BY <1>2, <2>1, <2>2, <2>3, <2>4, <2>5 DEF TaskInv, OnePlace
<1> QED BY <1>5, <1>6 DEF TaskInv

LEMMA DequeueStep ==
    ASSUME TypeOK, TaskInv, NEW w \in Workers, Dequeue(w)
    PROVE  TaskInv'
<1> USE ThreadSets
<1>1. pc'[w] = "run" /\ pc[w] = "check" /\ \A u \in Thread \ {w} : pc'[u] = pc[u]
  BY GoToFacts DEF Dequeue, At
<1>2. /\ running' = [running EXCEPT ![w] = queue[1]] /\ running \in [Workers -> Nat]
      /\ UNCHANGED << newtask, allocated >>
  BY DEF Dequeue, TypeOK
<1>3. /\ Len(queue) \in Nat \ {0} /\ Len(queue') = Len(queue) - 1
      /\ \A i \in 1 .. Len(queue') : queue'[i] = queue[i + 1]
  BY EmptySeq, HeadTailProperties DEF Dequeue, TypeOK
<1>4. queue[1] \in 1 .. allocated BY <1>3 DEF TaskInv, TaskTypes
<1>5. TaskTypes'
  <2>1. ASSUME NEW b \in Adders
        PROVE  /\ newtask'[b] \in 0 .. allocated'
               /\ HoldsNew(b)' => newtask'[b] # 0
               /\ newtask'[b] # 0 => HoldsNew(b)' \/ pc'[b] = "dead"
    BY <1>1, <1>2 DEF TaskInv, TaskTypes, HoldsNew
  <2>2. ASSUME NEW v \in Workers
        PROVE  /\ running'[v] \in 0 .. allocated'
               /\ Executes(v)' => running'[v] # 0
               /\ running'[v] # 0 => Executes(v)' \/ pc'[v] = "dead"
    BY <1>1, <1>2, <1>4 DEF TaskInv, TaskTypes, Executes
  <2>3. \A i \in 1 .. Len(queue') : queue'[i] \in 1 .. allocated'
    BY <1>2, <1>3 DEF TaskInv, TaskTypes
  <2> QED BY <1>2, <2>1, <2>2, <2>3 DEF TaskInv, TaskTypes
<1>6. OnePlace'
  <2>1. \A u, v \in Workers : running'[u] # 0 /\ running'[u] = running'[v] => u = v
    BY <1>2, <1>3 DEF TaskInv, OnePlace
  <2>2. \A i, j \in 1 .. Len(queue') : queue'[i] = queue'[j] => i = j
    BY <1>3 DEF TaskInv, OnePlace
  <2>3. \A b \in Adders, i \in 1 .. Len(queue') : newtask'[b] # queue'[i]
    BY <1>2, <1>3 DEF TaskInv, OnePlace
  <2>4. \A v \in Workers, i \in 1 .. Len(queue') : running'[v] # queue'[i]
    BY <1>2, <1>3 DEF TaskInv, OnePlace
  <2>5. \A b \in Adders, v \in Workers : newtask'[b] # 0 => newtask'[b] # running'[v]
    BY <1>2, <1>3 DEF TaskInv, OnePlace
  <2> QED BY <1>2, <2>1, <2>2, <2>3, <2>4, <2>5 DEF TaskInv, OnePlace
<1> QED BY <1>5, <1>6 DEF TaskInv

LEMMA FinishStep ==
    ASSUME TypeOK, TaskInv, NEW w \in Workers, Finish(w)
    PROVE  TaskInv'
<1> USE ThreadSets
<1>1. pc'[w] = "lock" /\ \A u \in Thread \ {w} : pc'[u] = pc[u]
  BY GoToFacts DEF Finish
<1>2. /\ running' = [running EXCEPT ![w] = 0] /\ running \in [Workers -> Nat]
      /\ UNCHANGED << queue, newtask, allocated >> /\ pc[w] = "run"
  BY DEF Finish, TypeOK, At, NoTask, list
<1>3. TaskTypes'
  <2>1. ASSUME NEW b \in Adders
        PROVE  /\ newtask'[b] \in 0 .. allocated'
               /\ HoldsNew(b)' => newtask'[b] # 0
               /\ newtask'[b] # 0 => HoldsNew(b)' \/ pc'[b] = "dead"
    BY <1>1, <1>2 DEF TaskInv, TaskTypes, HoldsNew
  <2>2. ASSUME NEW v \in Workers
        PROVE  /\ running'[v] \in 0 .. allocated'
               /\ Executes(v)' => running'[v] # 0
               /\ running'[v] # 0 => Executes(v)' \/ pc'[v] = "dead"
    BY <1>1, <1>2 DEF TaskInv, TaskTypes, Executes
  <2> QED BY <1>2, <2>1, <2>2 DEF TaskInv, TaskTypes
<1>4. OnePlace' BY <1>2 DEF TaskInv, TaskTypes, OnePlace
<1> QED BY <1>3, <1>4 DEF TaskInv

LEMMA TaskStep == TypeOK /\ TaskInv /\ [Next]_vars => TaskInv'
<1> SUFFICES ASSUME TypeOK, TaskInv, [Next]_vars PROVE TaskInv'
  OBVIOUS
<1> USE ThreadSets DEF At
<1>1. CASE UNCHANGED vars
  BY <1>1 DEF TaskInv, TaskTypes, OnePlace, HoldsNew, Executes, vars, list, tasks
<1>2. ASSUME NEW w \in Workers, Job(w) PROVE TaskInv'
  <2> USE DEF HoldsNew, Executes, list
  <2>1. CASE Lock(w) BY <2>1, TasksStay DEF Lock
  <2>2. CASE Sleep(w) BY <2>2, TasksStay DEF Sleep
  <2>3. CASE SemWait(w) BY <2>3, TasksStay DEF SemWait
  <2>4. CASE Relock(w) BY <2>4, TasksStay DEF Relock
  <2>5. CASE SeeValue(w) BY <2>5, TasksStay DEF SeeValue
  <2>6. CASE Drain(w) BY <2>6, TasksStay DEF Drain
  <2>7. CASE Exit(w) BY <2>7, TasksStay DEF Exit
  <2>8. CASE Dequeue(w) BY <2>8, DequeueStep
  <2>9. CASE Finish(w) BY <2>9, FinishStep
  <2> QED BY <1>2, <2>1, <2>2, <2>3, <2>4, <2>5, <2>6, <2>7, <2>8, <2>9 DEF Job
<1>3. ASSUME NEW a \in Adders, AddAlloc(a) \/ Adding(a) PROVE TaskInv'
  <2> USE DEF HoldsNew, Executes, list
  <2>0. Home(a) \in {"run", "idle"} /\ (a \in Workers => Home(a) = "run") BY HomeFacts
  <2>1. CASE AddAlloc(a) BY <2>1, AllocStep
  <2>2. CASE AddLock(a) BY <2>2, TasksStay DEF AddLock
  <2>3. CASE AddLink(a) BY <2>3, LinkStep
  <2>4. CASE AddSignal(a) BY <2>0, <2>4, TasksStay DEF AddSignal
  <2> QED BY <1>3, <2>1, <2>2, <2>3, <2>4 DEF Adding
<1>4. ASSUME NEW d \in Deleters, DelLock(d) \/ Deleting(d) PROVE TaskInv'
  <2> USE PoolAssumption DEF HoldsNew, Executes, list
  <2>1. CASE DelLock(d) BY <2>1, TasksStay DEF DelLock
  <2>2. CASE DelFree(d) BY <2>2, TasksStay DEF DelFree
  <2>3. CASE DelNext(d) BY <2>3, TasksDropped DEF DelNext
  <2>4. CASE DelReset(d) BY <2>4, TasksStay DEF DelReset
  <2> QED BY <1>4, <2>1, <2>2, <2>3, <2>4 DEF Deleting
<1>5. ASSUME NEW d \in Destroyers, DesCheck(d) \/ Destroying(d) PROVE TaskInv'
  <2> USE PoolAssumption DEF HoldsNew, Executes, list
  <2>1. CASE DesCheck(d) BY <2>1, TasksStay DEF DesCheck
  <2>2. CASE DesSet(d) BY <2>2, TasksStay DEF DesSet
  <2>3. ASSUME NEW w \in Workers, DesKill(d, w) PROVE TaskInv'
    BY <2>3, TasksStay DEF DesKill
  <2>4. CASE DesKilled(d) BY <2>4, TasksStay DEF DesKilled
  <2>5. CASE DesLock(d) BY <2>5, TasksStay DEF DesLock
  <2>6. CASE DesSem(d) BY <2>6, TasksStay DEF DesSem
  <2>7. CASE DesFree(d) BY <2>7, TasksDropped DEF DesFree
  <2> QED BY <1>5, <2>1, <2>2, <2>3, <2>4, <2>5, <2>6, <2>7 DEF Destroying
<1> QED BY <1>1, <1>2, <1>3, <1>4, <1>5 DEF Next

LEMMA TaskInit == Init => TaskInv
<1> SUFFICES ASSUME Init PROVE TaskInv OBVIOUS
<1>1. 1 .. Len(queue) = {} BY EmptySeq DEF Init
<1>2. TaskTypes
  BY <1>1, ThreadSets, PoolAssumption DEF Init, TaskTypes, HoldsNew, Executes, NoTask
<1>3. OnePlace BY <1>1 DEF Init, OnePlace, NoTask
<1> QED BY <1>2, <1>3 DEF TaskInv

LEMMA TaskInvariant == Spec => [](TypeOK /\ TaskInv)
<1> QED BY TaskInit, TaskStep, TypeCorrect, PTL DEF Spec
-----------------------------------------------------------------------------
(* The refinement mapping. *)
submittedBar == (1 .. allocated) \ {newtask[a] : a \in Adders}
runningBar == {running[w] : w \in Workers} \ {NoTask}

(* A step that moves no task is a stutter of the promised pool. *)
LEMMA StutterStep ==
    ASSUME UNCHANGED << queue, tasks >>
    PROVE  UNCHANGED Promise!vars
BY DEF Promise!vars, tasks

LEMMA AllocRefines ==
    ASSUME TypeOK, TaskInv, NEW a \in Adders, AddAlloc(a)
    PROVE  UNCHANGED Promise!vars
<1>1. /\ allocated' = allocated + 1 /\ allocated \in Nat
      /\ newtask' = [newtask EXCEPT ![a] = allocated + 1] /\ newtask \in [Adders -> Nat]
      /\ UNCHANGED << queue, running >>
  BY DEF AddAlloc, TypeOK
<1>2. newtask[a] = 0
  BY HomeFacts, ThreadSets DEF AddAlloc, TaskInv, TaskTypes, HoldsNew
<1>3. submittedBar' = submittedBar
  <2>1. ASSUME NEW k \in Nat PROVE k \in submittedBar' <=> k \in submittedBar
    <3>1. k \in submittedBar <=> (k \in 1 .. allocated /\ \A b \in Adders : newtask[b] # k)
      BY DEF submittedBar
    <3>2. k \in submittedBar' <=> (k \in 1 .. allocated' /\ \A b \in Adders : newtask'[b] # k)
      BY DEF submittedBar
    <3> QED BY <1>1, <1>2, <3>1, <3>2
  <2>2. submittedBar \subseteq Nat /\ submittedBar' \subseteq Nat BY DEF submittedBar
  <2> QED BY <2>1, <2>2
<1> QED BY <1>1, <1>3 DEF Promise!vars, submittedBar

(* addTask submits its task when it links it. *)
LEMMA LinkRefines ==
    ASSUME TypeOK, TaskInv, NEW a \in Adders, AddLink(a)
    PROVE  \E k \in Task : Promise!Submit(k)
<1>1. /\ newtask' = [newtask EXCEPT ![a] = 0] /\ newtask \in [Adders -> Nat]
      /\ queue' = Append(queue, newtask[a])
      /\ UNCHANGED << running, allocated >>
  BY DEF AddLink, TypeOK, NoTask
<1>2. newtask[a] \in 1 .. allocated
  BY ThreadSets DEF AddLink, At, TaskInv, TaskTypes, HoldsNew
<1>3. newtask[a] \in Task BY <1>2, PoolAssumption DEF TaskInv, TaskTypes, Task
<1>4. newtask[a] \notin submittedBar BY DEF submittedBar
<1>5. submittedBar' = submittedBar \cup {newtask[a]}
  <2>1. ASSUME NEW k \in Nat
        PROVE  k \in submittedBar' <=> k \in submittedBar \/ k = newtask[a]
    <3>1. k \in submittedBar <=> (k \in 1 .. allocated /\ \A b \in Adders : newtask[b] # k)
      BY DEF submittedBar
    <3>2. k \in submittedBar' <=> (k \in 1 .. allocated /\ \A b \in Adders : newtask'[b] # k)
      BY <1>1 DEF submittedBar
    <3>3. \A b \in Adders \ {a} : newtask[b] # newtask[a] BY <1>2 DEF TaskInv, OnePlace
    <3> QED BY <1>1, <1>2, <3>1, <3>2, <3>3
  <2>2. submittedBar \subseteq Nat /\ submittedBar' \subseteq Nat BY DEF submittedBar
  <2>3. newtask[a] \in Nat BY DEF TypeOK
  <2> QED BY <2>1, <2>2, <2>3
<1> QED BY <1>1, <1>3, <1>4, <1>5 DEF Promise!Submit, submittedBar

(* A worker that dequeues starts the oldest task, ... *)
LEMMA DequeueRefines ==
    ASSUME TypeOK, TaskInv, NEW w \in Workers, Dequeue(w)
    PROVE  Promise!Start
<1>1. /\ running' = [running EXCEPT ![w] = Head(queue)] /\ running \in [Workers -> Nat]
      /\ queue # << >> /\ queue' = Tail(queue)
      /\ UNCHANGED << newtask, allocated >>
  BY DEF Dequeue, TypeOK
<1>2. running[w] = 0
  BY ThreadSets DEF Dequeue, At, TaskInv, TaskTypes, Executes
<1>3. Head(queue) = queue[1] /\ Len(queue) \in Nat \ {0} BY <1>1, EmptySeq DEF TypeOK
<1>4. Head(queue) \in Nat \ {0} BY <1>3 DEF TaskInv, TaskTypes
<1>5. runningBar' = runningBar \cup {Head(queue)} BY <1>1, <1>2, <1>4 DEF runningBar, NoTask
<1> QED BY <1>1, <1>5 DEF Promise!Start, runningBar

(* ... and finishes it once. *)
LEMMA FinishRefines ==
    ASSUME TypeOK, TaskInv, NEW w \in Workers, Finish(w)
    PROVE  \E k \in Task : Promise!Finish(k)
<1>1. /\ running' = [running EXCEPT ![w] = 0] /\ running \in [Workers -> Nat]
      /\ UNCHANGED << queue, newtask, allocated >>
  BY DEF Finish, TypeOK, NoTask, list
<1>2. running[w] \in 1 .. allocated
  BY ThreadSets DEF Finish, At, TaskInv, TaskTypes, Executes
<1>3. running[w] \in Task BY <1>2, PoolAssumption DEF TaskInv, TaskTypes, Task
<1>4. running[w] \in runningBar BY <1>2 DEF runningBar, NoTask
<1>5. \A v \in Workers \ {w} : running[v] # running[w] BY <1>2 DEF TaskInv, OnePlace
<1>6. runningBar' = runningBar \ {running[w]} BY <1>1, <1>2, <1>5 DEF runningBar, NoTask
<1> QED BY <1>1, <1>3, <1>4, <1>6 DEF Promise!Finish, runningBar

(* delAll throws away the oldest task that waits or, when it has lost the     *)
(* rest of the list, all of them; destroy throws away what is left.           *)
LEMMA DropRefines ==
    ASSUME UNCHANGED tasks,
           queue' = << >> \/ (queue # << >> /\ queue' = Tail(queue))
    PROVE  Promise!Discard \/ UNCHANGED Promise!vars
BY DEF Promise!Discard, Promise!vars, tasks

LEMMA StepRefines == TypeOK /\ TaskInv /\ [Next]_vars => [Promise!Next]_(Promise!vars)
<1> SUFFICES ASSUME TypeOK, TaskInv, [Next]_vars
             PROVE  Promise!Next \/ UNCHANGED Promise!vars
  OBVIOUS
<1>1. CASE UNCHANGED vars BY <1>1, StutterStep DEF vars, list
<1>2. ASSUME NEW w \in Workers, Job(w)
      PROVE  Promise!Next \/ UNCHANGED Promise!vars
  <2>1. CASE Dequeue(w) BY <2>1, DequeueRefines DEF Promise!Next
  <2>2. CASE Finish(w) BY <2>2, FinishRefines DEF Promise!Next
  <2>3. CASE Lock(w) \/ Sleep(w) \/ SemWait(w) \/ Relock(w) \/ SeeValue(w)
    BY <2>3, StutterStep DEF Lock, Sleep, SemWait, Relock, SeeValue, list
  <2>4. CASE Drain(w) \/ Exit(w) BY <2>4, StutterStep DEF Drain, Exit, list
  <2> QED BY <1>2, <2>1, <2>2, <2>3, <2>4 DEF Job
<1>3. ASSUME NEW a \in Adders, AddAlloc(a) \/ Adding(a)
      PROVE  Promise!Next \/ UNCHANGED Promise!vars
  <2>1. CASE AddAlloc(a) BY <2>1, AllocRefines
  <2>2. CASE AddLink(a) BY <2>2, LinkRefines DEF Promise!Next
  <2>3. CASE AddLock(a) \/ AddSignal(a)
    BY <2>3, StutterStep DEF AddLock, AddSignal, list
  <2> QED BY <1>3, <2>1, <2>2, <2>3 DEF Adding
<1>4. ASSUME NEW d \in Deleters, DelLock(d) \/ Deleting(d)
      PROVE  Promise!Next \/ UNCHANGED Promise!vars
  <2>1. CASE DelNext(d) BY <2>1, DropRefines DEF DelNext, Promise!Next
  <2>2. CASE DelLock(d) \/ DelFree(d) \/ DelReset(d)
    BY <2>2, StutterStep DEF DelLock, DelFree, DelReset, list
  <2> QED BY <1>4, <2>1, <2>2 DEF Deleting
<1>5. ASSUME NEW d \in Destroyers, DesCheck(d) \/ Destroying(d)
      PROVE  Promise!Next \/ UNCHANGED Promise!vars
  <2>1. CASE DesFree(d) BY <2>1, DropRefines DEF DesFree, Promise!Next
  <2>2. CASE DesCheck(d) \/ DesSet(d) \/ DesKilled(d) \/ DesLock(d) \/ DesSem(d)
    BY <2>2, StutterStep DEF DesCheck, DesSet, DesKilled, DesLock, DesSem, list
  <2>3. ASSUME NEW w \in Workers, DesKill(d, w) PROVE UNCHANGED Promise!vars
    BY <2>3, StutterStep DEF DesKill, list
  <2> QED BY <1>5, <2>1, <2>2, <2>3 DEF Destroying
<1> QED BY <1>1, <1>2, <1>3, <1>4, <1>5 DEF Next

(* The pool keeps the promises of TaskPool: a task is started at most once    *)
(* and in the order of submission, by whichever worker and whatever delAll    *)
(* and destroy do meanwhile, and no task is dropped but by those two (lines   *)
(* 92-115, 124-149, 154-176, 196-239).                                        *)
THEOREM PromiseKept == Spec => PromiseSafety
<1>1. Init => Promise!Init BY PoolAssumption DEF Init, Promise!Init, NoTask
<1> QED BY <1>1, StepRefines, TaskInvariant, PTL DEF Spec, PromiseSafety, Promise!Spec
-----------------------------------------------------------------------------
(* No task block is ever with two workers, nor twice in the list, nor both:   *)
(* so each is run and freed at most once, which happens without queueLock     *)
(* (rtthread_pool.c:223-229).                                              *)
THEOREM TasksAreApart == Spec => []NoTaskTwice
<1>1. TypeOK /\ TaskInv => NoTaskTwice
  <2> SUFFICES ASSUME TypeOK, TaskTypes, OnePlace PROVE NoTaskTwice BY DEF TaskInv
  <2>1. queue \in Seq(Nat) /\ DOMAIN queue = 1 .. Len(queue) BY DEF TypeOK
  <2>2. ToSet(queue) = {queue[i] : i \in 1 .. Len(queue)} BY <2>1 DEF ToSet
  <2>3. IsInjective(queue) BY <2>1 DEF OnePlace, IsInjective
  <2>4. \A w \in Workers : running[w] \notin ToSet(queue) BY <2>2 DEF OnePlace
  <2>5. \A a \in Adders : newtask[a] \notin ToSet(queue) BY <2>2 DEF OnePlace
  <2> QED BY <2>3, <2>4, <2>5 DEF OnePlace, NoTaskTwice, NoTask
<1> QED BY <1>1, TaskInvariant, PTL
=============================================================================
