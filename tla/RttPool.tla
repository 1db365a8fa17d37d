------------------------------ MODULE RttPool ------------------------------
(***************************************************************************)
(* The RT-Thread thread pool, src/thread_pool/rt-thread/rtthread_pool.c.   *)
(*                                                                         *)
(* Workers run threadJob; the threads in Adders, Deleters and Destroyers   *)
(* call addTask, delAll and destroy, any number of times.  A worker may be *)
(* an adder: its task then calls addTask, as a cache listener that sets    *)
(* other data does.  A step is the code between two points where others can*)
(* see a difference: a call that may suspend ends a step, and a release of *)
(* queueLock is part of the step before it.                                *)
(*                                                                         *)
(* Tasks are numbered in the order addTask allocates them.                 *)
(***************************************************************************)
EXTENDS RttIpc, FiniteSets

CONSTANTS Workers, Adders, Deleters, Destroyers,
          CounterMod,   \* 2^8: curWaitThreadNum is a uint8_t
          MaxTasks      \* bound: tasks allocated in a behaviour

Clients == (Adders \cup Deleters \cup Destroyers) \ Workers
Thread == Workers \cup Clients
NoTask == 0
Task == 1 .. MaxTasks

ASSUME PoolAssumption ==
    /\ NoThread \notin Thread
    /\ Deleters \cap Workers = {} /\ Destroyers \cap Workers = {}
    /\ CounterMod \in Nat \ {0}
    /\ MaxTasks \in Nat

VARIABLES queue,        \* queueHead: the tasks of the list, first to last
          cur,          \* curWaitThreadNum
          queueLock, queueReady, isShutdown,
          deleted,      \* TRUE once destroy has deleted queueLock
          pc,           \* where each thread is
          newtask,      \* the task an addTask in progress has allocated
          running,      \* the task a worker executes
          allocated,    \* number of tasks allocated so far
          freed,        \* the head block delAll has freed but still reads
          leaked        \* tasks that are in no list although nobody took them

sync == << queueLock, queueReady, deleted, isShutdown >>
list == << queue, cur, freed, leaked >>
tasks == << newtask, running, allocated >>
vars == << sync, list, tasks, pc >>

(* Places where the code between a take and a release of queueLock is. *)
InLock == {"check", "drain", "addLink", "delLoop", "delNext"}

PcTypes == InLock \cup {"lock", "semTake", "relock", "run", "exited", "dead",
                        "idle", "addLock", "addSignal", "delLock", "desSet",
                        "desKill", "desLock", "desSem", "desFree", "gone"}

Init ==
    /\ queue = << >> /\ cur = 0
    /\ queueLock = FreeMutex /\ queueReady = EmptySem /\ isShutdown = FALSE
    /\ deleted = FALSE
    /\ pc = [t \in Thread |-> IF t \in Workers THEN "lock" ELSE "idle"]
    /\ newtask = [t \in Adders |-> NoTask]
    /\ running = [w \in Workers |-> NoTask]
    /\ allocated = 0
    /\ freed = "none"
    /\ leaked = {}

Suspended(t) == t \in ToSet(queueLock.waiting) \cup ToSet(queueReady.waiting)
At(t, l) == pc[t] = l /\ ~Suspended(t)
GoTo(t, l) == pc' = [pc EXCEPT ![t] = l]

(* Outside the pool's operations: a client between calls, a worker in its task. *)
Home(t) == IF t \in Workers THEN "run" ELSE "idle"

(* Once queueLock is deleted its memory is gone: a later call is undefined *)
(* and the model stops the thread there.                                   *)
Take(t) == ~deleted /\ queueLock' = MutexTake(queueLock, t)
Release(t) == ~deleted /\ queueLock' = MutexRelease(queueLock, t)

(* An 8-bit counter. *)
Inc(n) == IF n + 1 = CounterMod THEN 0 ELSE n + 1
Dec(n) == IF n = 0 THEN CounterMod - 1 ELSE n - 1
-----------------------------------------------------------------------------
(* Mutated forms of actions below, each with one mistake. *)
RelockUnlocked(w) ==
    /\ At(w, "relock") /\ GoTo(w, "check")
    /\ UNCHANGED << sync, list, tasks >>

SleepLocked(w) ==
    /\ At(w, "check") /\ cur = 0 /\ ~isShutdown /\ queueReady.value = 0
    /\ GoTo(w, "semTake")
    /\ UNCHANGED << sync, list, tasks >>

SemWaitAnyway(w) ==
    /\ At(w, "semTake") /\ ~deleted
    /\ queueReady' = [queueReady EXCEPT !.waiting = Append(@, w)] /\ GoTo(w, "relock")
    /\ UNCHANGED << queueLock, deleted, isShutdown, list, tasks >>

LinkAs(a, newQueue, next) ==
    /\ At(a, "addLink")
    /\ queue' = newQueue
    /\ newtask' = [newtask EXCEPT ![a] = NoTask]
    /\ cur' = Inc(cur)
    /\ Release(a) /\ GoTo(a, next)
    /\ UNCHANGED << queueReady, deleted, isShutdown, freed, leaked, running, allocated >>

AddLinkFirst(a) == LinkAs(a, << newtask[a] >> \o queue, "addSignal")
AddLinkSilent(a) == LinkAs(a, Append(queue, newtask[a]), Home(a))

DequeueStillLinked(w) ==
    /\ At(w, "check") /\ cur # 0 /\ ~isShutdown /\ queue # << >>
    /\ cur' = Dec(cur)
    /\ running' = [running EXCEPT ![w] = Head(queue)]
    /\ Release(w) /\ GoTo(w, "run")
    /\ UNCHANGED << queueReady, deleted, isShutdown, queue, freed, leaked, newtask, allocated >>

DelNextUncounted(d) ==
    /\ At(d, "delNext") /\ queue # << >>
    /\ queue' = Tail(queue) /\ freed' = "none" /\ GoTo(d, "delLoop")
    /\ UNCHANGED << sync, tasks, cur, leaked >>

DesKilledJoins(d) ==
    /\ pc[d] = "desKill" /\ \A w \in Workers : pc[w] = "exited"
    /\ GoTo(d, "desLock")
    /\ UNCHANGED << sync, list, tasks >>
-----------------------------------------------------------------------------
(* threadJob. *)
Lock(w) ==
    /\ At(w, "lock") /\ Take(w) /\ GoTo(w, "check")
    /\ UNCHANGED << queueReady, deleted, isShutdown, list, tasks >>

(* Nothing waits and the semaphore is zero: release, and then block. *)
Sleep(w) ==
    /\ At(w, "check") /\ cur = 0 /\ ~isShutdown /\ queueReady.value = 0
    /\ Release(w) /\ GoTo(w, "semTake")
    /\ UNCHANGED << queueReady, deleted, isShutdown, list, tasks >>

SemWait(w) ==
    /\ At(w, "semTake") /\ ~deleted
    /\ queueReady' = SemTake(queueReady, w) /\ GoTo(w, "relock")
    /\ UNCHANGED << queueLock, deleted, isShutdown, list, tasks >>

Relock(w) ==
    /\ At(w, "relock") /\ Take(w) /\ GoTo(w, "check")
    /\ UNCHANGED << queueReady, deleted, isShutdown, list, tasks >>

(* Nothing waits but the semaphore was seen above zero: take it, with *)
(* queueLock held.                                                     *)
SeeValue(w) ==
    /\ At(w, "check") /\ cur = 0 /\ ~isShutdown /\ queueReady.value > 0
    /\ GoTo(w, "drain")
    /\ UNCHANGED << sync, list, tasks >>

Drain(w) ==
    /\ At(w, "drain") /\ ~deleted
    /\ queueReady' = SemTake(queueReady, w) /\ GoTo(w, "check")
    /\ UNCHANGED << queueLock, deleted, isShutdown, list, tasks >>

Exit(w) ==
    /\ At(w, "check") /\ isShutdown
    /\ Release(w) /\ GoTo(w, "exited")
    /\ UNCHANGED << queueReady, deleted, isShutdown, list, tasks >>

(* With an empty list the assertion on queueHead stops the worker here. *)
Dequeue(w) ==
    /\ At(w, "check") /\ cur # 0 /\ ~isShutdown /\ queue # << >>
    /\ cur' = Dec(cur)
    /\ running' = [running EXCEPT ![w] = Head(queue)]
    /\ queue' = Tail(queue)
    /\ Release(w) /\ GoTo(w, "run")
    /\ UNCHANGED << queueReady, deleted, isShutdown, freed, leaked, newtask, allocated >>

(* The task returns and its block is freed. *)
Finish(w) ==
    /\ At(w, "run")
    /\ running' = [running EXCEPT ![w] = NoTask] /\ GoTo(w, "lock")
    /\ UNCHANGED << sync, list, newtask, allocated >>
-----------------------------------------------------------------------------
(* addTask.  Allocation comes before the lock, so the heap may hand out the *)
(* block that a delAll in progress has just freed; setting next to NULL     *)
(* then cuts the list delAll is walking.                                    *)
AddAlloc(a) ==
    /\ pc[a] = Home(a) /\ allocated < MaxTasks
    /\ allocated' = allocated + 1
    /\ newtask' = [newtask EXCEPT ![a] = allocated + 1]
    /\ \/ freed' = freed
       \/ freed = "intact" /\ freed' = "reused"
    /\ GoTo(a, "addLock")
    /\ UNCHANGED << sync, queue, cur, leaked, running >>

AddLock(a) ==
    /\ At(a, "addLock") /\ Take(a) /\ GoTo(a, "addLink")
    /\ UNCHANGED << queueReady, deleted, isShutdown, list, tasks >>

AddLink(a) ==
    /\ At(a, "addLink")
    /\ queue' = Append(queue, newtask[a])
    /\ newtask' = [newtask EXCEPT ![a] = NoTask]
    /\ cur' = Inc(cur)
    /\ Release(a) /\ GoTo(a, "addSignal")
    /\ UNCHANGED << queueReady, deleted, isShutdown, freed, leaked, running, allocated >>

AddSignal(a) ==
    /\ At(a, "addSignal") /\ ~deleted
    /\ queueReady' = SemRelease(queueReady) /\ GoTo(a, Home(a))
    /\ UNCHANGED << queueLock, deleted, isShutdown, list, tasks >>
-----------------------------------------------------------------------------
(* delAll. *)
DelLock(d) ==
    /\ At(d, "idle") /\ Take(d) /\ GoTo(d, "delLoop")
    /\ UNCHANGED << queueReady, deleted, isShutdown, list, tasks >>

DelFree(d) ==
    /\ At(d, "delLoop") /\ ~deleted /\ queue # << >>
    /\ freed' = "intact" /\ GoTo(d, "delNext")
    /\ UNCHANGED << sync, queue, cur, leaked, tasks >>

(* queueHead->next is read from the block that was just freed; were the list  *)
(* emptied in between, this would read through a null pointer and stop there. *)
DelNext(d) ==
    /\ At(d, "delNext") /\ queue # << >>
    /\ IF freed = "reused"
       THEN queue' = << >> /\ leaked' = leaked \cup ToSet(Tail(queue))
       ELSE queue' = Tail(queue) /\ UNCHANGED leaked
    /\ cur' = Dec(cur)
    /\ freed' = "none" /\ GoTo(d, "delLoop")
    /\ UNCHANGED << sync, tasks >>

(* Everything is freed: reset the semaphore, which resumes its waiters. *)
DelReset(d) ==
    /\ At(d, "delLoop") /\ queue = << >>
    /\ queueReady' = EmptySem
    /\ Release(d) /\ GoTo(d, "idle")
    /\ UNCHANGED << deleted, isShutdown, list, tasks >>
-----------------------------------------------------------------------------
(* destroy.  isShutdown is tested and set without a lock. *)
DesCheck(d) ==
    /\ At(d, "idle") /\ ~isShutdown /\ GoTo(d, "desSet")
    /\ UNCHANGED << sync, list, tasks >>

DesSet(d) ==
    /\ pc[d] = "desSet" /\ isShutdown' = TRUE /\ GoTo(d, "desKill")
    /\ UNCHANGED << queueLock, queueReady, deleted, list, tasks >>

(* One rt_thread_delete, whatever the worker is doing; what it owns stays owned. *)
DesKill(d, w) ==
    /\ pc[d] = "desKill" /\ pc[w] # "dead"
    /\ queueLock' = [queueLock EXCEPT !.waiting = Unlink(@, w)]
    /\ queueReady' = [queueReady EXCEPT !.waiting = Unlink(@, w)]
    /\ GoTo(w, "dead")
    /\ UNCHANGED << deleted, isShutdown, list, tasks >>

DesKilled(d) ==
    /\ pc[d] = "desKill" /\ \A w \in Workers : pc[w] = "dead"
    /\ GoTo(d, "desLock")
    /\ UNCHANGED << sync, list, tasks >>

(* rt_mutex_delete: whoever waits goes on, without the mutex. *)
DesLock(d) ==
    /\ pc[d] = "desLock" /\ ~deleted
    /\ queueLock' = FreeMutex /\ deleted' = TRUE /\ GoTo(d, "desSem")
    /\ UNCHANGED << queueReady, isShutdown, list, tasks >>

DesSem(d) ==
    /\ pc[d] = "desSem" /\ queueReady' = EmptySem /\ GoTo(d, "desFree")
    /\ UNCHANGED << queueLock, deleted, isShutdown, list, tasks >>

DesFree(d) ==
    /\ pc[d] = "desFree" /\ queue' = << >> /\ GoTo(d, "gone")
    /\ UNCHANGED << sync, cur, freed, leaked, tasks >>
-----------------------------------------------------------------------------
Job(w) == \/ Lock(w) \/ Sleep(w) \/ SemWait(w) \/ Relock(w) \/ SeeValue(w)
          \/ Drain(w) \/ Exit(w) \/ Dequeue(w) \/ Finish(w)

Adding(a) == AddLock(a) \/ AddLink(a) \/ AddSignal(a)
Deleting(d) == DelFree(d) \/ DelNext(d) \/ DelReset(d)
Destroying(d) == \/ DesSet(d) \/ DesKilled(d) \/ DesLock(d) \/ DesSem(d) \/ DesFree(d)
                 \/ \E w \in Workers : DesKill(d, w)

Next == \/ \E w \in Workers : Job(w)
        \/ \E a \in Adders : AddAlloc(a) \/ Adding(a)
        \/ \E d \in Deleters : DelLock(d) \/ Deleting(d)
        \/ \E d \in Destroyers : DesCheck(d) \/ Destroying(d)

Spec == Init /\ [][Next]_vars

(* Every thread that can go on does: the kernel schedules every ready      *)
(* thread and tasks return.  Nobody is obliged to start an operation.      *)
FairSpec == /\ Spec
            /\ \A w \in Workers : WF_vars(Job(w))
            /\ \A a \in Adders : WF_vars(Adding(a))
            /\ \A d \in Deleters : WF_vars(Deleting(d))
            /\ \A d \in Destroyers : WF_vars(Destroying(d))
-----------------------------------------------------------------------------
TypeOK ==
    /\ queue \in Seq(Nat) /\ cur \in 0 .. CounterMod - 1
    /\ queueLock \in Mutex(Thread) /\ queueReady \in Semaphore(Thread)
    /\ isShutdown \in BOOLEAN /\ deleted \in BOOLEAN
    /\ pc \in [Thread -> PcTypes]
    /\ newtask \in [Adders -> Nat] /\ running \in [Workers -> Nat]
    /\ allocated \in Nat
    /\ freed \in {"none", "intact", "reused"}
    /\ leaked \subseteq Nat

(* Between a take and a release of queueLock there is one thread at most,  *)
(* through every hand-off to a suspended thread and every rt_thread_delete *)
(* of an owner, until destroy deletes the mutex (lines 99-113, 130-143 and *)
(* 200-225).                                                               *)
MutualExclusion ==
    ~deleted => \A s, t \in Thread :
        (/\ pc[s] \in InLock /\ s \notin ToSet(queueLock.waiting)
         /\ pc[t] \in InLock /\ t \notin ToSet(queueLock.waiting)) => s = t

(* curWaitThreadNum is the length of the list, modulo its width, as long   *)
(* as no delAll has lost part of the list.                                 *)
CounterMatchesQueue ==
    (~deleted /\ leaked = {}) => \E k \in 0 .. Len(queue) : Len(queue) = cur + k * CounterMod

(* No lost wakeup: when tasks wait, the counter knows it and every worker   *)
(* sleeps, an addTask has its rt_sem_release, or a delAll its reset, still  *)
(* to come.  A worker tests the counter under the lock but goes to sleep    *)
(* after releasing it, and delAll resets the semaphore while signals are on *)
(* their way (lines 113-115, 141, 205-209).                                 *)
NoLostWakeup ==
    (/\ queue # << >> /\ cur = Len(queue)
     /\ \A w \in Workers : w \in ToSet(queueReady.waiting))
        => \/ \E a \in Adders : pc[a] = "addSignal"
           \/ \E d \in Deleters : pc[d] \in {"delLoop", "delNext"}

(* "Before thread block the queueLock will unlock" (line 203): a thread that *)
(* is suspended on queueReady does not own queueLock.                        *)
SuspendedHoldsNoLock ==
    \A w \in Workers : w \in ToSet(queueReady.waiting) => queueLock.owner # w

(* destroy returns, whatever it interrupts: a worker that holds queueLock,    *)
(* waits for it or sleeps, a delAll or an addTask under way (lines 154-172).  *)
DestroyReturns == \A d \in Destroyers : (pc[d] = "desSet") ~> (pc[d] = "gone")

(* A task block is with one worker, at one place of the list, or with the    *)
(* addTask that allocated it: never do two workers run and free the same     *)
(* block, which happens after queueLock was released (lines 223-229), nor is *)
(* a block listed twice.                                                     *)
NoTaskTwice ==
    /\ IsInjective(queue)
    /\ \A v, w \in Workers : running[v] = running[w] /\ running[v] # NoTask => v = w
    /\ \A w \in Workers : running[w] \notin ToSet(queue)
    /\ \A a \in Adders : newtask[a] # NoTask =>
            newtask[a] \notin ToSet(queue) /\ \A w \in Workers : newtask[a] # running[w]

(* The pool implements the promises of TaskPool. *)
Promise == INSTANCE TaskPool WITH
    submitted <- (1 .. allocated) \ {newtask[a] : a \in Adders},
    pending <- queue,
    running <- {running[w] : w \in Workers} \ {NoTask}

PromiseSafety == Promise!Spec
PromiseLiveness == Promise!FairSpec
=============================================================================
