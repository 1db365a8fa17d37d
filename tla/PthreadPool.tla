---------------------------- MODULE PthreadPool ----------------------------
(***************************************************************************)
(* The POSIX thread pool, src/thread_pool/pthread/pthread_pool.c: the same *)
(* interface as RttPool with a condition variable instead of a semaphore.  *)
(* A step is the code between two points where others can see a difference.*)
(* isShutdown is set without a lock, so a worker's test of it and the wait *)
(* that follows are two steps.                                             *)
(*                                                                         *)
(* delAll changes nothing ("fixme", line 115).  userLock is passed to the  *)
(* user as it is.  Tasks are numbered in the order addTask allocates them. *)
(***************************************************************************)
EXTENDS Integers, SequencesExt

CONSTANTS Workers, Adders, Destroyers,
          NoThread,
          CounterMod,   \* 2^8: curWaitThreadNum is a uint8_t
          MaxTasks      \* bound: tasks allocated in a behaviour

Clients == (Adders \cup Destroyers) \ Workers
Thread == Workers \cup Clients
NoTask == 0
Task == 1 .. MaxTasks

ASSUME PthreadAssumption ==
    /\ NoThread \notin Thread
    /\ Destroyers \cap Workers = {}
    /\ CounterMod \in Nat \ {0}
    /\ MaxTasks \in Nat

VARIABLES queue,        \* queueHead: the tasks of the list, first to last
          cur,          \* curWaitThreadNum
          queueLock,    \* who holds the mutex
          queueReady,   \* who waits on the condition variable
          isShutdown,
          freed,        \* TRUE once destroy has freed the pool
          pc,           \* where each thread is
          newtask,      \* the task an addTask in progress has allocated
          running,      \* the task a worker executes
          allocated     \* number of tasks allocated so far

sync == << queueLock, queueReady, isShutdown, freed >>
list == << queue, cur >>
tasks == << newtask, running, allocated >>
vars == << sync, list, tasks, pc >>

Init ==
    /\ queue = << >> /\ cur = 0
    /\ queueLock = NoThread /\ queueReady = {} /\ isShutdown = FALSE /\ freed = FALSE
    /\ pc = [t \in Thread |-> IF t \in Workers THEN "lock" ELSE "idle"]
    /\ newtask = [a \in Adders |-> NoTask]
    /\ running = [w \in Workers |-> NoTask]
    /\ allocated = 0

(* Between a lock and an unlock of queueLock. *)
InLock == {"check", "sleep", "addLink"}

At(t, l) == pc[t] = l
GoTo(t, l) == pc' = [pc EXCEPT ![t] = l]

(* Outside the pool's operations: a client between calls, a worker in its task. *)
Home(t) == IF t \in Workers THEN "run" ELSE "idle"

(* pthread_mutex_lock and _unlock; a freed pool stops its caller. *)
Take(t) == ~freed /\ queueLock = NoThread /\ queueLock' = t
Release(t) == queueLock = t /\ queueLock' = NoThread

Inc(n) == IF n + 1 = CounterMod THEN 0 ELSE n + 1
Dec(n) == IF n = 0 THEN CounterMod - 1 ELSE n - 1
-----------------------------------------------------------------------------
(* Mutated forms of actions below, each with one mistake. *)
RelockUnwoken(w) ==
    /\ At(w, "wait") /\ Take(w) /\ GoTo(w, "check")
    /\ UNCHANGED << queueReady, isShutdown, freed, list, tasks >>

SleepLocked(w) ==
    /\ At(w, "sleep") /\ queueReady' = queueReady \cup {w} /\ GoTo(w, "wait")
    /\ UNCHANGED << queueLock, isShutdown, freed, list, tasks >>

DequeueAs(w, task, rest, n) ==
    /\ At(w, "check") /\ cur # 0 /\ ~isShutdown
    /\ cur' = n
    /\ running' = [running EXCEPT ![w] = task]
    /\ queue' = rest
    /\ Release(w) /\ GoTo(w, "run")
    /\ UNCHANGED << queueReady, isShutdown, freed, newtask, allocated >>

DequeueLast(w) ==
    queue # << >> /\ DequeueAs(w, queue[Len(queue)], SubSeq(queue, 1, Len(queue) - 1), Dec(cur))

DequeueUncounted(w) == queue # << >> /\ DequeueAs(w, Head(queue), Tail(queue), cur)

DequeueStillLinked(w) == queue # << >> /\ DequeueAs(w, Head(queue), queue, Dec(cur))

AddLinkSilent(a) ==
    /\ At(a, "addLink")
    /\ queue' = Append(queue, newtask[a])
    /\ newtask' = [newtask EXCEPT ![a] = NoTask]
    /\ cur' = Inc(cur)
    /\ Release(a) /\ GoTo(a, Home(a))
    /\ UNCHANGED << queueReady, isShutdown, freed, running, allocated >>

DesSignal(d) ==
    /\ At(d, "desWake")
    /\ IF queueReady = {} THEN UNCHANGED queueReady
       ELSE \E w \in queueReady : queueReady' = queueReady \ {w}
    /\ GoTo(d, "desJoin")
    /\ UNCHANGED << queueLock, isShutdown, freed, list, tasks >>
-----------------------------------------------------------------------------
(* threadJob. *)
Lock(w) ==
    /\ At(w, "lock") /\ Take(w) /\ GoTo(w, "check")
    /\ UNCHANGED << queueReady, isShutdown, freed, list, tasks >>

FindNothing(w) ==
    /\ At(w, "check") /\ cur = 0 /\ ~isShutdown
    /\ GoTo(w, "sleep")
    /\ UNCHANGED << sync, list, tasks >>

(* pthread_cond_wait unlocks and waits in one step, ... *)
Sleep(w) ==
    /\ At(w, "sleep")
    /\ queueReady' = queueReady \cup {w}
    /\ Release(w) /\ GoTo(w, "wait")
    /\ UNCHANGED << isShutdown, freed, list, tasks >>

(* ... may return although nobody signalled, ... *)
WakeAnyway(w) ==
    /\ w \in queueReady
    /\ queueReady' = queueReady \ {w}
    /\ UNCHANGED << queueLock, isShutdown, freed, list, tasks, pc >>

(* ... and locks again before it returns. *)
Relock(w) ==
    /\ At(w, "wait") /\ w \notin queueReady /\ Take(w) /\ GoTo(w, "check")
    /\ UNCHANGED << queueReady, isShutdown, freed, list, tasks >>

Exit(w) ==
    /\ At(w, "check") /\ isShutdown
    /\ Release(w) /\ GoTo(w, "exited")
    /\ UNCHANGED << queueReady, isShutdown, freed, list, tasks >>

(* With an empty list the assertion on queueHead stops the worker here. *)
Dequeue(w) ==
    /\ At(w, "check") /\ cur # 0 /\ ~isShutdown /\ queue # << >>
    /\ cur' = Dec(cur)
    /\ running' = [running EXCEPT ![w] = Head(queue)]
    /\ queue' = Tail(queue)
    /\ Release(w) /\ GoTo(w, "run")
    /\ UNCHANGED << queueReady, isShutdown, freed, newtask, allocated >>

Finish(w) ==
    /\ At(w, "run")
    /\ running' = [running EXCEPT ![w] = NoTask] /\ GoTo(w, "lock")
    /\ UNCHANGED << sync, list, newtask, allocated >>
-----------------------------------------------------------------------------
(* addTask. *)
AddAlloc(a) ==
    /\ At(a, Home(a)) /\ allocated < MaxTasks
    /\ allocated' = allocated + 1
    /\ newtask' = [newtask EXCEPT ![a] = allocated + 1]
    /\ GoTo(a, "addLock")
    /\ UNCHANGED << sync, list, running >>

AddLock(a) ==
    /\ At(a, "addLock") /\ Take(a) /\ GoTo(a, "addLink")
    /\ UNCHANGED << queueReady, isShutdown, freed, list, tasks >>

AddLink(a) ==
    /\ At(a, "addLink")
    /\ queue' = Append(queue, newtask[a])
    /\ newtask' = [newtask EXCEPT ![a] = NoTask]
    /\ cur' = Inc(cur)
    /\ Release(a) /\ GoTo(a, "addSignal")
    /\ UNCHANGED << queueReady, isShutdown, freed, running, allocated >>

(* pthread_cond_signal, after the unlock: any one of those who wait. *)
AddSignal(a) ==
    /\ At(a, "addSignal") /\ ~freed
    /\ \/ queueReady = {} /\ UNCHANGED queueReady
       \/ \E w \in queueReady : queueReady' = queueReady \ {w}
    /\ GoTo(a, Home(a))
    /\ UNCHANGED << queueLock, isShutdown, freed, list, tasks >>
-----------------------------------------------------------------------------
(* destroy: isShutdown is set and broadcast without queueLock. *)
DesCheck(d) ==
    /\ At(d, "idle") /\ ~freed /\ ~isShutdown /\ GoTo(d, "desSet")
    /\ UNCHANGED << sync, list, tasks >>

DesSet(d) ==
    /\ At(d, "desSet") /\ isShutdown' = TRUE /\ GoTo(d, "desWake")
    /\ UNCHANGED << queueLock, queueReady, freed, list, tasks >>

DesBroadcast(d) ==
    /\ At(d, "desWake") /\ queueReady' = {} /\ GoTo(d, "desJoin")
    /\ UNCHANGED << queueLock, isShutdown, freed, list, tasks >>

(* Every worker is joined; then the list, the mutex and the pool are freed. *)
DesFree(d) ==
    /\ At(d, "desJoin") /\ \A w \in Workers : pc[w] = "exited"
    /\ queue' = << >> /\ freed' = TRUE /\ GoTo(d, "gone")
    /\ UNCHANGED << queueLock, queueReady, isShutdown, cur, tasks >>
-----------------------------------------------------------------------------
Job(w) == FindNothing(w) \/ Sleep(w) \/ Exit(w) \/ Dequeue(w) \/ Finish(w)
Adding(a) == AddLink(a) \/ AddSignal(a)
Destroying(d) == DesSet(d) \/ DesBroadcast(d) \/ DesFree(d)
Locking(t) == \/ t \in Workers /\ (Lock(t) \/ Relock(t))
              \/ t \in Adders /\ AddLock(t)

Next == \/ \E t \in Thread : Locking(t)
        \/ \E w \in Workers : Job(w) \/ WakeAnyway(w)
        \/ \E a \in Adders : AddAlloc(a) \/ Adding(a)
        \/ \E d \in Destroyers : DesCheck(d) \/ Destroying(d)

Spec == Init /\ [][Next]_vars

(* Every thread that can go on does, tasks return, and the mutex is not     *)
(* withheld for ever from a thread that wants it while others come and go.  *)
FairSpec == /\ Spec
            /\ \A t \in Thread : SF_vars(Locking(t))
            /\ \A w \in Workers : WF_vars(Job(w))
            /\ \A a \in Adders : WF_vars(Adding(a))
            /\ \A d \in Destroyers : WF_vars(Destroying(d))
-----------------------------------------------------------------------------
TypeOK ==
    /\ queue \in Seq(Nat) /\ cur \in 0 .. CounterMod - 1
    /\ queueLock \in Thread \cup {NoThread}
    /\ queueReady \subseteq {w \in Workers : pc[w] = "wait"}
    /\ isShutdown \in BOOLEAN /\ freed \in BOOLEAN
    /\ pc \in [Thread -> InLock \cup {"lock", "wait", "run", "exited", "idle", "addLock",
                                      "addSignal", "desSet", "desWake", "desJoin", "gone"}]
    /\ newtask \in [Adders -> Nat] /\ running \in [Workers -> Nat]
    /\ allocated \in Nat

(* Whoever is between a lock and an unlock of queueLock holds it, and nobody *)
(* else does, through every wait on the condition (lines 84-98, 176-195).    *)
LockHeldInside == \A t \in Thread : pc[t] \in InLock <=> queueLock = t

(* curWaitThreadNum is the length of the list modulo its width, so that the  *)
(* assertions on it and on queueHead (lines 189 and 190) hold.               *)
CounterMatchesQueue ==
    ~freed => \E k \in 0 .. Len(queue) : Len(queue) = cur + k * CounterMod

(* No lost wakeup: when tasks wait and every worker waits on the condition,  *)
(* an addTask has its signal, which it sends after the unlock, still to come *)
(* (lines 98-100, 181-184).                                                  *)
NoLostWakeup ==
    (queue # << >> /\ cur = Len(queue) /\ queueReady = Workers)
        => \E a \in Adders : pc[a] = "addSignal"

(* A task block is with one worker, at one place of the list, or with the    *)
(* addTask that allocated it: never do two workers run and free the same     *)
(* block, which happens after the unlock (lines 193-199).                    *)
NoTaskTwice ==
    /\ IsInjective(queue)
    /\ \A v, w \in Workers : running[v] = running[w] /\ running[v] # NoTask => v = w
    /\ \A w \in Workers : running[w] \notin ToSet(queue)
    /\ \A a \in Adders : newtask[a] # NoTask =>
            newtask[a] \notin ToSet(queue) /\ \A w \in Workers : newtask[a] # running[w]

(* The pool implements the promises of TaskPool. *)
Promise == INSTANCE TaskPool WITH
    submitted <- (1 .. allocated) \ {newtask[a] : a \in Adders},
    pending <- queue,
    running <- {running[w] : w \in Workers} \ {NoTask}

PromiseSafety == Promise!Spec

(* Every task that waits is started, unless the pool is shut down: with one  *)
(* signal per task, sent to any worker or to nobody.                         *)
EveryTaskRuns ==
    \A k \in Task : (k \in ToSet(queue)) ~> (k \notin ToSet(queue) \/ isShutdown)

(* destroy returns, and leaves no worker waiting on the condition, unless a  *)
(* worker that saw isShutdown still FALSE has its wait to come when the      *)
(* broadcast is sent (lines 135-142 and 181-183): that worker is not woken.  *)
DestroyReturns ==
    \A d \in Destroyers :
        (pc[d] = "desWake" /\ \A w \in Workers : pc[w] # "sleep") ~> (pc[d] = "gone")
=============================================================================
