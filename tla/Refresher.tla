----------------------------- MODULE Refresher -----------------------------
(***************************************************************************)
(* The refresher, src/refresher/rt-thread/refresher.c: a queue of jobs, a  *)
(* ready queue that counts down the periods of the jobs the kernel thread  *)
(* runs, the kernel thread, and a thread of its own for each job that was  *)
(* added with newThread.  One application thread calls every operation; the *)
(* jobs that the kernel runs call del.                                     *)
(*                                                                         *)
(* Every section between a take and a release of queueLock is short and    *)
(* suspends nobody, so it is one step here.  What the code reads without   *)
(* the lock and uses later is read in an earlier step.                     *)
(* The walk of the ready queue that selects a job is one step: a period or *)
(* priority that changes meanwhile counts as it was or as it is then.      *)
(*                                                                         *)
(* The application outranks the kernel thread, as in app_rtt.c (4 and 5),  *)
(* so it calls del, delAll and destroy wherever that thread is, which makes*)
(* no step before the call has ended.  When that frees what the kernel     *)
(* thread is about to follow, or perhaps stands on in a walk, the kernel   *)
(* thread goes to "fault", and the model follows it no further.  So does a *)
(* job's thread that looks for its job, and an application that had found  *)
(* its node when it had to wait for a queueLock held by the kernel thread. *)
(***************************************************************************)
EXTENDS Integers, SequencesExt

CONSTANTS Job,          \* job names
          NewThread,    \* the jobs added with newThread
          Period, Priority, KernelTimes, ThreadTimes,   \* what the application passes
          LowestPriority,   \* 255: where the selection starts from
          PeriodMod,    \* 2^32: curPeriod is a uint32_t
          TimesMax,     \* 2^15 - 1: times is an int16_t
          Continues,    \* REFRESHER_JOB_CONTINUES_RUN
          NoJob

KernelJob == Job \ NewThread
TimesFor(j) == IF j \in NewThread THEN ThreadTimes ELSE KernelTimes

(* Only the operating system looks at the period and the priority of a job *)
(* with a thread of its own; here they stay the same.                      *)
PeriodFor(j) == IF j \in NewThread THEN {CHOOSE p \in Period : TRUE} ELSE Period
PriorityFor(j) == IF j \in NewThread THEN {CHOOSE q \in Priority : TRUE} ELSE Priority

ASSUME RefresherAssumption ==
    /\ NewThread \subseteq Job /\ NoJob \notin Job
    /\ PeriodMod \in Nat \ {0} /\ TimesMax \in Nat /\ Continues = -1
    /\ Period \subseteq 1 .. PeriodMod - 1 /\ Period # {}
    /\ LowestPriority \in Nat /\ Priority \subseteq 0 .. LowestPriority /\ Priority # {}
    /\ KernelTimes \cup ThreadTimes \subseteq Continues .. TimesMax

VARIABLES queue,        \* the names of the jobs from queueHead on
          job,          \* times, priority and period of the jobs in memory
          ready,        \* the ready queue: a job and its curPeriod each
          kernel,       \* where the kernel thread is; the job and the ready job that it
                        \* points to; the job that the process it runs deletes; whether
                        \* the application has taken off ready jobs since it looked
          thread,       \* where the thread of each newThread job is
          client,       \* where the application thread is, and its argument
          late          \* history: the jobs stopped by setTimes(0) when a test of times
                        \* had let them go on and the decrement was still to come

vars == << queue, job, ready, kernel, thread, client, late >>

Delaying == [at |-> "tick", job |-> NoJob, node |-> NoJob, victim |-> NoJob,
             crossed |-> FALSE]

Init ==
    /\ queue = << >> /\ job = << >> /\ ready = << >>
    /\ kernel = Delaying
    /\ thread = [j \in NewThread |-> "none"]
    /\ client = [at |-> "idle"]
    /\ late = {}

Queued == ToSet(queue)
ReadyJobs == {ready[i].job : i \in DOMAIN ready}
PlaceInQueue(j) == CHOOSE i \in DOMAIN queue : queue[i] = j
PlaceInReady(j) == CHOOSE i \in DOMAIN ready : ready[i].job = j
KernelAt(place) == kernel.at = place /\ client.at \notin {"deleting", "destroying"}
KernelGoes(place) == kernel' = [kernel EXCEPT !.at = place]
KernelBeginsAt(place) == kernel' = [Delaying EXCEPT !.at = place]

(* The application has found a node, waits for the lock, and the node is freed. *)
ClientMayBeStruck == \/ UNCHANGED client
                     \/ client.at = "idle" /\ client' = [at |-> "fault"]

Dec32(n) == IF n = 0 THEN PeriodMod - 1 ELSE n - 1
-----------------------------------------------------------------------------
(* Mutated forms of definitions below, each with one mistake. *)
NotRestored == ready

RanOnePerTick ==
    /\ KernelAt("running")
    /\ KernelBeginsAt("tick")
    /\ UNCHANGED << queue, job, ready, thread, client, late >>

OutOfQueueUnfreed(j) ==
    /\ queue' = RemoveAt(queue, PlaceInQueue(j))
    /\ thread' = IF j \in NewThread THEN [thread EXCEPT ![j] = "none"] ELSE thread
    /\ late' = late \ {j}
    /\ UNCHANGED job

OutOfReadyNothing(j) == UNCHANGED << ready, job >>

AllFreedButReady ==
    /\ queue' = << >> /\ job' = << >> /\ late' = {}
    /\ thread' = [j \in NewThread |-> "none"]
    /\ UNCHANGED ready

ThreadRunAtZero(j) ==
    /\ thread[j] = "loop"
    /\ thread' = [thread EXCEPT ![j] = "running"]
    /\ UNCHANGED << queue, job, ready, kernel, client, late >>
-----------------------------------------------------------------------------
(* kernel and addJobToReadyQueue: a tick begins with reading both heads, ... *)
Tick ==
    /\ KernelAt("tick") \/ KernelAt("early")
    /\ kernel' = IF queue = << >> THEN [Delaying EXCEPT !.at = "select"]
                 ELSE [Delaying EXCEPT !.at = "counting", !.job = Head(queue)]
    /\ UNCHANGED << queue, job, ready, thread, client, late >>

(* ... counts every ready job down, ... *)
CountDown ==
    /\ KernelAt("counting")
    /\ ready' = [i \in DOMAIN ready |-> [ready[i] EXCEPT !.left = Dec32(@)]]
    /\ KernelGoes("fill")
    /\ UNCHANGED << queue, job, thread, client, late >>

(* ... and looks up each job that is to run in the ready queue.  node is the *)
(* ready job found or appended last: with an empty ready queue, a job is     *)
(* missing only if that is NULL.                                             *)
Successor(j) == IF j = Last(queue) THEN NoJob ELSE queue[PlaceInQueue(j) + 1]
ToRun(j) == j \in KernelJob /\ job[j].times # 0
Missing(j) == IF ready = << >> THEN kernel.node = NoJob ELSE j \notin ReadyJobs

Fill ==
    /\ KernelAt("fill") /\ kernel.job # NoJob
    /\ LET j == kernel.job IN
       kernel' = IF ToRun(j) /\ Missing(j)
                 THEN [kernel EXCEPT !.at = "append",
                                     !.node = IF ready = << >> THEN NoJob ELSE Last(ready).job]
                 ELSE [kernel EXCEPT !.job = Successor(j),
                                     !.node = IF ToRun(j) /\ ready # << >> THEN j ELSE @]
    /\ UNCHANGED << queue, job, ready, thread, client, late >>

Filled ==
    /\ KernelAt("fill") /\ kernel.job = NoJob
    /\ KernelBeginsAt("select")
    /\ UNCHANGED << queue, job, ready, thread, client, late >>

(* A missing job comes behind node, which was the last one before the lock. *)
AppendReady ==
    LET j == kernel.job IN
    /\ KernelAt("append")
    /\ IF ready = << >> \/ kernel.node \in ReadyJobs
       THEN /\ ready' = Append(ready, [job |-> j, left |-> job[j].period])
            /\ kernel' = [kernel EXCEPT !.at = "fill", !.job = Successor(j), !.node = j,
                                        !.crossed = FALSE]
       ELSE KernelGoes("fault") /\ UNCHANGED ready
    /\ UNCHANGED << queue, job, thread, client, late >>

(* selectJobFromReadyQueue: the first due job of the highest priority. *)
Due == {i \in DOMAIN ready : ready[i].left = 0 /\ job[ready[i].job].priority < LowestPriority}
Best == CHOOSE i \in Due : \A k \in Due :
            \/ job[ready[i].job].priority < job[ready[k].job].priority
            \/ job[ready[i].job].priority = job[ready[k].job].priority /\ i <= k

Select ==
    /\ KernelAt("select")
    /\ IF Due = {}
       THEN KernelBeginsAt("tick")
       ELSE kernel' = [kernel EXCEPT !.at = "selected", !.job = ready[Best].job]
    /\ UNCHANGED << queue, job, ready, thread, client, late >>

(* The period of the selected job starts again. *)
Restored == [i \in DOMAIN ready |-> IF ready[i].job = kernel.job
                                    THEN [ready[i] EXCEPT !.left = job[kernel.job].period]
                                    ELSE ready[i]]

SelectContinuous ==
    /\ KernelAt("selected") /\ job[kernel.job].times = Continues
    /\ ready' = Restored /\ KernelGoes("running")
    /\ UNCHANGED << queue, job, thread, client, late >>

(* times is tested without the lock and decremented with it. *)
SelectCounted ==
    /\ KernelAt("selected") /\ job[kernel.job].times > 0
    /\ KernelGoes("decrement")
    /\ UNCHANGED << queue, job, ready, thread, client, late >>

Decrement ==
    /\ KernelAt("decrement")
    /\ job' = [job EXCEPT ![kernel.job].times = @ - 1]
    /\ ready' = Restored /\ KernelGoes("running")
    /\ UNCHANGED << queue, thread, client, late >>

(* A stopped job is to leave the ready queue, and node becomes the one before *)
(* it, or the head if that is the job, ...                                    *)
SelectStopped ==
    LET p == PlaceInReady(kernel.job) IN
    /\ KernelAt("selected") /\ job[kernel.job].times = 0
    /\ kernel' = [kernel EXCEPT !.at = "remove", !.node = ready[IF p = 1 THEN 1 ELSE p - 1].job]
    /\ UNCHANGED << queue, job, ready, thread, client, late >>

(* ... and with the lock the head goes if node is the head and not the job,  *)
(* and otherwise the one behind node; there is none behind a job that is      *)
(* alone, which is read through a null pointer.  The tick ends here.          *)
TakenOff == LET p == PlaceInReady(kernel.node) IN
            IF p = 1 /\ kernel.node # kernel.job THEN 1 ELSE p + 1

TakeOff ==
    /\ KernelAt("remove")
    /\ IF TakenOff \in DOMAIN ready
       THEN /\ ready' = RemoveAt(ready, TakenOff) /\ KernelBeginsAt("early")
            /\ ClientMayBeStruck
       ELSE KernelGoes("fault") /\ UNCHANGED << ready, client >>
    /\ UNCHANGED << queue, job, thread, late >>

(* The job's process returns, and the next due job is looked for. *)
Ran ==
    /\ KernelAt("running")
    /\ KernelBeginsAt("select")
    /\ UNCHANGED << queue, job, ready, thread, client, late >>
-----------------------------------------------------------------------------
(* del: first out of the ready queue, with times 0 if the job is there, ...  *)
OutOfReady(j) ==
    IF j \in ReadyJobs
    THEN ready' = RemoveAt(ready, PlaceInReady(j)) /\ job' = [job EXCEPT ![j].times = 0]
    ELSE UNCHANGED << ready, job >>

(* ... then out of the job queue, with its thread.  Other jobs' threads may   *)
(* just be looking for their own job in the queue.                            *)
ThreadsMayBeStruck(deleted) ==
    \E struck \in SUBSET {k \in NewThread \ deleted : thread[k] = "start"} :
        thread' = [k \in NewThread |-> IF k \in deleted THEN "none"
                                       ELSE IF k \in struck THEN "fault" ELSE thread[k]]

OutOfQueue(j) ==
    /\ queue' = RemoveAt(queue, PlaceInQueue(j))
    /\ job' = [k \in DOMAIN job \ {j} |-> job[k]]
    /\ ThreadsMayBeStruck({j})
    /\ late' = late \ {j}

(* A process that the kernel runs calls del, perhaps for its own job, and at *)
(* most once each time it is run.  The application may have deleted the job  *)
(* before del takes the lock.                                                *)
CallDel(j) ==
    /\ KernelAt("running") /\ j \in Queued /\ kernel.victim = NoJob
    /\ kernel' = [kernel EXCEPT !.at = "finding", !.victim = j]
    /\ UNCHANGED << queue, job, ready, thread, client, late >>

DelReady ==
    /\ KernelAt("finding")
    /\ OutOfReady(kernel.victim)
    /\ KernelGoes("deleting")
    /\ IF kernel.victim \in ReadyJobs THEN ClientMayBeStruck ELSE UNCHANGED client
    /\ UNCHANGED << queue, thread, late >>

DelJob ==
    /\ KernelAt("deleting")
    /\ IF kernel.victim \in Queued
       THEN OutOfQueue(kernel.victim) /\ ClientMayBeStruck
       ELSE UNCHANGED << queue, job, thread, late, client >>
    /\ kernel' = [kernel EXCEPT !.at = "running",
                                !.job = IF @ = kernel.victim THEN NoJob ELSE @]
    /\ UNCHANGED ready

(* What a deletion by the application may do to the kernel thread: it follows *)
(* the head of the ready queue when it counts down, the job it fills in or    *)
(* has selected and its ready job, and the node before a stopped one; and it  *)
(* may stand on any node while it walks a queue.  When it is about to call the *)
(* process of the job it has selected it follows that job for the last time.   *)
HeldJobs == IF kernel.at \in {"counting", "fill", "append"} THEN {kernel.job} ELSE {}
HeldReady == CASE kernel.at = "counting" /\ ready # << >> -> {Head(ready).job}
               [] kernel.at \in {"selected", "decrement"} -> {kernel.job}
               [] kernel.at = "remove" -> {kernel.node}
               [] OTHER -> {}
WalksReady == \/ kernel.at = "fill" /\ kernel.job # NoJob /\ ToRun(kernel.job)
              \/ kernel.at \in {"select", "finding"}
              \/ kernel.at = "selected" /\ job[kernel.job].times = 0
WalksQueue == kernel.at = "deleting"

Frees(jobs, readyJobs) ==
    LET follows == HeldJobs \cap jobs # {} \/ HeldReady \cap readyJobs # {}
        mayFollow == \/ WalksReady /\ readyJobs # {}
                     \/ WalksQueue /\ jobs # {}
                     \/ kernel.at = "running" /\ kernel.victim = NoJob /\ kernel.job \in jobs
        goesOn == [kernel EXCEPT !.job = IF @ \in jobs THEN NoJob ELSE @, !.crossed =
                       @ \/ (kernel.at \in {"append", "remove"} /\ readyJobs # {})]
    IN  \/ (follows \/ mayFollow) /\ kernel' = [Delaying EXCEPT !.at = "fault", !.crossed = TRUE]
        \/ ~follows /\ kernel' = IF kernel.at = "fault" THEN kernel ELSE goesOn

(* The application calls del. *)
ClientDelReady(j) ==
    /\ client.at = "idle" /\ j \in Queued
    /\ OutOfReady(j) /\ Frees({}, {j} \cap ReadyJobs)
    /\ client' = [at |-> "deleting", job |-> j]
    /\ UNCHANGED << queue, thread, late >>

ClientDelJob ==
    /\ client.at = "deleting"
    /\ OutOfQueue(client.job) /\ Frees({client.job}, {})
    /\ client' = [at |-> "idle"]
    /\ UNCHANGED ready

(* delAll empties both queues under one lock. *)
AllFreed ==
    /\ queue' = << >> /\ ready' = << >> /\ job' = << >> /\ late' = {}
    /\ thread' = [j \in NewThread |-> "none"]

DelAll ==
    /\ client.at = "idle"
    /\ AllFreed /\ Frees(Queued, ReadyJobs)
    /\ UNCHANGED client

(* destroy: delAll, and then the kernel thread and the lock are deleted. *)
DestroyJobs ==
    /\ client.at = "idle"
    /\ AllFreed
    /\ client' = [at |-> "destroying"]
    /\ UNCHANGED kernel

DestroyKernel ==
    /\ client.at = "destroying"
    /\ client' = [at |-> "gone"]
    /\ KernelBeginsAt("deleted")
    /\ UNCHANGED << queue, job, ready, thread, late >>
-----------------------------------------------------------------------------
(* add: the name is looked up without the lock; a newThread job's thread is  *)
(* started before the job is in the queue.                                   *)
AddCall(j, times, priority, period) ==
    /\ client.at = "idle" /\ j \notin Queued
    /\ client' = [at |-> "add", job |-> j,
                  attr |-> [times |-> times, priority |-> priority, period |-> period]]
    /\ thread' = IF j \in NewThread THEN [thread EXCEPT ![j] = "start"] ELSE thread
    /\ UNCHANGED << queue, job, ready, kernel, late >>

AddInsert ==
    /\ client.at = "add"
    /\ queue' = Append(queue, client.job)
    /\ job' = [j \in DOMAIN job \cup {client.job} |->
                   IF j = client.job THEN client.attr ELSE job[j]]
    /\ client' = [at |-> "idle"]
    /\ UNCHANGED << ready, kernel, thread, late >>

GoesOn(j) == \/ kernel.at = "decrement" /\ kernel.job = j
             \/ j \in NewThread /\ thread[j] \in {"running", "decrement"}

SetTimes(j, times) ==
    /\ client.at = "idle" /\ j \in Queued
    /\ job' = [job EXCEPT ![j].times = times]
    /\ late' = IF times = 0 /\ GoesOn(j) THEN late \cup {j} ELSE late \ {j}
    /\ UNCHANGED << queue, ready, kernel, thread, client >>

SetPeriodAndPriority(j, period, priority) ==
    /\ client.at = "idle" /\ j \in Queued
    /\ job' = [job EXCEPT ![j].period = period, ![j].priority = priority]
    /\ UNCHANGED << queue, ready, kernel, thread, client, late >>
-----------------------------------------------------------------------------
(* newThreadJob: the thread looks itself up by name and ends if it is too early. *)
ThreadGoes(j, place) == thread' = [thread EXCEPT ![j] = place]

ThreadStart(j) ==
    /\ thread[j] = "start"
    /\ ThreadGoes(j, IF j \in Queued THEN "loop" ELSE "ended")
    /\ UNCHANGED << queue, job, ready, kernel, client, late >>

ThreadRun(j) ==
    /\ thread[j] = "loop" /\ job[j].times # 0
    /\ ThreadGoes(j, "running")
    /\ UNCHANGED << queue, job, ready, kernel, client, late >>

ThreadRan(j) ==
    /\ thread[j] = "running"
    /\ ThreadGoes(j, IF job[j].times = Continues THEN "loop" ELSE "decrement")
    /\ UNCHANGED << queue, job, ready, kernel, client, late >>

ThreadDecrement(j) ==
    /\ thread[j] = "decrement"
    /\ job' = [job EXCEPT ![j].times = @ - 1]
    /\ ThreadGoes(j, "loop")
    /\ UNCHANGED << queue, ready, kernel, client, late >>
-----------------------------------------------------------------------------
KernelStep == \/ Tick \/ CountDown \/ Fill \/ AppendReady \/ Filled
              \/ Select \/ SelectContinuous \/ SelectCounted \/ Decrement
              \/ SelectStopped \/ TakeOff \/ Ran \/ DelReady \/ DelJob
ThreadStep(j) == ThreadStart(j) \/ ThreadRun(j) \/ ThreadRan(j) \/ ThreadDecrement(j)

ClientStep == AddInsert \/ ClientDelJob \/ DestroyKernel

Next == \/ KernelStep
        \/ \E j \in NewThread : ThreadStep(j)
        \/ \E j \in Job : CallDel(j) \/ ClientDelReady(j)
        \/ DelAll \/ DestroyJobs
        \/ ClientStep
        \/ \E j \in Job : \E p \in PeriodFor(j), q \in PriorityFor(j) :
              SetPeriodAndPriority(j, p, q) \/ \E t \in TimesFor(j) : AddCall(j, t, q, p)
        \/ \E j \in Job : \E t \in TimesFor(j) : SetTimes(j, t)

Spec == Init /\ [][Next]_vars

(* The threads are scheduled and processes return.  The application, which   *)
(* outranks the kernel thread, delays between its calls and lets it go on,   *)
(* now and then to the end of its walk of the queue: jobs are not added and  *)
(* deleted so fast that it walks behind them for ever.                       *)
WalkEnds == []<>(kernel.at \notin {"fill", "append"})

FairSpec == /\ Spec /\ SF_vars(KernelStep) /\ WF_vars(ClientStep) /\ WalkEnds
            /\ \A j \in NewThread : WF_vars(ThreadStep(j))
-----------------------------------------------------------------------------
TypeOK ==
    /\ DOMAIN job = Queued
    /\ \A j \in DOMAIN job :
          job[j] \in [times : Continues .. TimesMax, priority : Priority, period : Period]
    /\ \A i \in DOMAIN ready : ready[i] \in [job : KernelJob, left : 0 .. PeriodMod - 1]
    /\ kernel \in [at : {"tick", "early", "counting", "fill", "append", "select", "selected",
                          "decrement", "remove", "running", "finding", "deleting", "fault",
                          "deleted"},
                    job : Job \cup {NoJob}, node : KernelJob \cup {NoJob},
                    victim : Job \cup {NoJob}, crossed : BOOLEAN]
    /\ thread \in [NewThread -> {"none", "start", "ended", "loop", "running", "decrement",
                                 "fault"}]
    /\ late \subseteq Queued

(* Nobody follows a pointer to a job that was freed, and no job is twice in   *)
(* a queue, while jobs delete jobs, themselves too, and the application adds  *)
(* and deletes some at any time: the kernel thread follows its place in the   *)
(* queue, readyJob->job and the selected job without a lock (lines 142-179,   *)
(* 205-259), a job's thread its job (lines 290-305).  Excepted is the kernel  *)
(* thread of which a deletion by the application freed what it was about to   *)
(* follow (Frees), which is lost; nothing else loses it but a stopped job     *)
(* that is alone in the ready queue (line 226).                               *)
NothingDangles ==
    /\ ReadyJobs \subseteq Queued
    /\ IsInjective(queue) /\ \A i, k \in DOMAIN ready : ready[i].job = ready[k].job => i = k
    /\ client.at # "destroying" =>
          /\ kernel.at # "fault" => kernel.job \in Queued \cup {NoJob}
          /\ kernel.at \in {"counting", "append"} => kernel.job \in Queued
          /\ kernel.at \in {"selected", "decrement"} => kernel.job \in ReadyJobs
          /\ kernel.at = "remove" => kernel.node \in ReadyJobs
          /\ kernel.at = "fault" => kernel.crossed \/ kernel.node = kernel.job
    /\ \A j \in NewThread : thread[j] \in {"loop", "running", "decrement"} => j \in Queued

(* curPeriod does not underflow: no job is due any more when a tick counts    *)
(* the ready jobs down, however many were due, whatever the application       *)
(* changes or deletes meanwhile (lines 84-94, 129, 250, 254) - unless the     *)
(* tick before was ended early by a stopped job (line 241).                   *)
DueJobsRan == KernelAt("tick") => \A i \in DOMAIN ready : ready[i].left # 0

(* A job that was only ever given numbers of times to run, 0 among them, does *)
(* not go on for ever: its counter, tested without the lock and decremented   *)
(* with it, is not driven down to -1 (lines 242-246 and 290-297).  Excepted   *)
(* is the job that is set to 0 just between the two (late).                   *)
TimesNotOverrun ==
    \A j \in Queued \ late : Continues \notin TimesFor(j) => job[j].times >= 0

(* "the job running time is 0,then will be stop" (line 204): the job that     *)
(* selectJobFromReadyQueue takes off the ready queue is one that has no times *)
(* left to run.                                                               *)
OnlyStoppedLeave ==
    [][KernelAt("remove") => \A j \in ReadyJobs \ ReadyJobs' : job[j].times = 0]_vars

(* Every job that is to run continuously gets its turn, on the kernel thread  *)
(* or on its own, unless it is deleted, whatever the other jobs' priorities   *)
(* are and whenever the application deletes those.  A job's thread that runs  *)
(* before add has inserted the job ends, and the job is never run (lines      *)
(* 282-284 and 390-396).                                                      *)
Runs(j) == IF j \in NewThread THEN thread[j] = "running"
                              ELSE kernel.at = "running" /\ kernel.job = j
Lost(j) == IF j \in NewThread THEN thread[j] \in {"ended", "fault"} ELSE kernel.at = "fault"
EveryJobRuns ==
    \A j \in Job : (j \in Queued) ~> (j \notin Queued \/ Runs(j) \/ Lost(j))
=============================================================================
