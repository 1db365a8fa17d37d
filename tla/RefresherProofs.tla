-------------------------- MODULE RefresherProofs --------------------------
(***************************************************************************)
(* What is proved of the refresher for any set of jobs, any periods and     *)
(* priorities and any times to run.  Sound is the invariant of the two      *)
(* queues and of the places that point into them: what the kernel thread    *)
(* has selected is in the ready queue, what somebody is about to free is    *)
(* there no longer.  The invariants of times and of what is due stand on it.*)
(***************************************************************************)
EXTENDS Refresher, RttIpcProofs

Attr == [times : Int, priority : Priority, period : Period]
Entry == [job : KernelJob, left : 0 .. PeriodMod - 1]
KernelPlaces == {"tick", "early", "counting", "fill", "append", "select", "selected",
                 "decrement", "remove", "running", "finding", "deleting", "fault", "deleted"}
KernelRecord == [at : KernelPlaces, job : Job \cup {NoJob}, node : KernelJob \cup {NoJob},
                 victim : Job \cup {NoJob}, crossed : BOOLEAN]
ThreadPlaces == {"none", "start", "ended", "loop", "running", "decrement", "fault"}
Selecting == {"selected", "decrement"}
Looping == {"loop", "running", "decrement"}

(* The jobs of a ready queue, and that none is in it twice. *)
JobsOf(r) == {r[i].job : i \in DOMAIN r}
Distinct(r) == \A i, k \in DOMAIN r : r[i].job = r[k].job => i = k

QueueInv == /\ queue \in Seq(Job) /\ IsInjective(queue)
            /\ job \in [Queued -> Attr]

ReadyInv == /\ ready \in Seq(Entry) /\ Distinct(ready)
            /\ ReadyJobs \subseteq Queued

(* What the kernel thread points to.  As long as the application has taken   *)
(* nothing off the ready queue, the node remembered is still the last one, or *)
(* has the stopped job behind it.                                             *)
Pointers ==
    /\ kernel.at # "fault" => kernel.job \in Queued \cup {NoJob}
    /\ kernel.at \in {"counting", "append"} => kernel.job # NoJob
    /\ kernel.at = "append" => kernel.job \in KernelJob \ ReadyJobs
    /\ kernel.at = "append" /\ ~kernel.crossed => ready = << >> \/ kernel.node \in ReadyJobs
    /\ kernel.at \in Selecting => kernel.job \in ReadyJobs
    /\ kernel.at = "remove" => kernel.node \in ReadyJobs
    /\ kernel.at = "remove" /\ ~kernel.crossed /\ kernel.node # kernel.job =>
          PlaceInReady(kernel.node) + 1 \in DOMAIN ready
    /\ kernel.at = "deleting" => kernel.victim \notin ReadyJobs
    /\ kernel.at = "fault" => kernel.crossed \/ kernel.node = kernel.job

KernelInv == kernel \in KernelRecord /\ (client.at # "destroying" => Pointers)

ThreadInv ==
    /\ thread \in [NewThread -> ThreadPlaces]
    /\ \A j \in NewThread : thread[j] \in Looping => j \in Queued

ClientInv ==
    /\ client.at \in {"idle", "add", "deleting", "destroying", "gone", "fault"}
    /\ client.at = "deleting" => client.job \in Queued \ ReadyJobs
    /\ client.at = "destroying" => Queued = {}
    /\ client.at = "add" => /\ client.job \in Job \ Queued /\ client.attr \in Attr
                            /\ client.attr.times \in TimesFor(client.job)

Sound == QueueInv /\ ReadyInv /\ KernelInv /\ ThreadInv /\ ClientInv
-----------------------------------------------------------------------------
(* The sets the application takes its arguments from. *)
LEMMA Arguments ==
    /\ \A j \in Job : /\ TimesFor(j) \subseteq Continues .. TimesMax
                      /\ PeriodFor(j) \subseteq Period
                      /\ PriorityFor(j) \subseteq Priority
    /\ \A p \in Period : p \in 0 .. PeriodMod - 1 /\ p # 0
    /\ KernelJob \subseteq Job /\ NewThread \subseteq Job
    /\ Continues = -1 /\ TimesMax \in Nat /\ PeriodMod \in Nat \ {0}
<1>1. \A j \in Job : TimesFor(j) \subseteq Continues .. TimesMax
  BY RefresherAssumption DEF TimesFor
<1>2. \A j \in Job : PeriodFor(j) \subseteq Period
  <2>1. (CHOOSE p \in Period : TRUE) \in Period BY RefresherAssumption
  <2> QED BY <2>1 DEF PeriodFor
<1>3. \A j \in Job : PriorityFor(j) \subseteq Priority
  <2>1. (CHOOSE q \in Priority : TRUE) \in Priority BY RefresherAssumption
  <2> QED BY <2>1 DEF PriorityFor
<1>4. \A p \in Period : p \in 0 .. PeriodMod - 1 /\ p # 0 BY RefresherAssumption
<1> QED BY <1>1, <1>2, <1>3, <1>4, RefresherAssumption DEF KernelJob

(* The empty queues. *)
LEMMA EmptyQueues ==
    /\ << >> \in Seq(Job) /\ << >> \in Seq(Entry)
    /\ ToSet(<< >>) = {} /\ JobsOf(<< >>) = {}
    /\ IsInjective(<< >>) /\ Distinct(<< >>) /\ << >> \in [{} -> Attr]
BY DEF ToSet, JobsOf, IsInjective, Distinct

(* Taking a job out of the job queue. *)
LEMMA QueueRemoval ==
    ASSUME QueueInv, NEW j \in Queued
    PROVE  LET q == RemoveAt(queue, PlaceInQueue(j))
           IN  q \in Seq(Job) /\ IsInjective(q) /\ ToSet(q) = Queued \ {j}
<1>1. j \in Job
  BY LenProperties, ElementOfSeq DEF QueueInv, Queued, ToSet
<1>2. Unlink(queue, j) = RemoveAt(queue, PlaceInQueue(j))
  BY DEF Unlink, PlaceInQueue, Queued
<1>3. /\ Unlink(queue, j) \in Seq(Job)
      /\ \A u \in ToSet(queue) : u # j => u \in ToSet(Unlink(queue, j))
      /\ ToSet(Unlink(queue, j)) \subseteq ToSet(queue)
      /\ IsInjective(Unlink(queue, j)) /\ j \notin ToSet(Unlink(queue, j))
  BY <1>1, UnlinkSet DEF QueueInv
<1> HIDE DEF Queued, ToSet
<1> QED BY <1>2, <1>3 DEF Queued

(* Taking a place out of the ready queue takes out its job. *)
LEMMA ReadyRemoval ==
    ASSUME NEW r \in Seq(Entry), Distinct(r), NEW i \in DOMAIN r
    PROVE  /\ RemoveAt(r, i) \in Seq(Entry) /\ Distinct(RemoveAt(r, i))
           /\ JobsOf(RemoveAt(r, i)) = JobsOf(r) \ {r[i].job}
<1> DEFINE s == RemoveAt(r, i)
           from(n) == IF n < i THEN n ELSE n + 1
<1>1. Len(r) \in Nat /\ DOMAIN r = 1 .. Len(r) BY LenProperties
<1>2. /\ s \in Seq(Entry) /\ Len(s) = Len(r) - 1
      /\ \A n \in 1 .. Len(r) - 1 : s[n] = IF n < i THEN r[n] ELSE r[n + 1]
  BY <1>1, RemoveAtFacts
<1>3. DOMAIN s = 1 .. Len(r) - 1 BY <1>2, LenProperties
<1> HIDE DEF s
<1>4. \A n \in DOMAIN s : from(n) \in DOMAIN r /\ from(n) # i /\ s[n] = r[from(n)]
  BY <1>1, <1>2, <1>3
<1>5. ASSUME NEW n \in DOMAIN r, n # i PROVE \E m \in DOMAIN s : from(m) = n
  <2>1. CASE n < i
    <3>1. n \in DOMAIN s /\ from(n) = n BY <1>1, <1>3, <2>1
    <3> QED BY <3>1
  <2>2. CASE n > i
    <3>1. n - 1 \in DOMAIN s /\ from(n - 1) = n BY <1>1, <1>3, <2>2
    <3> QED BY <3>1
  <2> QED BY <1>1, <1>5, <2>1, <2>2
<1>6. \A n, m \in DOMAIN s : from(n) = from(m) => n = m BY <1>1, <1>3
<1> HIDE DEF from
<1>7. Distinct(s)
  <2> SUFFICES ASSUME NEW n \in DOMAIN s, NEW m \in DOMAIN s, s[n].job = s[m].job
               PROVE  n = m
    BY DEF Distinct
  <2>1. r[from(n)].job = r[from(m)].job BY <1>4
  <2>2. from(n) = from(m) BY <2>1, <1>4 DEF Distinct
  <2> QED BY <2>2, <1>6
<1>8. JobsOf(s) \subseteq JobsOf(r) \ {r[i].job}
  <2> SUFFICES ASSUME NEW n \in DOMAIN s PROVE s[n].job \in JobsOf(r) \ {r[i].job}
    BY DEF JobsOf
  <2> QED BY <1>4 DEF JobsOf, Distinct
<1>9. JobsOf(r) \ {r[i].job} \subseteq JobsOf(s)
  <2> SUFFICES ASSUME NEW n \in DOMAIN r, n # i PROVE r[n].job \in JobsOf(s)
    BY DEF JobsOf
  <2>1. PICK m \in DOMAIN s : from(m) = n BY <1>5
  <2> QED BY <2>1, <1>4 DEF JobsOf
<1> QED BY <1>2, <1>7, <1>8, <1>9 DEF s

(* Putting a job behind the ready ones. *)
LEMMA ReadyAppend ==
    ASSUME NEW r \in Seq(Entry), Distinct(r), NEW e \in Entry, e.job \notin JobsOf(r)
    PROVE  /\ Append(r, e) \in Seq(Entry) /\ Distinct(Append(r, e))
           /\ JobsOf(Append(r, e)) = JobsOf(r) \cup {e.job}
<1> DEFINE s == Append(r, e)
<1>1. /\ Len(s) = Len(r) + 1 /\ s[Len(r) + 1] = e /\ s \in Seq(Entry)
      /\ \A i \in 1 .. Len(r) : s[i] = r[i]
  BY AppendProperties
<1>2. Len(r) \in Nat /\ DOMAIN r = 1 .. Len(r) /\ DOMAIN s = 1 .. Len(r) + 1
  BY <1>1, LenProperties
<1> HIDE DEF s
<1>3. \A i \in DOMAIN r : i \in DOMAIN s /\ s[i] = r[i] /\ r[i].job # e.job
  BY <1>1, <1>2 DEF JobsOf
<1>4. \A i \in DOMAIN s : i \in DOMAIN r \/ (i = Len(r) + 1 /\ s[i] = e) BY <1>1, <1>2
<1>5. Distinct(s)
  <2> SUFFICES ASSUME NEW i \in DOMAIN s, NEW k \in DOMAIN s, s[i].job = s[k].job
               PROVE  i = k
    BY DEF Distinct
  <2> QED BY <1>3, <1>4 DEF Distinct
<1>6. JobsOf(s) \subseteq JobsOf(r) \cup {e.job} BY <1>3, <1>4 DEF JobsOf
<1>7. JobsOf(r) \cup {e.job} \subseteq JobsOf(s)
  <2>1. Len(r) + 1 \in DOMAIN s BY <1>2
  <2> QED BY <1>1, <1>3, <2>1 DEF JobsOf
<1> QED BY <1>1, <1>5, <1>6, <1>7 DEF s

(* Only what is left of the periods is changed. *)
LEMMA ReadyCounted ==
    ASSUME NEW r \in Seq(Entry), Distinct(r), NEW s, DOMAIN s = DOMAIN r,
           s = [i \in DOMAIN s |-> s[i]],
           \A i \in DOMAIN r : s[i] \in Entry /\ s[i].job = r[i].job
    PROVE  s \in Seq(Entry) /\ Distinct(s) /\ JobsOf(s) = JobsOf(r)
<1>1. Len(r) \in Nat /\ DOMAIN r = 1 .. Len(r) BY LenProperties
<1>2. s \in [1 .. Len(r) -> Entry] BY <1>1
<1>3. s \in Seq(Entry) BY <1>1, <1>2, IsASeq
<1> QED BY <1>3 DEF Distinct, JobsOf
-----------------------------------------------------------------------------
(* What the parts say of single jobs and places. *)
LEMMA JobFacts ==
    ASSUME Sound
    PROVE  /\ \A j \in Queued : j \in Job /\ job[j] \in Attr
           /\ \A i \in DOMAIN ready : /\ ready[i] \in Entry /\ ready[i].job \in ReadyJobs
                                      /\ ready[i].job \in Queued /\ ready[i].job \in KernelJob
           /\ \A j \in ReadyJobs : /\ j \in Queued /\ PlaceInReady(j) \in DOMAIN ready
                                   /\ ready[PlaceInReady(j)].job = j
           /\ DOMAIN ready = 1 .. Len(ready) /\ Len(ready) \in Nat
           /\ DOMAIN queue = 1 .. Len(queue) /\ Len(queue) \in Nat
           /\ \A i \in DOMAIN queue : queue[i] \in Queued
<1>1. \A j \in Queued : j \in Job /\ job[j] \in Attr
  BY ElementOfSeq, LenProperties DEF Sound, QueueInv, Queued, ToSet
<1>2. \A i \in DOMAIN ready : ready[i] \in Entry /\ ready[i].job \in ReadyJobs
  BY ElementOfSeq, LenProperties DEF Sound, ReadyInv, ReadyJobs
<1>3. \A i \in DOMAIN ready : ready[i].job \in KernelJob BY <1>2 DEF Entry
<1>4. \A j \in ReadyJobs : /\ PlaceInReady(j) \in DOMAIN ready
                           /\ ready[PlaceInReady(j)].job = j
  BY DEF ReadyJobs, PlaceInReady
<1>5. ReadyJobs \subseteq Queued BY DEF Sound, ReadyInv
<1>6. \A i \in DOMAIN queue : queue[i] \in Queued BY DEF Queued, ToSet
<1> QED BY <1>1, <1>2, <1>3, <1>4, <1>5, <1>6, LenProperties DEF Sound, ReadyInv, QueueInv

(* setPeriodAndPriority writes two fields of a job. *)
LEMMA NewAttributes ==
    ASSUME NEW S, NEW f \in [S -> Attr], NEW j \in S, NEW p \in Period, NEW q \in Priority
    PROVE  LET a == [times |-> f[j].times, priority |-> q, period |-> p]
           IN  /\ [f EXCEPT ![j].period = p, ![j].priority = q] = [f EXCEPT ![j] = a]
               /\ a \in Attr
<1> DEFINE a == [times |-> f[j].times, priority |-> q, period |-> p]
           g == [f EXCEPT ![j].period = p]
           h == [g EXCEPT ![j].priority = q]
<1>1. f[j] \in Attr /\ f[j] = [times |-> f[j].times, priority |-> f[j].priority,
                               period |-> f[j].period]
  BY DEF Attr
<1>2. a \in Attr BY <1>1 DEF Attr
<1>3. g[j] = [f[j] EXCEPT !.period = p] OBVIOUS
<1>4. h[j] = [g[j] EXCEPT !.priority = q] OBVIOUS
<1>5. h[j] = a BY <1>1, <1>3, <1>4
<1>6. h = [f EXCEPT ![j] = h[j]] OBVIOUS
<1> QED BY <1>2, <1>5, <1>6

(* A job's attributes change, but no queue does. *)
LEMMA AttrChanged ==
    ASSUME QueueInv, UNCHANGED queue, NEW j \in Queued, NEW a \in Attr,
           job' = [job EXCEPT ![j] = a]
    PROVE  QueueInv'
<1>1. job' \in [Queued -> Attr] BY DEF QueueInv
<1> HIDE DEF Attr
<1> QED BY <1>1 DEF QueueInv, Queued


LEMMA KernelFields ==
    ASSUME Sound
    PROVE  /\ kernel \in KernelRecord /\ kernel.at \in KernelPlaces
           /\ kernel.job \in Job \cup {NoJob} /\ kernel.node \in KernelJob \cup {NoJob}
           /\ kernel.victim \in Job \cup {NoJob} /\ kernel.crossed \in BOOLEAN
BY DEF Sound, KernelInv, KernelRecord

LEMMA KernelThere ==
    ASSUME Sound, client.at # "destroying"
    PROVE  Pointers
BY DEF Sound, KernelInv

(* The kernel thread goes to a place where it follows no pointer. *)
Pointing == {"counting", "append", "selected", "decrement", "remove", "deleting", "fault"}

LEMMA KernelLooks ==
    ASSUME kernel' \in KernelRecord, kernel'.at \notin Pointing,
           kernel'.job \in Queued' \cup {NoJob}
    PROVE  KernelInv'
BY DEF KernelInv, Pointers, Pointing, Selecting

LEMMA KernelBegins ==
    ASSUME NEW a \in KernelPlaces, KernelBeginsAt(a)
    PROVE  /\ kernel' = [at |-> a, job |-> NoJob, node |-> NoJob, victim |-> NoJob,
                         crossed |-> FALSE]
           /\ kernel' \in KernelRecord
           /\ a \notin Pointing => KernelInv'
<1>1. kernel' = [at |-> a, job |-> NoJob, node |-> NoJob, victim |-> NoJob, crossed |-> FALSE]
  BY DEF KernelBeginsAt, Delaying
<1>2. kernel' \in KernelRecord BY <1>1 DEF KernelRecord
<1>3. kernel'.at = a /\ kernel'.job = NoJob BY <1>1
<1> QED BY <1>1, <1>2, <1>3, KernelLooks

(* What does not change keeps its part of the invariant. *)
LEMMA SameQueue ==
    ASSUME QueueInv, UNCHANGED << queue, job >>
    PROVE  QueueInv' /\ Queued' = Queued
BY DEF QueueInv, Queued

LEMMA SameReady ==
    ASSUME ReadyInv, UNCHANGED << queue, ready >>
    PROVE  ReadyInv' /\ ReadyJobs' = ReadyJobs
BY DEF ReadyInv, ReadyJobs, Queued

LEMMA SameKernel ==
    ASSUME KernelInv, UNCHANGED << kernel, ready >>, Queued \subseteq Queued',
           client.at # "destroying"
    PROVE  KernelInv'
BY DEF KernelInv, Pointers, ReadyJobs, PlaceInReady

LEMMA SameThreads ==
    ASSUME ThreadInv, UNCHANGED thread, Queued \subseteq Queued'
    PROVE  ThreadInv'
BY DEF ThreadInv

(* An application that is not deleting only minds what is added. *)
LEMMA SameClient ==
    ASSUME ClientInv, ClientMayBeStruck, client.at # "deleting", Queued' \subseteq Queued
    PROVE  ClientInv'
BY DEF ClientInv, ClientMayBeStruck

LEMMA ClientStays == UNCHANGED client => ClientMayBeStruck
BY DEF ClientMayBeStruck

(* The kernel thread moves on its own. *)
LEMMA KernelMoves ==
    ASSUME Sound, UNCHANGED << queue, job, thread >>, ClientMayBeStruck,
           client.at # "deleting", ReadyInv', KernelInv'
    PROVE  Sound'
<1>1. QueueInv' /\ Queued' = Queued BY SameQueue DEF Sound
<1> QED BY <1>1, SameThreads, SameClient DEF Sound

LEMMA InitSoundness == Init => Sound
<1> SUFFICES ASSUME Init PROVE Sound OBVIOUS
<1>1. Queued = {} /\ ReadyJobs = {} /\ ready = << >> /\ queue = << >> /\ job = << >>
  BY EmptyQueues DEF Init, Queued, ReadyJobs, JobsOf
<1>2. QueueInv /\ ReadyInv BY <1>1, EmptyQueues DEF QueueInv, ReadyInv
<1>3. KernelInv
  BY DEF Init, Delaying, KernelInv, KernelRecord, KernelPlaces, Pointers, Selecting
<1>4. ThreadInv BY DEF Init, ThreadInv, ThreadPlaces, Looping
<1>5. ClientInv BY DEF Init, ClientInv
<1> QED BY <1>2, <1>3, <1>4, <1>5 DEF Sound

(* The places of the queues. *)
LEMMA SuccessorFacts ==
    ASSUME Sound, NEW j \in Queued
    PROVE  Successor(j) \in Queued \cup {NoJob}
<1> DEFINE i == PlaceInQueue(j)
<1>1. i \in DOMAIN queue /\ queue[i] = j BY DEF PlaceInQueue, Queued, ToSet
<1>2. DOMAIN queue = 1 .. Len(queue) /\ Len(queue) \in Nat BY JobFacts
<1>3. CASE i = Len(queue)
  <2>1. j = Last(queue) BY <1>1, <1>3 DEF Last
  <2> QED BY <2>1 DEF Successor
<1>4. CASE i # Len(queue)
  <2>1. i + 1 \in DOMAIN queue BY <1>1, <1>2, <1>4
  <2>2. queue[i + 1] \in Queued BY <2>1, JobFacts
  <2> QED BY <2>2 DEF Successor
<1> QED BY <1>3, <1>4

LEMMA HeadAndLast ==
    ASSUME Sound
    PROVE  /\ queue # << >> => Head(queue) \in Queued
           /\ ready # << >> => Last(ready).job \in ReadyJobs
<1>1. ASSUME queue # << >> PROVE Head(queue) \in Queued
  <2>1. queue \in Seq(Job) BY DEF Sound, QueueInv
  <2>2. Len(queue) # 0 BY <1>1, <2>1, EmptySeq
  <2>3. 1 \in DOMAIN queue BY <2>2, JobFacts
  <2>4. Head(queue) = queue[1] BY <1>1, <2>1, HeadTailProperties
  <2> QED BY <2>3, <2>4, JobFacts
<1>2. ASSUME ready # << >> PROVE Last(ready).job \in ReadyJobs
  <2>1. ready \in Seq(Entry) BY DEF Sound, ReadyInv
  <2>2. Len(ready) # 0 BY <1>2, <2>1, EmptySeq
  <2>3. Len(ready) \in DOMAIN ready BY <2>2, JobFacts
  <2> QED BY <2>3, JobFacts DEF Last
<1> QED BY <1>1, <1>2

LEMMA PlaceOf ==
    ASSUME Sound, NEW i \in DOMAIN ready
    PROVE  PlaceInReady(ready[i].job) = i
BY DEF Sound, ReadyInv, Distinct, PlaceInReady
-----------------------------------------------------------------------------
(* The kernel thread. *)
LEMMA TickSound == Sound /\ Tick => Sound'
<1> SUFFICES ASSUME Sound, Tick PROVE Sound' OBVIOUS
<1>1. /\ UNCHANGED << queue, job, ready, thread, client >>
      /\ client.at \notin {"deleting", "destroying"}
  BY DEF Tick, KernelAt
<1>2. Queued' = Queued BY <1>1 DEF Queued
<1>3. KernelInv'
  <2>1. CASE queue = << >>
    <3>1. KernelBeginsAt("select") BY <2>1 DEF Tick, KernelBeginsAt
    <3> QED BY <3>1, KernelBegins DEF KernelPlaces, Pointing
  <2>2. CASE queue # << >>
    <3>1. kernel' = [at |-> "counting", job |-> Head(queue), node |-> NoJob,
                     victim |-> NoJob, crossed |-> FALSE]
      BY <2>2 DEF Tick, Delaying
    <3>2. Head(queue) \in Queued /\ Head(queue) \in Job BY <2>2, HeadAndLast, JobFacts
    <3>3. Head(queue) # NoJob BY <3>2, RefresherAssumption
    <3> HIDE DEF Queued
    <3>4. kernel' \in KernelRecord BY <3>1, <3>2 DEF KernelRecord, KernelPlaces
    <3>5. Pointers' BY <3>1, <3>2, <3>3, <1>2 DEF Pointers, Selecting
    <3> QED BY <3>4, <3>5 DEF KernelInv
  <2> QED BY <2>1, <2>2
<1> QED BY <1>1, <1>3, SameReady, ClientStays, KernelMoves DEF Sound

LEMMA CountDownSound == Sound /\ CountDown => Sound'
<1> SUFFICES ASSUME Sound, CountDown PROVE Sound' OBVIOUS
<1>1. /\ UNCHANGED << queue, job, thread, client >> /\ kernel.at = "counting"
      /\ client.at \notin {"deleting", "destroying"}
      /\ ready' = [i \in DOMAIN ready |-> [ready[i] EXCEPT !.left = Dec32(@)]]
      /\ kernel' = [kernel EXCEPT !.at = "fill"]
  BY DEF CountDown, KernelAt, KernelGoes
<1>2. ASSUME NEW i \in DOMAIN ready PROVE ready'[i] \in Entry /\ ready'[i].job = ready[i].job
  <2>1. ready[i] \in Entry BY JobFacts
  <2>2. Dec32(ready[i].left) \in 0 .. PeriodMod - 1 BY <2>1, Arguments DEF Entry, Dec32
  <2>3. ready'[i] = [ready[i] EXCEPT !.left = Dec32(ready[i].left)] BY <1>1
  <2> QED BY <2>1, <2>2, <2>3 DEF Entry
<1>3. ready' \in Seq(Entry) /\ Distinct(ready') /\ JobsOf(ready') = JobsOf(ready)
  <2>1. ready \in Seq(Entry) /\ Distinct(ready) BY DEF Sound, ReadyInv
  <2>2. DOMAIN ready' = DOMAIN ready /\ ready' = [i \in DOMAIN ready' |-> ready'[i]] BY <1>1
  <2> QED BY <1>2, <2>1, <2>2, ReadyCounted
<1>4. ReadyInv' BY <1>3, <1>1 DEF Sound, ReadyInv, ReadyJobs, JobsOf, Queued
<1>5. kernel' \in KernelRecord /\ kernel'.at = "fill" /\ kernel'.job = kernel.job
  BY <1>1, KernelFields DEF KernelRecord, KernelPlaces
<1>6. kernel'.job \in Queued' \cup {NoJob}
  BY <1>1, <1>5, KernelThere DEF Pointers, Queued
<1>7. KernelInv' BY <1>5, <1>6, KernelLooks DEF Pointing
<1> QED BY <1>1, <1>4, <1>7, ClientStays, KernelMoves

LEMMA FillSound == Sound /\ Fill => Sound'
<1> SUFFICES ASSUME Sound, Fill PROVE Sound' OBVIOUS
<1> DEFINE j == kernel.job
<1>1. /\ UNCHANGED << queue, job, ready, thread, client >> /\ kernel.at = "fill" /\ j # NoJob
      /\ client.at \notin {"deleting", "destroying"}
  BY DEF Fill, KernelAt
<1>2. Queued' = Queued BY <1>1 DEF Queued
<1>3. j \in Queued BY <1>1, KernelThere DEF Pointers
<1>4. CASE ToRun(j) /\ Missing(j)
  <2> DEFINE n == IF ready = << >> THEN NoJob ELSE Last(ready).job
  <2>1. kernel' = [kernel EXCEPT !.at = "append", !.node = n] BY <1>4 DEF Fill
  <2>2. n = NoJob \/ (n \in ReadyJobs /\ n \in KernelJob) BY HeadAndLast, JobFacts DEF ReadyJobs
  <2>3. ready = << >> \/ n \in ReadyJobs BY HeadAndLast
  <2> HIDE DEF n
  <2>4. kernel' \in KernelRecord /\ kernel'.at = "append" /\ kernel'.job = j /\ kernel'.node = n
    BY <2>1, <2>2, KernelFields DEF KernelRecord, KernelPlaces
  <2>5. j \in KernelJob \ ReadyJobs
    <3>1. ready = << >> => ReadyJobs = {} BY EmptyQueues DEF ReadyJobs, JobsOf
    <3> QED BY <1>4, <3>1 DEF ToRun, Missing
  <2>6. ReadyJobs' = ReadyJobs BY <1>1 DEF ReadyJobs
  <2> HIDE DEF j
  <2>7. Pointers'
    BY <1>1, <1>2, <1>3, <2>3, <2>4, <2>5, <2>6 DEF Pointers, Selecting
  <2>8. KernelInv' BY <2>4, <2>7 DEF KernelInv
  <2> QED BY <1>1, <2>8, SameReady, ClientStays, KernelMoves DEF Sound
<1>5. CASE ~(ToRun(j) /\ Missing(j))
  <2> DEFINE n == IF ToRun(j) /\ ready # << >> THEN j ELSE kernel.node
  <2>1. kernel' = [kernel EXCEPT !.job = Successor(j), !.node = n] BY <1>5 DEF Fill
  <2>2. n \in KernelJob \cup {NoJob} BY KernelFields DEF ToRun
  <2>3. Successor(j) \in Queued \cup {NoJob} BY <1>3, SuccessorFacts
  <2>4. Successor(j) \in Job \cup {NoJob} BY <2>3, JobFacts
  <2> HIDE DEF n, j
  <2>5. kernel' \in KernelRecord /\ kernel'.at = "fill" /\ kernel'.job = Successor(j)
    BY <1>1, <2>1, <2>2, <2>4, KernelFields DEF KernelRecord, KernelPlaces
  <2>6. KernelInv' BY <1>2, <2>3, <2>5, KernelLooks DEF Pointing
  <2> QED BY <1>1, <2>6, SameReady, ClientStays, KernelMoves DEF Sound
<1> QED BY <1>4, <1>5

LEMMA FilledSound == Sound /\ Filled => Sound'
<1> SUFFICES ASSUME Sound, Filled PROVE Sound' OBVIOUS
<1>1. /\ UNCHANGED << queue, job, ready, thread, client >> /\ client.at # "deleting"
      /\ KernelBeginsAt("select")
  BY DEF Filled, KernelAt
<1>2. KernelInv' BY <1>1, KernelBegins DEF KernelPlaces, Pointing
<1> QED BY <1>1, <1>2, SameReady, ClientStays, KernelMoves DEF Sound

(* A job that is not in the ready queue is put behind it, unless the node it *)
(* would come behind has gone.                                               *)
LEMMA AppendReadySound == Sound /\ AppendReady => Sound'
<1> SUFFICES ASSUME Sound, AppendReady PROVE Sound' OBVIOUS
<1> DEFINE j == kernel.job
           e == [job |-> j, left |-> job[j].period]
<1>1. /\ UNCHANGED << queue, job, thread, client >> /\ kernel.at = "append"
      /\ client.at \notin {"deleting", "destroying"}
  BY DEF AppendReady, KernelAt
<1>2. /\ j \in Queued /\ j \in KernelJob \ ReadyJobs
      /\ ~kernel.crossed => ready = << >> \/ kernel.node \in ReadyJobs
  BY <1>1, KernelThere DEF Pointers
<1>3. Queued' = Queued BY <1>1 DEF Queued
<1>4. CASE ready = << >> \/ kernel.node \in ReadyJobs
  <2>1. /\ ready' = Append(ready, e)
        /\ kernel' = [kernel EXCEPT !.at = "fill", !.job = Successor(j), !.node = j,
                                   !.crossed = FALSE]
    BY <1>4 DEF AppendReady
  <2>2. job[j].period \in 0 .. PeriodMod - 1 BY <1>2, JobFacts, Arguments DEF Attr
  <2>3. e \in Entry /\ e.job = j BY <1>2, <2>2 DEF Entry
  <2>4. ready \in Seq(Entry) /\ Distinct(ready) /\ j \notin JobsOf(ready)
    BY <1>2 DEF Sound, ReadyInv, ReadyJobs, JobsOf
  <2>5. Successor(j) \in Queued \cup {NoJob} BY <1>2, SuccessorFacts
  <2>6. Successor(j) \in Job \cup {NoJob} BY <2>5, JobFacts
  <2> HIDE DEF e, j
  <2>7. /\ ready' \in Seq(Entry) /\ Distinct(ready')
        /\ JobsOf(ready') = JobsOf(ready) \cup {j}
    BY <2>1, <2>3, <2>4, ReadyAppend
  <2>8. ReadyInv' BY <1>2, <2>7, <1>1 DEF Sound, ReadyInv, ReadyJobs, JobsOf, Queued
  <2>9. kernel' \in KernelRecord /\ kernel'.at = "fill" /\ kernel'.job = Successor(j)
    BY <1>2, <2>1, <2>6, KernelFields DEF KernelRecord, KernelPlaces
  <2>10. KernelInv' BY <1>3, <2>5, <2>9, KernelLooks DEF Pointing
  <2> QED BY <1>1, <2>8, <2>10, ClientStays, KernelMoves
<1>5. CASE ~(ready = << >> \/ kernel.node \in ReadyJobs)
  <2>1. ready' = ready /\ kernel' = [kernel EXCEPT !.at = "fault"]
    BY <1>5 DEF AppendReady, KernelGoes
  <2>2. kernel' \in KernelRecord /\ kernel'.at = "fault" /\ kernel'.crossed = kernel.crossed
    BY <2>1, KernelFields DEF KernelRecord, KernelPlaces
  <2>3. Pointers' BY <1>2, <1>5, <2>2 DEF Pointers, Selecting
  <2>4. KernelInv' BY <2>2, <2>3 DEF KernelInv
  <2> QED BY <1>1, <2>1, <2>4, SameReady, ClientStays, KernelMoves DEF Sound
<1> QED BY <1>4, <1>5

(* Of the due jobs there is a first one of the highest priority. *)
LEMMA BestIsDue ==
    ASSUME Sound, Due # {}
    PROVE  Best \in Due
<1> DEFINE prio(i) == job[ready[i].job].priority
           T == {prio(i) : i \in Due}
<1>1. \A i \in Due : i \in Nat /\ prio(i) \in Nat
  <2> SUFFICES ASSUME NEW i \in Due PROVE i \in Nat /\ prio(i) \in Nat OBVIOUS
  <2>1. i \in DOMAIN ready BY DEF Due
  <2>2. job[ready[i].job] \in Attr BY <2>1, JobFacts
  <2>3. i \in Nat BY <2>1, JobFacts
  <2>4. prio(i) \in Priority BY <2>2 DEF Attr
  <2>5. Priority \subseteq Nat BY RefresherAssumption
  <2> QED BY <2>3, <2>4, <2>5
<1>2. PICK m \in T : \A n \in T : m <= n
  <2>1. T \in SUBSET Nat /\ T # {} BY <1>1
  <2> HIDE DEF T
  <2> QED BY <2>1, LeastNumber
<1> DEFINE U == {i \in Due : prio(i) = m}
<1>3. PICK i \in U : \A k \in U : i <= k
  <2>1. U \in SUBSET Nat /\ U # {} BY <1>1
  <2> HIDE DEF U
  <2> QED BY <2>1, LeastNumber
<1>4. ASSUME NEW k \in Due
      PROVE  prio(i) < prio(k) \/ (prio(i) = prio(k) /\ i <= k)
  <2>1. m <= prio(k) /\ prio(i) = m /\ m \in Nat /\ prio(k) \in Nat BY <1>1, <1>2
  <2>2. prio(k) = m => i <= k BY <1>3
  <2> HIDE DEF prio
  <2> QED BY <2>1, <2>2
<1>5. i \in Due OBVIOUS
<1> HIDE DEF U, T
<1> QED BY <1>4, <1>5 DEF Best

(* The selected job is a due one in the ready queue. *)
LEMMA SelectSound == Sound /\ Select => Sound'
<1> SUFFICES ASSUME Sound, Select PROVE Sound' OBVIOUS
<1>1. UNCHANGED << queue, job, ready, thread, client >> /\ client.at # "deleting"
  BY DEF Select, KernelAt
<1>2. ReadyInv' /\ ReadyJobs' = ReadyJobs BY <1>1, SameReady DEF Sound
<1>3. CASE Due = {}
  <2>1. KernelBeginsAt("tick") BY <1>3 DEF Select
  <2>2. KernelInv' BY <2>1, KernelBegins DEF KernelPlaces, Pointing
  <2> QED BY <1>1, <1>2, <2>2, ClientStays, KernelMoves
<1>4. CASE Due # {}
  <2> DEFINE j == ready[Best].job
  <2>1. kernel' = [kernel EXCEPT !.at = "selected", !.job = j] BY <1>4 DEF Select
  <2>2. Best \in DOMAIN ready BY <1>4, BestIsDue DEF Due
  <2>3. j \in ReadyJobs /\ j \in Queued /\ j \in Job BY <2>2, JobFacts
  <2> HIDE DEF j
  <2>4. kernel' \in KernelRecord /\ kernel'.at = "selected" /\ kernel'.job = j
    BY <2>1, <2>3, KernelFields DEF KernelRecord, KernelPlaces
  <2>5. Queued' = Queued BY <1>1 DEF Queued
  <2>6. Pointers' BY <1>2, <2>3, <2>4, <2>5 DEF Pointers, Selecting
  <2>7. KernelInv' BY <2>4, <2>6 DEF KernelInv
  <2> QED BY <1>1, <1>2, <2>7, ClientStays, KernelMoves
<1> QED BY <1>3, <1>4

(* The period of the selected job starts again, and nobody leaves. *)
LEMMA RestoredFacts ==
    ASSUME Sound, client.at # "destroying", kernel.at \in Selecting
    PROVE  /\ Restored \in Seq(Entry) /\ Distinct(Restored) /\ JobsOf(Restored) = ReadyJobs
           /\ DOMAIN Restored = DOMAIN ready
           /\ \A i \in DOMAIN ready :
                 /\ Restored[i].job = ready[i].job
                 /\ Restored[i].left = IF ready[i].job = kernel.job
                                       THEN job[kernel.job].period ELSE ready[i].left
           /\ kernel.job \in Queued
<1> DEFINE s == Restored
<1>1. kernel.job \in Queued BY JobFacts DEF Sound, KernelInv, Pointers
<1>2. job[kernel.job].period \in 0 .. PeriodMod - 1 BY <1>1, JobFacts, Arguments DEF Attr
<1>3. ASSUME NEW i \in DOMAIN ready
      PROVE  /\ s[i] \in Entry /\ s[i].job = ready[i].job
             /\ s[i].left = IF ready[i].job = kernel.job
                            THEN job[kernel.job].period ELSE ready[i].left
  <2>1. ready[i] \in Entry BY JobFacts
  <2>2. s[i] = IF ready[i].job = kernel.job
               THEN [ready[i] EXCEPT !.left = job[kernel.job].period] ELSE ready[i]
    BY DEF Restored
  <2> QED BY <1>2, <2>1, <2>2 DEF Entry
<1>4. DOMAIN s = DOMAIN ready /\ s = [i \in DOMAIN s |-> s[i]] BY DEF Restored
<1>5. ready \in Seq(Entry) /\ Distinct(ready) BY DEF Sound, ReadyInv
<1> HIDE DEF s
<1>6. s \in Seq(Entry) /\ Distinct(s) /\ JobsOf(s) = JobsOf(ready)
  BY <1>3, <1>4, <1>5, ReadyCounted
<1> QED BY <1>1, <1>3, <1>4, <1>6 DEF s, JobsOf, ReadyJobs

LEMMA SelectContinuousSound == Sound /\ SelectContinuous => Sound'
<1> SUFFICES ASSUME Sound, SelectContinuous PROVE Sound' OBVIOUS
<1>1. /\ UNCHANGED << queue, job, thread, client >>
      /\ client.at \notin {"deleting", "destroying"}
      /\ kernel.at = "selected" /\ ready' = Restored
      /\ kernel' = [kernel EXCEPT !.at = "running"]
  BY DEF SelectContinuous, KernelAt, KernelGoes
<1>2. /\ JobsOf(Restored) = ReadyJobs /\ Restored \in Seq(Entry) /\ Distinct(Restored)
      /\ kernel.job \in Queued
  BY <1>1, RestoredFacts DEF Selecting
<1>3. ReadyInv' BY <1>1, <1>2 DEF Sound, ReadyInv, ReadyJobs, JobsOf, Queued
<1>4. KernelInv'
  <2>1. kernel' \in KernelRecord /\ kernel'.at = "running" /\ kernel'.job = kernel.job
    BY <1>1, KernelFields DEF KernelRecord, KernelPlaces
  <2>2. kernel.job \in Queued' BY <1>1, <1>2 DEF Queued
  <2> QED BY <2>1, <2>2, KernelLooks DEF Pointing
<1> QED BY <1>1, <1>3, <1>4, ClientStays, KernelMoves

LEMMA SelectCountedSound == Sound /\ SelectCounted => Sound'
<1> SUFFICES ASSUME Sound, SelectCounted PROVE Sound' OBVIOUS
<1>1. /\ UNCHANGED << queue, job, ready, thread, client >>
      /\ client.at \notin {"deleting", "destroying"}
      /\ kernel.at = "selected" /\ kernel' = [kernel EXCEPT !.at = "decrement"]
  BY DEF SelectCounted, KernelAt, KernelGoes
<1>2. kernel' \in KernelRecord /\ kernel'.at = "decrement" /\ kernel'.job = kernel.job
  BY <1>1, KernelFields DEF KernelRecord, KernelPlaces
<1>3. ReadyInv' /\ ReadyJobs' = ReadyJobs /\ Queued' = Queued
  BY <1>1, SameReady DEF Sound, Queued
<1>4. kernel.job \in ReadyJobs /\ kernel.job \in Queued
  BY <1>1, KernelThere, JobFacts DEF Pointers, Selecting
<1>5. Pointers' BY <1>2, <1>3, <1>4 DEF Pointers, Selecting
<1>6. KernelInv' BY <1>2, <1>5 DEF KernelInv
<1> QED BY <1>1, <1>3, <1>6, ClientStays, KernelMoves

(* The node before the stopped job, or the head, which is the job itself. *)
LEMMA SelectStoppedSound == Sound /\ SelectStopped => Sound'
<1> SUFFICES ASSUME Sound, SelectStopped PROVE Sound' OBVIOUS
<1> DEFINE p == PlaceInReady(kernel.job)
           i == IF p = 1 THEN 1 ELSE p - 1
           n == ready[i].job
<1>1. /\ UNCHANGED << queue, job, ready, thread, client >>
      /\ client.at \notin {"deleting", "destroying"}
      /\ kernel.at = "selected" /\ kernel' = [kernel EXCEPT !.at = "remove", !.node = n]
  BY DEF SelectStopped, KernelAt
<1>2. kernel.job \in ReadyJobs /\ kernel.job \in Queued
  BY <1>1, KernelThere, JobFacts DEF Pointers, Selecting
<1>3. p \in DOMAIN ready /\ ready[p].job = kernel.job /\ DOMAIN ready = 1 .. Len(ready)
      /\ Len(ready) \in Nat
  BY <1>2, JobFacts
<1>4. i \in DOMAIN ready /\ (i = 1 \/ i + 1 = p) BY <1>3
<1>5. n \in ReadyJobs /\ n \in KernelJob /\ PlaceInReady(n) = i BY <1>4, JobFacts, PlaceOf
<1>6. n # kernel.job => i + 1 \in DOMAIN ready
  <2>1. p = 1 => n = kernel.job BY <1>3
  <2> QED BY <2>1, <1>3, <1>4
<1> HIDE DEF p, i, n
<1>7. /\ kernel' \in KernelRecord /\ kernel'.at = "remove" /\ kernel'.job = kernel.job
      /\ kernel'.node = n
  BY <1>1, <1>5, KernelFields DEF KernelRecord, KernelPlaces
<1>8. ReadyInv' /\ ReadyJobs' = ReadyJobs /\ Queued' = Queued
  BY <1>1, SameReady DEF Sound, Queued
<1>9. Pointers'
  <2>1. PlaceInReady(kernel.node)' = PlaceInReady(n) BY <1>1, <1>7 DEF PlaceInReady
  <2> QED BY <1>1, <1>2, <1>5, <1>6, <1>7, <1>8, <2>1 DEF Pointers, Selecting
<1>10. KernelInv' BY <1>7, <1>9 DEF KernelInv
<1> QED BY <1>1, <1>8, <1>10, ClientStays, KernelMoves

LEMMA DecrementSound == Sound /\ Decrement => Sound'
<1> SUFFICES ASSUME Sound, Decrement PROVE Sound' OBVIOUS
<1> DEFINE a == [job[kernel.job] EXCEPT !.times = @ - 1]
<1>1. /\ UNCHANGED << queue, thread, client >> /\ client.at \notin {"deleting", "destroying"}
      /\ kernel.at = "decrement" /\ ready' = Restored
      /\ kernel' = [kernel EXCEPT !.at = "running"]
      /\ job' = [job EXCEPT ![kernel.job] = a]
  BY DEF Decrement, KernelAt, KernelGoes
<1>2. /\ JobsOf(Restored) = ReadyJobs /\ Restored \in Seq(Entry) /\ Distinct(Restored)
      /\ kernel.job \in Queued
  BY <1>1, RestoredFacts DEF Selecting
<1>3. a \in Attr
  <2>1. job[kernel.job] \in Attr BY <1>2, JobFacts
  <2> QED BY <2>1 DEF Attr
<1> HIDE DEF a
<1>4. QueueInv' BY <1>1, <1>2, <1>3, AttrChanged DEF Sound
<1>5. Queued' = Queued BY <1>1 DEF Queued
<1>6. ReadyInv' BY <1>1, <1>2 DEF Sound, ReadyInv, ReadyJobs, JobsOf, Queued
<1>7. KernelInv'
  <2>1. kernel' \in KernelRecord /\ kernel'.at = "running" /\ kernel'.job = kernel.job
    BY <1>1, KernelFields DEF KernelRecord, KernelPlaces
  <2> QED BY <1>2, <1>5, <2>1, KernelLooks DEF Pointing
<1>8. ThreadInv' /\ ClientInv' BY <1>1, <1>5, SameThreads, SameClient, ClientStays DEF Sound
<1> QED BY <1>4, <1>6, <1>7, <1>8 DEF Sound

(* Whatever is taken off the ready queue, all that is left was there; and    *)
(* there is something to take off unless the stopped job is alone or the     *)
(* application has been there meanwhile.                                     *)
LEMMA TakeOffSound == Sound /\ TakeOff => Sound'
<1> SUFFICES ASSUME Sound, TakeOff PROVE Sound' OBVIOUS
<1>1. /\ UNCHANGED << queue, job, thread >> /\ ClientMayBeStruck /\ kernel.at = "remove"
      /\ client.at \notin {"deleting", "destroying"}
  BY ClientStays DEF TakeOff, KernelAt
<1>2. CASE TakenOff \in DOMAIN ready
  <2> DEFINE p == TakenOff
  <2>1. ready' = RemoveAt(ready, p) /\ KernelBeginsAt("early") /\ p \in DOMAIN ready
    BY <1>2 DEF TakeOff
  <2> HIDE DEF p
  <2>2. /\ ready' \in Seq(Entry) /\ Distinct(ready')
        /\ JobsOf(ready') = JobsOf(ready) \ {ready[p].job}
    BY <2>1, ReadyRemoval DEF Sound, ReadyInv
  <2>3. ReadyInv' BY <2>2, <1>1 DEF Sound, ReadyInv, ReadyJobs, JobsOf, Queued
  <2>4. KernelInv' BY <2>1, KernelBegins DEF KernelPlaces, Pointing
  <2> QED BY <1>1, <2>3, <2>4, KernelMoves
<1>3. CASE TakenOff \notin DOMAIN ready
  <2>1. ready' = ready /\ kernel' = [kernel EXCEPT !.at = "fault"]
    BY <1>3 DEF TakeOff, KernelGoes
  <2>2. ReadyInv' BY <1>1, <2>1, SameReady DEF Sound
  <2>3. /\ kernel' \in KernelRecord /\ kernel'.at = "fault" /\ kernel'.job = kernel.job
        /\ kernel'.crossed = kernel.crossed /\ kernel'.node = kernel.node
    BY <2>1, KernelFields DEF KernelRecord, KernelPlaces
  <2>4. kernel.crossed \/ kernel.node = kernel.job
    <3> SUFFICES ASSUME ~kernel.crossed, kernel.node # kernel.job PROVE FALSE OBVIOUS
    <3>1. kernel.node \in ReadyJobs /\ PlaceInReady(kernel.node) + 1 \in DOMAIN ready
      BY <1>1, KernelThere DEF Pointers
    <3>2. PlaceInReady(kernel.node) \in DOMAIN ready BY <3>1, JobFacts
    <3> QED BY <1>3, <3>1, <3>2 DEF TakenOff
  <2>5. Pointers' BY <2>3, <2>4 DEF Pointers, Selecting
  <2>6. KernelInv' BY <2>3, <2>5 DEF KernelInv
  <2> QED BY <1>1, <2>2, <2>6, KernelMoves
<1> QED BY <1>2, <1>3

LEMMA RanSound == Sound /\ Ran => Sound'
<1> SUFFICES ASSUME Sound, Ran PROVE Sound' OBVIOUS
<1>1. /\ UNCHANGED << queue, job, ready, thread, client >> /\ client.at # "deleting"
      /\ KernelBeginsAt("select")
  BY DEF Ran, KernelAt
<1>2. KernelInv' BY <1>1, KernelBegins DEF KernelPlaces, Pointing
<1> QED BY <1>1, <1>2, SameReady, ClientStays, KernelMoves DEF Sound
-----------------------------------------------------------------------------
(* del, by a job or by the application. *)
LEMMA OutOfReadyFacts ==
    ASSUME Sound, UNCHANGED queue, NEW j \in Queued, OutOfReady(j)
    PROVE  QueueInv' /\ ReadyInv' /\ Queued' = Queued /\ ReadyJobs' = ReadyJobs \ {j}
<1>1. Queued' = Queued BY DEF Queued
<1>2. CASE j \in ReadyJobs
  <2> DEFINE a == [job[j] EXCEPT !.times = 0]
             i == PlaceInReady(j)
  <2>1. ready' = RemoveAt(ready, i) /\ job' = [job EXCEPT ![j] = a] BY <1>2 DEF OutOfReady
  <2>2. a \in Attr
    <3>1. job[j] \in Attr BY JobFacts
    <3> QED BY <3>1 DEF Attr
  <2>3. i \in DOMAIN ready /\ ready[i].job = j BY <1>2, JobFacts
  <2> HIDE DEF a, i
  <2>4. QueueInv' BY <2>1, <2>2, AttrChanged DEF Sound
  <2>5. /\ ready' \in Seq(Entry) /\ Distinct(ready') /\ JobsOf(ready') = JobsOf(ready) \ {j}
    BY <2>1, <2>3, ReadyRemoval DEF Sound, ReadyInv
  <2> QED BY <1>1, <2>4, <2>5 DEF Sound, ReadyInv, ReadyJobs, JobsOf
<1>3. CASE j \notin ReadyJobs
  <2>1. UNCHANGED << queue, job, ready >> BY <1>3 DEF OutOfReady
  <2> QED BY <1>3, <2>1, SameQueue, SameReady DEF Sound
<1> QED BY <1>2, <1>3

(* The threads whose jobs are deleted are gone, and of the others some that  *)
(* were looking for their jobs may be lost.                                  *)
LEMMA ThreadsAfter ==
    ASSUME ThreadInv, NEW D, ThreadsMayBeStruck(D), Queued \ D \subseteq Queued'
    PROVE  ThreadInv'
<1>1. PICK S \in SUBSET {k \in NewThread \ D : thread[k] = "start"} :
         thread' = [k \in NewThread |-> IF k \in D THEN "none"
                                        ELSE IF k \in S THEN "fault" ELSE thread[k]]
  BY DEF ThreadsMayBeStruck
<1>2. \A k \in NewThread : thread'[k] = IF k \in D THEN "none"
                                        ELSE IF k \in S THEN "fault" ELSE thread[k]
  BY <1>1
<1>3. thread' \in [NewThread -> ThreadPlaces]
  BY <1>1 DEF ThreadInv, ThreadPlaces
<1>4. ASSUME NEW k \in NewThread, thread'[k] \in Looping PROVE k \in Queued'
  BY <1>2, <1>4 DEF ThreadInv, Looping
<1> QED BY <1>3, <1>4 DEF ThreadInv

LEMMA OutOfQueueFacts ==
    ASSUME Sound, UNCHANGED ready, NEW j \in Queued \ ReadyJobs, OutOfQueue(j)
    PROVE  QueueInv' /\ ReadyInv' /\ ThreadInv' /\ Queued' = Queued \ {j}
           /\ ReadyJobs' = ReadyJobs
<1>1. queue' \in Seq(Job) /\ IsInjective(queue') /\ ToSet(queue') = Queued \ {j}
  BY QueueRemoval DEF Sound, OutOfQueue
<1>2. Queued' = Queued \ {j} BY <1>1 DEF Queued
<1>3. job' \in [Queued' -> Attr]
  <2>1. job \in [Queued -> Attr] BY DEF Sound, QueueInv
  <2>2. job' = [k \in DOMAIN job \ {j} |-> job[k]] BY DEF OutOfQueue
  <2> HIDE DEF Attr
  <2> QED BY <1>2, <2>1, <2>2
<1>4. QueueInv' BY <1>1, <1>3 DEF QueueInv
<1>5. ReadyJobs' = ReadyJobs BY DEF ReadyJobs
<1>6. ReadyInv' BY <1>2, <1>5 DEF Sound, ReadyInv
<1>7. ThreadInv'
  <2>1. ThreadsMayBeStruck({j}) BY DEF OutOfQueue
  <2> QED BY <1>2, <2>1, ThreadsAfter DEF Sound
<1> QED BY <1>2, <1>4, <1>5, <1>6, <1>7

LEMMA CallDelSound ==
    ASSUME Sound, NEW j \in Job, CallDel(j)
    PROVE  Sound'
<1>1. /\ UNCHANGED << queue, job, ready, thread, client >> /\ kernel.at = "running"
      /\ client.at \notin {"deleting", "destroying"}
      /\ kernel' = [kernel EXCEPT !.at = "finding", !.victim = j]
  BY DEF CallDel, KernelAt
<1>2. kernel' \in KernelRecord /\ kernel'.at = "finding" /\ kernel'.job = kernel.job
  BY <1>1, KernelFields DEF KernelRecord, KernelPlaces
<1>3. kernel'.job \in Queued' \cup {NoJob}
  BY <1>1, <1>2, KernelThere DEF Pointers, Queued
<1>4. KernelInv' BY <1>2, <1>3, KernelLooks DEF Pointing
<1> QED BY <1>1, <1>4, SameReady, ClientStays, KernelMoves DEF Sound

(* A job that is taken off the ready queue need not be in the job queue any  *)
(* more: the application may have been quicker.                              *)
LEMMA DelReadySound == Sound /\ DelReady => Sound'
<1> SUFFICES ASSUME Sound, DelReady PROVE Sound' OBVIOUS
<1> DEFINE j == kernel.victim
<1>1. /\ UNCHANGED << queue, thread >> /\ ClientMayBeStruck /\ kernel.at = "finding"
      /\ client.at \notin {"deleting", "destroying"}
      /\ kernel' = [kernel EXCEPT !.at = "deleting"] /\ OutOfReady(j)
  BY ClientStays DEF DelReady, KernelAt, KernelGoes
<1>2. QueueInv' /\ ReadyInv' /\ Queued' = Queued /\ ReadyJobs' = ReadyJobs \ {j}
  <2>1. CASE j \in Queued BY <1>1, <2>1, OutOfReadyFacts
  <2>2. CASE j \notin Queued
    <3>1. j \notin ReadyJobs BY <2>2 DEF Sound, ReadyInv
    <3>2. UNCHANGED << queue, job, ready >> BY <1>1, <3>1 DEF OutOfReady
    <3> QED BY <3>1, <3>2, SameQueue, SameReady DEF Sound
  <2> QED BY <2>1, <2>2
<1>3. KernelInv'
  <2>1. /\ kernel' \in KernelRecord /\ kernel'.at = "deleting" /\ kernel'.job = kernel.job
        /\ kernel'.victim = j
    BY <1>1, KernelFields DEF KernelRecord, KernelPlaces
  <2>2. kernel.job \in Queued' \cup {NoJob} BY <1>1, <1>2, KernelThere DEF Pointers
  <2>3. Pointers' BY <1>2, <2>1, <2>2 DEF Pointers, Selecting
  <2> QED BY <2>1, <2>3 DEF KernelInv
<1>4. ThreadInv' /\ ClientInv' BY <1>1, <1>2, SameThreads, SameClient DEF Sound
<1> QED BY <1>2, <1>3, <1>4 DEF Sound

LEMMA DelJobSound == Sound /\ DelJob => Sound'
<1> SUFFICES ASSUME Sound, DelJob PROVE Sound' OBVIOUS
<1> DEFINE j == kernel.victim
           n == IF kernel.job = j THEN NoJob ELSE kernel.job
<1>1. /\ UNCHANGED ready /\ ClientMayBeStruck /\ kernel.at = "deleting"
      /\ client.at \notin {"deleting", "destroying"}
      /\ kernel' = [kernel EXCEPT !.at = "running", !.job = n]
  BY ClientStays DEF DelJob, KernelAt
<1>2. j \notin ReadyJobs /\ kernel.job \in Queued \cup {NoJob}
  BY <1>1, KernelThere DEF Pointers
<1>3. QueueInv' /\ ReadyInv' /\ ThreadInv' /\ Queued' = Queued \ {j}
  <2>1. CASE j \in Queued
    <3>1. OutOfQueue(j) BY <2>1 DEF DelJob
    <3> QED BY <1>1, <1>2, <2>1, <3>1, OutOfQueueFacts
  <2>2. CASE j \notin Queued
    <3>1. UNCHANGED << queue, job, thread >> BY <2>2 DEF DelJob
    <3> QED BY <1>1, <2>2, <3>1, SameQueue, SameReady, SameThreads DEF Sound
  <2> QED BY <2>1, <2>2
<1>4. KernelInv'
  <2>1. n \in Queued' \cup {NoJob} BY <1>2, <1>3
  <2>2. n \in Job \cup {NoJob} BY KernelFields
  <2> HIDE DEF n
  <2>3. kernel' \in KernelRecord /\ kernel'.at = "running" /\ kernel'.job = n
    BY <1>1, <2>2, KernelFields DEF KernelRecord, KernelPlaces
  <2> QED BY <2>1, <2>3, KernelLooks DEF Pointing
<1>5. ClientInv' BY <1>1, <1>3, SameClient DEF Sound
<1> QED BY <1>3, <1>4, <1>5 DEF Sound

(* What the application frees is nothing that the kernel thread follows when *)
(* it goes on.                                                               *)
LEMMA KernelAfter ==
    ASSUME Sound, NEW jobs, NEW readyJobs, Frees(jobs, readyJobs), client.at # "destroying",
           Queued' = Queued \ jobs, ReadyJobs' = ReadyJobs \ readyJobs,
           jobs \cap ReadyJobs \subseteq readyJobs, readyJobs = {} => UNCHANGED ready
    PROVE  KernelInv'
<1> DEFINE lost == [Delaying EXCEPT !.at = "fault", !.crossed = TRUE]
           goesOn == [kernel EXCEPT !.job = IF @ \in jobs THEN NoJob ELSE @, !.crossed =
                       @ \/ (kernel.at \in {"append", "remove"} /\ readyJobs # {})]
           follows == HeldJobs \cap jobs # {} \/ HeldReady \cap readyJobs # {}
<1>1. \/ kernel' = lost
      \/ ~follows /\ kernel.at = "fault" /\ kernel' = kernel
      \/ ~follows /\ kernel.at # "fault" /\ kernel' = goesOn
  BY DEF Frees
<1>2. CASE kernel' = lost
  <2>1. kernel' = [at |-> "fault", job |-> NoJob, node |-> NoJob, victim |-> NoJob,
                   crossed |-> TRUE]
    BY <1>2 DEF Delaying
  <2>2. kernel' \in KernelRecord BY <2>1 DEF KernelRecord, KernelPlaces
  <2>3. Pointers' BY <2>1 DEF Pointers, Selecting
  <2> QED BY <2>2, <2>3 DEF KernelInv
<1>3. CASE kernel.at = "fault" /\ kernel' = kernel
  BY <1>3, KernelThere DEF Sound, KernelInv, Pointers, Selecting
<1>4. CASE ~follows /\ kernel.at # "fault" /\ kernel' = goesOn
  <2> DEFINE n == IF kernel.job \in jobs THEN NoJob ELSE kernel.job
             c == kernel.crossed \/ (kernel.at \in {"append", "remove"} /\ readyJobs # {})
  <2>1. kernel' = [at |-> kernel.at, job |-> n, node |-> kernel.node,
                   victim |-> kernel.victim, crossed |-> c]
    BY <1>4, KernelFields DEF KernelRecord
  <2>2. kernel' \in KernelRecord
    <3>1. n \in Job \cup {NoJob} BY KernelFields
    <3>2. c \in BOOLEAN BY KernelFields
    <3> HIDE DEF n, c
    <3> QED BY <2>1, <3>1, <3>2, KernelFields DEF KernelRecord
  <2>3. Pointers BY KernelThere
  <2>4. n \in Queued' \cup {NoJob} BY <1>4, <2>3 DEF Pointers
  <2>5. kernel.at \in {"counting", "append"} => n = kernel.job BY <1>4 DEF HeldJobs
  <2>6. kernel.at \in Selecting => n = kernel.job /\ kernel.job \in ReadyJobs \ readyJobs
    BY <1>4, <2>3 DEF HeldReady, Selecting, Pointers
  <2>7. kernel.at = "remove" => kernel.node \in ReadyJobs \ readyJobs
    BY <1>4, <2>3 DEF HeldReady, Pointers
  <2>8. kernel.at \in {"append", "remove"} /\ ~c => ready' = ready /\ ~kernel.crossed
    OBVIOUS
  <2>9. kernel.at = "remove" /\ ~c /\ kernel.node # n => kernel.node # kernel.job
    <3> SUFFICES ASSUME kernel.at = "remove", ~c, kernel.node = kernel.job, kernel.node # n
                 PROVE  FALSE
      OBVIOUS
    <3>1. kernel.job \in jobs /\ kernel.job \in ReadyJobs /\ readyJobs = {} BY <2>7
    <3> QED BY <3>1
  <2> HIDE DEF n, c
  <2>10. /\ kernel'.at = kernel.at /\ kernel'.job = n /\ kernel'.node = kernel.node
         /\ kernel'.victim = kernel.victim /\ kernel'.crossed = c
    BY <2>1
  <2>11. kernel.at = "remove" /\ ~c /\ kernel.node # n =>
            (PlaceInReady(kernel.node) + 1 \in DOMAIN ready)'
    <3>1. PlaceInReady(kernel.node)' = PlaceInReady(kernel.node) \/ ready' # ready
      BY <2>10 DEF PlaceInReady
    <3> QED BY <2>3, <2>8, <2>9, <3>1 DEF Pointers
  <2>12. Pointers'
    <3>1. kernel.at = "append" => kernel.job \in KernelJob \ ReadyJobs' BY <2>3 DEF Pointers
    <3>2. kernel.at = "append" /\ ~c => ready' = << >> \/ kernel.node \in ReadyJobs'
      <4>1. ready' = ready => ReadyJobs' = ReadyJobs BY DEF ReadyJobs
      <4> QED BY <2>3, <2>8, <4>1 DEF Pointers
    <3>3. kernel.at = "deleting" => kernel.victim \notin ReadyJobs' BY <2>3 DEF Pointers
    <3>4. kernel.at \in {"counting", "append"} => kernel.job # NoJob BY <2>3 DEF Pointers
    <3> QED BY <1>4, <2>4, <2>5, <2>6, <2>7, <2>10, <2>11, <3>1, <3>2, <3>3, <3>4 DEF Pointers
  <2> QED BY <2>2, <2>12 DEF KernelInv
<1> QED BY <1>1, <1>2, <1>3, <1>4

LEMMA ClientDelReadySound ==
    ASSUME Sound, NEW j \in Job, ClientDelReady(j)
    PROVE  Sound'
<1>1. /\ UNCHANGED << queue, thread >> /\ client.at = "idle" /\ Frees({}, {j} \cap ReadyJobs)
      /\ j \in Queued /\ client' = [at |-> "deleting", job |-> j] /\ OutOfReady(j)
  BY DEF ClientDelReady
<1>2. QueueInv' /\ ReadyInv' /\ Queued' = Queued /\ ReadyJobs' = ReadyJobs \ {j}
  BY <1>1, OutOfReadyFacts
<1>3. KernelInv'
  <2>1. j \notin ReadyJobs => UNCHANGED ready BY <1>1 DEF OutOfReady
  <2>2. ReadyJobs' = ReadyJobs \ ({j} \cap ReadyJobs) BY <1>2
  <2>3. {j} \cap ReadyJobs = {} => UNCHANGED ready BY <2>1
  <2>4. Queued' = Queued \ {} /\ {} \cap ReadyJobs \subseteq {j} \cap ReadyJobs BY <1>2
  <2>5. client.at # "destroying" BY <1>1
  <2> HIDE DEF Queued, ReadyJobs
  <2> QED BY <1>1, <2>2, <2>3, <2>4, <2>5, KernelAfter
<1>4. ThreadInv' BY <1>1, <1>2, SameThreads DEF Sound
<1>5. ClientInv' BY <1>1, <1>2 DEF ClientInv
<1> QED BY <1>2, <1>3, <1>4, <1>5 DEF Sound

LEMMA ClientDelJobSound == Sound /\ ClientDelJob => Sound'
<1> SUFFICES ASSUME Sound, ClientDelJob PROVE Sound' OBVIOUS
<1>1. /\ UNCHANGED ready /\ client.at = "deleting" /\ Frees({client.job}, {})
      /\ client' = [at |-> "idle"] /\ OutOfQueue(client.job)
  BY DEF ClientDelJob
<1>2. client.job \in Queued \ ReadyJobs BY <1>1 DEF Sound, ClientInv
<1>3. /\ QueueInv' /\ ReadyInv' /\ ThreadInv' /\ Queued' = Queued \ {client.job}
      /\ ReadyJobs' = ReadyJobs
  BY <1>1, <1>2, OutOfQueueFacts
<1>4. KernelInv'
  <2>1. ReadyJobs' = ReadyJobs \ {} /\ {client.job} \cap ReadyJobs \subseteq {}
    BY <1>2, <1>3
  <2>2. client.at # "destroying" BY <1>1
  <2> HIDE DEF Queued, ReadyJobs
  <2> QED BY <1>1, <1>3, <2>1, <2>2, KernelAfter
<1>5. ClientInv' BY <1>1 DEF ClientInv
<1> QED BY <1>3, <1>4, <1>5 DEF Sound
-----------------------------------------------------------------------------
(* delAll and destroy. *)
LEMMA Emptied ==
    ASSUME Sound, AllFreed
    PROVE  /\ QueueInv' /\ ReadyInv' /\ ThreadInv' /\ Queued' = {} /\ ReadyJobs' = {}
           /\ ReadyJobs = {} => UNCHANGED ready
<1>1. Queued' = {} /\ ReadyJobs' = {}
  BY EmptyQueues DEF AllFreed, Queued, ReadyJobs, JobsOf
<1>2. QueueInv' /\ ReadyInv' BY <1>1, EmptyQueues DEF AllFreed, QueueInv, ReadyInv
<1>3. ThreadInv' BY DEF AllFreed, ThreadInv, ThreadPlaces, Looping
<1>4. ASSUME ReadyJobs = {} PROVE ready = << >>
  <2>1. Len(ready) = 0
    <3> SUFFICES ASSUME Len(ready) # 0 PROVE FALSE OBVIOUS
    <3>1. Len(ready) \in DOMAIN ready BY JobFacts
    <3> QED BY <1>4, <3>1, JobFacts
  <2> QED BY <2>1, EmptySeq DEF Sound, ReadyInv
<1> QED BY <1>1, <1>2, <1>3, <1>4 DEF AllFreed

LEMMA DelAllSound == Sound /\ DelAll => Sound'
<1> SUFFICES ASSUME Sound, DelAll PROVE Sound' OBVIOUS
<1>1. /\ QueueInv' /\ ReadyInv' /\ ThreadInv' /\ Queued' = {} /\ ReadyJobs' = {}
      /\ ReadyJobs = {} => UNCHANGED ready
  BY Emptied DEF DelAll
<1>2. KernelInv'
  <2>1. Frees(Queued, ReadyJobs) /\ client.at # "destroying" BY DEF DelAll
  <2>2. /\ Queued' = Queued \ Queued /\ ReadyJobs' = ReadyJobs \ ReadyJobs
        /\ Queued \cap ReadyJobs \subseteq ReadyJobs
    BY <1>1
  <2> HIDE DEF Queued, ReadyJobs
  <2> QED BY <1>1, <2>1, <2>2, KernelAfter
<1>3. ClientInv' BY DEF DelAll, ClientInv
<1> QED BY <1>1, <1>2, <1>3 DEF Sound

LEMMA DestroyJobsSound == Sound /\ DestroyJobs => Sound'
<1> SUFFICES ASSUME Sound, DestroyJobs PROVE Sound' OBVIOUS
<1>1. QueueInv' /\ ReadyInv' /\ ThreadInv' /\ Queued' = {} BY Emptied DEF DestroyJobs
<1>2. KernelInv' BY DEF DestroyJobs, Sound, KernelInv
<1>3. ClientInv' BY <1>1 DEF DestroyJobs, ClientInv
<1> QED BY <1>1, <1>2, <1>3 DEF Sound

LEMMA DestroyKernelSound == Sound /\ DestroyKernel => Sound'
<1> SUFFICES ASSUME Sound, DestroyKernel PROVE Sound' OBVIOUS
<1>1. UNCHANGED << queue, job, ready, thread >> /\ KernelBeginsAt("deleted")
  BY DEF DestroyKernel
<1>2. QueueInv' /\ ReadyInv' /\ ThreadInv'
  BY <1>1, SameQueue, SameReady, SameThreads DEF Sound
<1>3. KernelInv' BY <1>1, KernelBegins DEF KernelPlaces, Pointing
<1>4. ClientInv' BY DEF DestroyKernel, ClientInv
<1> QED BY <1>2, <1>3, <1>4 DEF Sound
-----------------------------------------------------------------------------
LEMMA KernelKept ==
    ASSUME Sound, UNCHANGED << kernel, ready, client >>, Queued' = Queued
    PROVE  KernelInv'
BY DEF Sound, KernelInv, Pointers, ReadyJobs, PlaceInReady

(* add, setTimes and setPeriodAndPriority. *)
LEMMA AddCallSound ==
    ASSUME Sound, NEW j \in Job, NEW p \in PeriodFor(j), NEW q \in PriorityFor(j),
           NEW t \in TimesFor(j), AddCall(j, t, q, p)
    PROVE  Sound'
<1>1. /\ UNCHANGED << queue, job, ready, kernel >> /\ j \notin Queued
      /\ client.at = "idle"
      /\ client' = [at |-> "add", job |-> j,
                    attr |-> [times |-> t, priority |-> q, period |-> p]]
      /\ thread' = IF j \in NewThread THEN [thread EXCEPT ![j] = "start"] ELSE thread
  BY DEF AddCall
<1>2. QueueInv' /\ ReadyInv' /\ Queued' = Queued /\ ReadyJobs' = ReadyJobs
  BY <1>1, SameQueue, SameReady DEF Sound
<1>3. KernelInv' BY <1>1, <1>2, SameKernel DEF Sound
<1>4. ThreadInv'
  <2>1. thread \in [NewThread -> ThreadPlaces]
        /\ \A k \in NewThread : thread[k] \in Looping => k \in Queued
    BY DEF Sound, ThreadInv
  <2>2. thread' \in [NewThread -> ThreadPlaces] BY <1>1, <2>1 DEF ThreadPlaces
  <2>3. ASSUME NEW k \in NewThread, thread'[k] \in Looping PROVE k \in Queued'
    BY <1>1, <1>2, <2>1, <2>3 DEF Looping
  <2> QED BY <2>2, <2>3 DEF ThreadInv
<1>5. ClientInv'
  <2> DEFINE a == [times |-> t, priority |-> q, period |-> p]
  <2>1. t \in Int /\ q \in Priority /\ p \in Period BY Arguments
  <2>2. a \in Attr /\ a.times = t BY <2>1 DEF Attr
  <2>3. client'.at = "add" /\ client'.job = j /\ client'.attr = a BY <1>1
  <2> HIDE DEF a
  <2> QED BY <1>1, <1>2, <2>2, <2>3 DEF ClientInv
<1> QED BY <1>2, <1>3, <1>4, <1>5 DEF Sound

LEMMA AddInsertSound == Sound /\ AddInsert => Sound'
<1> SUFFICES ASSUME Sound, AddInsert PROVE Sound' OBVIOUS
<1>1. /\ UNCHANGED << ready, kernel, thread >> /\ client' = [at |-> "idle"]
      /\ client.at = "add"
      /\ queue' = Append(queue, client.job)
      /\ job' = [j \in DOMAIN job \cup {client.job} |->
                     IF j = client.job THEN client.attr ELSE job[j]]
  BY DEF AddInsert
<1>2. client.job \in Job \ Queued /\ client.attr \in Attr
  BY DEF AddInsert, Sound, ClientInv
<1>3. queue \in Seq(Job) /\ IsInjective(queue) /\ job \in [Queued -> Attr]
  BY DEF Sound, QueueInv
<1>4. queue' \in Seq(Job) /\ ToSet(queue') = ToSet(queue) \cup {client.job}
  BY <1>1, <1>2, <1>3, AppendSet
<1>5. Queued' = Queued \cup {client.job} BY <1>4 DEF Queued
<1>6. IsInjective(queue') BY <1>1, <1>2, <1>3, InjectiveAppend DEF Queued
<1>7. job' \in [Queued' -> Attr]
  <2> HIDE DEF Attr
  <2> QED BY <1>1, <1>2, <1>3, <1>5
<1>8. QueueInv' BY <1>4, <1>6, <1>7 DEF QueueInv
<1>9. ReadyJobs' = ReadyJobs BY <1>1 DEF ReadyJobs
<1>10. ReadyInv' BY <1>1, <1>5, <1>9 DEF Sound, ReadyInv
<1>11. KernelInv' BY <1>1, <1>5, SameKernel DEF Sound
<1>12. ThreadInv' BY <1>1, <1>5, SameThreads DEF Sound
<1>13. ClientInv' BY <1>1 DEF ClientInv
<1> QED BY <1>8, <1>10, <1>11, <1>12, <1>13 DEF Sound

(* Nothing but the attributes of a job that is in memory changes. *)
LEMMA AttrSound ==
    ASSUME Sound, UNCHANGED << queue, ready, kernel, thread, client >>,
           NEW j \in Queued, NEW a \in Attr, job' = [job EXCEPT ![j] = a]
    PROVE  Sound'
<1>1. QueueInv' BY AttrChanged DEF Sound
<1>2. Queued' = Queued BY DEF Queued
<1>3. ReadyInv' /\ ReadyJobs' = ReadyJobs BY SameReady DEF Sound
<1>4. KernelInv' BY <1>2, KernelKept
<1>5. ThreadInv' BY <1>2, SameThreads DEF Sound
<1>6. ClientInv' BY <1>2, <1>3 DEF Sound, ClientInv
<1> QED BY <1>1, <1>3, <1>4, <1>5, <1>6 DEF Sound

LEMMA SetTimesSound ==
    ASSUME Sound, NEW j \in Job, NEW t \in TimesFor(j), SetTimes(j, t)
    PROVE  Sound'
<1> DEFINE a == [job[j] EXCEPT !.times = t]
<1>1. /\ UNCHANGED << queue, ready, kernel, thread, client >> /\ j \in Queued
      /\ job' = [job EXCEPT ![j] = a]
  BY DEF SetTimes
<1>2. a \in Attr
  <2>1. job[j] \in Attr /\ t \in Int BY <1>1, JobFacts, Arguments
  <2> QED BY <2>1 DEF Attr
<1> HIDE DEF a
<1> QED BY <1>1, <1>2, AttrSound

LEMMA PeriodSet ==
    ASSUME Sound, NEW j \in Job, NEW p \in PeriodFor(j), NEW q \in PriorityFor(j),
           SetPeriodAndPriority(j, p, q)
    PROVE  \E a \in Attr : job' = [job EXCEPT ![j] = a] /\ a.times = job[j].times
<1> DEFINE a == [times |-> job[j].times, priority |-> q, period |-> p]
<1>1. j \in Queued BY DEF SetPeriodAndPriority
<1>2. job[j] \in Attr /\ p \in Period /\ q \in Priority BY <1>1, JobFacts, Arguments
<1>3. job \in [Queued -> Attr] BY DEF Sound, QueueInv
<1>4. job' = [job EXCEPT ![j].period = p, ![j].priority = q] BY DEF SetPeriodAndPriority
<1>5. /\ [job EXCEPT ![j].period = p, ![j].priority = q] = [job EXCEPT ![j] = a]
      /\ a \in Attr
  <2> HIDE DEF Attr, Queued
  <2> QED BY <1>1, <1>2, <1>3, NewAttributes, Zenon
<1>6. a.times = job[j].times OBVIOUS
<1> HIDE DEF a
<1> QED BY <1>4, <1>5, <1>6

LEMMA SetPeriodAndPrioritySound ==
    ASSUME Sound, NEW j \in Job, NEW p \in PeriodFor(j), NEW q \in PriorityFor(j),
           SetPeriodAndPriority(j, p, q)
    PROVE  Sound'
<1>1. UNCHANGED << queue, ready, kernel, thread, client >> /\ j \in Queued
  BY DEF SetPeriodAndPriority
<1>2. PICK a \in Attr : job' = [job EXCEPT ![j] = a] BY PeriodSet
<1> QED BY <1>1, <1>2, AttrSound
-----------------------------------------------------------------------------
(* The threads of the jobs that have one. *)
LEMMA ThreadMoves ==
    ASSUME Sound, UNCHANGED << queue, job, ready, kernel, client >>,
           NEW j \in NewThread, NEW a \in ThreadPlaces, ThreadGoes(j, a),
           a \in Looping => j \in Queued
    PROVE  Sound'
<1>1. QueueInv' /\ ReadyInv' /\ Queued' = Queued /\ ReadyJobs' = ReadyJobs
  BY SameQueue, SameReady DEF Sound
<1>2. KernelInv' BY <1>1, KernelKept
<1>3. thread' = [thread EXCEPT ![j] = a] BY DEF ThreadGoes
<1>4. ThreadInv' BY <1>1, <1>3 DEF Sound, ThreadInv
<1>5. ClientInv' BY <1>1 DEF Sound, ClientInv
<1> QED BY <1>1, <1>2, <1>4, <1>5 DEF Sound

LEMMA ThreadStartSound ==
    ASSUME Sound, NEW j \in NewThread, ThreadStart(j)
    PROVE  Sound'
<1> DEFINE a == IF j \in Queued THEN "loop" ELSE "ended"
<1>1. UNCHANGED << queue, job, ready, kernel, client >> /\ ThreadGoes(j, a)
  BY DEF ThreadStart
<1>2. a \in ThreadPlaces /\ (a \in Looping => j \in Queued) BY DEF ThreadPlaces, Looping
<1> HIDE DEF a
<1> QED BY <1>1, <1>2, ThreadMoves

LEMMA ThreadRunSound ==
    ASSUME Sound, NEW j \in NewThread, ThreadRun(j)
    PROVE  Sound'
<1>1. UNCHANGED << queue, job, ready, kernel, client >> /\ ThreadGoes(j, "running")
  BY DEF ThreadRun
<1>2. j \in Queued BY DEF Sound, ThreadInv, ThreadRun, Looping
<1>3. "running" \in ThreadPlaces BY DEF ThreadPlaces
<1> QED BY <1>1, <1>2, <1>3, ThreadMoves

LEMMA ThreadRanSound ==
    ASSUME Sound, NEW j \in NewThread, ThreadRan(j)
    PROVE  Sound'
<1> DEFINE a == IF job[j].times = Continues THEN "loop" ELSE "decrement"
<1>1. UNCHANGED << queue, job, ready, kernel, client >> /\ ThreadGoes(j, a)
  BY DEF ThreadRan
<1>2. j \in Queued BY DEF Sound, ThreadInv, ThreadRan, Looping
<1>3. a \in ThreadPlaces BY DEF ThreadPlaces
<1> HIDE DEF a
<1> QED BY <1>1, <1>2, <1>3, ThreadMoves

LEMMA ThreadDecrementSound ==
    ASSUME Sound, NEW j \in NewThread, ThreadDecrement(j)
    PROVE  Sound'
<1> DEFINE a == [job[j] EXCEPT !.times = @ - 1]
<1>1. /\ UNCHANGED << queue, ready, kernel, client >> /\ thread[j] = "decrement"
      /\ ThreadGoes(j, "loop") /\ job' = [job EXCEPT ![j] = a]
  BY DEF ThreadDecrement
<1>2. j \in Queued BY <1>1 DEF Sound, ThreadInv, Looping
<1>3. a \in Attr
  <2>1. job[j] \in Attr BY <1>2, JobFacts
  <2> QED BY <2>1 DEF Attr
<1> HIDE DEF a
<1>4. QueueInv' BY <1>1, <1>2, <1>3, AttrChanged DEF Sound
<1>5. Queued' = Queued BY <1>1 DEF Queued
<1>6. ReadyInv' /\ ReadyJobs' = ReadyJobs BY <1>1, SameReady DEF Sound
<1>7. KernelInv' BY <1>1, <1>5, KernelKept
<1>8. ThreadInv'
  <2>1. thread' = [thread EXCEPT ![j] = "loop"] BY <1>1 DEF ThreadGoes
  <2> QED BY <1>2, <1>5, <2>1 DEF Sound, ThreadInv, ThreadPlaces
<1>9. ClientInv' BY <1>1, <1>5, <1>6 DEF Sound, ClientInv
<1> QED BY <1>4, <1>6, <1>7, <1>8, <1>9 DEF Sound
-----------------------------------------------------------------------------
LEMMA NextSound == Sound /\ [Next]_vars => Sound'
<1> SUFFICES ASSUME Sound, [Next]_vars PROVE Sound' OBVIOUS
<1>1. CASE KernelStep
  BY <1>1, TickSound, CountDownSound, FillSound, AppendReadySound, FilledSound, SelectSound,
     SelectContinuousSound, SelectCountedSound, DecrementSound, SelectStoppedSound,
     TakeOffSound, RanSound, DelReadySound, DelJobSound
     DEF KernelStep
<1>2. CASE \E j \in NewThread : ThreadStep(j)
  BY <1>2, ThreadStartSound, ThreadRunSound, ThreadRanSound, ThreadDecrementSound
     DEF ThreadStep
<1>3. CASE \E j \in Job : CallDel(j) \/ ClientDelReady(j)
  BY <1>3, CallDelSound, ClientDelReadySound
<1>4. CASE DelAll \/ DestroyJobs BY <1>4, DelAllSound, DestroyJobsSound
<1>5. CASE ClientStep
  BY <1>5, AddInsertSound, ClientDelJobSound, DestroyKernelSound DEF ClientStep
<1>6. CASE \E j \in Job : \E p \in PeriodFor(j), q \in PriorityFor(j) :
              SetPeriodAndPriority(j, p, q) \/ \E t \in TimesFor(j) : AddCall(j, t, q, p)
  BY <1>6, SetPeriodAndPrioritySound, AddCallSound
<1>7. CASE \E j \in Job : \E t \in TimesFor(j) : SetTimes(j, t) BY <1>7, SetTimesSound
<1>8. CASE UNCHANGED vars
  <2>1. UNCHANGED << queue, job, ready, kernel, thread, client >> BY <1>8 DEF vars
  <2>2. QueueInv' /\ ReadyInv' /\ Queued' = Queued /\ ReadyJobs' = ReadyJobs
    BY <2>1, SameQueue, SameReady DEF Sound
  <2>3. KernelInv' /\ ThreadInv' BY <2>1, <2>2, KernelKept, SameThreads DEF Sound
  <2>4. ClientInv' BY <2>1, <2>2 DEF Sound, ClientInv
  <2> QED BY <2>2, <2>3, <2>4 DEF Sound
<1> QED BY <1>1, <1>2, <1>3, <1>4, <1>5, <1>6, <1>7, <1>8 DEF Next

(* Nobody follows a pointer to a job that was freed, and no job is in a      *)
(* queue twice, for any jobs and arguments: while jobs delete jobs, and the  *)
(* application adds, deletes, empties and destroys wherever the kernel       *)
(* thread is - unless a deletion by the application frees what that thread   *)
(* is about to follow, or a stopped job is alone in the ready queue.         *)
THEOREM NothingEverDangles == Spec => []NothingDangles
<1>1. Sound => NothingDangles
  <2> SUFFICES ASSUME Sound PROVE NothingDangles OBVIOUS
  <2>1. ReadyJobs \subseteq Queued /\ IsInjective(queue)
        /\ \A i, k \in DOMAIN ready : ready[i].job = ready[k].job => i = k
    BY DEF Sound, QueueInv, ReadyInv, Distinct
  <2>2. client.at # "destroying" => Pointers BY KernelThere
  <2>3. \A j \in NewThread : thread[j] \in {"loop", "running", "decrement"} => j \in Queued
    BY DEF Sound, ThreadInv, Looping
  <2> QED BY <2>1, <2>2, <2>3 DEF NothingDangles, Pointers, Selecting
<1> QED BY <1>1, InitSoundness, NextSound, PTL DEF Spec
-----------------------------------------------------------------------------
(* What a step does to the times of a job in the queue: it leaves them, the  *)
(* application gives new ones, del stops the job, or one of the two places   *)
(* that count down does.                                                     *)
Kept(j) == j \in Queued /\ job'[j].times = job[j].times
Given(j) == /\ job'[j].times \in TimesFor(j)
            /\ job'[j].times = 0 => j \in late' \/ ~GoesOn(j)'
Stopped(j) == /\ j \in ReadyJobs \ ReadyJobs' /\ job'[j].times = 0
              /\ kernel'.at # "decrement" \/ kernel'.job # j
KernelCounts(j) == /\ kernel.at = "decrement" /\ kernel'.at = "running"
                   /\ j = kernel.job /\ j \in ReadyJobs
                   /\ job'[j].times = job[j].times - 1
ThreadCounts(j) == /\ j \in NewThread /\ thread[j] = "decrement" /\ thread'[j] = "loop"
                   /\ job'[j].times = job[j].times - 1
TimesStep == \A j \in Queued' : \/ Kept(j) \/ Given(j) \/ Stopped(j)
                                \/ KernelCounts(j) \/ ThreadCounts(j)

(* How the kernel thread comes to count down, ...                            *)
KernelArrives ==
    \A j \in Queued' :
        kernel'.at = "decrement" /\ kernel'.job = j =>
            /\ j \in ReadyJobs /\ kernel.at \in Selecting /\ kernel.job = j
            /\ kernel.at = "decrement" \/ (UNCHANGED job /\ job[j].times > 0)

(* ... and a job's thread to run and to count down.                          *)
ThreadArrives ==
    \A j \in NewThread :
        /\ thread'[j] = "running" =>
               \/ thread[j] = "running"
               \/ thread[j] = "loop" /\ job[j].times # 0 /\ UNCHANGED job
        /\ thread'[j] = "decrement" =>
               \/ thread[j] = "decrement"
               \/ thread[j] = "running" /\ job[j].times # Continues /\ UNCHANGED job

(* A job that was stopped too late is so until it is given times again.      *)
LateStep ==
    /\ late \subseteq Queued => late' \subseteq Queued'
    /\ \A j \in late \ late' : j \in Queued' => Given(j)

(* A step that touches no job and no queue. *)
LEMMA TimesSame == UNCHANGED << queue, job >> => TimesStep
BY DEF TimesStep, Kept, Queued

LEMMA LateSame ==
    ASSUME UNCHANGED late, Queued \subseteq Queued'
    PROVE  LateStep
BY DEF LateStep

(* A step that gives one job other attributes. *)
LEMMA TimesOfOne ==
    ASSUME Sound, UNCHANGED queue, NEW j \in Queued, NEW a,
           job' = [job EXCEPT ![j] = a],
           LET t == a.times
           IN  \/ t = job[j].times
               \/ t \in TimesFor(j) /\ (t = 0 => j \in late' \/ ~GoesOn(j)')
               \/ /\ j \in ReadyJobs \ ReadyJobs' /\ t = 0
                  /\ kernel'.at # "decrement" \/ kernel'.job # j
               \/ /\ kernel.at = "decrement" /\ kernel'.at = "running" /\ j = kernel.job
                  /\ j \in ReadyJobs /\ t = job[j].times - 1
               \/ /\ j \in NewThread /\ thread[j] = "decrement" /\ thread'[j] = "loop"
                  /\ t = job[j].times - 1
    PROVE  TimesStep
<1>1. Queued' = Queued /\ DOMAIN job = Queued BY DEF Queued, Sound, QueueInv
<1>2. job'[j] = a /\ \A k \in Queued : k # j => job'[k] = job[k] BY <1>1
<1>3. ASSUME NEW k \in Queued', k # j PROVE Kept(k) BY <1>1, <1>2, <1>3 DEF Kept
<1>4. Kept(j) \/ Given(j) \/ Stopped(j) \/ KernelCounts(j) \/ ThreadCounts(j)
  BY <1>2 DEF Kept, Given, Stopped, KernelCounts, ThreadCounts
<1> QED BY <1>3, <1>4 DEF TimesStep

(* del's first section stops a job that is ready; its second frees one. *)
LEMMA OutOfReadyTimes ==
    ASSUME Sound, Sound', UNCHANGED queue, NEW j, OutOfReady(j),
           client'.at # "destroying"
    PROVE  TimesStep
<1>1. CASE j \in ReadyJobs
  <2> DEFINE a == [job[j] EXCEPT !.times = 0]
  <2>1. job' = [job EXCEPT ![j] = a] /\ j \in Queued BY <1>1, JobFacts DEF OutOfReady
  <2>2. a.times = 0
    <3>1. job[j] \in Attr BY <2>1, JobFacts
    <3> QED BY <3>1 DEF Attr
  <2>3. j \in ReadyJobs \ ReadyJobs' BY <1>1, <2>1, OutOfReadyFacts
  <2>4. kernel'.at # "decrement" \/ kernel'.job # j
    BY <2>3 DEF Sound, KernelInv, Pointers, Selecting
  <2> HIDE DEF a
  <2> QED BY <2>1, <2>2, <2>3, <2>4, TimesOfOne
<1>2. CASE j \notin ReadyJobs BY <1>2, TimesSame DEF OutOfReady
<1> QED BY <1>1, <1>2

LEMMA OutOfQueueTimes ==
    ASSUME Sound, UNCHANGED ready, NEW j \in Queued \ ReadyJobs, OutOfQueue(j)
    PROVE  TimesStep /\ LateStep
<1>1. Queued' = Queued \ {j} BY OutOfQueueFacts
<1>2. DOMAIN job = Queued BY DEF Sound, QueueInv
<1>3. \A k \in Queued' : job'[k] = job[k] BY <1>1, <1>2 DEF OutOfQueue
<1>4. late' = late \ {j} BY DEF OutOfQueue
<1> QED BY <1>1, <1>3, <1>4 DEF TimesStep, Kept, LateStep

LEMMA NobodyLeft == Queued' = {} => TimesStep
BY DEF TimesStep

LEMMA DelJobTimes == Sound /\ DelJob => TimesStep /\ LateStep
<1> SUFFICES ASSUME Sound, DelJob PROVE TimesStep /\ LateStep OBVIOUS
<1>1. kernel.victim \notin ReadyJobs /\ UNCHANGED ready
  BY KernelThere DEF DelJob, KernelAt, Pointers
<1>2. CASE kernel.victim \in Queued
  <2>1. OutOfQueue(kernel.victim) BY <1>2 DEF DelJob
  <2> QED BY <1>1, <1>2, <2>1, OutOfQueueTimes
<1>3. CASE kernel.victim \notin Queued
  <2>1. UNCHANGED << queue, job, late >> BY <1>3 DEF DelJob
  <2> QED BY <2>1, TimesSame DEF LateStep, Queued
<1> QED BY <1>2, <1>3

LEMMA ClientDelJobTimes == Sound /\ ClientDelJob => TimesStep /\ LateStep
<1> SUFFICES ASSUME Sound, ClientDelJob PROVE TimesStep /\ LateStep OBVIOUS
<1>1. client.job \in Queued \ ReadyJobs BY DEF ClientDelJob, Sound, ClientInv
<1> QED BY <1>1, OutOfQueueTimes DEF ClientDelJob

(* A job that comes into the queue is nowhere else yet. *)
LEMMA AddInsertTimes == Sound /\ AddInsert => TimesStep /\ LateStep
<1> SUFFICES ASSUME Sound, AddInsert PROVE TimesStep /\ LateStep OBVIOUS
<1>1. /\ queue' = Append(queue, client.job) /\ UNCHANGED << kernel, thread, late >>
      /\ client.at = "add"
      /\ job' = [j \in DOMAIN job \cup {client.job} |->
                     IF j = client.job THEN client.attr ELSE job[j]]
  BY DEF AddInsert
<1>2. /\ client.job \in Job \ Queued /\ client.attr.times \in TimesFor(client.job)
      /\ queue \in Seq(Job) /\ DOMAIN job = Queued
  BY <1>1 DEF Sound, ClientInv, QueueInv
<1>3. PICK k : k = client.job OBVIOUS
<1>4. Queued' = Queued \cup {k} BY <1>1, <1>2, <1>3, AppendSet DEF Queued
<1>5. ~GoesOn(k)'
  <2>1. kernel.at = "decrement" => kernel.job \in Queued
    BY <1>1, KernelThere, JobFacts DEF Pointers, Selecting
  <2>2. \A j \in NewThread : thread[j] \in {"running", "decrement"} => j \in Queued
    BY DEF Sound, ThreadInv, Looping
  <2> QED BY <1>1, <1>2, <1>3, <2>1, <2>2 DEF GoesOn
<1>6. Given(k) BY <1>1, <1>2, <1>3, <1>5 DEF Given
<1>7. \A j \in Queued : Kept(j) BY <1>1, <1>2 DEF Kept
<1>8. LateStep BY <1>1, <1>4, LateSame
<1> QED BY <1>4, <1>6, <1>7, <1>8 DEF TimesStep

LEMMA SetTimesTimes ==
    ASSUME Sound, NEW j \in Job, NEW t \in TimesFor(j), SetTimes(j, t)
    PROVE  TimesStep /\ LateStep
<1> DEFINE a == [job[j] EXCEPT !.times = t]
<1>1. /\ UNCHANGED << queue, kernel, thread >> /\ j \in Queued /\ job' = [job EXCEPT ![j] = a]
      /\ late' = IF t = 0 /\ GoesOn(j) THEN late \cup {j} ELSE late \ {j}
  BY DEF SetTimes
<1>2. a.times = t
  <2>1. job[j] \in Attr BY <1>1, JobFacts
  <2> QED BY <2>1 DEF Attr
<1>3. t = 0 => j \in late' \/ ~GoesOn(j)' BY <1>1 DEF GoesOn
<1>4. job'[j] = a
  <2>1. DOMAIN job = Queued BY DEF Sound, QueueInv
  <2> QED BY <1>1, <2>1
<1> HIDE DEF a
<1>5. TimesStep BY <1>1, <1>2, <1>3, TimesOfOne
<1>6. Given(j) BY <1>2, <1>3, <1>4 DEF Given
<1>7. Queued' = Queued BY <1>1 DEF Queued
<1>8. LateStep BY <1>1, <1>6, <1>7 DEF LateStep
<1> QED BY <1>5, <1>8

LEMMA DecrementTimes == Sound /\ Decrement => TimesStep
<1> SUFFICES ASSUME Sound, Decrement PROVE TimesStep OBVIOUS
<1> DEFINE a == [job[kernel.job] EXCEPT !.times = @ - 1]
<1>1. /\ kernel.at = "decrement" /\ kernel' = [kernel EXCEPT !.at = "running"]
      /\ job' = [job EXCEPT ![kernel.job] = a] /\ UNCHANGED queue
      /\ client.at # "destroying"
  BY DEF Decrement, KernelAt, KernelGoes
<1>2. kernel.job \in ReadyJobs /\ kernel.job \in Queued /\ job[kernel.job] \in Attr
  BY <1>1, KernelThere, JobFacts DEF Pointers, Selecting
<1>3. a.times = job[kernel.job].times - 1 BY <1>2 DEF Attr
<1>4. kernel'.at = "running" BY <1>1, KernelFields DEF KernelRecord
<1> HIDE DEF a
<1> QED BY <1>1, <1>2, <1>3, <1>4, TimesOfOne

LEMMA ThreadStepTimes ==
    ASSUME Sound, NEW j \in NewThread, ThreadStep(j)
    PROVE  TimesStep
<1>1. CASE ThreadDecrement(j)
  <2> DEFINE a == [job[j] EXCEPT !.times = @ - 1]
  <2>1. /\ thread[j] = "decrement" /\ thread' = [thread EXCEPT ![j] = "loop"]
        /\ job' = [job EXCEPT ![j] = a] /\ UNCHANGED queue
    BY <1>1 DEF ThreadDecrement, ThreadGoes
  <2>2. j \in Queued /\ thread \in [NewThread -> ThreadPlaces]
    BY <2>1 DEF Sound, ThreadInv, Looping
  <2>3. job[j] \in Attr BY <2>2, JobFacts
  <2>4. a.times = job[j].times - 1 BY <2>3 DEF Attr
  <2>5. thread'[j] = "loop" BY <2>1, <2>2
  <2> HIDE DEF a
  <2> QED BY <2>1, <2>2, <2>4, <2>5, TimesOfOne
<1>2. CASE ThreadStart(j) \/ ThreadRun(j) \/ ThreadRan(j)
  BY <1>2, TimesSame DEF ThreadStart, ThreadRun, ThreadRan
<1> QED BY <1>1, <1>2 DEF ThreadStep

LEMMA NextTimes == Sound /\ [Next]_vars => TimesStep /\ LateStep
<1> SUFFICES ASSUME Sound, [Next]_vars PROVE TimesStep /\ LateStep OBVIOUS
<1>0. Sound' BY NextSound
<1>00. UNCHANGED << queue, late >> => LateStep BY LateSame DEF Queued
<1>1. CASE KernelStep
  <2>1. CASE Decrement BY <2>1, <1>00, DecrementTimes DEF Decrement
  <2>2. CASE DelJob BY <2>2, DelJobTimes
  <2>3. CASE DelReady
    <3>1. UNCHANGED << queue, late >> /\ OutOfReady(kernel.victim) BY <2>3 DEF DelReady
    <3>2. client'.at # "destroying"
      BY <2>3 DEF DelReady, KernelAt, ClientMayBeStruck
    <3> QED BY <3>1, <3>2, <1>0, <1>00, OutOfReadyTimes
  <2>4. CASE Tick \/ CountDown \/ Fill \/ AppendReady \/ Filled \/ Select
             \/ SelectContinuous \/ SelectCounted \/ SelectStopped \/ TakeOff \/ Ran
    <3>1. UNCHANGED << queue, job, late >>
      BY <2>4 DEF Tick, CountDown, Fill, AppendReady, Filled, Select,
                  SelectContinuous, SelectCounted, SelectStopped, TakeOff, Ran
    <3> QED BY <3>1, <1>00, TimesSame
  <2> QED BY <1>1, <2>1, <2>2, <2>3, <2>4 DEF KernelStep
<1>2. CASE \E j \in NewThread : ThreadStep(j)
  <2>1. UNCHANGED << queue, late >>
    BY <1>2 DEF ThreadStep, ThreadStart, ThreadRun, ThreadRan, ThreadDecrement
  <2> QED BY <1>2, <2>1, <1>00, ThreadStepTimes
<1>3. CASE \E j \in Job : CallDel(j) \/ ClientDelReady(j)
  <2> SUFFICES ASSUME NEW j \in Job, CallDel(j) \/ ClientDelReady(j)
               PROVE  TimesStep /\ LateStep
    BY <1>3
  <2>1. CASE CallDel(j) BY <2>1, <1>00, TimesSame DEF CallDel
  <2>2. CASE ClientDelReady(j)
    <3>1. UNCHANGED << queue, late >> /\ OutOfReady(j) /\ client'.at # "destroying"
      BY <2>2 DEF ClientDelReady
    <3> QED BY <3>1, <1>0, <1>00, OutOfReadyTimes
  <2> QED BY <2>1, <2>2
<1>4. CASE DelAll \/ DestroyJobs
  <2>1. Queued' = {} /\ late' = {} BY <1>4, Emptied DEF DelAll, DestroyJobs, AllFreed
  <2> QED BY <2>1, NobodyLeft DEF LateStep
<1>5. CASE ClientStep
  <2>1. CASE AddInsert BY <2>1, AddInsertTimes
  <2>2. CASE ClientDelJob BY <2>2, ClientDelJobTimes
  <2>3. CASE DestroyKernel BY <2>3, <1>00, TimesSame DEF DestroyKernel
  <2> QED BY <1>5, <2>1, <2>2, <2>3 DEF ClientStep
<1>6. CASE \E j \in Job : \E p \in PeriodFor(j), q \in PriorityFor(j) :
              SetPeriodAndPriority(j, p, q) \/ \E t \in TimesFor(j) : AddCall(j, t, q, p)
  <2> SUFFICES ASSUME NEW j \in Job, NEW p \in PeriodFor(j), NEW q \in PriorityFor(j),
                      SetPeriodAndPriority(j, p, q) \/ \E t \in TimesFor(j) : AddCall(j, t, q, p)
               PROVE  TimesStep /\ LateStep
    BY <1>6
  <2>1. CASE SetPeriodAndPriority(j, p, q)
    <3>1. PICK a \in Attr : job' = [job EXCEPT ![j] = a] /\ a.times = job[j].times
      BY <2>1, PeriodSet
    <3>2. UNCHANGED << queue, late >> /\ j \in Queued BY <2>1 DEF SetPeriodAndPriority
    <3> QED BY <3>1, <3>2, <1>00, TimesOfOne
  <2>2. CASE \E t \in TimesFor(j) : AddCall(j, t, q, p)
    BY <2>2, <1>00, TimesSame DEF AddCall
  <2> QED BY <2>1, <2>2
<1>7. CASE \E j \in Job : \E t \in TimesFor(j) : SetTimes(j, t) BY <1>7, SetTimesTimes
<1>8. CASE UNCHANGED vars BY <1>8, <1>00, TimesSame DEF vars
<1> QED BY <1>1, <1>2, <1>3, <1>4, <1>5, <1>6, <1>7, <1>8 DEF Next

(* The application's deletions leave the kernel thread where it is. *)
LEMMA FreesLeaves ==
    ASSUME Sound, NEW jobs, NEW readyJobs, Frees(jobs, readyJobs)
    PROVE  \/ kernel'.at = "fault"
           \/ kernel'.at = kernel.at /\ kernel'.job \in {kernel.job, NoJob}
<1> DEFINE n == IF kernel.job \in jobs THEN NoJob ELSE kernel.job
           c == kernel.crossed \/ (kernel.at \in {"append", "remove"} /\ readyJobs # {})
<1>1. \/ kernel' = [Delaying EXCEPT !.at = "fault", !.crossed = TRUE]
      \/ kernel' = kernel
      \/ kernel' = [kernel EXCEPT !.job = n, !.crossed = c]
  BY DEF Frees
<1> HIDE DEF c
<1>2. kernel' = [kernel EXCEPT !.job = n, !.crossed = c] =>
          kernel'.at = kernel.at /\ kernel'.job = n
  BY KernelFields DEF KernelRecord
<1>3. kernel' = [Delaying EXCEPT !.at = "fault", !.crossed = TRUE] => kernel'.at = "fault"
  BY DEF Delaying
<1> QED BY <1>1, <1>2, <1>3

(* When destroy has freed the jobs nobody touches the queue any more. *)
LEMMA DestroyingOnly == [Next]_vars /\ client.at = "destroying" => UNCHANGED queue
<1> SUFFICES ASSUME [Next]_vars, client.at = "destroying" PROVE UNCHANGED queue OBVIOUS
<1>1. ~KernelStep
  BY DEF KernelStep, KernelAt, Tick, CountDown, Fill, AppendReady, Filled, Select,
         SelectContinuous, SelectCounted, Decrement, SelectStopped, TakeOff, Ran,
         DelReady, DelJob
<1>2. \A j \in NewThread : ThreadStep(j) => UNCHANGED queue
  BY DEF ThreadStep, ThreadStart, ThreadRun, ThreadRan, ThreadDecrement
<1>3. \A j \in Job : ~CallDel(j) /\ ~ClientDelReady(j)
  BY DEF CallDel, KernelAt, ClientDelReady
<1>4. ~DelAll /\ ~DestroyJobs BY DEF DelAll, DestroyJobs
<1>5. ClientStep => UNCHANGED queue
  BY DEF ClientStep, AddInsert, ClientDelJob, DestroyKernel
<1>6. \A j \in Job : \A p \in PeriodFor(j), q \in PriorityFor(j) :
          /\ ~SetPeriodAndPriority(j, p, q)
          /\ \A t \in TimesFor(j) : ~AddCall(j, t, q, p)
  BY DEF SetPeriodAndPriority, AddCall
<1>7. \A j \in Job : \A t \in TimesFor(j) : ~SetTimes(j, t) BY DEF SetTimes
<1> QED BY <1>1, <1>2, <1>3, <1>4, <1>5, <1>6, <1>7 DEF Next, vars

LEMMA NextKernel == Sound /\ [Next]_vars => KernelArrives
<1> SUFFICES ASSUME Sound, [Next]_vars,
                    NEW j \in Queued', kernel'.at = "decrement", kernel'.job = j
             PROVE  /\ j \in ReadyJobs /\ kernel.at \in Selecting /\ kernel.job = j
                    /\ kernel.at = "decrement" \/ (UNCHANGED job /\ job[j].times > 0)
  BY DEF KernelArrives
<1> DEFINE stays == kernel.at = "decrement" /\ kernel.job = j
<1>1. j \in Job
  <2>1. Sound' BY NextSound
  <2> QED BY <2>1, ElementOfSeq, LenProperties DEF Sound, QueueInv, Queued, ToSet
<1>2. j # NoJob BY <1>1, RefresherAssumption
<1>3. \/ stays
      \/ SelectCounted
  <2>1. CASE KernelStep
    <3>1. Tick => kernel'.at \in {"select", "counting"} BY DEF Tick, Delaying
    <3>2. CountDown => kernel'.at = "fill"
      BY KernelFields DEF CountDown, KernelGoes, KernelRecord
    <3>3. Fill => kernel'.at \in {"append", "fill"}
      BY KernelFields DEF Fill, KernelAt, KernelRecord
    <3>4. AppendReady => kernel'.at \in {"fill", "fault"}
      BY KernelFields DEF AppendReady, KernelGoes, KernelRecord
    <3>5. Filled \/ Ran => kernel'.at = "select" BY DEF Filled, Ran, KernelBeginsAt, Delaying
    <3>6. Select => kernel'.at \in {"tick", "selected"}
      BY KernelFields DEF Select, KernelBeginsAt, Delaying, KernelRecord
    <3>7. SelectContinuous \/ Decrement \/ DelJob => kernel'.at = "running"
      BY KernelFields DEF SelectContinuous, Decrement, DelJob, KernelGoes, KernelRecord
    <3>8. SelectStopped => kernel'.at = "remove"
      BY KernelFields DEF SelectStopped, KernelRecord
    <3>9. TakeOff => kernel'.at \in {"early", "fault"}
      BY KernelFields DEF TakeOff, KernelBeginsAt, KernelGoes, Delaying, KernelRecord
    <3>10. DelReady => kernel'.at = "deleting"
      BY KernelFields DEF DelReady, KernelGoes, KernelRecord
    <3> QED BY <2>1, <3>1, <3>2, <3>3, <3>4, <3>5, <3>6, <3>7, <3>8, <3>9, <3>10
            DEF KernelStep
  <2>3. \A k \in NewThread : ThreadStep(k) => UNCHANGED kernel
    BY DEF ThreadStep, ThreadStart, ThreadRun, ThreadRan, ThreadDecrement
  <2>4. \A k \in Job : ClientDelReady(k) => stays
    BY <1>2, FreesLeaves DEF ClientDelReady
  <2>5. \A k \in Job : CallDel(k) => kernel'.at = "finding"
    BY KernelFields DEF CallDel, KernelRecord
  <2>6. DelAll => stays BY <1>2, FreesLeaves DEF DelAll
  <2>7. DestroyJobs => UNCHANGED kernel BY DEF DestroyJobs
  <2>8. ClientStep => stays
    <3>1. AddInsert => stays BY DEF AddInsert
    <3>2. ClientDelJob => stays BY <1>2, FreesLeaves DEF ClientDelJob
    <3>3. DestroyKernel => kernel'.at = "deleted"
      BY DEF DestroyKernel, KernelBeginsAt, Delaying
    <3> QED BY <3>1, <3>2, <3>3 DEF ClientStep
  <2>9. \A k \in Job : \A p \in PeriodFor(k), q \in PriorityFor(k), t \in TimesFor(k) :
            AddCall(k, t, q, p) => UNCHANGED kernel
    BY DEF AddCall
  <2>10. \A k \in Job : \A p \in PeriodFor(k), q \in PriorityFor(k) :
            SetPeriodAndPriority(k, p, q) => UNCHANGED kernel
    BY DEF SetPeriodAndPriority
  <2>11. \A k \in Job : \A t \in TimesFor(k) : SetTimes(k, t) => UNCHANGED kernel
    BY DEF SetTimes
  <2>12. UNCHANGED vars => UNCHANGED kernel BY DEF vars
  <2>13. UNCHANGED kernel => stays OBVIOUS
  <2> HIDE DEF stays
  <2>14. \A k \in Job : CallDel(k) \/ ClientDelReady(k) => stays BY <2>4, <2>5
  <2> QED BY <2>1, <2>3, <2>14, <2>6, <2>7, <2>8, <2>9, <2>10, <2>11, <2>12, <2>13 DEF Next
<1>4. CASE stays
  <2>1. client.at # "destroying"
    <3>1. client.at = "destroying" => Queued = {} /\ Queued' = Queued
      BY DestroyingOnly DEF Sound, ClientInv, Queued
    <3> QED BY <3>1
  <2>2. Pointers BY <2>1, KernelThere
  <2> QED BY <1>4, <2>2 DEF Pointers, Selecting
<1>5. CASE SelectCounted
  <2>1. /\ kernel.at = "selected" /\ client.at # "destroying" /\ UNCHANGED job
        /\ job[kernel.job].times > 0 /\ kernel' = [kernel EXCEPT !.at = "decrement"]
    BY <1>5 DEF SelectCounted, KernelAt, KernelGoes
  <2>2. kernel'.job = kernel.job BY <2>1, KernelFields DEF KernelRecord
  <2>3. Pointers BY <2>1, KernelThere
  <2> QED BY <2>1, <2>2, <2>3 DEF Pointers, Selecting
<1> QED BY <1>3, <1>4, <1>5

LEMMA ThreadStepArrives ==
    ASSUME Sound, NEW j \in NewThread, ThreadStep(j)
    PROVE  ThreadArrives
<1> SUFFICES ASSUME NEW k \in NewThread
             PROVE  /\ thread'[k] = "running" =>
                           \/ thread[k] = "running"
                           \/ thread[k] = "loop" /\ job[k].times # 0 /\ UNCHANGED job
                    /\ thread'[k] = "decrement" =>
                           \/ thread[k] = "decrement"
                           \/ thread[k] = "running" /\ job[k].times # Continues /\ UNCHANGED job
  BY DEF ThreadArrives
<1>1. thread \in [NewThread -> ThreadPlaces] BY DEF Sound, ThreadInv
<1>2. CASE k # j
  <2>1. thread'[k] = thread[k]
    BY <1>1, <1>2 DEF ThreadStep, ThreadStart, ThreadRun, ThreadRan, ThreadDecrement, ThreadGoes
  <2> QED BY <2>1
<1>3. CASE k = j
  <2>1. ThreadStart(j) => thread'[j] \in {"loop", "ended"}
    BY <1>1 DEF ThreadStart, ThreadGoes
  <2>2. ThreadRun(j) => /\ thread'[j] = "running" /\ thread[j] = "loop"
                        /\ job[j].times # 0 /\ UNCHANGED job
    BY <1>1 DEF ThreadRun, ThreadGoes
  <2>3. ThreadRan(j) => \/ thread'[j] = "loop"
                        \/ /\ thread'[j] = "decrement" /\ thread[j] = "running"
                           /\ job[j].times # Continues /\ UNCHANGED job
    BY <1>1 DEF ThreadRan, ThreadGoes
  <2>4. ThreadDecrement(j) => thread'[j] = "loop"
    BY <1>1 DEF ThreadDecrement, ThreadGoes
  <2> QED BY <1>3, <2>1, <2>2, <2>3, <2>4 DEF ThreadStep
<1> QED BY <1>2, <1>3

LEMMA NextThreads == Sound /\ [Next]_vars => ThreadArrives
<1> SUFFICES ASSUME Sound, [Next]_vars PROVE ThreadArrives OBVIOUS
<1> DEFINE leaves == \A k \in NewThread : thread'[k] \in {thread[k], "none", "start", "fault"}
<1>1. CASE leaves BY <1>1 DEF ThreadArrives
<1>2. thread \in [NewThread -> ThreadPlaces] BY DEF Sound, ThreadInv
<1>3. CASE \E j \in NewThread : ThreadStep(j) BY <1>3, ThreadStepArrives
<1>4. UNCHANGED thread => leaves OBVIOUS
<1>5. \A j : OutOfQueue(j) => leaves BY DEF OutOfQueue, ThreadsMayBeStruck
<1>6. KernelStep => UNCHANGED thread \/ OutOfQueue(kernel.victim)
  BY DEF KernelStep, Tick, CountDown, Fill, AppendReady, Filled, Select, SelectContinuous,
         SelectCounted, Decrement, SelectStopped, TakeOff, Ran, DelReady, DelJob
<1>7. \A j \in Job : CallDel(j) \/ ClientDelReady(j) => UNCHANGED thread
  BY DEF CallDel, ClientDelReady
<1>8. DelAll \/ DestroyJobs => leaves BY DEF DelAll, DestroyJobs, AllFreed
<1>9. ClientStep => UNCHANGED thread \/ OutOfQueue(client.job)
  BY DEF ClientStep, AddInsert, ClientDelJob, DestroyKernel
<1>10. \A j \in Job : \A p \in PeriodFor(j), q \in PriorityFor(j), t \in TimesFor(j) :
          AddCall(j, t, q, p) => leaves
  BY <1>2 DEF AddCall
<1>11. \A j \in Job : \A p \in PeriodFor(j), q \in PriorityFor(j) :
          SetPeriodAndPriority(j, p, q) => UNCHANGED thread
  BY DEF SetPeriodAndPriority
<1>12. \A j \in Job : \A t \in TimesFor(j) : SetTimes(j, t) => UNCHANGED thread
  BY DEF SetTimes
<1>13. UNCHANGED vars => UNCHANGED thread BY DEF vars
<1> HIDE DEF leaves
<1> QED
  BY <1>1, <1>3, <1>4, <1>5, <1>6, <1>7, <1>8, <1>9, <1>10, <1>11, <1>12, <1>13 DEF Next
-----------------------------------------------------------------------------
(* A job runs for ever or is counted, and is never turned from one into the  *)
(* other; otherwise its times, tested without the lock and decremented with  *)
(* it, may fall below -1.                                                    *)
Unmixed == \A j \in Job : Continues \in TimesFor(j) => TimesFor(j) = {Continues}

TimesInv ==
    /\ late \subseteq Queued
    /\ \A j \in Queued :
          /\ job[j].times \in Continues .. TimesMax
          /\ Continues \in TimesFor(j) => job[j].times \in {Continues, 0}
          /\ Continues \in TimesFor(j) /\ j \in NewThread => job[j].times = Continues
          /\ kernel.at = "decrement" /\ kernel.job = j =>
                job[j].times >= 0 /\ Continues \notin TimesFor(j)
          /\ j \in NewThread /\ thread[j] = "decrement" =>
                job[j].times >= 0 /\ Continues \notin TimesFor(j)

LEMMA InitTimes == Init => TimesInv
<1> SUFFICES ASSUME Init PROVE TimesInv OBVIOUS
<1>1. Queued = {} /\ late = {} BY EmptyQueues DEF Init, Queued
<1> QED BY <1>1 DEF TimesInv

(* What the application gives keeps to the kind of the job. *)
LEMMA GivenTimes ==
    ASSUME NEW j \in Job, NEW t \in TimesFor(j)
    PROVE  /\ t \in Continues .. TimesMax /\ t \in Int
           /\ Unmixed /\ Continues \in TimesFor(j) => t = Continues
           /\ Continues \notin TimesFor(j) => t >= 0
<1>1. t \in Continues .. TimesMax /\ Continues = -1 /\ TimesMax \in Nat BY Arguments
<1> QED BY <1>1 DEF Unmixed

(* What a job in the queue after a step was before it. *)
LEMMA Before ==
    ASSUME Sound, [Next]_vars
    PROVE  /\ TimesStep /\ LateStep /\ KernelArrives /\ ThreadArrives
           /\ \A j \in Queued' : j \in Job
           /\ \A j \in Queued : j \in Job /\ job[j].times \in Int
           /\ ReadyJobs \subseteq KernelJob /\ ReadyJobs \subseteq Queued
           /\ \A j \in NewThread : thread[j] \in Looping => j \in Queued
           /\ Continues = -1 /\ TimesMax \in Nat
<1>1. Sound' BY NextSound
<1>2. TimesStep /\ LateStep /\ KernelArrives /\ ThreadArrives
  BY NextTimes, NextKernel, NextThreads
<1>3. \A j \in Queued : j \in Job /\ job[j].times \in Int BY JobFacts DEF Attr
<1>4. \A j \in Queued' : j \in Job
  BY <1>1, ElementOfSeq, LenProperties DEF Sound, QueueInv, Queued, ToSet
<1>5. ReadyJobs \subseteq KernelJob /\ ReadyJobs \subseteq Queued
  BY JobFacts DEF ReadyJobs
<1>6. \A j \in NewThread : thread[j] \in Looping => j \in Queued BY DEF Sound, ThreadInv
<1> QED BY <1>2, <1>3, <1>4, <1>5, <1>6, Arguments

LEMMA NextTimesInv ==
    ASSUME Unmixed, Sound, TimesInv, [Next]_vars
    PROVE  TimesInv'
<1>1. /\ TimesStep /\ LateStep /\ KernelArrives /\ ThreadArrives
      /\ \A j \in Queued' : j \in Job
      /\ \A j \in Queued : j \in Job /\ job[j].times \in Int
      /\ ReadyJobs \subseteq KernelJob /\ ReadyJobs \subseteq Queued
      /\ \A j \in NewThread : thread[j] \in Looping => j \in Queued
      /\ Continues = -1 /\ TimesMax \in Nat
  BY Before
<1>2. late' \subseteq Queued' BY <1>1 DEF LateStep, TimesInv
<1> SUFFICES ASSUME NEW j \in Queued'
             PROVE  /\ job'[j].times \in Continues .. TimesMax
                    /\ Continues \in TimesFor(j) => job'[j].times \in {Continues, 0}
                    /\ Continues \in TimesFor(j) /\ j \in NewThread =>
                          job'[j].times = Continues
                    /\ kernel'.at = "decrement" /\ kernel'.job = j =>
                          job'[j].times >= 0 /\ Continues \notin TimesFor(j)
                    /\ j \in NewThread /\ thread'[j] = "decrement" =>
                          job'[j].times >= 0 /\ Continues \notin TimesFor(j)
  BY <1>2 DEF TimesInv
<1>3. /\ job'[j].times \in Continues .. TimesMax
      /\ Continues \in TimesFor(j) => job'[j].times \in {Continues, 0}
      /\ Continues \in TimesFor(j) /\ j \in NewThread => job'[j].times = Continues
  <2>1. CASE Kept(j) BY <2>1 DEF Kept, TimesInv
  <2>2. CASE Given(j) BY <2>2, <1>1, GivenTimes DEF Given
  <2>3. CASE Stopped(j) BY <2>3, <1>1 DEF Stopped, KernelJob
  <2>4. CASE KernelCounts(j)
    <3>1. /\ job[j].times >= 0 /\ Continues \notin TimesFor(j)
          /\ job[j].times \in Continues .. TimesMax /\ job'[j].times = job[j].times - 1
      BY <2>4, <1>1 DEF KernelCounts, TimesInv
    <3> QED BY <3>1, <1>1
  <2>5. CASE ThreadCounts(j)
    <3>1. /\ job[j].times >= 0 /\ Continues \notin TimesFor(j)
          /\ job[j].times \in Continues .. TimesMax /\ job'[j].times = job[j].times - 1
      BY <2>5, <1>1 DEF ThreadCounts, TimesInv, Looping
    <3> QED BY <3>1, <1>1
  <2> QED BY <1>1, <2>1, <2>2, <2>3, <2>4, <2>5 DEF TimesStep
(* Whoever is about to count a counted job down finds no less than 0 still. *)
<1>4. ASSUME Continues \notin TimesFor(j), j \in Queued, job[j].times >= 0,
             ~KernelCounts(j), ~ThreadCounts(j)
      PROVE  job'[j].times >= 0
  BY <1>1, <1>4, GivenTimes DEF TimesStep, Kept, Given, Stopped
<1>5. ASSUME kernel'.at = "decrement", kernel'.job = j
      PROVE  job'[j].times >= 0 /\ Continues \notin TimesFor(j)
  <2>1. /\ kernel.job = j /\ j \in ReadyJobs /\ j \in Queued
        /\ kernel.at = "decrement" \/ (UNCHANGED job /\ job[j].times > 0)
    BY <1>1, <1>5 DEF KernelArrives
  <2>2. ~KernelCounts(j) /\ ~ThreadCounts(j)
    BY <1>1, <1>5, <2>1 DEF KernelCounts, ThreadCounts, KernelJob
  <2>3. job[j].times >= 0 /\ Continues \notin TimesFor(j)
    <3>1. CASE kernel.at = "decrement" BY <3>1, <2>1 DEF TimesInv
    <3>2. CASE job[j].times > 0
      <4>1. job[j].times \notin {Continues, 0} BY <3>2, <2>1, <1>1
      <4> QED BY <3>2, <4>1, <2>1, <1>1 DEF TimesInv
    <3> QED BY <2>1, <3>1, <3>2
  <2> QED BY <2>1, <2>2, <2>3, <1>4
<1>6. ASSUME j \in NewThread, thread'[j] = "decrement"
      PROVE  job'[j].times >= 0 /\ Continues \notin TimesFor(j)
  <2>1. \/ thread[j] = "decrement"
        \/ thread[j] = "running" /\ job[j].times # Continues
    BY <1>1, <1>6 DEF ThreadArrives
  <2>2. j \in Queued BY <2>1, <1>1, <1>6 DEF Looping
  <2>3. ~KernelCounts(j) /\ ~ThreadCounts(j)
    BY <1>1, <1>6 DEF KernelCounts, ThreadCounts, KernelJob
  <2>4. job[j].times >= 0 /\ Continues \notin TimesFor(j)
    <3>1. CASE thread[j] = "decrement" BY <3>1, <2>2, <1>6 DEF TimesInv
    <3>2. CASE job[j].times # Continues
      <4>1. job[j].times \in Continues .. TimesMax /\ Continues \notin TimesFor(j)
        BY <2>2, <3>2, <1>6 DEF TimesInv
      <4> QED BY <3>2, <4>1, <1>1
    <3> QED BY <2>1, <3>1, <3>2
  <2> QED BY <2>2, <2>3, <2>4, <1>4
<1> QED BY <1>3, <1>5, <1>6

(* Every variable keeps its type, if counted jobs stay counted and the       *)
(* others run for ever; else a counter can fall below REFRESHER_JOB_CONTINUES_RUN. *)
THEOREM TypeCorrect ==
    ASSUME Unmixed
    PROVE  Spec => []TypeOK
<1>1. Sound /\ TimesInv => TypeOK
  <2> SUFFICES ASSUME Sound, TimesInv PROVE TypeOK OBVIOUS
  <2>1. DOMAIN job = Queued BY DEF Sound, QueueInv
  <2>2. ASSUME NEW j \in DOMAIN job
        PROVE  job[j] \in [times : Continues .. TimesMax, priority : Priority, period : Period]
    <3>1. job[j] \in Attr /\ job[j].times \in Continues .. TimesMax
      BY <2>1, JobFacts DEF TimesInv
    <3> QED BY <3>1 DEF Attr
  <2>3. \A i \in DOMAIN ready : ready[i] \in [job : KernelJob, left : 0 .. PeriodMod - 1]
    BY JobFacts DEF Entry
  <2>4. kernel \in KernelRecord /\ thread \in [NewThread -> ThreadPlaces] /\ late \subseteq Queued
    BY KernelFields DEF Sound, ThreadInv, TimesInv
  <2> QED BY <2>1, <2>2, <2>3, <2>4 DEF TypeOK, KernelRecord, KernelPlaces, ThreadPlaces
<1>2. Init => Sound /\ TimesInv BY InitSoundness, InitTimes
<1>3. Sound /\ TimesInv /\ [Next]_vars => (Sound /\ TimesInv)' BY NextSound, NextTimesInv
<1> QED BY <1>1, <1>2, <1>3, PTL DEF Spec
-----------------------------------------------------------------------------
(* Whoever has found that a counted job has times left and will decrement    *)
(* them finds one left - unless the application set them to 0 in between.    *)
CountInv ==
    \A j \in Queued \ late : Continues \notin TimesFor(j) =>
        job[j].times >= 0 /\ (GoesOn(j) => job[j].times >= 1)

LEMMA InitCount == Init => CountInv
<1> SUFFICES ASSUME Init PROVE CountInv OBVIOUS
<1>1. Queued = {} BY EmptyQueues DEF Init, Queued
<1> QED BY <1>1 DEF CountInv

LEMMA NextCount ==
    ASSUME Sound, CountInv, [Next]_vars
    PROVE  CountInv'
<1>1. /\ TimesStep /\ LateStep /\ KernelArrives /\ ThreadArrives
      /\ \A j \in Queued' : j \in Job
      /\ \A j \in Queued : j \in Job /\ job[j].times \in Int
      /\ ReadyJobs \subseteq KernelJob /\ ReadyJobs \subseteq Queued
      /\ \A j \in NewThread : thread[j] \in Looping => j \in Queued
  BY Before
<1> SUFFICES ASSUME NEW j \in Queued' \ late', Continues \notin TimesFor(j)
             PROVE  job'[j].times >= 0 /\ (GoesOn(j)' => job'[j].times >= 1)
  BY DEF CountInv
<1>2. CASE Given(j)
  <2>1. job'[j].times \in Int /\ job'[j].times >= 0 BY <1>1, <1>2, GivenTimes DEF Given
  <2>2. GoesOn(j)' => job'[j].times # 0 BY <1>2 DEF Given
  <2> QED BY <2>1, <2>2
<1>3. CASE ~Given(j)
  <2>1. j \notin late BY <1>1, <1>3 DEF LateStep
  <2>2. CASE Kept(j)
    <3>1. /\ j \in Queued /\ job'[j].times = job[j].times /\ job[j].times \in Int
          /\ job[j].times >= 0 /\ (GoesOn(j) => job[j].times >= 1)
      BY <1>1, <2>1, <2>2 DEF Kept, CountInv
    <3>2. ASSUME GoesOn(j)' PROVE GoesOn(j) \/ job[j].times # 0
      <4>1. CASE kernel'.at = "decrement" /\ kernel'.job = j
        BY <1>1, <3>1, <4>1 DEF KernelArrives, GoesOn
      <4>2. CASE j \in NewThread /\ thread'[j] \in {"running", "decrement"}
        BY <1>1, <4>2 DEF ThreadArrives, GoesOn
      <4> QED BY <3>2, <4>1, <4>2 DEF GoesOn
    <3> QED BY <3>1, <3>2
  <2>3. CASE Stopped(j) BY <1>1, <2>3 DEF Stopped, GoesOn, KernelJob
  <2>4. CASE KernelCounts(j)
    <3>1. GoesOn(j) /\ j \in Queued /\ j \notin NewThread
      BY <1>1, <2>4 DEF KernelCounts, GoesOn, KernelJob
    <3>2. job[j].times \in Int /\ job[j].times >= 1 /\ job'[j].times = job[j].times - 1
      BY <1>1, <2>1, <2>4, <3>1 DEF KernelCounts, CountInv
    <3>3. ~GoesOn(j)' BY <2>4, <3>1 DEF KernelCounts, GoesOn
    <3> QED BY <3>2, <3>3
  <2>5. CASE ThreadCounts(j)
    <3>1. GoesOn(j) /\ j \in Queued /\ j \notin ReadyJobs
      BY <1>1, <2>5 DEF ThreadCounts, GoesOn, Looping, KernelJob
    <3>2. job[j].times \in Int /\ job[j].times >= 1 /\ job'[j].times = job[j].times - 1
      BY <1>1, <2>1, <2>5, <3>1 DEF ThreadCounts, CountInv
    <3>3. ~GoesOn(j)' BY <1>1, <2>5, <3>1 DEF ThreadCounts, GoesOn, KernelArrives
    <3> QED BY <3>2, <3>3
  <2> QED BY <1>1, <1>3, <2>2, <2>3, <2>4, <2>5 DEF TimesStep
<1> QED BY <1>2, <1>3

(* A job that was only given numbers of times to run, 0 among them, is never *)
(* driven to -1: the counter is tested without the lock and decremented with *)
(* it, by two threads for two jobs, while times are set and jobs deleted.    *)
(* Only the job that is set to 0 just between its test and its decrement may *)
(* be; the history variable late names it until it is given times again.     *)
THEOREM NoneOverrun == Spec => []TimesNotOverrun
<1>1. Sound /\ CountInv => TimesNotOverrun BY DEF CountInv, TimesNotOverrun
<1>2. Init => Sound /\ CountInv BY InitSoundness, InitCount
<1>3. Sound /\ CountInv /\ [Next]_vars => (Sound /\ CountInv)' BY NextSound, NextCount
<1> QED BY <1>1, <1>2, <1>3, PTL DEF Spec
-----------------------------------------------------------------------------
(* How the kernel thread comes to wait for the next tick.                    *)
TickArrives ==
    kernel'.at = "tick" =>
        \/ Due = {} /\ UNCHANGED << job, ready >>
        \/ kernel.at = "tick" /\ \A i \in DOMAIN ready' : \E k \in DOMAIN ready :
                                     ready'[i] = ready[k]

(* del takes places out of the ready queue and changes none. *)
LEMMA OutOfReadyKeeps ==
    ASSUME Sound, NEW j, OutOfReady(j)
    PROVE  \A i \in DOMAIN ready' : \E k \in DOMAIN ready : ready'[i] = ready[k]
<1>1. CASE j \notin ReadyJobs BY <1>1 DEF OutOfReady
<1>2. CASE j \in ReadyJobs
  <2> DEFINE p == PlaceInReady(j)
  <2>1. ready' = RemoveAt(ready, p) BY <1>2 DEF OutOfReady
  <2>2. p \in 1 .. Len(ready) /\ DOMAIN ready = 1 .. Len(ready) BY <1>2, JobFacts
  <2>3. ready \in Seq(Entry) BY DEF Sound, ReadyInv
  <2> HIDE DEF p
  <2>4. /\ ready' \in Seq(Entry) /\ Len(ready) \in Nat /\ Len(ready') = Len(ready) - 1
        /\ \A i \in 1 .. Len(ready) - 1 :
               ready'[i] = IF i < p THEN ready[i] ELSE ready[i + 1]
    BY <2>1, <2>2, <2>3, RemoveAtFacts
  <2>5. DOMAIN ready' = 1 .. Len(ready) - 1 BY <2>4, LenProperties
  <2>6. ASSUME NEW i \in DOMAIN ready' PROVE \E k \in DOMAIN ready : ready'[i] = ready[k]
    <3>1. i \in DOMAIN ready /\ i + 1 \in DOMAIN ready BY <2>2, <2>4, <2>5
    <3>2. ready'[i] = ready[i] \/ ready'[i] = ready[i + 1] BY <2>4, <2>5
    <3> QED BY <3>1, <3>2
  <2> QED BY <2>6
<1> QED BY <1>1, <1>2

LEMMA NextTick == Sound /\ [Next]_vars => TickArrives
<1> SUFFICES ASSUME Sound, [Next]_vars, kernel'.at = "tick" PROVE TickArrives
  BY DEF TickArrives
<1>1. UNCHANGED << kernel, ready >> => TickArrives BY DEF TickArrives
<1>2. KernelStep => TickArrives
  <2>1. Tick => kernel'.at \in {"select", "counting"} BY DEF Tick, Delaying
  <2>2. CountDown => kernel'.at = "fill"
    BY KernelFields DEF CountDown, KernelGoes, KernelRecord
  <2>3. Fill => kernel'.at \in {"append", "fill"}
    BY KernelFields DEF Fill, KernelAt, KernelRecord
  <2>4. AppendReady => kernel'.at \in {"fill", "fault"}
    BY KernelFields DEF AppendReady, KernelGoes, KernelRecord
  <2>5. Filled \/ Ran => kernel'.at = "select" BY DEF Filled, Ran, KernelBeginsAt, Delaying
  <2>6. ASSUME Select PROVE TickArrives
    <3>1. CASE Due = {} BY <2>6, <3>1 DEF Select, TickArrives
    <3>2. CASE Due # {}
      <4>1. kernel'.at = "selected" BY <2>6, <3>2, KernelFields DEF Select, KernelRecord
      <4> QED BY <4>1
    <3> QED BY <3>1, <3>2
  <2>7. SelectContinuous \/ Decrement \/ DelJob => kernel'.at = "running"
    BY KernelFields DEF SelectContinuous, Decrement, DelJob, KernelGoes, KernelRecord
  <2>8. SelectStopped => kernel'.at = "remove"
    BY KernelFields DEF SelectStopped, KernelRecord
  <2>9. SelectCounted => kernel'.at = "decrement"
    BY KernelFields DEF SelectCounted, KernelGoes, KernelRecord
  <2>10. TakeOff => kernel'.at \in {"early", "fault"}
    BY KernelFields DEF TakeOff, KernelBeginsAt, KernelGoes, Delaying, KernelRecord
  <2>11. DelReady => kernel'.at = "deleting"
    BY KernelFields DEF DelReady, KernelGoes, KernelRecord
  <2> QED BY <2>1, <2>2, <2>3, <2>4, <2>5, <2>6, <2>7, <2>8, <2>9, <2>10, <2>11 DEF KernelStep
<1>3. \A j \in NewThread : ThreadStep(j) => UNCHANGED << kernel, ready >>
  BY DEF ThreadStep, ThreadStart, ThreadRun, ThreadRan, ThreadDecrement
<1>4. \A j \in Job : CallDel(j) \/ ClientDelReady(j) => TickArrives
  <2>1. \A j \in Job : CallDel(j) => kernel'.at = "finding"
    BY KernelFields DEF CallDel, KernelRecord
  <2>2. \A j \in Job : ClientDelReady(j) => TickArrives
    BY FreesLeaves, OutOfReadyKeeps DEF ClientDelReady, TickArrives
  <2> QED BY <2>1, <2>2
<1>5. DelAll \/ DestroyJobs => TickArrives
  BY FreesLeaves DEF DelAll, DestroyJobs, AllFreed, TickArrives
<1>6. ClientStep => TickArrives
  <2>1. AddInsert => TickArrives BY <1>1 DEF AddInsert
  <2>2. ClientDelJob => TickArrives BY FreesLeaves DEF ClientDelJob, TickArrives
  <2>3. DestroyKernel => kernel'.at = "deleted"
    BY DEF DestroyKernel, KernelBeginsAt, Delaying
  <2> QED BY <2>1, <2>2, <2>3 DEF ClientStep
<1>7. \A j \in Job : \A p \in PeriodFor(j), q \in PriorityFor(j), t \in TimesFor(j) :
          AddCall(j, t, q, p) => UNCHANGED << kernel, ready >>
  BY DEF AddCall
<1>8. \A j \in Job : \A p \in PeriodFor(j), q \in PriorityFor(j) :
          SetPeriodAndPriority(j, p, q) => UNCHANGED << kernel, ready >>
  BY DEF SetPeriodAndPriority
<1>9. \A j \in Job : \A t \in TimesFor(j) : SetTimes(j, t) => UNCHANGED << kernel, ready >>
  BY DEF SetTimes
<1>10. UNCHANGED vars => UNCHANGED << kernel, ready >> BY DEF vars
<1> QED BY <1>1, <1>2, <1>3, <1>4, <1>5, <1>6, <1>7, <1>8, <1>9, <1>10 DEF Next

(* None has the priority the selection starts from: a job of that priority   *)
(* is never selected, and is still due when the next tick comes.             *)
Selectable == \A q \in Priority : q < LowestPriority

DueInv == kernel.at = "tick" => \A i \in DOMAIN ready : ready[i].left # 0

LEMMA InitDue == Init => DueInv
<1> SUFFICES ASSUME Init PROVE DueInv OBVIOUS
<1>1. DOMAIN ready = {} BY DEF Init
<1> QED BY <1>1 DEF DueInv

LEMMA NextDue ==
    ASSUME Selectable, Sound, DueInv, [Next]_vars
    PROVE  DueInv'
<1> SUFFICES ASSUME kernel'.at = "tick", NEW i \in DOMAIN ready' PROVE ready'[i].left # 0
  BY DEF DueInv
<1>1. TickArrives BY NextTick
<1>2. CASE Due = {} /\ UNCHANGED << job, ready >>
  <2>1. ready[i].job \in Queued BY <1>2, JobFacts
  <2>2. job[ready[i].job].priority \in Priority BY <2>1, JobFacts DEF Attr
  <2> QED BY <1>2, <2>2 DEF Due, Selectable
<1>3. CASE kernel.at = "tick" /\ \E k \in DOMAIN ready : ready'[i] = ready[k]
  BY <1>3 DEF DueInv
<1> QED BY <1>1, <1>2, <1>3 DEF TickArrives

(* However many jobs are due in one tick, counted ones and endless ones, all *)
(* of them have been selected before the next one counts the periods down,   *)
(* so that no curPeriod is decremented at 0, through deletions and changes   *)
(* of periods and priorities - if the tick was not ended early by a stopped  *)
(* job, after which the kernel thread waits at "early".                      *)
THEOREM DueJobsHaveRun ==
    ASSUME Selectable
    PROVE  Spec => []DueJobsRan
<1>1. DueInv => DueJobsRan BY DEF DueInv, DueJobsRan, KernelAt
<1>2. Init => Sound /\ DueInv BY InitSoundness, InitDue
<1>3. Sound /\ DueInv /\ [Next]_vars => (Sound /\ DueInv)' BY NextSound, NextDue
<1> QED BY <1>1, <1>2, <1>3, PTL DEF Spec
=============================================================================
