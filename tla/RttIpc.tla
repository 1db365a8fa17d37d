------------------------------- MODULE RttIpc -------------------------------
(***************************************************************************)
(* The RT-Thread mutex and semaphore, as far as the pool, the cache, the   *)
(* refresher and the logger use them, taken with RT_WAITING_FOREVER.  Each *)
(* call runs with interrupts disabled up to the point where it suspends    *)
(* its caller, so a call is one step: either it succeeds, or it appends    *)
(* the caller to the list of suspended threads, and the caller goes on     *)
(* when somebody takes it off that list.                                   *)
(*                                                                         *)
(* Thread priorities (and the priority a mutex owner inherits) are left    *)
(* out: every interleaving is allowed.                                     *)
(***************************************************************************)
EXTENDS Integers, SequencesExt

CONSTANT NoThread       \* the RT_NULL of rt_mutex.owner

(* rt_mutex: value is 1 exactly when owner is RT_NULL, so it is left out. *)
Mutex(Thread) == [owner : Thread \cup {NoThread}, hold : Nat, waiting : Seq(Thread)]
FreeMutex == [owner |-> NoThread, hold |-> 0, waiting |-> << >>]

Semaphore(Thread) == [value : Nat, waiting : Seq(Thread)]
EmptySem == [value |-> 0, waiting |-> << >>]

(* Mutated forms: a release that forgets the owner, a release by a thread *)
(* that does not own the mutex, a take below zero.                        *)
MutexReleaseKeepsOwner(m, t) ==
    IF m.owner # t THEN m
    ELSE IF m.hold >= 1 THEN [m EXCEPT !.hold = @ - 1]
    ELSE FreeMutex

MutexReleaseByAnyone(m, t) ==
    IF m.owner = NoThread THEN m
    ELSE IF m.waiting = << >> THEN FreeMutex
    ELSE [owner |-> Head(m.waiting), hold |-> 1, waiting |-> Tail(m.waiting)]

SemTakeBelowZero(s, t) ==
    IF s.value >= 0 THEN [s EXCEPT !.value = @ - 1]
                    ELSE [s EXCEPT !.waiting = Append(@, t)]

(* A mutex is recursive; a thread that finds it taken queues up. *)
MutexTake(m, t) ==
    IF m.owner = t THEN [m EXCEPT !.hold = @ + 1]
    ELSE IF m.owner = NoThread THEN [m EXCEPT !.owner = t, !.hold = 1]
    ELSE [m EXCEPT !.waiting = Append(@, t)]

(* With RT_IPC_FLAG_PRIO the place in the queue depends on the priorities. *)
MutexTakeByPriority(m, t) ==
    IF m.owner \in {t, NoThread} THEN {MutexTake(m, t)}
    ELSE {[m EXCEPT !.waiting = InsertAt(@, i, t)] : i \in 1 .. Len(m.waiting) + 1}

(* Only the owner can release; the last release hands the mutex to the    *)
(* first suspended thread, which then owns it before it runs again.       *)
MutexRelease(m, t) ==
    IF m.owner # t THEN m
    ELSE IF m.hold > 1 THEN [m EXCEPT !.hold = @ - 1]
    ELSE IF m.waiting = << >> THEN FreeMutex
    ELSE [owner |-> Head(m.waiting), hold |-> 1, waiting |-> Tail(m.waiting)]

SemTake(s, t) ==
    IF s.value > 0 THEN [s EXCEPT !.value = @ - 1]
                   ELSE [s EXCEPT !.waiting = Append(@, t)]

(* A release resumes the first suspended thread or else is remembered. *)
SemRelease(s) ==
    IF s.waiting = << >> THEN [s EXCEPT !.value = @ + 1]
                         ELSE [s EXCEPT !.waiting = Tail(@)]

(* rt_thread_delete takes a thread off whatever list it is suspended on. *)
Unlink(q, t) ==
    IF t \in ToSet(q) THEN RemoveAt(q, CHOOSE i \in DOMAIN q : q[i] = t) ELSE q
=============================================================================
