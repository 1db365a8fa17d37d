------------------------------ MODULE TaskPool ------------------------------
(***************************************************************************)
(* What a thread pool promises to its users, whatever its locks: a task    *)
(* that was submitted is started at most once, tasks are started in the    *)
(* order they were submitted, and the only tasks that are never run are    *)
(* those a delAll or a destroy threw away.                                 *)
(***************************************************************************)
EXTENDS Integers, Sequences, FiniteSets

CONSTANT Task

VARIABLES submitted,    \* tasks the pool accepted so far
          pending,      \* the accepted tasks that wait, oldest first
          running       \* the tasks some pool thread executes

vars == << submitted, pending, running >>

Init == submitted = {} /\ pending = << >> /\ running = {}

Submit(k) == /\ k \notin submitted
             /\ submitted' = submitted \cup {k}
             /\ pending' = Append(pending, k)
             /\ UNCHANGED running

Start == /\ pending # << >>
         /\ running' = running \cup {Head(pending)}
         /\ pending' = Tail(pending)
         /\ UNCHANGED submitted

Finish(k) == k \in running /\ running' = running \ {k} /\ UNCHANGED << submitted, pending >>

(* delAll: the oldest waiting task goes, or everything that waits. *)
Discard == /\ pending # << >>
           /\ pending' \in {Tail(pending), << >>}
           /\ UNCHANGED << submitted, running >>

Next == (\E k \in Task : Submit(k) \/ Finish(k)) \/ Start \/ Discard

Spec == Init /\ [][Next]_vars

(* The pool keeps working: tasks end, and whatever waits gets a thread. *)
FairSpec == Spec /\ WF_vars(Start) /\ \A k \in Task : WF_vars(Finish(k))
=============================================================================
