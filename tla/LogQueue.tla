------------------------------ MODULE LogQueue ------------------------------
(***************************************************************************)
(* What asynchronous output promises, whatever its buffer looks like: the  *)
(* characters it accepted reach the console once each and in the order     *)
(* they were accepted, and only so many may wait.  Characters that are     *)
(* output directly reach the console at any time.                          *)
(***************************************************************************)
EXTENDS Integers, Sequences, SequencesExt

CONSTANT Capacity       \* how many characters may wait

VARIABLES waiting,      \* accepted and not on the console yet, oldest first
          console       \* everything that was output

vars == << waiting, console >>

Init == waiting = << >> /\ console = << >>

Accept == /\ IsStrictPrefix(waiting, waiting') /\ Len(waiting') <= Capacity
          /\ UNCHANGED console

Emit == \E n \in 1 .. Len(waiting) :
            /\ console' = console \o SubSeq(waiting, 1, n)
            /\ waiting' = SubSeq(waiting, n + 1, Len(waiting))

Direct == IsStrictPrefix(console, console') /\ UNCHANGED waiting

Next == Accept \/ Emit \/ Direct

Spec == Init /\ [][Next]_vars
=============================================================================
