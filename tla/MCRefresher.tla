---------------------------- MODULE MCRefresher ----------------------------
(* The jobs of the runs of Refresher: two that the kernel thread runs, one *)
(* with a thread of its own; a cfg has no negative numbers.                *)
EXTENDS Refresher

CONSTANTS temp, pressure, flow

MinusOne == -1
Forever == {-1}
ForeverOrOnce == {-1, 1}
=============================================================================
