------------------------------- MODULE MCElog -------------------------------
(* The threads of the runs of Elog. *)
EXTENDS Elog

CONSTANTS main, worker, async
=============================================================================
