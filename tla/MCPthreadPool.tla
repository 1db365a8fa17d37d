--------------------------- MODULE MCPthreadPool ---------------------------
(* The threads of the runs of PthreadPool. *)
EXTENDS PthreadPool

CONSTANTS w1, w2, c1, c2
=============================================================================
