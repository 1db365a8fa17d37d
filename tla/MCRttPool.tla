----------------------------- MODULE MCRttPool -----------------------------
(* Model values and symmetry for the runs of RttPool. *)
EXTENDS RttPool

CONSTANTS w1, w2, c1, c2

Sym == Permutations({w1, w2})
=============================================================================
