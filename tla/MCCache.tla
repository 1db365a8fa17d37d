------------------------------ MODULE MCCache ------------------------------
(* Threads, nodes, names and their symmetry for the runs of Cache. *)
EXTENDS Cache

CONSTANTS a1, a2, d1, s1, s2

Sym == Permutations(Node) \cup Permutations(Name)
=============================================================================
