----------------------------- MODULE MCProvider -----------------------------
(* Values for TLC: interchangeable calls and configurations.               *)
EXTENDS Provider, TLC

CONSTANTS c1, c2, c3, A, B

Symmetry == Permutations({c1, c2, c3}) \union Permutations({A, B})
=============================================================================
