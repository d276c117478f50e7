------------------------------- MODULE MCScore -------------------------------
(* Two interchangeable game threads.                                       *)
EXTENDS Score, TLC

CONSTANTS t1, t2

Symmetry == Permutations({t1, t2})
=============================================================================
