---------------------------- MODULE MCMatching2 ----------------------------
(* Matching2 on small sets of threads, requests and contexts.              *)
EXTENDS Matching2, TLC

Symmetry == Permutations(Threads) \cup Permutations(Objects)
=============================================================================
