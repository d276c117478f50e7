----------------------------- MODULE MCCallbacks -----------------------------
(* Two game threads, alike; one service beside the events that name none.   *)
EXTENDS Callbacks

CONSTANTS t1, t2, svc

Symmetry == Permutations({t1, t2})
=============================================================================
