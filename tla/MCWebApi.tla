------------------------------- MODULE MCWebApi -------------------------------
(* Two game threads; user contexts are numbered below UserIdLimit = 2, so  *)
(* that the second one of a context finds no number.                       *)
EXTENDS WebApi

CONSTANTS t1, t2
=============================================================================
