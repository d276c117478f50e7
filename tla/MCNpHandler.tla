---------------------------- MODULE MCNpHandler ----------------------------
(* NpHandler on small sets of users and clients.                           *)
EXTENDS NpHandler, TLC

CONSTANTS u1, u2, k1, k2, k3

\* Two users with a client each, or one of them with both.
TwoUsers == [users |-> {u1, u2}, clients |-> {k1, k2}]
\* One user who is signed in, lost, and signed in by both threads.
OneUser == [users |-> {u1}, clients |-> {k1, k2, k3}]
FirstClients == u1 :> k1 @@ u2 :> k2
TwoScenes == {TwoUsers, OneUser}
=============================================================================
