-------------------------------- MODULE MCTus --------------------------------
(* Two game threads, and four games.                                       *)
EXTENDS Tus

Game(kinds, syncs, ops, sessions) ==
    [kinds |-> kinds, syncs |-> syncs, ops |-> ops, sessions |-> sessions]

\* One game makes every call but transfers, while its user signs in and out.  The
\* others transfer data in parts, in one direction or in both; a user who is not
\* signed in will do, since the parts are counted before anything is sent, and their
\* calls do not block.
CallsAndTransfers ==
    {Game({"none"}, BOOLEAN, 2, 2),
     Game({"read"}, {FALSE}, 3, 0), Game({"write"}, {FALSE}, 3, 0),
     Game({"read", "write"}, {FALSE}, 2, 0)}
=============================================================================
