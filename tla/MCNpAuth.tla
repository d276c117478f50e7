------------------------------ MODULE MCNpAuth ------------------------------
(* NpAuth on small sets of threads, users, clients and contexts.           *)
EXTENDS NpAuth, TLC

\* Threads, clients, contexts and users are interchangeable.
Symmetry == Permutations(Threads) \cup Permutations(Users)
                \cup Permutations(Clients) \cup Permutations(Ctxs)
=============================================================================
