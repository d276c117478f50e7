---------------------------- MODULE MCSignaling ----------------------------
(* Two consoles, the contexts a and x on one and b on the other.           *)
EXTENDS Signaling, TLC

OnTwoConsoles == "a" :> "A" @@ "x" :> "A" @@ "b" :> "B"
Bound(m, n) == "A" :> m @@ "B" :> n

\* Two games activate each other; one of them may leave.
BothModelled ==
    [ctxs |-> {"a", "b"}, strangers |-> {}, ends |-> TRUE, MaxCalls |-> Bound(2, 1),
     MaxTransports |-> Bound(1, 1), MaxConns |-> Bound(1, 1)]
\* One context, activated again after its connection has ended.
Again ==
    [ctxs |-> {"a", "b"}, strangers |-> {"b"}, ends |-> TRUE, MaxCalls |-> Bound(2, 0),
     MaxTransports |-> Bound(2, 0), MaxConns |-> Bound(2, 0)]
\* Two contexts of one console that share a transport.
Shared ==
    [ctxs |-> {"a", "x", "b"}, strangers |-> {"b"}, ends |-> TRUE, MaxCalls |-> Bound(2, 0),
     MaxTransports |-> Bound(1, 0), MaxConns |-> Bound(2, 0)]
\* Two contexts of one console, one of the other, each with a game behind it: requests
\* for one context of the console meet the connection of the other.  Nothing ends.
Crossed ==
    [ctxs |-> {"a", "x", "b"}, strangers |-> {}, ends |-> FALSE, MaxCalls |-> Bound(1, 1),
     MaxTransports |-> Bound(1, 2), MaxConns |-> Bound(2, 2)]
FourScenes == {BothModelled, Again, Shared, Crossed}
=============================================================================
