----------------------------- MODULE Signaling -----------------------------
(***************************************************************************)
(* Peer-to-peer connections: np_signaling_handler.cpp on two consoles and  *)
(* the network between them.                                               *)
(*                                                                         *)
(* Each side runs the same code in three threads: the game's, the runtime  *)
(* thread, which receives packets and repeats handshakes, and the          *)
(* activation thread, which asks the server for addresses.  A step is what *)
(* one thread does under one hold of the signaling mutex; what it has left *)
(* to do when it releases the mutex is `todo', so that every such gap is   *)
(* open to the other threads.                                              *)
(*                                                                         *)
(* `net' holds every packet ever sent.  A packet that is never received is *)
(* lost, one received late is delayed or overtaken, one received again is  *)
(* a duplicate.  Packets name online ids and nothing else that the         *)
(* receiver looks at: the sender's connection number and the nonce are in  *)
(* them, but are not compared with anything.                               *)
(***************************************************************************)
EXTENDS Naturals, Sequences, SequencesExt

CONSTANTS
    Sides,  \* the consoles
    Ctxs,   \* signaling contexts, and the online ids of their owners
    Home,   \* the console of each context
    Scenes  \* the situations examined, see scene

Scene == [ctxs : SUBSET Ctxs, strangers : SUBSET Ctxs, ends : BOOLEAN,
          MaxCalls : [Sides -> Nat], MaxTransports : [Sides -> Nat], MaxConns : [Sides -> Nat]]

ASSUME SignalingAssumption == Home \in [Ctxs -> Sides] /\ Scenes \subseteq Scene

VARIABLES
    transports,  \* peer_transports: an id is a place in the sequence
    conns,       \* connections, and npid_to_conn (`named')
    queue,       \* pending_activations
    todo,        \* what each thread has still to do
    net,         \* packets sent
    calls,       \* calls made by the games (bound)
    scene        \* the contexts there are, those of them (`strangers') whose consoles
                 \* are not modelled, so that any packet may come from them at any
                 \* time, whether connections end (games leave them and handshakes
                 \* time out), and the bounds

vars == <<transports, conns, queue, todo, net, calls, scene>>

Threads == {"game", "runtime", "activation"}
States == {"Inactive", "SendingOffer", "SendingAccept", "ConnCheck", "Established", "erased"}
Statuses == {"INACTIVE", "PENDING", "ACTIVE"}
Events == {"ESTABLISHED", "MUTUAL_ACTIVATED", "DEAD"}
Handshakes == {"Offer", "Accept", "Check", "CheckAck"}
Controls == {"Activate", "Established", "Deactivate", "Terminate"}

StatusFromState(state) ==
    CASE state = "Established" -> "ACTIVE"
      [] state = "Inactive"    -> "INACTIVE"
      [] OTHER                 -> "PENDING"

\* A new PeerTransport; `me' and `peer' are its online ids, `addr' says that the
\* address of the peer is known, `sent' that last_handshake_send_us is set.
\* History: `late' (an offer came in ConnCheck), `held' (when it was closed a thread
\* had it in hand, or a connection stayed on it).
NewTransport(me, peer, addr) ==
    [me |-> me, peer |-> peer, state |-> "SendingOffer", addr |-> addr, sent |-> FALSE,
     fired |-> FALSE, late |-> FALSE, held |-> FALSE]

\* Fault: the peer is taken to have activated its side.
NewConn_Activated(ctx, peer, tr, state, local) ==
    [ctx |-> ctx, peer |-> peer, tr |-> tr, status |-> StatusFromState(state),
     local |-> local, activated |-> TRUE, established |-> FALSE, mutual |-> FALSE,
     dead |-> FALSE, named |-> TRUE,
     gone |-> "no", heard |-> <<>>, shared |-> FALSE, crossed |-> FALSE, instead |-> FALSE]

\* A transport out of the map.
Erased(tr) == [NewTransport(tr.me, tr.peer, FALSE) EXCEPT !.state = "erased"]

\* A new ConnectionInfo.  History: `gone' (how it left the map), `heard' (what its
\* context was told), `shared' (another connection closed its transport), `crossed'
\* (another thread was at work on it when it was closed), `instead' (it was marked
\* for a request to another context of the console).
NewConn(ctx, peer, tr, state, local) ==
    [ctx |-> ctx, peer |-> peer, tr |-> tr, status |-> StatusFromState(state),
     local |-> local, activated |-> ~local, established |-> FALSE, mutual |-> FALSE,
     dead |-> FALSE, named |-> TRUE,
     gone |-> "no", heard |-> <<>>, shared |-> FALSE, crossed |-> FALSE, instead |-> FALSE]

Init ==
    /\ transports = [s \in Sides |-> <<>>]
    /\ conns = [s \in Sides |-> <<>>]
    /\ queue = [s \in Sides |-> <<>>]
    /\ todo = [s \in Sides |-> [th \in Threads |-> <<>>]]
    /\ scene \in Scenes
    /\ net = [from : scene.strangers, to : scene.ctxs \ scene.strangers,
              kind : Handshakes \cup Controls]
    /\ calls = [s \in Sides |-> 0]

-----------------------------------------------------------------------------
\* Lookups.  The maps are unordered: where several entries match, any is found.
Exists(s, t) == t \in DOMAIN transports[s] /\ transports[s][t].state # "erased"
There(s, c) == c \in DOMAIN conns[s] /\ conns[s][c].gone = "no"

\* Fault: an inactive transport is found.
TransportMatches_Inactive(s, t, peer) ==
    transports[s][t].peer = peer /\ transports[s][t].state # "erased"

TransportMatches(s, t, peer) ==
    transports[s][t].peer = peer /\ transports[s][t].state \notin {"Inactive", "erased"}
FindTransport(s, peer) ==
    LET found == {t \in DOMAIN transports[s] : TransportMatches(s, t, peer)}
    IN IF found = {} THEN {0} ELSE found

\* Fault: a connection the peer asked for is not found.
ConnectionMatches_LocalOnly(s, c, peer) ==
    /\ There(s, c) /\ conns[s][c].peer = peer
    /\ ~conns[s][c].dead /\ conns[s][c].status # "INACTIVE" /\ conns[s][c].local

ConnectionMatches(s, c, peer) ==
    /\ There(s, c) /\ conns[s][c].peer = peer
    /\ ~conns[s][c].dead /\ conns[s][c].status # "INACTIVE"
FindConnection(s, peer, preferred) ==
    LET found == {c \in DOMAIN conns[s] : ConnectionMatches(s, c, peer)}
        own == {c \in found : conns[s][c].ctx \in preferred}
    IN CASE own # {}   -> own
         [] found # {} -> found
         [] OTHER      -> {0}

\* A packet of one of these kinds that side s may receive now, perhaps not for the
\* first time.
Arriving(s, kinds) == {m \in net : m.kind \in kinds /\ Home[m.to] = s}
Packet(t, kind) == [from |-> t.me, to |-> t.peer, kind |-> kind]
Packets(t, kind) == IF t.addr /\ t.peer \notin scene.strangers THEN {Packet(t, kind)} ELSE {}

\* Every connection of transport t shows the status of its state.
Synced(cs, t, state) ==
    [c \in DOMAIN cs |-> IF cs[c].tr = t /\ cs[c].gone = "no"
                         THEN [cs[c] EXCEPT !.status = StatusFromState(state)] ELSE cs[c]]

\* Connection c out of the map; only its history is kept.
Gone(c, how) == [c EXCEPT !.gone = how, !.named = FALSE, !.tr = 0, !.status = "INACTIVE",
                          !.dead = TRUE, !.established = TRUE, !.mutual = TRUE,
                          !.activated = TRUE, !.shared = FALSE]

\* What a thread has to do: an operation on a transport and on connections.
Op(op, t, cs, what) == [op |-> op, tr |-> t, conns |-> cs, what |-> what]
\* Bound: between two modelled consoles the threads of one console take turns; on a
\* console among strangers they interleave as they may.
Free(s, th) == scene.strangers # {} \/ \A other \in Threads \ {th} : todo[s][other] = <<>>
Idle(s, th) == todo[s][th] = <<>> /\ Free(s, th)
Now(s, th, op) == todo[s][th] # <<>> /\ Head(todo[s][th]).op = op
Todo(s, th) == Head(todo[s][th])
TheConn(s, th) == CHOOSE c \in Todo(s, th).conns : TRUE
Tells(cs, event) == LET seq == SetToSeq(cs)
                    IN [i \in DOMAIN seq |-> Op("tell", 0, {seq[i]}, event)]
\* Fault: the connections leave the map before their games are told.
Ending_RemovesFirst(t, cs) == <<Op("remove", t, cs, "removed")>> \o Tells(cs, "DEAD")

\* What follows the close of connections cs, and of transport t unless it is 0.
Ending(t, cs) == Tells(cs, "DEAD") \o <<Op("remove", t, cs, "removed")>>
Then(s, th, ops) == todo' = [todo EXCEPT ![s][th] = ops]
ThenAlso(s, th, ops) == Then(s, th, ops \o Tail(todo[s][th]))

\* Another thread of side s is about to do something to transport t, or has
\* something to tell connection c.
AtWork(s, th, t, c) ==
    \E other \in Threads \ {th} : \E i \in DOMAIN todo[s][other] :
        LET op == todo[s][other][i]
        IN \/ op.tr = t /\ op.op \in {"establish", "start", "resolve"}
           \/ op.op = "tell" /\ c \in op.conns

\* Transport t is set to Inactive by thread th, which closes connections cs of it.
Closed(s, th, t, cs) ==
    LET left == {d \in DOMAIN conns[s] \ cs : There(s, d) /\ conns[s][d].tr = t /\ ~conns[s][d].dead}
    IN IF Exists(s, t)
       THEN [transports[s] EXCEPT ![t].state = "Inactive",
                                  ![t].held = @ \/ AtWork(s, th, t, 0) \/ left # {}]
       ELSE transports[s]

\* Fault: the connection is not marked.
Dead_Unmarked(s, th, c) == [conns[s][c] EXCEPT !.crossed = AtWork(s, th, conns[s][c].tr, c)]

\* Connection c when thread th closes it.
Dead(s, th, c) == [conns[s][c] EXCEPT !.status = "INACTIVE", !.dead = TRUE,
                                      !.crossed = AtWork(s, th, conns[s][c].tr, c)]

-----------------------------------------------------------------------------
\* SendHandshakeLocked, on transport t when it has become tr.
SendHandshake(s, t, tr, kind) ==
    /\ transports' = [transports EXCEPT ![s][t] = [tr EXCEPT !.sent = @ \/ tr.addr]]
    /\ net' = net \cup Packets(tr, kind)
    /\ conns' = IF tr.addr THEN [conns EXCEPT ![s] = Synced(@, t, tr.state)] ELSE conns

\* StartTransportHandshakeInitiator: whatever the state, the packet it waits on is
\* sent again; an inactive transport starts anew.
NextOffer(state) ==
    CASE state = "SendingAccept" -> "Accept"
      [] state = "ConnCheck"     -> "Check"
      [] OTHER                   -> "Offer"

StartTransportHandshakeInitiator(s, th) ==
    /\ Now(s, th, "start")
    /\ ThenAlso(s, th, <<>>)
    /\ LET t == Todo(s, th).tr
           state == transports[s][t].state
       IN IF state \in {"Established", "erased"}
          THEN UNCHANGED <<transports, net, conns>>
          ELSE SendHandshake(s, t, [transports[s][t] EXCEPT !.state =
                                      IF @ = "Inactive" THEN "SendingOffer" ELSE @],
                             NextOffer(state))
    /\ UNCHANGED <<queue, calls>>

\* EstablishConnection: the transport becomes Established, once in its life, and
\* every connection of it that is due an event gets it after the unlock.
EstablishConnection(s, th) ==
    LET t == Todo(s, th).tr
        tr == transports[s][t]
        state == IF tr.fired THEN tr.state ELSE "Established"
        cs == Synced(conns[s], t, state)
        Due(c) == cs[c].tr = t /\ cs[c].gone = "no" /\ cs[c].local /\ cs[c].status = "ACTIVE"
        new == {c \in DOMAIN cs : Due(c) /\ ~cs[c].established}
        both == {c \in DOMAIN cs : Due(c) /\ cs[c].activated /\ ~cs[c].mutual}
    IN /\ Now(s, th, "establish")
       /\ IF Exists(s, t)
          THEN /\ transports' = [transports EXCEPT ![s][t].state = state, ![s][t].fired = TRUE]
               /\ conns' = [conns EXCEPT ![s] =
                     [c \in DOMAIN cs |-> [cs[c] EXCEPT !.established = @ \/ c \in new,
                                                        !.mutual = @ \/ c \in both]]]
               /\ net' = net \cup (IF tr.fired THEN {} ELSE Packets(tr, "Established"))
               /\ ThenAlso(s, th, Tells(new, "ESTABLISHED") \o Tells(both, "MUTUAL_ACTIVATED"))
          ELSE ThenAlso(s, th, <<>>) /\ UNCHANGED <<transports, conns, net>>
       /\ UNCHANGED <<queue, calls>>

\* DispatchConnectionEvent: the event is queued for the context if the connection is
\* still in the map.
DispatchConnectionEvent(s, th) ==
    LET c == TheConn(s, th)
        event == Todo(s, th).what
    IN /\ Now(s, th, "tell")
       /\ ThenAlso(s, th, <<>>)
       /\ conns' = IF There(s, c)
                   THEN [conns EXCEPT ![s][c].heard = Append(@, event)] ELSE conns
       /\ UNCHANGED <<transports, queue, net, calls>>

\* CloseConnectionAndDispatchDead, its first part: the connection and the transport,
\* which other connections may use, are closed.
CloseConnection(s, th) ==
    LET c == TheConn(s, th)
        t == conns[s][c].tr
    IN /\ Now(s, th, "close")
       /\ IF There(s, c) /\ conns[s][c].status # "INACTIVE" /\ ~conns[s][c].dead
          THEN /\ transports' = [transports EXCEPT ![s] = Closed(s, th, t, {c})]
               /\ conns' = [conns EXCEPT ![s] =
                     [d \in DOMAIN @ |->
                        IF d = c THEN Dead(s, th, d)
                        ELSE IF @[d].tr = t THEN [@[d] EXCEPT !.shared = TRUE] ELSE @[d]]]
               /\ ThenAlso(s, th, Ending(0, {c}))
          ELSE ThenAlso(s, th, <<>>) /\ UNCHANGED <<transports, conns>>
       /\ UNCHANGED <<queue, net, calls>>

\* CloseTransportAndDispatchDead, its first part: the transport and all its
\* connections are closed (a handshake that was not repeated for thirty seconds).
CloseTransport(s, th) ==
    LET t == Todo(s, th).tr
        own == {c \in DOMAIN conns[s] : There(s, c) /\ conns[s][c].tr = t /\ ~conns[s][c].dead}
    IN /\ Now(s, th, "timeout")
       /\ IF transports[s][t].state \notin {"Inactive", "erased"}
          THEN /\ transports' = [transports EXCEPT ![s] = Closed(s, th, t, own)]
               /\ conns' = [conns EXCEPT ![s] =
                     [c \in DOMAIN @ |-> IF c \in own THEN Dead(s, th, c) ELSE @[c]]]
               /\ ThenAlso(s, th, Ending(t, own))
          ELSE ThenAlso(s, th, <<>>) /\ UNCHANGED <<transports, conns>>
       /\ UNCHANGED <<queue, net, calls>>

\* The last part of both: the connections leave the map, and after a timeout the
\* transport does.
RemoveConnections(s, th) ==
    /\ Now(s, th, "remove")
    /\ ThenAlso(s, th, <<>>)
    /\ conns' = [conns EXCEPT ![s] =
          [c \in DOMAIN @ |-> IF c \in Todo(s, th).conns /\ There(s, c)
                              THEN Gone(@[c], Todo(s, th).what) ELSE @[c]]]
    /\ transports' = IF Todo(s, th).tr = 0 THEN transports
                     ELSE [transports EXCEPT ![s][Todo(s, th).tr] = Erased(@)]
    /\ UNCHANGED <<queue, net, calls>>

-----------------------------------------------------------------------------
\* The runtime thread.

\* StepPendingConnections: pending handshakes are repeated every half second, and
\* given up when the last packet was sent more than thirty seconds ago.
StepPendingConnections(s) ==
    LET pending == {t \in DOMAIN transports[s] :
                      transports[s][t].state \in {"SendingOffer", "SendingAccept", "ConnCheck"}}
    IN /\ Idle(s, "runtime")
       /\ \E resend, timeout \in SUBSET pending :
            /\ resend \cap timeout = {} /\ resend \cup timeout # {}
            /\ timeout # {} => scene.ends
            /\ \A t \in pending : ~transports[s][t].sent => t \in resend
            /\ Then(s, "runtime",
                    [i \in 1 .. Cardinality(resend) |-> Op("start", SetToSeq(resend)[i], {}, "")]
                    \o [i \in 1 .. Cardinality(timeout) |-> Op("timeout", SetToSeq(timeout)[i], {}, "")])
       /\ UNCHANGED <<transports, conns, queue, net, calls>>

Accepting == {"SendingOffer", "SendingAccept"}

\* Fault: a check does not count as an acceptance.
Handshaken_CheckIgnored(kind, state) ==
    CASE kind = "Offer" /\ state # "Established" -> "SendingAccept"
      [] kind = "Accept" /\ state \in Accepting  -> "ConnCheck"
      [] OTHER -> state

\* The new state of the transport a packet of the handshake is for.
Handshaken(kind, state) ==
    CASE kind = "Offer" /\ state # "Established" -> "SendingAccept"
      [] kind = "Accept" /\ state \in Accepting  -> "ConnCheck"
      [] kind = "Check" /\ state = "SendingAccept" -> "ConnCheck"
      [] OTHER -> state

\* HandleHandshakePacket: the transport's new state and the reply, which the code
\* sends under a second lock (sent here at once: packets may be late).  The
\* address of the sender is taken from an offer and an acceptance.
HandleHandshakePacket(s) ==
    /\ Idle(s, "runtime")
    /\ \E m \in Arriving(s, Handshakes) : \E t \in FindTransport(s, m.from) :
         LET old == transports[s][t]
             tr == [old EXCEPT !.state = Handshaken(m.kind, @),
                               !.addr = @ \/ m.kind \in {"Offer", "Accept"},
                               !.late = @ \/ (m.kind = "Offer" /\ old.state = "ConnCheck"
                                                /\ m.from \notin scene.strangers)]
         IN /\ t # 0
            /\ \/ m.kind = "Offer" /\ SendHandshake(s, t, tr, "Accept") /\ UNCHANGED todo
               \/ /\ m.kind = "Accept" /\ old.state \in Accepting
                  /\ SendHandshake(s, t, tr, "Check") /\ UNCHANGED todo
               \/ m.kind = "Check" /\ SendHandshake(s, t, tr, "CheckAck") /\ UNCHANGED todo
               \/ /\ m.kind = "CheckAck" /\ old.state # "Established"
                  /\ conns' = [conns EXCEPT ![s] = Synced(@, t, old.state)]
                  /\ Then(s, "runtime", <<Op("establish", t, {}, "")>>)
                  /\ UNCHANGED <<transports, net>>
    /\ UNCHANGED <<queue, calls>>

\* HandleControlPacket, a request for activation: it makes a transport and a
\* connection where there are none, and marks the connection as wanted by the peer.
HandleActivation(s) ==
    /\ Idle(s, "runtime")
    /\ \E m \in Arriving(s, {"Activate"}) : \E found \in FindTransport(s, m.from) :
         \E c \in FindConnection(s, m.from, {m.to}) :
         LET t == IF found = 0 THEN Len(transports[s]) + 1 ELSE found
             ts == IF found = 0 THEN Append(transports[s], NewTransport(m.to, m.from, TRUE))
                                ELSE [transports[s] EXCEPT ![t].addr = TRUE]
             cs == IF c = 0
                   THEN Append([d \in DOMAIN conns[s] |->
                                 IF conns[s][d].ctx = m.to /\ conns[s][d].peer = m.from
                                 THEN [conns[s][d] EXCEPT !.named = FALSE] ELSE conns[s][d]],
                               NewConn(m.to, m.from, t, ts[t].state, FALSE))
                   ELSE [conns[s] EXCEPT ![c].activated = TRUE, ![c].tr = t,
                                         ![c].instead = @ \/ conns[s][c].ctx # m.to]
         IN /\ t <= scene.MaxTransports[s] /\ Len(cs) <= scene.MaxConns[s]
            /\ transports' = [transports EXCEPT ![s] = ts]
            /\ conns' = [conns EXCEPT ![s] = Synced(cs, t, ts[t].state)]
            /\ Then(s, "runtime", IF ts[t].state = "Established"
                                  THEN <<Op("establish", t, {}, "")>> ELSE <<>>)
    /\ UNCHANGED <<queue, net, calls>>

\* HandleControlPacket, the peer is established or closes.  A peer that deactivates
\* leaves an established connection as it is.
HandleControlPacket(s) ==
    /\ Idle(s, "runtime")
    /\ \E m \in Arriving(s, Controls \ {"Activate"}) :
       \E t \in FindTransport(s, m.from) : \E c \in FindConnection(s, m.from, {}) :
         /\ t # 0
         /\ LET state == transports[s][t].state
            IN \/ /\ m.kind = "Established" /\ state = "Established"
                  /\ Then(s, "runtime", <<Op("establish", t, {}, "")>>)
                  /\ UNCHANGED transports
               \/ /\ m.kind = "Terminate" \/ (m.kind = "Deactivate" /\ state # "Established")
                  /\ c # 0
                  /\ Then(s, "runtime", <<Op("close", 0, {c}, "")>>)
                  /\ UNCHANGED transports
               \/ /\ m.kind \in {"Terminate", "Deactivate"}
                  /\ c = 0
                  /\ transports' = [transports EXCEPT ![s] = Closed(s, "runtime", t, {})]
                  /\ UNCHANGED todo
    /\ UNCHANGED <<conns, queue, net, calls>>

-----------------------------------------------------------------------------
\* The activation thread.

\* ProcessPendingActivations takes the whole queue.  An activation whose connection
\* is gone is skipped; of the others the transport is noted.
Wanted(s, c) == There(s, c) /\ conns[s][c].status # "INACTIVE"
TakeActivations(s) ==
    LET wanted == SelectSeq(queue[s], LAMBDA op : Wanted(s, CHOOSE c \in op.conns : TRUE))
    IN /\ Idle(s, "activation") /\ queue[s] # <<>>
       /\ Then(s, "activation", [i \in DOMAIN wanted |->
             [wanted[i] EXCEPT !.tr = conns[s][CHOOSE c \in wanted[i].conns : TRUE].tr]])
       /\ queue' = [queue EXCEPT ![s] = <<>>]
       /\ UNCHANGED <<transports, conns, net, calls>>

\* ResolvePeer has failed: the activation is tried again later.
ResolveFails(s) ==
    /\ Now(s, "activation", "resolve")
    /\ ThenAlso(s, "activation", <<>>)
    /\ queue' = [queue EXCEPT ![s] = Append(@, [Todo(s, "activation") EXCEPT !.tr = 0])]
    /\ UNCHANGED <<transports, conns, net, calls>>

\* The address is known: the peer is asked to activate, once, and the handshake
\* begins on the transport noted before.
ResolvePeer(s) ==
    LET op == Todo(s, "activation")
        c == TheConn(s, "activation")
        t == conns[s][c].tr
        tr == [transports[s][t] EXCEPT !.addr = TRUE]
    IN /\ Now(s, "activation", "resolve")
       /\ IF Wanted(s, c) /\ Exists(s, t)
          THEN /\ transports' = [transports EXCEPT ![s][t] = tr]
               /\ conns' = [conns EXCEPT ![s][c].status = StatusFromState(tr.state)]
               /\ net' = net \cup Packets(tr, "Activate")
               /\ ThenAlso(s, "activation",
                     CASE op.what = "start"          -> <<Op("start", op.tr, {}, "")>>
                       [] tr.state = "Established"   -> <<Op("establish", op.tr, {}, "")>>
                       [] OTHER                      -> <<>>)
          ELSE /\ ThenAlso(s, "activation", <<>>)
               /\ UNCHANGED <<transports, conns, net>>
       /\ UNCHANGED <<queue, calls>>

-----------------------------------------------------------------------------
\* The game.

\* ActivateSig1: a connection of this context to this peer is used again unless it
\* is inactive, in which case it is dropped for a new one; a transport is found or
\* made.  The activation thread asks the peer once for each connection.
ActivateSig1(s, a, p) ==
    LET named == {c \in DOMAIN conns[s] : There(s, c) /\ conns[s][c].named
                                             /\ conns[s][c].ctx = a /\ conns[s][c].peer = p}
        old == {c \in named : conns[s][c].status = "INACTIVE"}
        kept == [c \in DOMAIN conns[s] |->
                   IF c \in old THEN Gone(conns[s][c], "replaced") ELSE conns[s][c]]
    IN /\ Idle(s, "game") /\ calls[s] < scene.MaxCalls[s]
       /\ Home[a] = s /\ p # a
       /\ \E found \in FindTransport(s, p) :
            LET t == IF found = 0 THEN Len(transports[s]) + 1 ELSE found
                ts == IF found = 0 THEN Append(transports[s], NewTransport(a, p, FALSE))
                                   ELSE transports[s]
                c == IF named \ old = {} THEN Len(kept) + 1 ELSE CHOOSE x \in named : TRUE
                new == c = Len(kept) + 1
                cs == IF new THEN Append(kept, NewConn(a, p, t, ts[t].state, TRUE))
                      ELSE [kept EXCEPT ![c].tr = t, ![c].local = TRUE,
                                        ![c].status = StatusFromState(ts[t].state)]
                asked == ~new /\ conns[s][c].local
                up == ts[t].state = "Established"
            IN /\ t <= scene.MaxTransports[s] /\ Len(cs) <= scene.MaxConns[s]
               /\ transports' = [transports EXCEPT ![s] = ts]
               /\ conns' = [conns EXCEPT ![s] = cs]
               /\ queue' = IF asked THEN queue
                           ELSE [queue EXCEPT ![s] = Append(@,
                                  Op("resolve", 0, {c}, IF up THEN "" ELSE "start"))]
               /\ Then(s, "game", IF up THEN <<Op("establish", t, {}, "")>> ELSE <<>>)
       /\ calls' = [calls EXCEPT ![s] = @ + 1]
       /\ UNCHANGED net

\* A game leaves connection c: the packet it sends to the peer if it tells it, and what
\* it does then.
Leave(s, c, kind, tells, ops) ==
    LET t == conns[s][c].tr
    IN /\ scene.ends
       /\ Idle(s, "game") /\ calls[s] < scene.MaxCalls[s] /\ There(s, c)
       /\ net' = net \cup (IF Exists(s, t) /\ tells THEN Packets(transports[s][t], kind) ELSE {})
       /\ Then(s, "game", ops)
       /\ calls' = [calls EXCEPT ![s] = @ + 1]
       /\ UNCHANGED <<transports, conns, queue>>

\* DeactivateSig1 tells the peer only when the connection is established.
DeactivateSig1(s, c) ==
    Leave(s, c, "Deactivate",
          transports[s][conns[s][c].tr].state = "Established" /\ ~conns[s][c].dead,
          <<Op("close", 0, {c}, "")>>)

\* sceNpSignalingTerminateConnection always tells it, and takes the connection out of
\* the map even if another thread is closing it.
TerminateConnection(s, c) ==
    Leave(s, c, "Terminate", TRUE,
          <<Op("close", 0, {c}, ""), Op("remove", 0, {c}, "terminated")>>)

-----------------------------------------------------------------------------
SharedStep(s, th) ==
    \/ StartTransportHandshakeInitiator(s, th)
    \/ EstablishConnection(s, th)
    \/ DispatchConnectionEvent(s, th)
    \/ CloseConnection(s, th)
    \/ CloseTransport(s, th)
    \/ RemoveConnections(s, th)

RuntimeStep(s) ==
    \/ StepPendingConnections(s)
    \/ HandleHandshakePacket(s)
    \/ HandleActivation(s)
    \/ HandleControlPacket(s)

ActivationStep(s) ==
    \/ TakeActivations(s)
    \/ ResolveFails(s)
    \/ ResolvePeer(s)

GameStep(s) ==
    \/ \E a, p \in scene.ctxs : ActivateSig1(s, a, p)
    \/ \E c \in DOMAIN conns[s] : DeactivateSig1(s, c) \/ TerminateConnection(s, c)

Modelled == {Home[c] : c \in scene.ctxs} \ {Home[c] : c \in scene.strangers}

Next == \E s \in Modelled :
    /\ \/ \E th \in Threads : SharedStep(s, th)
       \/ RuntimeStep(s)
       \/ ActivationStep(s)
       \/ GameStep(s)
    /\ UNCHANGED scene

Spec == Init /\ [][Next]_vars

-----------------------------------------------------------------------------
Transport == [me : Ctxs, peer : Ctxs, state : States, addr : BOOLEAN, sent : BOOLEAN,
              fired : BOOLEAN, late : BOOLEAN, held : BOOLEAN]
Work == {"establish", "start", "timeout", "resolve", "tell", "close", "remove"}

\* Every variable has its type; connections and transports refer to what was made,
\* and at most one connection of a context to a peer is named in npid_to_conn.
TypeOK ==
    /\ scene \in Scenes
    /\ net \subseteq [from : Ctxs, to : Ctxs, kind : Handshakes \cup Controls]
    /\ \A s \in Sides :
         /\ \A t \in DOMAIN transports[s] : transports[s][t] \in Transport
         /\ \A c \in DOMAIN conns[s] :
              /\ conns[s][c].status \in Statuses
              /\ Range(conns[s][c].heard) \subseteq Events
              /\ conns[s][c].gone = "no" => conns[s][c].tr \in DOMAIN transports[s]
              /\ \A d \in DOMAIN conns[s] :
                   /\ conns[s][c].named /\ conns[s][d].named
                   /\ conns[s][c].ctx = conns[s][d].ctx /\ conns[s][c].peer = conns[s][d].peer
                   => c = d
         /\ \A th \in Threads : \A i \in DOMAIN todo[s][th] : todo[s][th][i].op \in Work
    /\ calls \in [Sides -> Nat]

\* No connection ends in silence: one whose game was told that it is established is
\* told DEAD before it leaves the map, unless the game terminates it or activates the
\* peer again while it is being closed (both drop it, and the thread that was about to
\* tell finds no connection).
EndIsTold ==
    \A s \in Sides : \A c \in DOMAIN conns[s] :
        LET heard == Range(conns[s][c].heard)
        IN conns[s][c].gone = "removed" /\ "ESTABLISHED" \in heard => "DEAD" \in heard

\* DEAD is the last thing a game hears of a connection, unless another thread was at
\* work on the connection or on its transport when it was closed: a connection stays
\* in the map until DEAD has been queued, and EstablishConnection does not ask whether
\* it is dead.
DeadIsLast ==
    \A s \in Sides : \A c \in DOMAIN conns[s] :
        \A i \in DOMAIN conns[s][c].heard :
            conns[s][c].heard[i] = "DEAD" =>
                i = Len(conns[s][c].heard) \/ conns[s][c].crossed

\* The end of a connection is told, and is the last thing told.
EndIsToldLast == EndIsTold /\ DeadIsLast

\* A connection that shows as active has an established transport, unless another
\* context's connection shared the transport and closed it: nobody tells the first.
StatusAgrees ==
    \A s \in Sides : \A c \in DOMAIN conns[s] :
        There(s, c) /\ ~conns[s][c].dead /\ conns[s][c].status = "ACTIVE" =>
            \/ Exists(s, conns[s][c].tr)
                 /\ transports[s][conns[s][c].tr].state = "Established"
            \/ conns[s][c].shared

\* The maps refer to one another as the lookups expect, and show the same status.
MapsAgree == TypeOK /\ StatusAgrees

\* A closed transport is not opened again, unless a thread had it in hand when it was
\* closed (StepPendingConnections and ProcessPendingActivations choose a transport
\* under one lock and start its handshake under another), or a connection of another
\* context stayed on it, whose activation was still to come.
ClosedStaysClosed ==
    [][\A s \in Sides : \A t \in DOMAIN transports[s] :
         transports[s][t].state = "Inactive" =>
             \/ transports'[s][t].state \in {"Inactive", "erased"}
             \/ transports[s][t].held]_vars

\* Between two consoles: a game is told MUTUAL_ACTIVATED only when the peer's game
\* has activated its side, whatever is lost, delayed or duplicated on the way.  Where two
\* contexts of one console share a transport it may be the activation of another context:
\* a request names the context its transport was made for (of the sender's, `Carries'),
\* and one for a context that has no connection marks the connection of another context
\* of the console with that peer (of the receiver's, `instead').
Carries(s, me, peer) == \E t \in DOMAIN transports[s] :
    transports[s][t].me = me /\ transports[s][t].peer = peer
MutualIsMutual ==
    \A s \in Sides : \A c \in DOMAIN conns[s] :
        LET conn == conns[s][c]
            p == conn.peer
        IN "MUTUAL_ACTIVATED" \in Range(conn.heard) /\ p \notin scene.strangers =>
               \E d \in DOMAIN conns[Home[p]] :
                   LET other == conns[Home[p]][d]
                   IN /\ other.local
                      /\ other.peer = conn.ctx \/ (conn.instead /\ Home[other.peer] = s)
                      /\ other.ctx = p \/ Carries(Home[p], p, other.peer)

\* Between two consoles of which neither has closed anything (nor was closed while a
\* thread had it in hand, and opened again): when one is established
\* the other is or is still checking, and will be since its checks are answered, unless
\* an offer that came late has put it back to accepting, which an established peer
\* ignores.
Calm ==
    \A s \in Sides : \A t \in DOMAIN transports[s] :
        transports[s][t].state \notin {"Inactive", "erased"} /\ ~transports[s][t].held
HalfOpenIsExplained ==
    Calm => \A s \in Sides : \A t \in DOMAIN transports[s] :
        LET tr == transports[s][t]
        IN tr.state = "Established" /\ tr.peer \notin scene.strangers =>
               \E u \in DOMAIN transports[Home[tr.peer]] :
                   LET other == transports[Home[tr.peer]][u]
                   IN /\ other.me = tr.peer /\ other.peer = tr.me
                      /\ other.state \in {"ConnCheck", "Established"} \/ other.late

\* The two sides agree, as far as a network can make them.
SidesAgree == MutualIsMutual /\ HalfOpenIsExplained
=============================================================================
