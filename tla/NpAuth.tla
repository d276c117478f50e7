------------------------------- MODULE NpAuth -------------------------------
(***************************************************************************)
(* The authorization-code requests of libSceNpAuth, from the game's call   *)
(* down to the reply of the shadNet server:                                *)
(*                                                                         *)
(*   np_auth.cpp          the request table (g_auth_requests) and the      *)
(*                        calls that create, start, wait for, poll, abort  *)
(*                        and delete a request;                            *)
(*   np_auth_ctx.h        AuthRequestCtx, the result cell every party      *)
(*                        shares through a shared_ptr;                     *)
(*   np_handler_auth.cpp  the submission to a user's ShadNetClient, the    *)
(*                        pending map keyed by packet id, the reply;       *)
(*   np_handler.cpp       sign-in and sign-out of a user: DisconnectUser   *)
(*                        stops the client and fails what is pending.      *)
(*                                                                         *)
(* Game threads call the library, the reader thread of each client handles *)
(* replies, and two threads sign users in and out: the user-service hook   *)
(* and NpHandler's worker.  A step is what one thread does while it holds  *)
(* the mutex that protects the state it touches.                           *)
(***************************************************************************)
EXTENDS Naturals, FiniteSets

CONSTANTS
    Threads,       \* game threads
    Handlers,      \* the threads that sign users in and out: "hook" and "worker"
    Users,         \* local users with a shadNet account
    Clients,       \* ShadNetClient objects, each used for one sign-in
    Ctxs,          \* AuthRequestCtx objects, each used for one request
    ServerErrors,  \* the ErrorTypes other than NoError a reply may carry
    RequestLimit,  \* ORBIS_NP_AUTH_REQUEST_LIMIT
    AsyncKinds,    \* bound: the kinds of request the game makes, TRUE for asynchronous
    MaxPkt,        \* bound: packets a client may number in one behaviour
    NoUser, NoClient, NoCtx

ASSUME ConstantsAssumption ==
    /\ RequestLimit \in Nat \ {0}
    /\ Handlers \subseteq {"hook", "worker"}
    /\ AsyncKinds \subseteq BOOLEAN
    /\ MaxPkt \in Nat
    /\ NoUser \notin Users /\ NoClient \notin Clients /\ NoCtx \notin Ctxs

VARIABLES
    enabled,      \* g_shadnet_enabled, fixed when the hooks are registered
    requests,     \* g_auth_requests: request id -> [async, aborted, ctx]
    started,      \* the AuthRequestCtx objects that StartRequest has made
    result,       \* AuthRequestCtx::result of each context
    code,         \* whose authorization code *auth_code holds, if any
    call,         \* what each game thread is doing inside the library
    clients,      \* m_clients: user -> its client
    owner,        \* the user each client was made for
    clientState,  \* "unused", "up", "dropped" (reader gone) or "stopped"
    counter,      \* m_pkt_counter of each client
    inFlight,     \* GetAuthorizationCode packets sent and not yet answered
    pending,      \* m_pending_auth: [pkt, ctx, user, client] with distinct pkt; the
                  \* client the packet went to is history
    reader,       \* what each client's reader holds while it completes a reply
    task,         \* what the hook and the worker thread are doing
    requester,    \* history: the user a context was started for
    returned,     \* history: contexts whose outcome some call has returned
    refused,      \* history: contexts m_pending_auth.emplace did not take
    orphans,      \* history: contexts whose entry went before the reply to its packet
    stranded      \* history: contexts with an entry that no sign-out is going to fail

tableVars   == <<requests, started, requester>>
cellVars    == <<result, code, returned>>
clientVars  == <<clients, owner, clientState, counter>>
handlerVars == <<pending, inFlight, reader, refused, orphans, stranded>>
vars == <<enabled, tableVars, cellVars, call, clientVars, handlerVars, task>>

-----------------------------------------------------------------------------
Unset   == "unset"
Results == {"OK", "ABORTED", "SIGNED_OUT", "INVALID_ARGUMENT", "SERVICE_BUSY",
            "SERVICE_DOWN", "NO_TOKEN_RECEIVED"}

Request == [async : BOOLEAN, aborted : BOOLEAN, ctx : Ctxs \cup {NoCtx}]

IdleCall == [pc |-> "idle", ctx |-> NoCtx, user |-> NoUser,
             client |-> NoClient, async |-> FALSE]
IdleRead == [ctx |-> NoCtx, result |-> "OK"]
IdleTask == [op |-> "idle", user |-> NoUser, client |-> NoClient]

\* What a thread in a call holds, from step to step of the call
Calls == {IdleCall}
    \cup [pc : {"token"}, ctx : Ctxs, user : {NoUser}, client : {NoClient},
          async : BOOLEAN]
    \cup [pc : {"started"}, ctx : Ctxs, user : Users, client : {NoClient},
          async : BOOLEAN]
    \cup [pc : {"looked", "checked"}, ctx : Ctxs, user : Users, client : Clients,
          async : BOOLEAN]
    \cup [pc : {"wait", "poll"}, ctx : Ctxs, user : {NoUser}, client : {NoClient},
          async : BOOLEAN]
Reads == [ctx : Ctxs \cup {NoCtx}, result : Results]
Tasks == {IdleTask}
    \cup [op : {"connect", "fail"}, user : Users, client : {NoClient}]
    \cup [op : {"stop"}, user : Users, client : Clients]
Entries == [pkt : Nat \ {0}, ctx : Ctxs, user : Users, client : Clients]

\* The result of a reply: an error the server reports, or a body that cannot be
\* used, or the code.
AuthErrorFromReply(error) ==
    CASE error = "InvalidInput" -> "INVALID_ARGUMENT"
      [] error = "Unauthorized" -> "SIGNED_OUT"
      [] error = "TooSoon"      -> "SERVICE_BUSY"
      [] OTHER                  -> "SERVICE_DOWN"

ReplyResults == {AuthErrorFromReply(e) : e \in ServerErrors}
                    \cup {"NO_TOKEN_RECEIVED", "OK"}

\* Fault: the last result wins.
SetResult_LastWins(c, r) == result' = [result EXCEPT ![c] = r]

\* AuthRequestCtx::SetResult keeps the first result a context is given.
SetResult(c, r) ==
    result' = IF result[c] = Unset THEN [result EXCEPT ![c] = r] ELSE result

\* The loop of CreateNpAuthRequest: the lowest id, counted from the offset, that
\* no request has.
FreeIds(ids) == (1 .. (Cardinality(ids) + 1)) \ ids
LowestFreeId(ids) == CHOOSE i \in FreeIds(ids) : \A j \in FreeIds(ids) : i <= j

TableFull(ids) == Cardinality(ids) = RequestLimit

\* Fault: the context is left without a result.
AbortCtx_Silent(c) == returned' = returned \cup {c} /\ UNCHANGED result

\* sceNpAuthAbortRequest and sceNpAuthDeleteRequest on a started request
AbortCtx(c) == SetResult(c, "ABORTED") /\ returned' = returned \cup {c}

\* m_pkt_counter.fetch_add(1)
NextPkt(k) == counter[k] <= MaxPkt /\ counter' = [counter EXCEPT ![k] = @ + 1]

\* Fault: m_pending_auth[pkt_id] = p.
Emplace_Assign(e) ==
    /\ pending' = {p \in pending : p.pkt # e.pkt} \cup {e}
    /\ UNCHANGED refused

\* m_pending_auth.emplace(pkt_id, p) keeps an entry that already has the number.
Emplace(e) ==
    IF \E p \in pending : p.pkt = e.pkt
    THEN refused' = refused \cup {e.ctx} /\ UNCHANGED pending
    ELSE pending' = pending \cup {e} /\ UNCHANGED refused

\* Fault: the entry stays in the map.
TakeEntry_Keeps(k, p, r) ==
    /\ UNCHANGED pending
    /\ reader' = [reader EXCEPT ![k] = [ctx |-> p.ctx, result |-> r]]

\* Fault: a truncated reply is dropped with its entry.
TakeEntry_DropsTruncated(k, p, r) ==
    /\ pending' = pending \ {p}
    /\ reader' = IF r = "NO_TOKEN_RECEIVED" THEN reader
                 ELSE [reader EXCEPT ![k] = [ctx |-> p.ctx, result |-> r]]

\* The reader of client k takes an entry out of m_pending_auth for a reply.
TakeEntry(k, p, r) ==
    /\ pending' = pending \ {p}
    /\ reader' = [reader EXCEPT ![k] = [ctx |-> p.ctx, result |-> r]]

\* Fault: the buffer is written without testing the result.
WriteCode_Always(c, u) == code' = [code EXCEPT ![c] = u]

\* SetAuthorizationCode writes into the game's buffer only while there is no
\* result; u is the account the code belongs to.
WriteCode(c, u) ==
    code' = IF result[c] = Unset THEN [code EXCEPT ![c] = u] ELSE code

\* History: entries es leave m_pending_auth while a client of their user has a packet
\* of that number among those that are left in flight.
Orphan(es, left) ==
    orphans' = orphans \cup {p.ctx : p \in {q \in es :
                   \E k \in Clients : owner[k] = q.user /\ q.pkt \in left[k]}}

\* The loop of FailPendingRequests over m_pending_auth
FailEntries(es, r) ==
    /\ pending' = pending \ es
    /\ result' = [c \in Ctxs |->
                    IF result[c] = Unset /\ \E p \in es : p.ctx = c
                    THEN r ELSE result[c]]

\* NpHandler::IsSignedIn and ShadNetClient::IsAuthenticated
Authenticated(k) == clientState[k] = "up"
SignedIn(u) == clients[u] # NoClient /\ Authenticated(clients[u])

\* DisconnectUser(u) has taken the client and has yet to fail u's entries.
SigningOut(u) == \E h \in Handlers : task[h].op \in {"stop", "fail"} /\ task[h].user = u

-----------------------------------------------------------------------------
Init ==
    /\ enabled \in BOOLEAN
    /\ requests = [i \in {} |-> IdleCall]
    /\ started = {}
    /\ result = [c \in Ctxs |-> Unset]
    /\ code = [c \in Ctxs |-> NoUser]
    /\ call = [t \in Threads |-> IdleCall]
    /\ clients = [u \in Users |-> NoClient]
    /\ owner = [k \in Clients |-> NoUser]
    /\ clientState = [k \in Clients |-> "unused"]
    /\ counter = [k \in Clients |-> 1]
    /\ inFlight = [k \in Clients |-> {}]
    /\ pending = {}
    /\ reader = [k \in Clients |-> IdleRead]
    /\ task = [h \in Handlers |-> IdleTask]
    /\ requester = [c \in Ctxs |-> NoUser]
    /\ returned = {}
    /\ refused = {} /\ orphans = {} /\ stranded = {}

-----------------------------------------------------------------------------
(* The library's calls, made by a game thread t.  A call that the library  *)
(* rejects changes nothing and has no action.                              *)

CreateNpAuthRequest(t, async) ==
    /\ call[t].pc = "idle"
    /\ ~TableFull(DOMAIN requests)
    /\ LET id == LowestFreeId(DOMAIN requests)
       IN  requests' = [i \in DOMAIN requests \cup {id} |->
                          IF i = id
                          THEN [async |-> async, aborted |-> FALSE, ctx |-> NoCtx]
                          ELSE requests[i]]
    /\ UNCHANGED <<enabled, started, requester, cellVars, call, clientVars,
                   handlerVars, task>>

\* StartRequest makes the context of a request that was neither started nor
\* aborted; the calling thread goes on at pc.
StartRequest(t, id, u, pc) ==
    /\ call[t].pc = "idle"
    /\ requests[id].ctx = NoCtx
    /\ ~requests[id].aborted
    /\ \E c \in Ctxs \ started :
         /\ started' = started \cup {c}
         /\ requests' = [requests EXCEPT ![id].ctx = c]
         /\ requester' = [requester EXCEPT ![c] = u]
         /\ call' = [call EXCEPT ![t] =
                       [pc |-> pc, ctx |-> c, user |-> u, client |-> NoClient,
                        async |-> requests[id].async]]
    /\ UNCHANGED <<enabled, cellVars, clientVars, handlerVars, task>>

GetAuthorizationCode(t, id, u) == StartRequest(t, id, u, "started")
GetIdToken(t, id) == StartRequest(t, id, NoUser, "token")

\* FinishStartedRequest: an asynchronous call returns, a synchronous one waits for
\* the result.
FinishStartedRequest(t) ==
    call' = [call EXCEPT ![t] = IF @.async THEN IdleCall
                                ELSE [IdleCall EXCEPT !.pc = "wait", !.ctx = call[t].ctx]]

\* ctx->SetResult(r) on the context t has started; the call is then finished.
Settle(t, r) ==
    /\ SetResult(call[t].ctx, r)
    /\ FinishStartedRequest(t)
    /\ UNCHANGED <<enabled, tableVars, code, returned, clientVars, handlerVars,
                   task>>

\* GetIdToken fills the caller's token and completes the request at once.
StubToken(t) ==
    /\ call[t].pc = "token"
    /\ Settle(t, IF enabled THEN "OK" ELSE "SIGNED_OUT")

\* RequestAuthorizationCode up to the unlock of m_mutex_clients: the thread
\* keeps the client it has found.
LookUpClient(t) ==
    /\ call[t].pc = "started"
    /\ IF enabled /\ clients[call[t].user] # NoClient
       THEN /\ call' = [call EXCEPT ![t].pc = "looked",
                                    ![t].client = clients[call[t].user]]
            /\ UNCHANGED <<enabled, tableVars, cellVars, clientVars, handlerVars,
                           task>>
       ELSE Settle(t, "SIGNED_OUT")

CheckAuthenticated(t) ==
    /\ call[t].pc = "looked"
    /\ IF Authenticated(call[t].client)
       THEN /\ call' = [call EXCEPT ![t].pc = "checked"]
            /\ UNCHANGED <<enabled, tableVars, cellVars, clientVars, handlerVars,
                           task>>
       ELSE Settle(t, "SIGNED_OUT")

\* The rest, under m_mutex_pending_auth: number and queue the packet, then
\* m_pending_auth.emplace, which keeps an entry that already has the number.
\* A packet queued on a client whose reader is gone is never answered.
SubmitRequest(t) ==
    LET k == call[t].client
        c == call[t].ctx
        u == call[t].user
    IN  /\ call[t].pc = "checked"
        /\ NextPkt(k)
        /\ inFlight' = IF clientState[k] = "up"
                       THEN [inFlight EXCEPT ![k] = @ \cup {counter[k]}]
                       ELSE inFlight
        /\ Emplace([pkt |-> counter[k], ctx |-> c, user |-> u, client |-> k])
        /\ stranded' = IF clients[u] = k \/ SigningOut(u) THEN stranded
                       ELSE stranded \cup {c}
        /\ FinishStartedRequest(t)
        /\ UNCHANGED <<enabled, tableVars, cellVars, clients, owner, clientState,
                       reader, orphans, task>>

\* FindAsyncRequest: the calls for the result of an asynchronous request take
\* the context from the table and go on at pc, "wait" or "poll".
FindAsyncRequest(t, id, pc) ==
    /\ call[t].pc = "idle"
    /\ requests[id].async
    /\ requests[id].ctx # NoCtx
    /\ call' = [call EXCEPT ![t] = [IdleCall EXCEPT !.pc = pc,
                                                    !.ctx = requests[id].ctx]]
    /\ UNCHANGED <<enabled, tableVars, cellVars, clientVars, handlerVars, task>>

\* AuthRequestCtx::Wait, the end of every blocking call.
WaitReturns(t) ==
    /\ call[t].pc = "wait"
    /\ result[call[t].ctx] # Unset
    /\ returned' = returned \cup {call[t].ctx}
    /\ call' = [call EXCEPT ![t] = IdleCall]
    /\ UNCHANGED <<enabled, tableVars, result, code, clientVars, handlerVars, task>>

\* sceNpAuthPollAsync reports FINISHED only once there is a result.
PollReturns(t) ==
    /\ call[t].pc = "poll"
    /\ returned' = IF result[call[t].ctx] = Unset THEN returned
                   ELSE returned \cup {call[t].ctx}
    /\ call' = [call EXCEPT ![t] = IdleCall]
    /\ UNCHANGED <<enabled, tableVars, result, code, clientVars, handlerVars, task>>

AbortRequest(t, id) ==
    LET c == requests[id].ctx
    IN  /\ call[t].pc = "idle"
        /\ IF c # NoCtx
           THEN AbortCtx(c) /\ UNCHANGED requests
           ELSE /\ requests' = [requests EXCEPT ![id].aborted = TRUE]
                /\ UNCHANGED <<result, returned>>
        /\ UNCHANGED <<enabled, started, requester, code, call, clientVars,
                       handlerVars, task>>

DeleteRequest(t, id) ==
    LET c == requests[id].ctx
    IN  /\ call[t].pc = "idle"
        /\ IF c # NoCtx
           THEN AbortCtx(c)
           ELSE UNCHANGED <<result, returned>>
        /\ requests' = [i \in DOMAIN requests \ {id} |-> requests[i]]
        /\ UNCHANGED <<enabled, started, requester, code, call, clientVars,
                       handlerVars, task>>

-----------------------------------------------------------------------------
(* The reader thread of client k.                                          *)

\* OnAuthReply up to the unlock of m_mutex_pending_auth.  The entry is looked up
\* by the packet id alone, whichever user's client the reply came from.
OnAuthReply(k, pkt, r) ==
    /\ clientState[k] = "up"
    /\ reader[k] = IdleRead
    /\ pkt \in inFlight[k]
    /\ inFlight' = [inFlight EXCEPT ![k] = @ \ {pkt}]
    /\ \/ /\ \A p \in pending : p.pkt # pkt
          /\ UNCHANGED <<pending, reader, orphans>>
       \/ \E p \in pending :
            /\ p.pkt = pkt
            /\ TakeEntry(k, p, r)
            /\ Orphan({p}, inFlight')
    /\ UNCHANGED <<enabled, tableVars, cellVars, call, clientVars, refused, stranded,
                   task>>

\* The rest of OnAuthReply: SetResult, or SetAuthorizationCode, which writes the
\* code into the game's buffer only while there is no result.  The code is that of
\* the account client k is signed in to.
CompleteReply(k) ==
    LET c == reader[k].ctx
    IN  /\ c # NoCtx
        /\ SetResult(c, reader[k].result)
        /\ IF reader[k].result = "OK" THEN WriteCode(c, owner[k]) ELSE UNCHANGED code
        /\ reader' = [reader EXCEPT ![k] = IdleRead]
        /\ UNCHANGED <<enabled, tableVars, returned, call, clientVars, pending,
                       inFlight, refused, orphans, stranded, task>>

\* The reader leaves its loop: the connection is gone, IsConnected() and
\* IsAuthenticated() are false from here on and no reply follows.
LoseConnection(k) ==
    /\ clientState[k] = "up"
    /\ reader[k] = IdleRead
    /\ clientState' = [clientState EXCEPT ![k] = "dropped"]
    /\ inFlight' = [inFlight EXCEPT ![k] = {}]
    /\ UNCHANGED <<enabled, tableVars, cellVars, call, clients, owner, counter,
                   pending, reader, refused, orphans, stranded, task>>

\* Another library (score, TUS, trophies ...) numbers a packet on the client.
NumberOtherPacket(k) ==
    /\ clientState[k] = "up"
    /\ NextPkt(k)
    /\ UNCHANGED <<enabled, tableVars, cellVars, call, clients, owner, clientState,
                   handlerVars, task>>

-----------------------------------------------------------------------------
(* Sign-in and sign-out of user u, by the user-service hook or the worker. *)

\* ConnectUserById and ConnectUser up to the result of the login.
BeginConnect(h, u) ==
    /\ task[h].op = "idle"
    /\ ~SignedIn(u)
    /\ task' = [task EXCEPT ![h] = [op |-> "connect", user |-> u,
                                    client |-> NoClient]]
    /\ UNCHANGED <<enabled, tableVars, cellVars, call, clientVars, handlerVars>>

\* The login fails: the new client is stopped and never seen by anyone.
ConnectFails(h) ==
    /\ task[h].op = "connect"
    /\ task' = [task EXCEPT ![h] = IdleTask]
    /\ UNCHANGED <<enabled, tableVars, cellVars, call, clientVars, handlerVars>>

\* The login succeeds: m_clients[user_id] = client, over any client it held.
ConnectUser(h) ==
    LET u == task[h].user
    IN  /\ task[h].op = "connect"
        /\ \E k \in Clients :
             /\ clientState[k] = "unused"
             /\ clientState' = [clientState EXCEPT ![k] = "up"]
             /\ owner' = [owner EXCEPT ![k] = u]
             /\ clients' = [clients EXCEPT ![u] = k]
        /\ stranded' = IF SigningOut(u) THEN stranded
                       ELSE stranded \cup {p.ctx : p \in {q \in pending :
                                q.user = u /\ q.client = clients[u]}}
        /\ task' = [task EXCEPT ![h] = IdleTask]
        /\ UNCHANGED <<enabled, tableVars, cellVars, call, counter, pending,
                       inFlight, reader, refused, orphans>>

\* ~ShadNetClient of a client that was replaced in m_clients: Stop() joins the
\* reader once the last shared_ptr to the client is gone.
DestroyClient(k) ==
    /\ clientState[k] \in {"up", "dropped"}
    /\ reader[k] = IdleRead
    /\ \A u \in Users : clients[u] # k
    /\ \A t \in Threads : call[t].client # k
    /\ \A h \in Handlers : task[h].client # k
    /\ clientState' = [clientState EXCEPT ![k] = "stopped"]
    /\ inFlight' = [inFlight EXCEPT ![k] = {}]
    /\ UNCHANGED <<enabled, tableVars, cellVars, call, clients, owner, counter,
                   pending, reader, refused, orphans, stranded, task>>

\* DisconnectUser takes the client out of m_clients.  The hook does it for a user
\* who logs out, the worker for a client whose connection is lost.
BeginDisconnect(h, u) ==
    LET k == clients[u]
    IN  /\ task[h].op = "idle"
        /\ k # NoClient
        /\ h = "worker" => clientState[k] = "dropped"
        /\ clients' = [clients EXCEPT ![u] = NoClient]
        /\ task' = [task EXCEPT ![h] = [op |-> "stop", user |-> u, client |-> k]]
        /\ UNCHANGED <<enabled, tableVars, cellVars, call, owner, clientState,
                       counter, handlerVars>>

\* client->Stop() returns when the reader has been joined.
StopClient(h) ==
    LET k == task[h].client
    IN  /\ task[h].op = "stop"
        /\ reader[k] = IdleRead
        /\ clientState' = [clientState EXCEPT ![k] = "stopped"]
        /\ inFlight' = [inFlight EXCEPT ![k] = {}]
        /\ task' = [task EXCEPT ![h].op = "fail", ![h].client = NoClient]
        /\ UNCHANGED <<enabled, tableVars, cellVars, call, clients, owner, counter,
                       pending, reader, refused, orphans, stranded>>

\* FailPendingRequests(user_id, SIGNED_OUT), under m_mutex_pending_auth.
FailPendingRequests(h) ==
    LET failed == {p \in pending : p.user = task[h].user}
    IN  /\ task[h].op = "fail"
        /\ FailEntries(failed, "SIGNED_OUT")
        /\ Orphan(failed, inFlight)
        /\ task' = [task EXCEPT ![h] = IdleTask]
        /\ UNCHANGED <<enabled, tableVars, code, returned, call, clientVars,
                       inFlight, reader, refused, stranded>>

-----------------------------------------------------------------------------
LibraryStep(t) ==
    \/ \E async \in AsyncKinds : CreateNpAuthRequest(t, async)
    \/ \E id \in DOMAIN requests :
         \/ \E u \in Users : GetAuthorizationCode(t, id, u)
         \/ GetIdToken(t, id)
         \/ \E pc \in {"wait", "poll"} : FindAsyncRequest(t, id, pc)
         \/ AbortRequest(t, id)
         \/ DeleteRequest(t, id)

CallStep(t) ==
    \/ StubToken(t)
    \/ LookUpClient(t)
    \/ CheckAuthenticated(t)
    \/ SubmitRequest(t)
    \/ WaitReturns(t)
    \/ PollReturns(t)

ReaderStep(k) ==
    \/ \E pkt \in inFlight[k], r \in ReplyResults : OnAuthReply(k, pkt, r)
    \/ CompleteReply(k)
    \/ LoseConnection(k)
    \/ NumberOtherPacket(k)
    \/ DestroyClient(k)

HandlerStep(h) ==
    \/ \E u \in Users : BeginConnect(h, u) \/ BeginDisconnect(h, u)
    \/ ConnectFails(h)
    \/ ConnectUser(h)
    \/ StopClient(h)
    \/ FailPendingRequests(h)

Next ==
    \/ \E t \in Threads : LibraryStep(t) \/ CallStep(t)
    \/ \E k \in Clients : ReaderStep(k)
    \/ \E h \in Handlers : HandlerStep(h)

Spec == Init /\ [][Next]_vars

-----------------------------------------------------------------------------
\* Every variable has its type; in particular the ids in use, which the game
\* sees, never leave 1 .. RequestLimit (CreateNpAuthRequest).
TypeOK ==
    /\ enabled \in BOOLEAN
    /\ DOMAIN requests \subseteq 1 .. RequestLimit
    /\ requests \in [DOMAIN requests -> Request]
    /\ started \subseteq Ctxs
    /\ result \in [Ctxs -> Results \cup {Unset}]
    /\ code \in [Ctxs -> Users \cup {NoUser}]
    /\ call \in [Threads -> Calls]
    /\ clients \in [Users -> Clients \cup {NoClient}]
    /\ owner \in [Clients -> Users \cup {NoUser}]
    /\ clientState \in [Clients -> {"unused", "up", "dropped", "stopped"}]
    /\ counter \in [Clients -> Nat \ {0}]
    /\ inFlight \in [Clients -> SUBSET (Nat \ {0})]
    /\ pending \in SUBSET Entries
    /\ reader \in [Clients -> Reads]
    /\ task \in [Handlers -> Tasks]
    /\ requester \in [Ctxs -> Users \cup {NoUser}]
    /\ returned \subseteq Ctxs
    /\ refused \subseteq Ctxs /\ orphans \subseteq Ctxs /\ stranded \subseteq Ctxs

\* The parties on whom the outcome of context c depends: the thread that is
\* still starting the request, an entry of m_pending_auth, a reader.
Starting(t, c) ==
    call[t].pc \in {"started", "token", "looked", "checked"} /\ call[t].ctx = c
Registered(c) == \E p \in pending : p.ctx = c
Completing(k, c) == reader[k].ctx = c

\* A request is completed by one party only: at any time a context is owed an
\* outcome by at most one starting thread, one entry of m_pending_auth or one
\* reader, and an id of m_pending_auth has one entry (RequestAuthorizationCode,
\* OnAuthReply and FailPendingRequests hand the context over and never share it).
OneCompleter ==
    /\ \A p, q \in pending : p.pkt = q.pkt \/ p.ctx = q.ctx => p = q
    /\ \A c \in Ctxs :
         /\ \A s, t \in Threads : Starting(s, c) /\ Starting(t, c) => s = t
         /\ \A j, k \in Clients : Completing(j, c) /\ Completing(k, c) => j = k
         /\ \A t \in Threads, k \in Clients : ~(Starting(t, c) /\ Completing(k, c))
         /\ \A t \in Threads : ~(Starting(t, c) /\ Registered(c))
         /\ \A k \in Clients : ~(Completing(k, c) /\ Registered(c))

\* The code is in the game's buffer exactly when the request reports success:
\* an abort, a delete or a sign-out that comes first leaves the buffer alone
\* (SetAuthorizationCode tests the result and writes under one lock).
CodeOnlyOnSuccess ==
    \A c \in Ctxs : requester[c] # NoUser => (code[c] # NoUser <=> result[c] = "OK")

\* No reply writes into a buffer whose owner has been told the request is over,
\* by a wait, a poll, an abort or a delete: the game may have freed it.
NoWriteAfterReturn ==
    [][\A c \in Ctxs : c \in returned => code'[c] = code[c]]_vars

\* What will still end entry p: the answer to its packet, the sign-out of its user's
\* client, which the worker begins when the connection is lost, or one under way.
Owed(p) ==
    \/ p.pkt \in inFlight[p.client]
    \/ clients[p.user] = p.client /\ clientState[p.client] = "dropped"
    \/ SigningOut(p.user)

\* No request is forgotten without one of two causes.  A started request without a
\* result has a thread that is still starting it, a reader that is completing it, or
\* an entry something will still end.  Otherwise m_pending_auth refused it, because its
\* packet id, which every client counts from 1, was another request's; or its entry
\* was left behind: made for a client that had ceased to be the user's, with nobody
\* about to fail the user's entries (RequestAuthorizationCode keeps the client it found
\* earlier), or held by a client that another sign-in of the user put out of m_clients.
UnansweredIsExplained ==
    \A c \in started : result[c] = Unset =>
        \/ \E t \in Threads : Starting(t, c)
        \/ \E k \in Clients : Completing(k, c)
        \/ \E p \in pending : p.ctx = c /\ Owed(p)
        \/ c \in refused \cup stranded

\* A code reaches a user who did not ask for it only if a request of the account the
\* code belongs to had no entry for its reply to find: emplace had refused it, or its
\* entry was gone, failed by a sign-out that was finished after the next sign-in
\* (FailPendingRequests goes by the user alone) or taken by another client's reply.
MisdeliveredOnlyIfLost ==
    \A c \in Ctxs : code[c] # NoUser /\ code[c] # requester[c] =>
        \E d \in refused \cup orphans : requester[d] = code[c]

\* A thread that waits for or polls a request whose id has been deleted finds its
\* outcome: DeleteRequest completes the context before the id goes away.
DeletedNeverBlocks ==
    \A t \in Threads : call[t].pc \in {"wait", "poll"} =>
        \/ result[call[t].ctx] # Unset
        \/ \E id \in DOMAIN requests : requests[id].ctx = call[t].ctx
=============================================================================
