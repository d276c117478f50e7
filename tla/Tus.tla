--------------------------------- MODULE Tus ---------------------------------
(***************************************************************************)
(* Title user storage and title small storage, from the game's calls down  *)
(* to the reply of the server:                                             *)
(*                                                                         *)
(*   np_tus.cpp          title contexts and requests (g_title_ctxs,        *)
(*                       g_requests), the calls that start an operation,   *)
(*                       wait, poll, abort and delete, and the chunks of a *)
(*                       transfer (NpTusDataXfer);                         *)
(*   np_tus_ctx.h        TusRequestCtx, the result of one operation;       *)
(*   np_handler_tus.cpp  the submission and the reply;                     *)
(*   np_handler.cpp      what a sign-out does to a pending operation.      *)
(*                                                                         *)
(* One user signs in and out; each sign-in is a session, with a client     *)
(* whose packets count from one.  Unlike NpAuth, a request may start one   *)
(* operation after the other, the request is used after its mutex is       *)
(* released, and a packet is submitted before it is registered.            *)
(***************************************************************************)
EXTENDS Sequences, TusApi, UserSession

CONSTANTS
    Threads,      \* game threads
    Games,        \* what the game's calls are for, see game
    TitleLimit,   \* TusMaxTitleCtx
    RequestLimit, \* TusMaxRequests
    MaxTitles,    \* bound: title contexts made in one behaviour
    MaxRequests,  \* bound: requests made in one behaviour
    MaxParts      \* bound: chunks of one transfer

ASSUME TusAssumption ==
    /\ \A g \in Games : g.kinds \subseteq {"none", "read", "write"}
    /\ \A g \in Games : g.syncs \subseteq BOOLEAN
    /\ \A g \in Games : g.ops \in Nat /\ g.sessions \in 0 .. MaxSessions
    /\ {TitleLimit, RequestLimit, MaxTitles, MaxRequests, MaxParts} \subseteq Nat

VARIABLES
    titles,     \* g_title_ctxs: the ids in it
    requests,   \* g_requests: id -> [title, ctx, xfer]
    made,       \* g_next_ctx_id - 1 and g_next_req_id - 1
    ctxs,       \* the TusRequestCtx objects, in the order they were made
    call,       \* what each game thread is doing inside the library
    pending,    \* m_pending_tus: [pkt, ctx] with distinct pkt, and the session
    reader,     \* the operation the reader completes, or 0
    begun,      \* history: transfers begun
    game        \* the kinds of transfer the game's calls are for, whether they are
                \* blocking calls, and two bounds: the operations it starts and
                \* the sign-ins meanwhile

requestVars == <<titles, requests, made, begun>>
replyVars   == <<pending, reader>>
vars == <<requestVars, ctxs, call, sessionVars, replyVars, game>>

-----------------------------------------------------------------------------
NoXfer == [active |-> FALSE, owner |-> "", serial |-> 0, total |-> 0,
           parts |-> <<>>, received |-> 0]
KindOps == {o \in Ops : o.transfer \in game.kinds}
SmallStorage == Op(TssGetSmallStorage, {})
Idle == [pc |-> "idle", req |-> 0, op |-> SmallStorage, ctx |-> 0,
         session |-> 0, pkt |-> 0, sync |-> FALSE, read |-> <<>>,
         blob |-> <<>>, partial |-> FALSE]
\* A new TusRequestCtx; the rest is history: why it may never be completed, how
\* far the game is with it, the chunk it reads and the blob it writes.
NewCtx(op, read, blob) ==
    [result |-> "unset", lost |-> "no", owned |-> TRUE, spoilt |-> FALSE,
     wrong |-> FALSE, read |-> read, blob |-> blob, fits |-> op.fits,
     astray |-> op.astray]

\* TusRequestCtx::SetResult keeps the first result.
SetResult(x, r) == IF x.result = "unset" THEN [x EXCEPT !.result = r] ELSE x

\* Fault: any transfer in progress is continued.
SameTarget_Any(x, owner) == x.active

\* NpTusDataXfer::SameTarget
SameTarget(x, owner) == x.active /\ x.owner = owner

\* NpTusDataXfer::Begin
BeginXfer(owner, total, serial) ==
    [NoXfer EXCEPT !.active = TRUE, !.owner = owner, !.total = total,
                   !.serial = serial]

\* The transfer that t's call continues or begins, if the request still exists
XferOf(t, total) ==
    {IF SameTarget(requests[r].xfer, call[t].op.owner) THEN requests[r].xfer
     ELSE BeginXfer(call[t].op.owner, total, begun + 1) :
        r \in {call[t].req} \cap DOMAIN requests}

\* Fault: the offset is not advanced.
Received_Same(x, data) == x

\* A read with a buffer claims its bytes before they have arrived.
Received(x, data) == IF data THEN [x EXCEPT !.received = @ + 1] ELSE x

Restrict(f, S) == [x \in S |-> f[x]]

Init ==
    /\ game \in Games
    /\ titles = {} /\ requests = Restrict(<<>>, {}) /\ made = [title |-> 0, req |-> 0]
    /\ begun = 0
    /\ ctxs = <<>>
    /\ call = [t \in Threads |-> Idle]
    /\ pending = {} /\ reader = 0
    /\ SessionInit

-----------------------------------------------------------------------------
(* Title contexts and requests.  A call the library turns down changes     *)
(* nothing and has no action.                                              *)

CreateNpTitleCtx(t) ==
    /\ call[t].pc = "idle"
    /\ made.title < MaxTitles /\ Cardinality(titles) < TitleLimit
    /\ made' = [made EXCEPT !.title = @ + 1]
    /\ titles' = titles \cup {made.title + 1}
    /\ UNCHANGED <<requests, begun, ctxs, call, sessionVars, replyVars>>

CreateRequest(t, i) ==
    /\ call[t].pc = "idle"
    /\ i \in titles
    /\ made.req < MaxRequests /\ Cardinality(DOMAIN requests) < RequestLimit
    /\ made' = [made EXCEPT !.req = @ + 1]
    /\ requests' = [r \in DOMAIN requests \cup {made.req + 1} |->
                      IF r = made.req + 1 THEN [title |-> i, ctx |-> 0, xfer |-> NoXfer]
                      ELSE requests[r]]
    /\ UNCHANGED <<titles, begun, ctxs, call, sessionVars, replyVars>>

\* SetResult(ABORTED) on the operation of each of the requests
AbortOps(rs) ==
    ctxs' = [c \in DOMAIN ctxs |->
               IF \E r \in rs : requests[r].ctx = c
               THEN [SetResult(ctxs[c], "aborted") EXCEPT !.owned = FALSE]
               ELSE ctxs[c]]

DeleteNpTitleCtx(t, i) ==
    LET gone == {r \in DOMAIN requests : requests[r].title = i}
    IN  /\ call[t].pc = "idle"
        /\ i \in titles
        /\ titles' = titles \ {i}
        /\ requests' = Restrict(requests, DOMAIN requests \ gone)
        /\ AbortOps(gone)
        /\ UNCHANGED <<made, begun, call, sessionVars, replyVars>>

DeleteRequest(t, r) ==
    /\ call[t].pc = "idle"
    /\ requests' = Restrict(requests, DOMAIN requests \ {r})
    /\ AbortOps({r})
    /\ UNCHANGED <<titles, made, begun, call, sessionVars, replyVars>>

AbortRequest(t, r) ==
    /\ call[t].pc = "idle"
    /\ AbortOps({r})
    /\ UNCHANGED <<requestVars, call, sessionVars, replyVars>>

-----------------------------------------------------------------------------
(* Starting an operation.                                                  *)

Goto(t, rec) == call' = [call EXCEPT ![t] = rec]
\* A call that is done goes back to the game, or on to WaitAsync.
Done(t) ==
    Goto(t, IF call[t].sync THEN [Idle EXCEPT !.pc = "again", !.req = call[t].req]
            ELSE Idle)

\* ResolveTus: the request is looked up, and used without g_mutex from here on.
ResolveTus(t, r, op, sync) ==
    /\ call[t].pc = "idle"
    /\ Len(ctxs) + Cardinality({u \in Threads : call[u].pc \in {"xfer", "start"}})
         < game.ops
    /\ Goto(t, [Idle EXCEPT !.pc = IF op.transfer = "none" THEN "start" ELSE "xfer",
                            !.req = r, !.op = op, !.sync = sync])
    /\ UNCHANGED <<requestVars, ctxs, sessionVars, replyVars>>

\* The transfer state, under g_mutex again.  A transfer begins anew when the
\* target has changed; what the old one had collected is dropped.
Transfer(t, x) ==
    /\ requests' = [requests EXCEPT ![call[t].req].xfer = x]
    /\ begun' = IF x.serial > begun THEN x.serial ELSE begun
    /\ UNCHANGED <<titles, made, ctxs, sessionVars, replyVars>>

\* The GetData calls and TssGetData: without a buffer nothing is claimed.
ReadData(t, data) ==
    /\ call[t].pc = "xfer" /\ call[t].op.transfer = "read"
    /\ \E x \in XferOf(t, 0) :
         /\ x.received < MaxParts
         /\ Transfer(t, Received(x, data))
         /\ Goto(t, [call[t] EXCEPT !.pc = "start",
                       !.read = IF data THEN <<x.serial, x.received>> ELSE <<>>])

\* TssGetData with an offset of the game's own: the bytes count all the same.
ReadDataAt(t) ==
    /\ call[t].pc = "xfer" /\ call[t].op.owner = ""
    /\ \E x \in XferOf(t, 0) :
         /\ x.received < MaxParts
         /\ Transfer(t, Received(x, TRUE))
         /\ Goto(t, [call[t] EXCEPT !.pc = "start"])

\* The SetData calls: the chunk is appended, and the last chunk takes the blob.
WriteData(t, total) ==
    /\ call[t].pc = "xfer" /\ call[t].op.transfer = "write"
    /\ \E x \in XferOf(t, total) :
         LET parts == Append(x.parts, call[t].op.owner)
             whole == Len(parts) >= x.total
         IN  /\ Len(parts) <= MaxParts
             /\ Transfer(t, IF whole THEN [NoXfer EXCEPT !.serial = x.serial]
                            ELSE [x EXCEPT !.parts = parts])
             /\ Goto(t, [call[t] EXCEPT !.pc = "start", !.partial = ~whole,
                           !.blob = IF whole THEN parts ELSE <<>>])

\* The request was deleted after ResolveTus: the transfer state is read from
\* freed memory, and any target, offset and length may be found there.
Stray(t) ==
    /\ call[t].pc = "xfer" /\ call[t].req \notin DOMAIN requests
    /\ \E partial \in {FALSE, call[t].op.transfer = "write"} :
         Goto(t, [call[t] EXCEPT !.pc = "start", !.partial = partial])
    /\ UNCHANGED <<requestVars, ctxs, sessionVars, replyVars>>

\* A new context, put into the request without a lock, and NpHandler's search
\* for the user's client.  The operation ends here if it is a chunk that is not
\* the last, if the user is signed out, or if the title's communication id is
\* not valid; in the last two cases the context stays in the request.
StartOp(t, valid) ==
    LET c == Len(ctxs) + 1
        sent == ~call[t].partial /\ session # 0 /\ valid
        new == NewCtx(call[t].op, call[t].read, call[t].blob)
    IN  /\ call[t].pc = "start"
        /\ requests' = IF call[t].req \in DOMAIN requests
                       THEN [requests EXCEPT ![call[t].req].ctx = c] ELSE requests
        /\ ctxs' = Append(ctxs, IF call[t].partial THEN SetResult(new, "ok")
                                ELSE IF sent THEN new
                                ELSE [new EXCEPT !.lost = "not sent"])
        /\ IF sent THEN Goto(t, [Idle EXCEPT !.pc = "submit", !.ctx = c,
                                   !.session = session, !.sync = call[t].sync,
                                   !.req = call[t].req])
           ELSE IF call[t].partial THEN Done(t)
           ELSE Goto(t, Idle)
        /\ UNCHANGED <<titles, made, begun, sessionVars, replyVars>>

\* FakeAsyncComplete: sceNpTssGetStorageAsync has its result at once.
FakeAsyncComplete(t, r) ==
    /\ call[t].pc = "idle"
    /\ Len(ctxs) + Cardinality({u \in Threads : call[u].pc \in {"xfer", "start"}})
         < game.ops
    /\ requests' = [requests EXCEPT ![r].ctx = Len(ctxs) + 1]
    /\ ctxs' = Append(ctxs, SetResult(NewCtx(SmallStorage, <<>>, <<>>), "ok"))
    /\ UNCHANGED <<titles, made, begun, call, sessionVars, replyVars>>

\* ShadNetClient::SubmitRequest
SubmitRequest(t) ==
    /\ call[t].pc = "submit"
    /\ PacketSubmitted(call[t].session)
    /\ Goto(t, [call[t] EXCEPT !.pc = "register",
                              !.pkt = NextPacket(call[t].session)])
    /\ UNCHANGED <<requestVars, ctxs, replyVars>>

Lose(c, why) == ctxs' = [ctxs EXCEPT ![c].lost = why]

\* m_pending_tus.emplace keeps an entry that already has the number.  The packet
\* may have been answered already, and the session may have ended.
Register(t) ==
    LET s == call[t].session
        p == call[t].pkt
        c == call[t].ctx
    IN  /\ call[t].pc = "register"
        /\ IF \E e \in pending : e.pkt = p
           THEN Lose(c, "number taken") /\ UNCHANGED pending
           ELSE /\ pending' = pending \cup {[pkt |-> p, ctx |-> c, session |-> s]}
                /\ IF Over(s) THEN Lose(c, "session over")
                   ELSE IF p \in missed THEN Lose(c, "overtaken")
                   ELSE UNCHANGED ctxs
        /\ Done(t)
        /\ UNCHANGED <<requestVars, sessionVars, reader>>

-----------------------------------------------------------------------------
(* The outcome.                                                            *)

\* sceNpTusWaitAsync looks the request up; a blocking call does so once more,
\* and reports an error if the request is gone.
WaitAsync(t, r) ==
    /\ call[t].pc = "idle"
    /\ requests[r].ctx # 0
    /\ Goto(t, [Idle EXCEPT !.pc = "wait", !.ctx = requests[r].ctx])
    /\ UNCHANGED <<requestVars, ctxs, sessionVars, replyVars>>

WaitAgain(t) ==
    LET r == call[t].req
    IN  /\ call[t].pc = "again"
        /\ Goto(t, IF r \in DOMAIN requests /\ requests[r].ctx # 0
                   THEN [Idle EXCEPT !.pc = "wait", !.ctx = requests[r].ctx]
                   ELSE Idle)
        /\ UNCHANGED <<requestVars, ctxs, sessionVars, replyVars>>

Reported(c) == ctxs' = [ctxs EXCEPT ![c].owned = FALSE]

WaitReturns(t) ==
    /\ call[t].pc = "wait"
    /\ ctxs[call[t].ctx].result # "unset"
    /\ Reported(call[t].ctx)
    /\ Goto(t, Idle)
    /\ UNCHANGED <<requestVars, sessionVars, replyVars>>

PollAsync(t, r) ==
    /\ call[t].pc = "idle"
    /\ requests[r].ctx # 0
    /\ ctxs[requests[r].ctx].result # "unset"
    /\ Reported(requests[r].ctx)
    /\ UNCHANGED <<requestVars, call, sessionVars, replyVars>>

\* Fault: a body that cannot be parsed is dropped with its entry.
TakeReply_DropsBad(p) ==
    /\ reader = 0
    /\ PacketAnswered(p, TRUE)
    /\ pending' = {e \in pending : e.pkt # p}
    /\ UNCHANGED <<requestVars, ctxs, call, reader>>

\* OnTusReply up to the unlock: a reply without an entry is dropped.
TakeReply(p) ==
    /\ reader = 0
    /\ PacketAnswered(p, \E e \in pending : e.pkt = p /\ e.session = last)
    /\ IF \E e \in pending : e.pkt = p
       THEN \E e \in pending :
              /\ e.pkt = p
              /\ pending' = pending \ {e}
              /\ reader' = e.ctx
              /\ ctxs' = [ctxs EXCEPT ![e.ctx].wrong = e.session # last]
       ELSE UNCHANGED <<pending, reader, ctxs>>
    /\ UNCHANGED <<requestVars, call>>

\* The rest of OnTusReply.  A good reply fills the game's buffers, whatever has
\* become of the operation, and then the result is set.
CompleteOp(good) ==
    LET done == SetResult(ctxs[reader], IF good THEN "ok" ELSE "failed")
        late == good /\ ~ctxs[reader].owned
    IN  /\ reader # 0
        /\ ctxs' = [ctxs EXCEPT ![reader] = IF late THEN [done EXCEPT !.spoilt = TRUE] ELSE done]
        /\ reader' = 0
        /\ UNCHANGED <<requestVars, call, sessionVars, pending>>

-----------------------------------------------------------------------------
(* The user's sessions.                                                    *)

SignIn ==
    last < game.sessions /\ ConnectUser /\ UNCHANGED <<requestVars, ctxs, call, replyVars>>

LoseConnection ==
    reader = 0 /\ ConnectionLost /\ UNCHANGED <<requestVars, ctxs, call, replyVars>>

Disconnect == ClientRemoved /\ UNCHANGED <<requestVars, ctxs, call, replyVars>>

StopClient ==
    reader = 0 /\ ClientStopped /\ UNCHANGED <<requestVars, ctxs, call, replyVars>>

\* Fault: the entries stay in the map.
FailEntries_Keeps ==
    /\ UNCHANGED pending
    /\ ctxs' = [c \in DOMAIN ctxs |->
                  IF \E e \in pending : e.ctx = c
                  THEN SetResult(ctxs[c], "signed out") ELSE ctxs[c]]

\* The loop of FailPendingRequests over m_pending_tus
FailEntries ==
    /\ pending' = {}
    /\ ctxs' = [c \in DOMAIN ctxs |->
                  IF \E e \in pending : e.ctx = c
                  THEN SetResult(ctxs[c], "signed out") ELSE ctxs[c]]

FailPendingRequests ==
    FailEntries /\ PendingFailed /\ UNCHANGED <<requestVars, call, reader>>

-----------------------------------------------------------------------------
GameCalls(t) ==
    \/ CreateNpTitleCtx(t)
    \/ \E i \in titles : DeleteNpTitleCtx(t, i) \/ CreateRequest(t, i)
    \/ \E r \in DOMAIN requests :
         \/ DeleteRequest(t, r)
         \/ AbortRequest(t, r)
         \/ \E op \in KindOps, sync \in game.syncs : ResolveTus(t, r, op, sync)
         \/ FakeAsyncComplete(t, r)
         \/ WaitAsync(t, r)
         \/ PollAsync(t, r)

CallStep(t) ==
    \/ \E data \in BOOLEAN : ReadData(t, data)
    \/ ReadDataAt(t)
    \/ \E total \in 1 .. MaxParts : WriteData(t, total)
    \/ Stray(t)
    \/ \E valid \in BOOLEAN : StartOp(t, valid)
    \/ SubmitRequest(t)
    \/ Register(t)
    \/ WaitAgain(t)
    \/ WaitReturns(t)

ReplyStep == \E p \in inFlight : TakeReply(p)
CompleteStep == \E good \in BOOLEAN : CompleteOp(good)
DisconnectStep == StopClient \/ FailPendingRequests
WorkerPolls == ~up /\ Disconnect

Next ==
    /\ \/ \E t \in Threads : GameCalls(t) \/ CallStep(t)
       \/ ReplyStep \/ CompleteStep
       \/ SignIn \/ LoseConnection \/ Disconnect \/ DisconnectStep
    /\ UNCHANGED game

Spec == Init /\ [][Next]_vars

\* The threads inside the library run; the server answers while it is connected,
\* and the reader takes what it answers; the worker polls for lost connections,
\* and a sign-out once begun goes on.
Fairness ==
    /\ \A t \in Threads : WF_vars(CallStep(t) /\ UNCHANGED game)
    /\ WF_vars((ReplyStep \/ CompleteStep) /\ UNCHANGED game)
    /\ WF_vars((DisconnectStep \/ WorkerPolls) /\ UNCHANGED game)

FairSpec == Spec /\ Fairness

-----------------------------------------------------------------------------
Parts == Seq({"account", Name})
Reads == {<<>>} \cup (Nat \X (0 .. MaxParts))
Xfers == [active : BOOLEAN, owner : {"", "account", Name}, serial : Nat,
          total : 0 .. MaxParts, parts : Parts, received : 0 .. MaxParts]
Requests == [title : titles, ctx : 0 .. Len(ctxs), xfer : Xfers]
Ctxs == [result : {"unset", "ok", "failed", "aborted", "signed out"},
         lost : {"no", "not sent", "number taken", "overtaken", "session over"},
         owned : BOOLEAN, spoilt : BOOLEAN, wrong : BOOLEAN, read : Reads,
         blob : Parts, fits : BOOLEAN, astray : BOOLEAN]
Entries == [pkt : Nat \ {0}, ctx : 1 .. Len(ctxs), session : Sessions]
Calls == [pc : {"idle", "xfer", "start", "submit", "register", "again", "wait"},
          req : Nat, op : Ops, ctx : 0 .. Len(ctxs), session : 0 .. MaxSessions,
          pkt : Nat, sync : BOOLEAN, read : Reads, blob : Parts, partial : BOOLEAN]

\* The variables keep their types: at most one entry per packet number, and a
\* request belongs to a title context (ResolveTus's second check never fails).
TypeOK ==
    /\ game \in Games /\ begun \in Nat
    /\ made \in [title : 0 .. MaxTitles, req : 0 .. MaxRequests]
    /\ titles \subseteq 1 .. MaxTitles
    /\ DOMAIN requests \subseteq 1 .. MaxRequests
    /\ \A r \in DOMAIN requests : requests[r] \in Requests
    /\ ctxs \in Seq(Ctxs)
    /\ call \in [Threads -> Calls]
    /\ SessionTypeOK
    /\ pending \subseteq Entries
    /\ \A e, f \in pending : e.pkt = f.pkt => e = f
    /\ reader \in 0 .. Len(ctxs)

\* An operation without a result is still on its way: a thread is about to
\* register it, the reader holds it, its packet will be answered, or a sign-out
\* is about to fail it.  The four ways in which the code forgets one are
\* named: it was not sent, its number was taken, its reply came before its
\* entry, its session ended before its entry.
UnansweredIsExplained ==
    \A c \in DOMAIN ctxs : ctxs[c].result = "unset" /\ ctxs[c].lost = "no" =>
        \/ reader = c
        \/ \E t \in Threads : call[t].ctx = c /\ call[t].pc \in {"submit", "register"}
        \/ \E e \in pending :
             /\ e.ctx = c /\ e.session = last
             /\ StillExpected(e.pkt)

\* A reply completes an operation of another session only if the operation had
\* been forgotten: packet numbers start again, and the map is keyed by them alone.
MisdeliveredOnlyIfLost ==
    \A c \in DOMAIN ctxs : ctxs[c].wrong => ctxs[c].lost # "no"

\* The game's buffers are filled after the game was told the outcome only if the
\* game itself aborted the operation or deleted its request.
SpoiltOnlyByAbort ==
    \A c \in DOMAIN ctxs : ctxs[c].spoilt => ctxs[c].result = "aborted"

\* Two reads of one transfer never claim the same bytes, whichever threads make
\* them.
EachChunkOnce ==
    \A b, c \in DOMAIN ctxs :
        b # c /\ ctxs[b].read # <<>> => ctxs[b].read # ctxs[c].read

\* A blob is put together from chunks for one target: chunks for two targets,
\* interleaved on one request by two threads, start over.
BlobOneTarget ==
    \A c \in DOMAIN ctxs : \A i, j \in DOMAIN ctxs[c].blob :
        ctxs[c].blob[i] = ctxs[c].blob[j]

\* What is transferred in parts is whole, however two threads' parts interleave.
TransfersAreWhole == TypeOK /\ EachChunkOnce /\ BlobOneTarget

\* The replies that fill an array were asked for with an array of the size the
\* length implies, by every one of the calls.
RepliesFit == \A c \in DOMAIN ctxs : ctxs[c].fits

\* A call for a virtual user never reaches the server as one for the caller.
NoneAstray == \A c \in DOMAIN ctxs : ~ctxs[c].astray

\* A reply fills what its operation asked for, for whom it asked, while the game waits.
RepliesAreOwn ==
    MisdeliveredOnlyIfLost /\ SpoiltOnlyByAbort /\ RepliesFit /\ NoneAstray

\* A thread that waits for an operation gets out of it, unless the operation was
\* forgotten in one of the four ways.
WaitEnds ==
    \A t \in Threads :
        call[t].pc = "wait" ~> (call[t].pc # "wait" \/ ctxs[call[t].ctx].lost # "no")
=============================================================================
