-------------------------------- MODULE Score --------------------------------
(***************************************************************************)
(* Rankings, from the game's calls down to the reply of the server:        *)
(*                                                                         *)
(*   np_score.cpp          title contexts and requests (g_title_ctxs,      *)
(*                         g_requests), the calls that start an operation, *)
(*                         wait, poll, abort and delete;                   *)
(*   np_score_ctx.h        ScoreRequestCtx: BeginOp, SetResult, Wait;      *)
(*   np_handler_score.cpp  the submission and the reply;                   *)
(*   np_handler.cpp        what a sign-out does to a pending operation.    *)
(*                                                                         *)
(* Unlike Tus, the object a reply completes is the request's own, and one  *)
(* operation after the other goes through it: BeginOp clears the result of *)
(* the one before, whether or not that one has been answered.              *)
(***************************************************************************)
EXTENDS Sequences, ScoreApi, UserSession

CONSTANTS
    Threads,      \* game threads
    Kinds,        \* the kinds of operation the game's calls are for
    Characters,   \* the numbers of the characters a player may have
    CtxLimit,     \* ORBIS_NP_SCORE_MAX_CTX_NUM
    MaxTitles,    \* bound: title contexts made in one behaviour
    MaxRequests,  \* bound: requests made in one behaviour
    MaxOps,       \* bound: operations begun in one behaviour
    MaxParts      \* bound: pieces of a player's game data

ASSUME ScoreAssumption ==
    /\ {CtxLimit, MaxTitles, MaxRequests, MaxOps, MaxParts} \subseteq Nat
    /\ 0 \in Characters

VARIABLES
    titles,     \* g_title_ctxs: the ids in it
    character,  \* pc_id of each title context
    requests,   \* g_requests: the ids in it
    madeTitles, \* g_next_ctx_id - 1
    objs,       \* the ScoreRequestCtx objects, in the order of their ids
    ops,        \* history: the operations begun, in that order
    call,       \* what each game thread is doing inside the library
    pending,    \* m_pending_score: [pkt, op] with distinct pkt, and the session
    reader      \* the operation whose reply the reader handles, or 0

gameVars == <<titles, character, requests, madeTitles>>
vars == <<gameVars, objs, ops, call, pending, reader, sessionVars>>

-----------------------------------------------------------------------------
KindOps == {o \in Ops : o.kind \in Kinds}
Idle == [pc |-> "idle", req |-> 0, op |-> 0, does |-> CHOOSE o \in Ops : TRUE,
         sync |-> FALSE, session |-> 0, pkt |-> 0]

\* Game data: whose they are, and of which character.
GameData(player, pc) == <<player, pc>>
NoData == GameData("", 0)

\* A new ScoreRequestCtx; op, mixed and turned are history: the operation begun last,
\* whether one was ever begun while another was unfinished, and whether the character
\* was changed while data were being read.
NewObj(i) ==
    [title |-> i, result |-> "unset", of |-> 0, op |-> 0, mixed |-> FALSE, turned |-> FALSE,
     pc |-> character[i], key |-> "", offset |-> 0, cache |-> NoData,
     parts |-> 0, total |-> 0, first |-> 0]

\* An operation begun: why it may never get its result, whether the code has set
\* one, whether the game was told one, and what it read and wrote.
NewOp(r, does) ==
    [req |-> r, lost |-> "no", done |-> FALSE, told |-> FALSE, spoilt |-> FALSE,
     wrong |-> FALSE, fits |-> does.fits, key |-> "", pc |-> 0, room |-> 0, total |-> 0,
     got |-> <<>>, blob |-> <<>>]

\* History: what only an unfinished operation needs is forgotten.
Finished(o) ==
    [o EXCEPT !.done = TRUE, !.told = FALSE, !.room = 0,
              !.key = IF o.got = <<>> THEN "" ELSE @,
              !.pc = IF o.got = <<>> THEN 0 ELSE @]

Smaller(a, b) == IF a < b THEN a ELSE b

\* ScoreRequestCtx::SetResult keeps the first result.
SetResult(x, what, c) ==
    IF x.result = "unset" THEN [x EXCEPT !.result = what, !.of = c] ELSE x

\* Fault: an aborted request can be used again.
MayBegin_Always(r) == TRUE

\* ScoreRequestCtx::BeginOp refuses a request that was aborted ...
MayBegin(r) == objs[r].result # "aborted"

Unfinished(r) == \E c \in DOMAIN ops : ops[c].req = r /\ ~ops[c].done

\* Fault: the result of the operation before is kept.
BegunOp_KeepsResult(r, c) ==
    [objs[r] EXCEPT !.op = c,
       !.mixed = @ \/ Unfinished(r)]

\* ... and forgets the result of the operation before.
BegunOp(r, c) ==
    [objs[r] EXCEPT !.result = "unset", !.of = 0, !.op = c,
       !.mixed = @ \/ Unfinished(r)]

Init ==
    /\ titles = {} /\ requests = {} /\ madeTitles = 0
    /\ character = [i \in 1 .. MaxTitles |-> 0]
    /\ objs = <<>> /\ ops = <<>>
    /\ call = [t \in Threads |-> Idle]
    /\ pending = {} /\ reader = 0
    /\ SessionInit

-----------------------------------------------------------------------------
(* Title contexts and requests.  A call the library turns down changes     *)
(* nothing and has no action.                                              *)

CreateNpTitleCtx(t) ==
    /\ call[t].pc = "idle"
    /\ madeTitles < MaxTitles /\ Cardinality(titles) < CtxLimit
    /\ madeTitles' = madeTitles + 1
    /\ titles' = titles \cup {madeTitles + 1}
    /\ UNCHANGED <<character, requests, objs, ops, call, pending, reader, sessionVars>>

\* The form that names the user by id wants the user signed in.
CreateNpTitleCtxA(t) == session # 0 /\ CreateNpTitleCtx(t)

CreateRequest(t, i) ==
    /\ call[t].pc = "idle"
    /\ i \in titles
    /\ Len(objs) < MaxRequests /\ Cardinality(requests) < CtxLimit
    /\ requests' = requests \cup {Len(objs) + 1}
    /\ objs' = Append(objs, NewObj(i))
    /\ UNCHANGED <<titles, character, madeTitles, ops, call, pending, reader, sessionVars>>

\* SetResult(ABORTED) on each of the requests
AbortAll(rs) ==
    /\ objs' = [r \in DOMAIN objs |->
                  IF r \in rs THEN SetResult(objs[r], "aborted", 0) ELSE objs[r]]
    /\ ops' = [c \in DOMAIN ops |->
                 IF ops[c].req \in rs /\ ~ops[c].done THEN [ops[c] EXCEPT !.told = TRUE] ELSE ops[c]]

DeleteNpTitleCtx(t, i) ==
    LET gone == {r \in requests : objs[r].title = i}
    IN  /\ call[t].pc = "idle"
        /\ i \in titles
        /\ titles' = titles \ {i}
        /\ requests' = requests \ gone
        /\ AbortAll(gone)
        /\ UNCHANGED <<character, madeTitles, call, pending, reader, sessionVars>>

DeleteRequest(t, r) ==
    /\ call[t].pc = "idle"
    /\ requests' = requests \ {r}
    /\ AbortAll({r})
    /\ UNCHANGED <<titles, character, madeTitles, call, pending, reader, sessionVars>>

AbortRequest(t, r) ==
    /\ call[t].pc = "idle"
    /\ AbortAll({r})
    /\ UNCHANGED <<gameVars, call, pending, reader, sessionVars>>

\* sceNpScoreSetPlayerCharacterId, given a title context or a request: requests made
\* before keep the number they have.  Bounds: a number is only replaced by a larger one,
\* a title context's while a request may still be made, a request's between operations.
SetPlayerCharacterId(t, pc) ==
    /\ call[t].pc = "idle"
    /\ \/ /\ \E i \in titles : character[i] < pc /\ character' = [character EXCEPT ![i] = pc]
          /\ Len(objs) < MaxRequests
          /\ UNCHANGED objs
       \/ /\ \E r \in requests :
                /\ objs[r].pc < pc /\ Len(ops) \in 1 .. MaxOps - 1
                /\ objs' = [objs EXCEPT ![r].pc = pc,
                              ![r].turned = @ \/ Unfinished(r) \/ objs[r].offset # 0]
          /\ UNCHANGED character
    /\ UNCHANGED <<titles, requests, madeTitles, ops, call, pending, reader, sessionVars>>

-----------------------------------------------------------------------------
(* Starting an operation.                                                  *)

Goto(t, rec) == call' = [call EXCEPT ![t] = rec]
\* The blocking form waits on the request it was given.
Waiting(t) == [Idle EXCEPT !.pc = "wait", !.req = call[t].req]
Sent(t) == Goto(t, IF call[t].sync THEN Waiting(t) ELSE Idle)

\* LookupRequestUnlocked and BeginOp, under g_mutex
BeginOp(t, r, does, sync) ==
    LET c == Len(ops) + 1
    IN  /\ call[t].pc = "idle"
        /\ Len(ops) < MaxOps
        /\ MayBegin(r)
        /\ objs' = [objs EXCEPT ![r] = BegunOp(r, c)]
        /\ ops' = Append(ops, NewOp(r, does))
        /\ Goto(t, [Idle EXCEPT !.pc = "begun", !.req = r, !.op = c, !.does = does,
                                !.sync = sync])
        /\ UNCHANGED <<gameVars, pending, reader, sessionVars>>

\* The operation ends inside the call, with this result; x is its request and o
\* its history.
EndsHere(t, x, what, o) ==
    /\ objs' = [objs EXCEPT ![call[t].req] = SetResult(x, what, call[t].op)]
    /\ ops' = [ops EXCEPT ![call[t].op] = Finished(o)]
    /\ Goto(t, Idle)
    /\ UNCHANGED <<gameVars, pending, reader, sessionVars>>

\* NpHandler's search for the user's client; an error there is the result.  The
\* title's communication id may not be valid.
Dispatch(t, x, o, valid) ==
    IF session # 0 /\ valid
    THEN /\ objs' = [objs EXCEPT ![call[t].req] = x]
         /\ ops' = [ops EXCEPT ![call[t].op] = o]
         /\ Goto(t, [call[t] EXCEPT !.pc = "submit", !.session = session])
         /\ UNCHANGED <<gameVars, pending, reader, sessionVars>>
    ELSE EndsHere(t, x, "not sent", o)

Begun(t, kind) == call[t].pc = "begun" /\ call[t].does.kind = kind

\* RecordScore, the rankings and GetBoardInfo
StartSend(t, valid) ==
    /\ Begun(t, "send")
    /\ Dispatch(t, objs[call[t].req], ops[call[t].op], valid)

\* GetBoardInfo without a buffer, for an old SDK
StartNothing(t) ==
    /\ Begun(t, "nothing")
    /\ EndsHere(t, objs[call[t].req], "ok", ops[call[t].op])

\* CensorComment and SanitizeComment: a comment that is too long leaves the
\* operation without a result.
StartComment(t, fits) ==
    /\ Begun(t, "comment")
    /\ IF fits
       THEN EndsHere(t, objs[call[t].req], "ok", ops[call[t].op])
       ELSE /\ ops' = [ops EXCEPT ![call[t].op].lost = "too long"]
            /\ Goto(t, Idle)
            /\ UNCHANGED <<gameVars, objs, pending, reader, sessionVars>>

\* GetGameData and GetGameDataByAccountId with an empty id end here as well.
StartEmptyId(t) ==
    /\ Begun(t, "npid")
    /\ EndsHere(t, objs[call[t].req], "failed", ops[call[t].op])

\* What a read leaves of the cache: it got n pieces from start on.  Without a buffer,
\* which is room 0, it got less than it wanted.
AfterRead(x, start, n, room, cache) ==
    IF n < room \/ room = 0 THEN [x EXCEPT !.offset = 0, !.cache = NoData]
    ELSE [x EXCEPT !.offset = start + n, !.cache = cache]

\* Fault: the cache is used whatever it holds.
Cached_AnyKey(x, key) == x.offset # 0

\* ServeGameDataFromCache: the cache is for the player asked for last; the character
\* is not looked at.
Cached(x, key) == x.offset # 0 /\ x.key = key

\* Every player's game data has MaxParts pieces, and the cache holds all of it.
ReadData(t, room, valid) ==
    LET x == objs[call[t].req]
        key == call[t].does.kind
        start == Smaller(x.offset, IF x.cache = NoData THEN 0 ELSE MaxParts)
        n == Smaller(IF x.cache = NoData THEN 0 ELSE MaxParts - start, room)
        o == [ops[call[t].op] EXCEPT !.key = key, !.pc = x.pc, !.room = room]
    IN  /\ call[t].pc = "begun" /\ key \in {"npid", "acc"}
        /\ IF Cached(x, key)
           THEN EndsHere(t, AfterRead(x, start, n, room, x.cache), "ok",
                         [o EXCEPT !.got = <<x.cache, start, n>>])
           ELSE Dispatch(t, [x EXCEPT !.offset = 0, !.cache = NoData, !.key = key],
                         o, valid)

\* Fault: every piece announces the total anew.
Announced_Anew(x, total, c) ==
    [x EXCEPT !.total = total, !.first = IF x.parts = 0 THEN c ELSE @]

\* The first piece of a blob announces its size.
Announced(x, total, c) ==
    IF x.parts = 0 THEN [x EXCEPT !.total = total, !.first = c] ELSE x

\* RecordGameData: what exceeds the total is cut, and the last piece takes the
\* blob with it.
WriteData(t, size, total, valid) ==
    LET x == Announced(objs[call[t].req], total, call[t].op)
        parts == x.parts + Smaller(size, x.total - x.parts)
        o == [ops[call[t].op] EXCEPT !.total = total]
    IN  /\ Begun(t, "write")
        /\ IF parts < x.total
           THEN EndsHere(t, [x EXCEPT !.parts = parts], "ok", o)
           ELSE Dispatch(t, [x EXCEPT !.parts = 0, !.total = 0, !.first = 0],
                         [o EXCEPT !.blob = <<parts, x.first>>], valid)

SubmitRequest(t) ==
    /\ call[t].pc = "submit"
    /\ PacketSubmitted(call[t].session)
    /\ Goto(t, [call[t] EXCEPT !.pc = "register",
                              !.pkt = NextPacket(call[t].session)])
    /\ UNCHANGED <<gameVars, objs, ops, pending, reader>>

Lose(c, why) == ops' = [ops EXCEPT ![c].lost = why]

\* m_pending_score.emplace keeps an entry that already has the number.  The packet
\* may have been answered already, and the session may have ended.
Register(t) ==
    LET s == call[t].session
        p == call[t].pkt
        c == call[t].op
    IN  /\ call[t].pc = "register"
        /\ IF \E e \in pending : e.pkt = p
           THEN Lose(c, "number taken") /\ UNCHANGED pending
           ELSE /\ pending' = pending \cup {[pkt |-> p, op |-> c, session |-> s]}
                /\ IF Over(s) THEN Lose(c, "session over")
                   ELSE IF p \in missed THEN Lose(c, "overtaken")
                   ELSE UNCHANGED ops
        /\ Sent(t)
        /\ UNCHANGED <<gameVars, objs, reader, sessionVars>>

-----------------------------------------------------------------------------
(* The outcome.                                                            *)

WaitAsync(t, r) ==
    /\ call[t].pc = "idle"
    /\ Goto(t, [Idle EXCEPT !.pc = "wait", !.req = r])
    /\ UNCHANGED <<gameVars, objs, ops, pending, reader, sessionVars>>

\* The game takes the result for that of the operation it began last.
Told(r) ==
    /\ objs[r].result # "unset"
    /\ ops' = [c \in DOMAIN ops |->
                 IF c = objs[r].op /\ ~ops[c].done THEN [ops[c] EXCEPT !.told = TRUE] ELSE ops[c]]

WaitReturns(t) ==
    /\ call[t].pc = "wait"
    /\ Told(call[t].req)
    /\ Goto(t, Idle)
    /\ UNCHANGED <<gameVars, objs, pending, reader, sessionVars>>

PollAsync(t, r) ==
    /\ call[t].pc = "idle"
    /\ Told(r)
    /\ UNCHANGED <<gameVars, objs, call, pending, reader, sessionVars>>

\* OnScoreReply up to the unlock: a reply without an entry is dropped.
TakeReply(p) ==
    /\ reader = 0
    /\ PacketAnswered(p, \E e \in pending : e.pkt = p /\ e.session = last)
    /\ IF \E e \in pending : e.pkt = p
       THEN \E e \in pending :
              /\ e.pkt = p
              /\ pending' = pending \ {e}
              /\ reader' = e.op
              /\ ops' = [ops EXCEPT ![e.op].wrong = e.session # last]
       ELSE UNCHANGED <<pending, reader, ops>>
    /\ UNCHANGED <<gameVars, objs, call>>

\* Fault: a body that cannot be parsed sets no result.
CompleteOp_DropsBad(good) ==
    /\ reader # 0
    /\ ops' = [ops EXCEPT ![reader].done = good]
    /\ objs' = IF good THEN [objs EXCEPT ![ops[reader].req] =
                               SetResult(objs[ops[reader].req], "ok", reader)]
               ELSE objs
    /\ reader' = 0
    /\ UNCHANGED <<gameVars, call, pending, sessionVars>>

\* The rest of OnScoreReply.  A good reply fills the game's buffers and the cache,
\* whatever has become of the operation, and then the result is set.
CompleteOp(good) ==
    LET o == ops[reader]
        x == objs[o.req]
        n == Smaller(MaxParts, o.room)
        read == good /\ o.key # ""
    IN  /\ reader # 0
        /\ objs' = [objs EXCEPT ![o.req] =
                      SetResult(IF read THEN AfterRead(x, 0, n, o.room, GameData(o.key, o.pc)) ELSE x,
                                IF good THEN "ok" ELSE "failed", reader)]
        /\ ops' = [ops EXCEPT ![reader] =
                     Finished([o EXCEPT
                        !.spoilt = good /\ o.told,
                        !.got = IF read THEN <<GameData(o.key, o.pc), 0, n>> ELSE <<>>])]
        /\ reader' = 0
        /\ UNCHANGED <<gameVars, call, pending, sessionVars>>

-----------------------------------------------------------------------------
(* The user's sessions.                                                    *)
others == <<gameVars, objs, ops, call, pending, reader>>

SignIn == ConnectUser /\ UNCHANGED others
LoseConnection == reader = 0 /\ ConnectionLost /\ UNCHANGED others
Disconnect == ClientRemoved /\ UNCHANGED others
StopClient == reader = 0 /\ ClientStopped /\ UNCHANGED others

\* The loop of FailPendingRequests over m_pending_score, in the packets' order
FailEntries ==
    LET of(r) == {e \in pending : ops[e.op].req = r}
        first(r) == CHOOSE e \in of(r) : \A f \in of(r) : e.pkt <= f.pkt
    IN  /\ pending' = {}
        /\ objs' = [r \in DOMAIN objs |->
                      IF of(r) = {} THEN objs[r]
                      ELSE SetResult(objs[r], "signed out", first(r).op)]
        /\ ops' = [c \in DOMAIN ops |->
                     IF \E e \in pending : e.op = c
                     THEN Finished(ops[c]) ELSE ops[c]]

FailPendingRequests ==
    FailEntries /\ PendingFailed /\ UNCHANGED <<gameVars, call, reader>>

-----------------------------------------------------------------------------
GameCalls(t) ==
    \/ CreateNpTitleCtx(t) \/ CreateNpTitleCtxA(t)
    \/ \E pc \in Characters : SetPlayerCharacterId(t, pc)
    \/ \E i \in titles : DeleteNpTitleCtx(t, i) \/ CreateRequest(t, i)
    \/ \E r \in requests :
         \/ DeleteRequest(t, r)
         \/ AbortRequest(t, r)
         \/ \E does \in KindOps, sync \in BOOLEAN : BeginOp(t, r, does, sync)
         \/ WaitAsync(t, r)
         \/ PollAsync(t, r)

CallStep(t) ==
    \/ \E valid \in BOOLEAN :
         \/ StartSend(t, valid)
         \/ \E room \in 0 .. MaxParts : ReadData(t, room, valid)
         \/ \E size, total \in 1 .. MaxParts : WriteData(t, size, total, valid)
    \/ StartNothing(t)
    \/ \E fits \in BOOLEAN : StartComment(t, fits)
    \/ StartEmptyId(t)
    \/ SubmitRequest(t)
    \/ Register(t)
    \/ WaitReturns(t)

Next ==
    \/ \E t \in Threads : GameCalls(t) \/ CallStep(t)
    \/ \E p \in inFlight : TakeReply(p)
    \/ \E good \in BOOLEAN : CompleteOp(good)
    \/ SignIn \/ LoseConnection \/ Disconnect \/ StopClient \/ FailPendingRequests

Spec == Init /\ [][Next]_vars

-----------------------------------------------------------------------------
Results == {"unset", "ok", "failed", "aborted", "signed out", "not sent"}
Losses == {"no", "too long", "number taken", "session over", "overtaken"}
Players == {"", "npid", "acc"}
Objs == [title : 1 .. MaxTitles, result : Results, of : 0 .. MaxOps, op : 0 .. MaxOps,
         mixed : BOOLEAN, turned : BOOLEAN, pc : Characters, key : Players,
         offset : 0 .. MaxParts, cache : Players \X Characters,
         parts : 0 .. MaxParts, total : 0 .. MaxParts, first : 0 .. MaxOps]
OpRecs == [req : 1 .. MaxRequests, lost : Losses, done : BOOLEAN, told : BOOLEAN,
           spoilt : BOOLEAN, wrong : BOOLEAN, fits : BOOLEAN, key : Players,
           pc : Characters, room : 0 .. MaxParts, total : 0 .. MaxParts,
           got : {<<>>} \cup (Players \X Characters) \X (0 .. MaxParts) \X (0 .. MaxParts),
           blob : {<<>>} \cup (0 .. MaxParts) \X (0 .. MaxOps)]
Calls == [pc : {"idle", "begun", "submit", "register", "wait"}, req : 0 .. MaxRequests,
          op : 0 .. MaxOps, does : Ops, sync : BOOLEAN, session : 0 .. MaxSessions, pkt : Nat]

\* The variables keep their types: a request belongs to a title context, a packet
\* number to one entry, and less is collected of a blob than was announced.
TypeOK ==
    /\ titles \subseteq 1 .. MaxTitles
    /\ character \in [1 .. MaxTitles -> Characters]
    /\ requests \subseteq DOMAIN objs
    /\ \A r \in requests : objs[r].title \in titles
    /\ objs \in Seq(Objs) /\ Len(objs) <= MaxRequests
    /\ \A r \in DOMAIN objs : objs[r].parts < objs[r].total \/ objs[r].total = 0
    /\ madeTitles \in 0 .. MaxTitles
    /\ ops \in Seq(OpRecs) /\ Len(ops) <= MaxOps
    /\ \A c \in DOMAIN ops : ops[c].req \in DOMAIN objs
    /\ call \in [Threads -> Calls]
    /\ pending \subseteq [pkt : Nat, op : DOMAIN ops, session : Sessions]
    /\ \A e, f \in pending : e.pkt = f.pkt => e = f
    /\ reader \in 0 .. Len(ops)
    /\ SessionTypeOK

\* An operation the code has set no result for is still on its way, or was
\* forgotten in one of four ways: its comment was too long, its number was taken,
\* its reply came before its entry, its session ended before its entry.  Once the
\* operation begun last on a request has its result, who waits there can see it.
UnansweredIsExplained ==
    \A c \in DOMAIN ops :
        IF ops[c].done
        THEN objs[ops[c].req].op = c => objs[ops[c].req].result # "unset"
        ELSE \/ ops[c].lost # "no"
             \/ reader = c
             \/ \E t \in Threads : call[t].op = c
             \/ \E e \in pending :
                  e.op = c /\ e.session = last /\ StillExpected(e.pkt)

\* The game takes the result of one operation for that of another only if it began
\* an operation on the request before the one before had its result.
AnswerIsOwn ==
    \A r \in DOMAIN objs :
        objs[r].of \notin {0, objs[r].op} => objs[r].mixed

\* The game's buffers are filled after it was told the outcome only if it aborted
\* or deleted the request, or began one operation over another.
SpoiltIsExplained ==
    \A c \in DOMAIN ops : ops[c].spoilt =>
        objs[ops[c].req].result = "aborted" \/ objs[ops[c].req].mixed

\* On a request whose operations never overlapped a read returns the data of the
\* player it names, and of the request's character unless that was changed while data
\* were being read (the cache is not dropped), and goes on where the read before it
\* stopped.
ReadsGoOn ==
    \A c \in DOMAIN ops :
        LET o == ops[c] x == objs[o.req]
        IN o.got # <<>> /\ ~x.mixed /\ ~o.wrong =>
            /\ o.got[1] = GameData(o.key, o.pc) \/ (x.turned /\ o.got[1][1] = o.key)
            /\ o.got[2] # 0 =>
                 \E d \in 1 .. c - 1 :
                    /\ ops[d].req = o.req /\ ops[d].got # <<>>
                    /\ ops[d].got[1] = o.got[1]
                    /\ ops[d].got[2] + ops[d].got[3] = o.got[2]

\* A blob that is sent has the size its first piece announced, whatever the later
\* pieces say.
BlobIsWhole ==
    \A c \in DOMAIN ops :
        ops[c].blob # <<>> => ops[c].blob[1] = ops[ops[c].blob[2]].total

\* Game data read or written in parts is one player's, and whole.
GameDataIsWhole == ReadsGoOn /\ BlobIsWhole

\* The replies that fill arrays were asked for with arrays of their kind and size.
RepliesFit == \A c \in DOMAIN ops : ops[c].fits

\* On a request whose operations never overlap each reply is for the operation that
\* asked for it, fits its buffers, and finds the game waiting or the request aborted.
RepliesAreOwn == TypeOK /\ AnswerIsOwn /\ SpoiltIsExplained /\ RepliesFit

\* An aborted request stays aborted: no operation begins on it again, and no reply
\* that is still to come changes what the game reads.
AbortSticks ==
    [][\A r \in DOMAIN objs : objs[r].result = "aborted" =>
          objs'[r].result = "aborted" /\ objs'[r].op = objs[r].op]_vars
=============================================================================
