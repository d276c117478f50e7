----------------------------- MODULE Score_Proofs -----------------------------
(***************************************************************************)
(* What the run of MCScore checks of Score on two threads and one request  *)
(* is proved here for every number of threads, requests, operations,       *)
(* sessions and pieces, and any kinds of operation.                        *)
(***************************************************************************)
EXTENDS Score, FiniteSetTheorems, WellFoundedInduction, TLAPS

-----------------------------------------------------------------------------
(* The inductive invariant, in parts.                                      *)

\* What a thread carries, by how far it has come
Sending == {"begun", "submit", "register"}
Stage(x) ==
    /\ IF x.pc \in Sending THEN x.op \in DOMAIN ops /\ x.req = ops[x.op].req ELSE x.op = 0
    /\ x.pc = "wait" => x.req \in DOMAIN objs
    /\ x.pc \in {"submit", "register"} => x.session \in 1 .. last
    /\ x.pc = "register" => x.pkt \in 1 .. counter[x.session]

\* What a session's end leaves, and that every entry is of a packet that was sent
SessionEnds ==
    /\ task # "none" => session = 0
    /\ session = 0 /\ task # "stop" => ~up /\ inFlight = {}
Sessioned ==
    /\ SessionEnds
    /\ \A e \in pending : e.session \in 1 .. last /\ e.pkt \in 1 .. counter[e.session]

\* Of a blob that has no size nothing is collected.
Announcing == \A r \in DOMAIN objs : objs[r].total = 0 => objs[r].parts = 0

\* The operation that was begun last on a request is one of its own.
LastBegun ==
    \A r \in DOMAIN objs : objs[r].op # 0 => objs[r].op \in DOMAIN ops /\ ops[objs[r].op].req = r

Typed == TypeOK /\ Sessioned /\ Announcing /\ LastBegun /\ \A t \in Threads : Stage(call[t])

-----------------------------------------------------------------------------
\* Who will complete an operation: a thread, an entry, or the reader, and one of them only
OnePlace ==
    /\ \A t, u \in Threads : call[t].op = call[u].op /\ call[t].op # 0 => t = u
    /\ \A e, f \in pending : e.op = f.op => e = f
    /\ \A t \in Threads, e \in pending : call[t].op # e.op
    /\ \A t \in Threads : reader # 0 => call[t].op # reader
    /\ \A e \in pending : e.op # reader

ToCome(c) ==
    \/ reader = c
    \/ \E t \in Threads : call[t].op = c
    \/ \E e \in pending : e.op = c

\* An operation that waits for its result has one who will complete it, unless it was forgotten.
OwedOne(c) ==
    /\ ToCome(c) => ops[c].done = FALSE
    /\ ops[c].done = FALSE /\ ops[c].lost = "no" => ToCome(c)
Owed == \A c \in DOMAIN ops : OwedOne(c)

\* A number goes to one packet of a session.
Numbered ==
    /\ \A t, u \in Threads :
         call[t].pc = "register" /\ call[u].pc = "register" /\ call[t].session = call[u].session
           /\ call[t].pkt = call[u].pkt => t = u
    /\ \A t \in Threads, e \in pending :
         call[t].pc = "register" /\ call[t].session = e.session => call[t].pkt # e.pkt

\* An entry that was not forgotten is of the newest session, and expected.
Expectable == \A e \in pending : ops[e.op].lost = "no" => e.session = last /\ StillExpected(e.pkt)

\* What is being registered is on its way while the session lasts, or was overtaken.
Underway ==
    \A t \in Threads :
        call[t].pc = "register" /\ call[t].session = last /\ up => call[t].pkt \in inFlight \cup missed

-----------------------------------------------------------------------------
\* Operations are begun in the order of their numbers.
Latest == \A c \in DOMAIN ops : c <= objs[ops[c].req].op

\* What an operation without a result finds: its own request, aborted or not, unless
\* another operation was begun over it
Finds(o, c, x) ==
    /\ o.done = TRUE /\ x.op = c => x.result # "unset"
    /\ o.done = FALSE => x.mixed = TRUE \/ (x.op = c /\ x.result \in {"unset", "aborted"})
    /\ o.told = TRUE \/ o.spoilt = TRUE => x.mixed = TRUE \/ x.result = "aborted"
Outcomes ==
    /\ \A c \in DOMAIN ops : Finds(ops[c], c, objs[ops[c].req])
    /\ \A r \in DOMAIN objs : objs[r].of = 0 \/ objs[r].of = objs[r].op \/ objs[r].mixed = TRUE

-----------------------------------------------------------------------------
\* A read that is not done has got nothing, and an operation begun has asked for nothing.
Unread ==
    /\ \A c \in DOMAIN ops : ops[c].done = FALSE => ops[c].got = <<>>
    /\ \A t \in Threads : call[t].pc = "begun" => ops[call[t].op].key = ""

\* Operation d is a read of request r, up to offset n of these data.
ReadUpTo(d, r, data, n) ==
    /\ ops[d].req = r /\ ops[d].got # <<>>
    /\ ops[d].got[1] = data /\ ops[d].got[2] + ops[d].got[3] = n

\* What a request keeps of a read: whose data, and how far a read has come
KeptRight(r) ==
    objs[r].mixed = FALSE /\ objs[r].offset # 0 =>
        /\ objs[r].cache[1] = objs[r].key
        /\ objs[r].cache[2] = objs[r].pc \/ objs[r].turned = TRUE
        /\ \E d \in DOMAIN ops : ReadUpTo(d, r, objs[r].cache, objs[r].offset)

\* A read that was asked of the server finds its request as it left it.
AskedRight(c) ==
    ops[c].done = FALSE /\ ops[c].key # "" /\ objs[ops[c].req].mixed = FALSE =>
        /\ objs[ops[c].req].key = ops[c].key /\ objs[ops[c].req].offset = 0
        /\ objs[ops[c].req].pc = ops[c].pc \/ objs[ops[c].req].turned = TRUE

\* A read got the data it asked for, and went on where another stopped.
GotRight(c) ==
    ops[c].got # <<>> /\ objs[ops[c].req].mixed = FALSE =>
        /\ \/ ops[c].got[1] = GameData(ops[c].key, ops[c].pc)
           \/ objs[ops[c].req].turned = TRUE /\ ops[c].got[1][1] = ops[c].key
        /\ ops[c].got[2] # 0 =>
             \E d \in 1 .. c - 1 : ReadUpTo(d, ops[c].req, ops[c].got[1], ops[c].got[2])
ReadsRight ==
    /\ \A r \in DOMAIN objs : KeptRight(r)
    /\ \A c \in DOMAIN ops : AskedRight(c) /\ GotRight(c)

-----------------------------------------------------------------------------
\* No call is about to announce the total of operation c any more.
Settled(c) == c \in DOMAIN ops /\ \A t \in Threads : call[t].pc = "begun" => call[t].op # c

\* What is collected of a blob is measured against what its first piece announced.
Blobs ==
    /\ \A r \in DOMAIN objs : objs[r].parts # 0 =>
         Settled(objs[r].first) /\ objs[r].total = ops[objs[r].first].total
    /\ \A c \in DOMAIN ops : ops[c].blob # <<>> =>
         Settled(ops[c].blob[2]) /\ ops[c].blob[1] = ops[ops[c].blob[2]].total

\* Every operation asks for what it is owed, and keeps it.
Fitting == \A c \in DOMAIN ops : ops[c].fits = TRUE

IInv == Typed /\ OnePlace /\ Owed /\ Numbered /\ Expectable /\ Underway
          /\ Latest /\ Outcomes /\ Unread /\ ReadsRight /\ Blobs /\ Fitting

-----------------------------------------------------------------------------
(* The table, and sequences.                                               *)

\* What every call of the library must have: what the reply fills is the array the call
\* has, and its sizes are compared.
Checked(a) ==
    /\ a.array = a.fills
    /\ a.fills # "none" => Arrays \subseteq a.checks
    /\ a.kind \in {"send", "board", "npid", "acc", "write", "comment"}

\* Every call of the library has that.
LEMMA AllChecked == \A a \in Apis : Checked(a)
  <1> USE DEF Checked, Call, Submission, Arrays
  <1>1. Checked(RecordScore) /\ Checked(RecordScoreAsync) /\ Checked(GetRankingByRange)
          /\ Checked(GetRankingByRangeA) /\ Checked(GetRankingByNpId) /\ Checked(GetRankingByAccountId)
    BY DEF RecordScore, RecordScoreAsync, GetRankingByRange, GetRankingByRangeA, GetRankingByNpId,
           GetRankingByAccountId, RecordScoreCommand, GetRankingByRangeCommand, GetRankingByRangeACommand,
           GetRankingByNpIdCommand, GetRankingByAccountIdCommand, RangeChecks, NpIdChecks, AccountIdChecks
  <1>2. Checked(GetFriendsRanking) /\ Checked(GetFriendsRankingA) /\ Checked(GetRankingByNpIdPcId)
          /\ Checked(GetRankingByAccountIdPcId) /\ Checked(GetBoardInfo) /\ Checked(GetGameData)
    BY DEF GetFriendsRanking, GetFriendsRankingA, GetRankingByNpIdPcId, GetRankingByAccountIdPcId,
           GetBoardInfo, GetGameData, GetFriendsRankingCommand, GetFriendsRankingACommand,
           GetRankingByNpIdCommand, GetRankingByAccountIdCommand, GetBoardInfoCommand, GetGameDataCommand,
           FriendsChecks, NpIdPcIdChecks, AccountIdPcIdChecks
  <1>3. Checked(GetGameDataByAccountId) /\ Checked(RecordGameData) /\ Checked(CensorComment)
          /\ Checked(SanitizeComment)
    BY DEF GetGameDataByAccountId, RecordGameData, CensorComment, SanitizeComment,
           GetGameDataByAccountIdCommand, RecordGameDataCommand
  <1>4. ASSUME NEW a \in Apis PROVE Checked(a)
    <2> HIDE DEF Checked, Call, Submission, Arrays
    <2> QED BY ZenonT(60), <1>1, <1>2, <1>3 DEF Apis
  <1> QED BY <1>4

\* A call that got past its checks
OpKinds == {"send", "nothing", "npid", "acc", "write", "comment"}

\* Every call that gets past its checks has arrays of the kind and the sizes of the reply.
LEMMA OpsRight == \A op \in Ops : op.fits = TRUE /\ op.kind \in OpKinds
  <1>1. ASSUME NEW a \in Apis, NEW faults, faults \cap a.checks = {}
        PROVE  Op(a, faults).fits = TRUE /\ Op(a, faults).kind \in OpKinds
    <2>1. Checked(a)
      BY AllChecked
    <2>2. a.array = a.fills /\ (a.fills = "none" \/ faults \cap Arrays = {})
      BY <1>1, <2>1 DEF Checked
    <2>3. Op(a, faults).fits = TRUE
      BY <2>2 DEF Op
    <2>4. Op(a, faults).kind \in OpKinds
      BY <2>1 DEF Op, Checked, OpKinds
    <2> QED BY <2>3, <2>4
  <1>2. ASSUME NEW p \in {q \in Apis \X Faults : q[2] \notin q[1].checks}
        PROVE  Op(p[1], {p[2]}).fits = TRUE /\ Op(p[1], {p[2]}).kind \in OpKinds
    <2>1. p[1] \in Apis /\ p[2] \notin p[1].checks
      OBVIOUS
    <2> QED BY <1>1, <2>1
  <1>3. ASSUME NEW a \in Apis PROVE Op(a, {}).fits = TRUE /\ Op(a, {}).kind \in OpKinds
    BY <1>1
  <1> QED BY <1>2, <1>3 DEF Ops

\* There is one.
LEMMA SomeOp == (CHOOSE o \in Ops : TRUE) \in Ops
  <1>1. RecordScore \in Apis
    BY DEF Apis
  <1>2. Op(RecordScore, {}) \in Ops
    BY <1>1 DEF Ops
  <1> QED BY <1>2

\* A sequence of which one element is replaced
LEMMA Replaced ==
    ASSUME NEW S, NEW s \in Seq(S), NEW c \in DOMAIN s, NEW x \in S
    PROVE  /\ [s EXCEPT ![c] = x] \in Seq(S)
           /\ Len([s EXCEPT ![c] = x]) = Len(s)
           /\ DOMAIN [s EXCEPT ![c] = x] = DOMAIN s
           /\ [s EXCEPT ![c] = x][c] = x
           /\ \A d \in DOMAIN s : d # c => [s EXCEPT ![c] = x][d] = s[d]
  OBVIOUS

\* A sequence of which every element is changed
LEMMA Mapped ==
    ASSUME NEW S, NEW s \in Seq(S), NEW f \in [DOMAIN s -> S]
    PROVE  f \in Seq(S) /\ Len(f) = Len(s)
  OBVIOUS

\* A sequence that has grown by one
LEMMA Longer ==
    ASSUME NEW S, NEW s \in Seq(S), NEW x \in S
    PROVE  /\ Append(s, x) \in Seq(S) /\ Len(Append(s, x)) = Len(s) + 1
           /\ DOMAIN s = 1 .. Len(s) /\ DOMAIN Append(s, x) = 1 .. Len(s) + 1 /\ Len(s) \in Nat
           /\ Append(s, x)[Len(s) + 1] = x
           /\ \A d \in DOMAIN s : Append(s, x)[d] = s[d]
  OBVIOUS

\* A set of numbers that is not empty has a least element: the segments that end below one of
\* them are well ordered by strict inclusion.
LEMMA LeastNumber ==
    ASSUME NEW S \in SUBSET Nat, NEW n \in S
    PROVE  \E i \in S : \A j \in S : i <= j
  <1> DEFINE D == 0 .. n
             R == StrictSubsetOrdering(D)
             T == {0 .. i : i \in S \cap D}
  <1>0. n \in S \cap D
    OBVIOUS
  <1>1. IsWellFoundedOn(R, FiniteSubsetsOf(D))
    BY FS_Interval, FS_StrictSubsetOrderingWellFounded
  <1>2. T \subseteq FiniteSubsetsOf(D) /\ T # {}
    <2>1. \A i \in S \cap D : 0 .. i \subseteq D /\ IsFiniteSet(0 .. i)
      BY FS_Interval
    <2> QED BY <1>0, <2>1 DEF FiniteSubsetsOf
  <1>3. \E x \in T : \A y \in T : <<y, x>> \notin R
    <2> HIDE DEF R, T
    <2> QED BY <1>1, <1>2, WFMin
  <1>4. PICK i \in S \cap D : \A j \in S \cap D : <<0 .. j, 0 .. i>> \notin R
    BY <1>3
  <1>5. ASSUME NEW j \in S, j < i PROVE FALSE
    <2>1. j \in S \cap D /\ 0 .. j \subseteq 0 .. i /\ i \in 0 .. i /\ i \notin 0 .. j
      BY <1>5
    <2>2. 0 .. j \in SUBSET D /\ 0 .. i \in SUBSET D
      BY <2>1
    <2>3. <<0 .. j, 0 .. i>> \in R
      BY <2>1, <2>2 DEF StrictSubsetOrdering
    <2> QED BY <1>4, <2>1, <2>3
  <1>6. \A j \in S : i <= j
    BY <1>5
  <1> QED BY <1>6

-----------------------------------------------------------------------------
(* What is done to a request and to an operation.                          *)

\* What a request keeps when only its result changes
SameReads(y, x) ==
    y.pc = x.pc /\ y.turned = x.turned /\ y.key = x.key /\ y.offset = x.offset /\ y.cache = x.cache
SameBlob(y, x) == y.parts = x.parts /\ y.total = x.total /\ y.first = x.first
SameTurn(y, x) == y.title = x.title /\ y.op = x.op /\ y.mixed = x.mixed
SameResult(y, x) == y.result = x.result /\ y.of = x.of

\* What an operation keeps when its outcome is settled
SameOutcome(p, o) ==
    /\ p.lost = o.lost /\ p.done = o.done /\ p.told = o.told /\ p.spoilt = o.spoilt /\ p.wrong = o.wrong
SameAsked(p, o) == p.key = o.key /\ p.pc = o.pc
SameOrigin(p, o) == p.req = o.req /\ p.fits = o.fits
SameBytes(p, o) == p.total = o.total /\ p.blob = o.blob

\* The bounds are numbers.
LEMMA BoundsNat ==
    /\ CtxLimit \in Nat /\ MaxTitles \in Nat /\ MaxRequests \in Nat
    /\ MaxOps \in Nat /\ MaxParts \in Nat /\ MaxSessions \in Nat
  BY ScoreAssumption, SessionAssumption

\* The number of an operation, or of none
LEMMA Within == \A c \in 1 .. MaxOps : c \in 0 .. MaxOps
  BY BoundsNat

\* SetResult keeps the first result, and touches nothing else.
LEMMA SetResultIs ==
    ASSUME NEW x \in Objs, NEW what \in Results, NEW c \in 0 .. MaxOps, NEW y, y = SetResult(x, what, c)
    PROVE  /\ y \in Objs /\ SameTurn(y, x) /\ SameReads(y, x) /\ SameBlob(y, x)
           /\ x.result # "unset" => SameResult(y, x)
           /\ x.result = "unset" => y.result = what /\ y.of = c
  <1>1. CASE x.result = "unset"
    <2>1. y = [x EXCEPT !.result = what, !.of = c]
      BY <1>1 DEF SetResult
    <2> QED BY <1>1, <2>1 DEF Objs, SameTurn, SameReads, SameBlob
  <1>2. CASE x.result # "unset"
    <2>1. y = x
      BY <1>2 DEF SetResult
    <2> QED BY <1>2, <2>1 DEF SameTurn, SameReads, SameBlob, SameResult
  <1> QED BY <1>1, <1>2

\* A read changes how far it has come and what is kept.
LEMMA AfterReadIs ==
    ASSUME NEW x \in Objs, NEW start, NEW n, start + n \in 0 .. MaxParts, NEW room,
           NEW cache \in Players \X Characters, NEW y, y = AfterRead(x, start, n, room, cache)
    PROVE  /\ y \in Objs /\ SameTurn(y, x) /\ SameResult(y, x) /\ SameBlob(y, x)
           /\ y.pc = x.pc /\ y.turned = x.turned /\ y.key = x.key
           /\ y.offset = 0 \/ (y.offset = start + n /\ y.cache = cache)
  <1>0. 0 \in 0 .. MaxParts /\ NoData \in Players \X Characters
    <2>1. 0 \in 0 .. MaxParts
      BY BoundsNat
    <2>2. 0 \in Characters /\ "" \in Players
      BY ScoreAssumption DEF Players
    <2> QED BY <2>1, <2>2 DEF NoData, GameData
  <1>1. CASE n < room \/ room = 0
    <2>1. y = [x EXCEPT !.offset = 0, !.cache = NoData]
      BY <1>1 DEF AfterRead
    <2>2. PICK d : d = NoData
      OBVIOUS
    <2>3. y = [x EXCEPT !.offset = 0, !.cache = d] /\ d \in Players \X Characters
      BY <1>0, <2>1, <2>2
    <2> QED BY <1>0, <2>3 DEF Objs, SameTurn, SameResult, SameBlob
  <1>2. CASE ~ (n < room \/ room = 0)
    <2>1. PICK m : m = start + n
      OBVIOUS
    <2>2. y = [x EXCEPT !.offset = m, !.cache = cache] /\ m \in 0 .. MaxParts
      BY <1>2, <2>1 DEF AfterRead
    <2> QED BY <2>1, <2>2 DEF Objs, SameTurn, SameResult, SameBlob
  <1> QED BY <1>1, <1>2

\* An operation that is done forgets what only a pending one needs.
LEMMA FinishedIs ==
    ASSUME NEW o \in OpRecs, NEW p, p = Finished(o)
    PROVE  /\ p \in OpRecs /\ p.done = TRUE /\ p.told = FALSE
           /\ p.lost = o.lost /\ p.spoilt = o.spoilt /\ p.wrong = o.wrong
           /\ SameOrigin(p, o) /\ SameBytes(p, o) /\ p.got = o.got
           /\ o.got # <<>> => SameAsked(p, o)
  <1>0. 0 \in 0 .. MaxParts /\ 0 \in Characters
    BY BoundsNat, ScoreAssumption
  <1>1. PICK k : k = IF o.got = <<>> THEN "" ELSE o.key
    OBVIOUS
  <1>2. PICK q : q = IF o.got = <<>> THEN 0 ELSE o.pc
    OBVIOUS
  <1>3. k \in Players /\ q \in Characters
    BY <1>0, <1>1, <1>2 DEF OpRecs, Players
  <1>4. p = [o EXCEPT !.done = TRUE, !.told = FALSE, !.room = 0, !.key = k, !.pc = q]
    BY <1>1, <1>2 DEF Finished
  <1>5. /\ p \in OpRecs /\ p.done = TRUE /\ p.told = FALSE /\ p.key = k /\ p.pc = q
        /\ p.lost = o.lost /\ p.spoilt = o.spoilt /\ p.wrong = o.wrong
        /\ p.req = o.req /\ p.fits = o.fits /\ p.total = o.total /\ p.blob = o.blob /\ p.got = o.got
    BY <1>0, <1>3, <1>4 DEF OpRecs
  <1> QED BY <1>1, <1>2, <1>5 DEF SameOrigin, SameBytes, SameAsked

\* Of two numbers the smaller is one of them.
LEMMA SmallerIs ==
    ASSUME NEW a \in Nat, NEW b \in Nat
    PROVE  /\ Smaller(a, b) \in Nat /\ Smaller(a, b) <= a /\ Smaller(a, b) <= b
           /\ Smaller(a, b) \in {a, b}
  BY DEF Smaller

-----------------------------------------------------------------------------
(* What a step does to one request, one operation, one thread.             *)

ObjsTo(r, y) ==
    /\ objs' \in Seq(Objs) /\ Len(objs') = Len(objs) /\ DOMAIN objs' = DOMAIN objs
    /\ objs'[r] = y /\ \A q \in DOMAIN objs : q # r => objs'[q] = objs[q]
OpsTo(c, p) ==
    /\ ops' \in Seq(OpRecs) /\ Len(ops') = Len(ops) /\ DOMAIN ops' = DOMAIN ops
    /\ ops'[c] = p /\ \A d \in DOMAIN ops : d # c => ops'[d] = ops[d]
CallTo(t, z) ==
    /\ call' \in [Threads -> Calls]
    /\ call'[t] = z /\ \A u \in Threads : u # t => call'[u] = call[u]

\* They are in the domains of the tables, and have their types.
LEMMA Kept ==
    ASSUME TypeOK
    PROVE  /\ objs \in Seq(Objs) /\ DOMAIN objs = 1 .. Len(objs) /\ Len(objs) \in 0 .. MaxRequests
           /\ ops \in Seq(OpRecs) /\ DOMAIN ops = 1 .. Len(ops) /\ Len(ops) \in 0 .. MaxOps
           /\ \A r \in DOMAIN objs : objs[r] \in Objs /\ r \in 1 .. MaxRequests
           /\ \A c \in DOMAIN ops : ops[c] \in OpRecs /\ c \in 1 .. MaxOps /\ ops[c].req \in DOMAIN objs
           /\ \A t \in Threads : call[t] \in Calls
  <1>1. objs \in Seq(Objs) /\ ops \in Seq(OpRecs)
    BY DEF TypeOK
  <1>2. DOMAIN objs = 1 .. Len(objs) /\ Len(objs) \in 0 .. MaxRequests
    BY <1>1, BoundsNat DEF TypeOK
  <1>3. DOMAIN ops = 1 .. Len(ops) /\ Len(ops) \in 0 .. MaxOps
    BY <1>1, BoundsNat DEF TypeOK
  <1>4. \A r \in DOMAIN objs : objs[r] \in Objs
    BY <1>1
  <1>5. \A c \in DOMAIN ops : ops[c] \in OpRecs
    BY <1>1
  <1>6. (\A r \in DOMAIN objs : r \in 1 .. MaxRequests) /\ \A c \in DOMAIN ops : c \in 1 .. MaxOps
    BY <1>2, <1>3, BoundsNat
  <1>7. (\A c \in DOMAIN ops : ops[c].req \in DOMAIN objs) /\ \A t \in Threads : call[t] \in Calls
    BY DEF TypeOK
  <1> QED BY <1>1, <1>2, <1>3, <1>4, <1>5, <1>6, <1>7

\* A thread that is sending has a request and an operation of it.
LEMMA Senders ==
    ASSUME Typed, NEW t \in Threads, call[t].pc \in Sending
    PROVE  /\ call[t] \in Calls /\ call[t].op \in DOMAIN ops /\ call[t].req \in DOMAIN objs
           /\ call[t].req = ops[call[t].op].req
           /\ objs[call[t].req] \in Objs /\ ops[call[t].op] \in OpRecs /\ call[t].op \in 1 .. MaxOps
  <1>1. Stage(call[t])
    BY DEF Typed
  <1>2. call[t].op \in DOMAIN ops /\ call[t].req = ops[call[t].op].req
    BY <1>1 DEF Stage
  <1> QED BY <1>2, Kept DEF Typed

\* A request is set.
LEMMA ObjSet ==
    ASSUME TypeOK, NEW r \in DOMAIN objs, NEW y \in Objs, objs' = [objs EXCEPT ![r] = y]
    PROVE  ObjsTo(r, y)
  <1>1. objs \in Seq(Objs)
    BY DEF TypeOK
  <1> QED BY <1>1, Replaced DEF ObjsTo

\* An operation is set.
LEMMA OpSet ==
    ASSUME TypeOK, NEW c \in DOMAIN ops, NEW p \in OpRecs, ops' = [ops EXCEPT ![c] = p]
    PROVE  OpsTo(c, p)
  <1>1. ops \in Seq(OpRecs)
    BY DEF TypeOK
  <1> QED BY <1>1, Replaced DEF OpsTo

\* A thread goes on.
LEMMA CallSet ==
    ASSUME TypeOK, NEW t \in Threads, NEW z \in Calls, Goto(t, z)
    PROVE  CallTo(t, z)
  BY DEF TypeOK, Goto, CallTo

\* A thread that is idle, or waits for a request.
Resting(z) == z \in Calls /\ z.op = 0 /\ z.pc \in {"idle", "wait"}

\* That is what a thread is at first, and while it waits.
LEMMA IdleIs ==
    /\ Resting(Idle) /\ Idle.pc = "idle"
    /\ \A r \in 0 .. MaxRequests : Resting([Idle EXCEPT !.pc = "wait", !.req = r])
                                     /\ [Idle EXCEPT !.pc = "wait", !.req = r].req = r
  <1>1. Idle \in Calls /\ Idle.op = 0 /\ Idle.pc = "idle"
    BY SomeOp, BoundsNat DEF Idle, Calls
  <1>2. ASSUME NEW r \in 0 .. MaxRequests, NEW z, z = [Idle EXCEPT !.pc = "wait", !.req = r]
        PROVE  Resting(z) /\ z.req = r
    BY <1>1, <1>2 DEF Calls, Resting
  <1> QED BY <1>1, <1>2 DEF Resting

-----------------------------------------------------------------------------
(* What a call makes of its request and its operation before the result or *)
(* the submission.                                                         *)

Decent(x) == (x.parts < x.total \/ x.total = 0) /\ (x.total = 0 => x.parts = 0)

\* In every case
Worked(t, x, o) ==
    /\ x \in Objs /\ o \in OpRecs /\ Decent(x)
    /\ SameTurn(x, objs[call[t].req]) /\ SameResult(x, objs[call[t].req])
    /\ x.pc = objs[call[t].req].pc /\ x.turned = objs[call[t].req].turned
    /\ SameOutcome(o, ops[call[t].op]) /\ SameOrigin(o, ops[call[t].op])

\* Nothing
Plain(t, x, o) == x = objs[call[t].req] /\ o = ops[call[t].op]

\* A read is served from the cache.
Hit(t, x, o) ==
    /\ SameBlob(x, objs[call[t].req]) /\ SameBytes(o, ops[call[t].op])
    /\ objs[call[t].req].offset # 0 /\ x.key = objs[call[t].req].key
    /\ \E start \in Nat, n \in Nat :
         /\ o.got = <<objs[call[t].req].cache, start, n>>
         /\ start = 0 \/ start = objs[call[t].req].offset
         /\ x.offset = 0 \/ (x.offset = start + n /\ x.cache = objs[call[t].req].cache)
    /\ o.key = x.key /\ o.pc = x.pc

\* A read goes to the server.
Miss(t, x, o) ==
    /\ SameBlob(x, objs[call[t].req]) /\ SameBytes(o, ops[call[t].op])
    /\ x.offset = 0 /\ o.key = x.key /\ o.pc = x.pc /\ o.got = ops[call[t].op].got

\* Who announced the size that counts, and which
Announcer(t, x, o, first, total) ==
    \/ objs[call[t].req].parts = 0 /\ first = call[t].op /\ total = o.total
    \/ objs[call[t].req].parts # 0 /\ first = objs[call[t].req].first /\ total = objs[call[t].req].total
Writes(t, x, o) ==
    /\ SameReads(x, objs[call[t].req]) /\ SameAsked(o, ops[call[t].op])
    /\ o.got = ops[call[t].op].got

\* A piece of a blob is collected.
Part(t, x, o) ==
    /\ Writes(t, x, o) /\ o.blob = ops[call[t].op].blob
    /\ Announcer(t, x, o, x.first, x.total)

\* A blob is complete.
Whole(t, x, o) ==
    /\ Writes(t, x, o) /\ x.parts = 0
    /\ o.blob # <<>> /\ Announcer(t, x, o, o.blob[2], o.blob[1])

\* A call that does nothing yet
LEMMA PlainWorks ==
    ASSUME Typed, NEW t \in Threads, call[t].pc = "begun"
    PROVE  Worked(t, objs[call[t].req], ops[call[t].op]) /\ Plain(t, objs[call[t].req], ops[call[t].op])
  <1>1. call[t].pc \in Sending
    BY DEF Sending
  <1>2. objs[call[t].req] \in Objs /\ ops[call[t].op] \in OpRecs /\ call[t].req \in DOMAIN objs
    BY <1>1, Senders
  <1>3. Decent(objs[call[t].req])
    BY <1>2 DEF Typed, TypeOK, Announcing, Decent
  <1> QED BY <1>2, <1>3 DEF Worked, Plain, SameTurn, SameResult, SameOutcome, SameOrigin

\* A read, served or not
LEMMA ReadWorks ==
    ASSUME Typed, NEW t \in Threads, NEW room \in 0 .. MaxParts, NEW valid, ReadData(t, room, valid)
    PROVE  \E x, o : /\ Worked(t, x, o)
                     /\ \/ Hit(t, x, o) /\ EndsHere(t, x, "ok", o)
                        \/ Miss(t, x, o) /\ Dispatch(t, x, o, valid)
  <1>1. PICK X : X = objs[call[t].req]
    OBVIOUS
  <1>2. PICK O : O = ops[call[t].op]
    OBVIOUS
  <1>3. PICK key : key = call[t].does.kind
    OBVIOUS
  <1>4. key \in {"npid", "acc"} /\ call[t].pc = "begun"
    BY <1>3 DEF ReadData
  <1>5. X \in Objs /\ O \in OpRecs /\ call[t].req \in DOMAIN objs /\ call[t].op \in DOMAIN ops
    BY <1>1, <1>2, <1>4, Senders DEF Sending
  <1>6. PICK start : start = Smaller(X.offset, IF X.cache = NoData THEN 0 ELSE MaxParts)
    OBVIOUS
  <1>7. PICK n : n = Smaller(IF X.cache = NoData THEN 0 ELSE MaxParts - start, room)
    OBVIOUS
  <1>8. MaxParts \in Nat /\ X.offset \in 0 .. MaxParts /\ X.cache \in Players \X Characters
    BY <1>5, BoundsNat DEF Objs
  <1>9. start \in 0 .. MaxParts /\ (start = 0 \/ start = X.offset)
    BY <1>6, <1>8 DEF Smaller
  <1>10. n \in 0 .. MaxParts /\ start + n \in 0 .. MaxParts
    BY <1>6, <1>7, <1>8, <1>9 DEF Smaller
  <1>11. PICK k : k = X.pc
    OBVIOUS
  <1>12. PICK o : o = [O EXCEPT !.key = key, !.pc = k, !.room = room]
    OBVIOUS
  <1>13. key \in Players /\ k \in Characters
    BY <1>4, <1>5, <1>11 DEF Players, Objs
  <1>14. /\ o \in OpRecs /\ SameOutcome(o, O) /\ SameOrigin(o, O) /\ SameBytes(o, O)
         /\ o.key = key /\ o.pc = k /\ o.got = O.got
    BY <1>5, <1>12, <1>13 DEF OpRecs, SameOutcome, SameOrigin, SameBytes
  <1>15. Decent(X)
    BY <1>1, <1>5 DEF Typed, TypeOK, Announcing, Decent
  <1>16. CASE Cached(X, key)
    <2>1. PICK x : x = AfterRead(X, start, n, room, X.cache)
      OBVIOUS
    <2>2. /\ x \in Objs /\ SameTurn(x, X) /\ SameResult(x, X) /\ SameBlob(x, X)
          /\ x.pc = X.pc /\ x.turned = X.turned /\ x.key = X.key
          /\ x.offset = 0 \/ (x.offset = start + n /\ x.cache = X.cache)
      BY <1>5, <1>8, <1>10, <2>1, AfterReadIs
    <2>3. X.offset # 0 /\ X.key = key
      BY <1>16 DEF Cached
    <2>4. PICK g : g = <<X.cache, start, n>>
      OBVIOUS
    <2>5. g \in (Players \X Characters) \X (0 .. MaxParts) \X (0 .. MaxParts)
      BY <1>8, <1>9, <1>10, <2>4
    <2>6. PICK p : p = [o EXCEPT !.got = g]
      OBVIOUS
    <2>7. /\ p \in OpRecs /\ SameOutcome(p, o) /\ SameOrigin(p, o) /\ SameBytes(p, o)
          /\ p.key = key /\ p.pc = k /\ p.got = g
      BY <1>14, <2>5, <2>6 DEF OpRecs, SameOutcome, SameOrigin, SameBytes
    <2>8. EndsHere(t, x, "ok", p)
      BY <1>1, <1>2, <1>3, <1>6, <1>7, <1>11, <1>12, <1>16, <2>1, <2>4, <2>6 DEF ReadData
    <2>9. Decent(x)
      BY <1>15, <2>2 DEF Decent, SameBlob
    <2>10. Worked(t, x, p)
      BY <1>1, <1>2, <1>14, <2>2, <2>7, <2>9 DEF Worked, SameOutcome, SameOrigin
    <2>11. start \in Nat /\ n \in Nat
      BY <1>8, <1>9, <1>10
    <2>12. Hit(t, x, p)
      BY <1>1, <1>2, <1>9, <1>11, <1>14, <2>2, <2>3, <2>4, <2>7, <2>11 DEF Hit, SameBytes
    <2> QED BY <2>8, <2>10, <2>12
  <1>17. CASE ~Cached(X, key)
    <2>1. PICK none : none = NoData
      OBVIOUS
    <2>2. none \in Players \X Characters
      <3>1. 0 \in Characters /\ "" \in Players
        BY ScoreAssumption DEF Players
      <3> QED BY <2>1, <3>1 DEF NoData, GameData
    <2>3. PICK x : x = [X EXCEPT !.offset = 0, !.cache = none, !.key = key]
      OBVIOUS
    <2>4. 0 \in 0 .. MaxParts
      BY <1>8
    <2>5. /\ x \in Objs /\ SameTurn(x, X) /\ SameResult(x, X) /\ SameBlob(x, X)
          /\ x.pc = X.pc /\ x.turned = X.turned /\ x.key = key /\ x.offset = 0
      BY <1>5, <1>13, <2>2, <2>3, <2>4 DEF Objs, SameTurn, SameResult, SameBlob
    <2>6. Dispatch(t, x, o, valid)
      BY <1>1, <1>2, <1>3, <1>11, <1>12, <1>17, <2>1, <2>3 DEF ReadData
    <2>7. Decent(x)
      BY <1>15, <2>5 DEF Decent, SameBlob
    <2>8. Worked(t, x, o)
      BY <1>1, <1>2, <1>14, <2>5, <2>7 DEF Worked
    <2>9. Miss(t, x, o)
      BY <1>1, <1>2, <1>11, <1>14, <2>5 DEF Miss
    <2> QED BY <2>6, <2>8, <2>9
  <1> QED BY <1>16, <1>17

\* A piece of a blob
LEMMA WriteWorks ==
    ASSUME Typed, NEW t \in Threads, NEW size \in 1 .. MaxParts, NEW total \in 1 .. MaxParts, NEW valid,
           WriteData(t, size, total, valid)
    PROVE  \E x, o : /\ Worked(t, x, o)
                     /\ \/ Part(t, x, o) /\ EndsHere(t, x, "ok", o)
                        \/ Whole(t, x, o) /\ Dispatch(t, x, o, valid)
  <1>1. PICK X : X = objs[call[t].req]
    OBVIOUS
  <1>2. PICK O : O = ops[call[t].op]
    OBVIOUS
  <1>3. PICK c : c = call[t].op
    OBVIOUS
  <1>4. call[t].pc = "begun"
    BY DEF WriteData, Begun
  <1>5. X \in Objs /\ O \in OpRecs /\ call[t].req \in DOMAIN objs /\ call[t].op \in DOMAIN ops /\ c \in 1 .. MaxOps
    BY <1>1, <1>2, <1>3, <1>4, Senders DEF Sending
  <1>6. /\ MaxParts \in Nat /\ MaxOps \in Nat /\ X.parts \in 0 .. MaxParts /\ X.total \in 0 .. MaxParts
        /\ X.first \in 0 .. MaxOps
    BY <1>5, BoundsNat DEF Objs
  <1>7. (X.parts < X.total \/ X.total = 0) /\ (X.total = 0 => X.parts = 0)
    BY <1>1, <1>5 DEF Typed, TypeOK, Announcing
  <1>8. PICK x : x = Announced(X, total, c)
    OBVIOUS
  <1>9. /\ x \in Objs /\ SameTurn(x, X) /\ SameResult(x, X) /\ SameReads(x, X) /\ x.parts = X.parts
        /\ X.parts = 0 => x.total = total /\ x.first = c
        /\ X.parts # 0 => x.total = X.total /\ x.first = X.first
    <2>1. CASE X.parts = 0
      <3>1. x = [X EXCEPT !.total = total, !.first = c]
        BY <1>8, <2>1 DEF Announced
      <3>2. c \in 0 .. MaxOps /\ total \in 0 .. MaxParts
        BY <1>5, <1>6
      <3> QED BY <1>5, <2>1, <3>1, <3>2 DEF Objs, SameTurn, SameResult, SameReads
    <2>2. CASE X.parts # 0
      <3>1. x = X
        BY <1>8, <2>2 DEF Announced
      <3> QED BY <1>5, <2>2, <3>1 DEF SameTurn, SameResult, SameReads
    <2> QED BY <2>1, <2>2
  <1>10. x.total \in 1 .. MaxParts /\ x.parts \in 0 .. MaxParts /\ x.parts < x.total
    BY <1>6, <1>7, <1>9
  <1>11. PICK parts : parts = x.parts + Smaller(size, x.total - x.parts)
    OBVIOUS
  <1>12. parts \in 0 .. MaxParts /\ (parts < x.total \/ parts = x.total)
    BY <1>6, <1>10, <1>11 DEF Smaller
  <1>13. PICK o : o = [O EXCEPT !.total = total]
    OBVIOUS
  <1>14. total \in 0 .. MaxParts
    BY <1>6
  <1>15. /\ o \in OpRecs /\ SameOutcome(o, O) /\ SameOrigin(o, O) /\ SameAsked(o, O)
         /\ o.total = total /\ o.blob = O.blob /\ o.got = O.got
    BY <1>5, <1>13, <1>14 DEF OpRecs, SameOutcome, SameOrigin, SameAsked
  <1>16. CASE parts < x.total
    <2>1. PICK y : y = [x EXCEPT !.parts = parts]
      OBVIOUS
    <2>2. /\ y \in Objs /\ SameTurn(y, X) /\ SameResult(y, X) /\ SameReads(y, X)
          /\ y.parts = parts /\ y.total = x.total /\ y.first = x.first
      BY <1>9, <1>12, <2>1 DEF Objs, SameTurn, SameResult, SameReads
    <2>3. EndsHere(t, y, "ok", o)
      BY <1>1, <1>2, <1>3, <1>8, <1>11, <1>13, <1>16, <2>1 DEF WriteData
    <2>4. Decent(y)
      BY <1>10, <1>16, <2>2 DEF Decent
    <2>5. Worked(t, y, o)
      BY <1>1, <1>2, <1>15, <2>2, <2>4 DEF Worked, SameReads
    <2>6. Announcer(t, y, o, y.first, y.total)
      BY <1>1, <1>3, <1>9, <1>15, <2>2 DEF Announcer
    <2>7. Part(t, y, o)
      BY <1>1, <1>2, <1>15, <2>2, <2>6 DEF Part, Writes
    <2> QED BY <2>3, <2>5, <2>7
  <1>17. CASE ~(parts < x.total)
    <2>1. PICK y : y = [x EXCEPT !.parts = 0, !.total = 0, !.first = 0]
      OBVIOUS
    <2>2. 0 \in 0 .. MaxParts /\ 0 \in 0 .. MaxOps
      BY <1>6
    <2>3. /\ y \in Objs /\ SameTurn(y, X) /\ SameResult(y, X) /\ SameReads(y, X)
          /\ y.parts = 0 /\ y.total = 0
      BY <1>9, <2>1, <2>2 DEF Objs, SameTurn, SameResult, SameReads
    <2>4. PICK first : first = x.first
      OBVIOUS
    <2>5. parts = x.total /\ first \in 0 .. MaxOps
      BY <1>9, <1>12, <1>17, <2>4 DEF Objs
    <2>6. PICK b : b = <<parts, first>>
      OBVIOUS
    <2>7. b \in (0 .. MaxParts) \X (0 .. MaxOps) /\ b[1] = parts /\ b[2] = first /\ b # <<>>
      BY <1>12, <2>5, <2>6
    <2>8. PICK p : p = [o EXCEPT !.blob = b]
      OBVIOUS
    <2>9. /\ p \in OpRecs /\ SameOutcome(p, O) /\ SameOrigin(p, O) /\ SameAsked(p, O)
          /\ p.total = total /\ p.blob = b /\ p.got = O.got
      BY <1>15, <2>7, <2>8 DEF OpRecs, SameOutcome, SameOrigin, SameAsked
    <2>10. Dispatch(t, y, p, valid)
      BY <1>1, <1>2, <1>3, <1>8, <1>11, <1>13, <1>17, <2>1, <2>4, <2>6, <2>8 DEF WriteData
    <2>11. Decent(y)
      BY <2>3 DEF Decent
    <2>12. Worked(t, y, p)
      BY <1>1, <1>2, <2>3, <2>9, <2>11 DEF Worked, SameReads
    <2>13. Announcer(t, y, p, b[2], b[1])
      BY <1>1, <1>3, <1>9, <2>4, <2>5, <2>7, <2>9 DEF Announcer
    <2>14. Whole(t, y, p)
      BY <1>1, <1>2, <2>3, <2>7, <2>9, <2>13 DEF Whole, Writes
    <2> QED BY <2>10, <2>12, <2>14
  <1> QED BY <1>16, <1>17

-----------------------------------------------------------------------------
(* The steps, by what they are to a request and an operation.              *)

\* Nothing but these changes.
Beside == UNCHANGED <<gameVars, pending, reader, sessionVars>>

\* An operation ends inside the call.
Ended(t) ==
    /\ call[t].pc = "begun" /\ CallTo(t, Idle) /\ Beside
    /\ \E x, o, y, p :
         /\ Worked(t, x, o)
         /\ Plain(t, x, o) \/ Hit(t, x, o) \/ Miss(t, x, o) \/ Part(t, x, o) \/ Whole(t, x, o)
         /\ \E what \in {"ok", "failed", "not sent"} : y = SetResult(x, what, call[t].op)
         /\ p = Finished(o)
         /\ ObjsTo(call[t].req, y) /\ OpsTo(call[t].op, p)

\* An operation has a client, and will be submitted.
Dispatched(t) ==
    /\ call[t].pc = "begun" /\ Beside
    /\ \E x, o, z :
         /\ Worked(t, x, o)
         /\ Plain(t, x, o) \/ Miss(t, x, o) \/ Whole(t, x, o)
         /\ ObjsTo(call[t].req, x) /\ OpsTo(call[t].op, o) /\ CallTo(t, z)
         /\ z.pc = "submit" /\ z.op = call[t].op /\ z.req = call[t].req
         /\ session # 0 /\ z.session = session

\* An operation is forgotten.
Forgets(c) ==
    /\ objs' = objs
    /\ \E p : /\ OpsTo(c, p) /\ p \in OpRecs /\ p.lost # "no"
              /\ p.done = ops[c].done /\ p.told = ops[c].told /\ p.spoilt = ops[c].spoilt /\ p.wrong = ops[c].wrong
              /\ SameOrigin(p, ops[c]) /\ SameAsked(p, ops[c]) /\ SameBytes(p, ops[c]) /\ p.got = ops[c].got
Dropped(t) == call[t].pc = "begun" /\ CallTo(t, Idle) /\ Beside /\ Forgets(call[t].op)

\* An operation that ends
LEMMA EndIs ==
    ASSUME Typed, NEW t \in Threads, call[t].pc = "begun", NEW x, NEW o, Worked(t, x, o),
           Plain(t, x, o) \/ Hit(t, x, o) \/ Miss(t, x, o) \/ Part(t, x, o) \/ Whole(t, x, o),
           NEW what \in {"ok", "failed", "not sent"}, EndsHere(t, x, what, o)
    PROVE  Ended(t)
  <1>1. call[t].op \in DOMAIN ops /\ call[t].req \in DOMAIN objs /\ call[t].op \in 0 .. MaxOps
    <2>1. PICK c : c = call[t].op
      OBVIOUS
    <2>2. c \in DOMAIN ops /\ call[t].req \in DOMAIN objs /\ c \in 1 .. MaxOps
      BY <2>1, Senders DEF Sending
    <2> QED BY <2>1, <2>2, Within
  <1>2. PICK y : y = SetResult(x, what, call[t].op)
    OBVIOUS
  <1>3. PICK p : p = Finished(o)
    OBVIOUS
  <1>4. y \in Objs
    <2>1. x \in Objs /\ what \in Results
      BY DEF Worked, Results
    <2>2. PICK c \in 0 .. MaxOps : c = call[t].op
      BY <1>1
    <2>3. y = SetResult(x, what, c)
      BY <1>2, <2>2
    <2> QED BY <2>1, <2>3, SetResultIs
  <1>5. p \in OpRecs
    BY <1>3, FinishedIs DEF Worked
  <1>6. ObjsTo(call[t].req, y)
    BY <1>1, <1>2, <1>4, ObjSet DEF EndsHere, Typed
  <1>7. OpsTo(call[t].op, p)
    BY <1>1, <1>3, <1>5, OpSet DEF EndsHere, Typed
  <1>8. CallTo(t, Idle) /\ Beside
    BY IdleIs, CallSet DEF EndsHere, Resting, Typed, Beside
  <1> QED BY <1>2, <1>3, <1>6, <1>7, <1>8 DEF Ended

\* One that finds a client, or does not
LEMMA DispatchIs ==
    ASSUME Typed, NEW t \in Threads, call[t].pc = "begun", NEW x, NEW o, Worked(t, x, o),
           Plain(t, x, o) \/ Miss(t, x, o) \/ Whole(t, x, o), NEW valid, Dispatch(t, x, o, valid)
    PROVE  Ended(t) \/ Dispatched(t)
  <1>1. call[t] \in Calls /\ call[t].op \in DOMAIN ops /\ call[t].req \in DOMAIN objs
    BY Senders DEF Sending
  <1>2. CASE session # 0 /\ valid
    <2>1. PICK y : y = call[t]
      OBVIOUS
    <2>2. PICK s : s = session
      OBVIOUS
    <2>3. s \in 0 .. MaxSessions
      <3>1. s \in {0, last} /\ last \in 0 .. MaxSessions
        BY <2>2 DEF Typed, TypeOK, SessionTypeOK
      <3> QED BY <3>1, BoundsNat
    <2>4. PICK z : z = [y EXCEPT !.pc = "submit", !.session = s]
      OBVIOUS
    <2>5. z \in Calls /\ z.pc = "submit" /\ z.op = y.op /\ z.req = y.req /\ z.session = s
      BY <1>1, <2>1, <2>3, <2>4 DEF Calls
    <2>6. CallTo(t, z)
      BY <1>2, <2>1, <2>2, <2>4, <2>5, CallSet DEF Dispatch, Typed
    <2>7. ObjsTo(call[t].req, x)
      BY <1>1, <1>2, ObjSet DEF Dispatch, Worked, Typed
    <2>8. OpsTo(call[t].op, o)
      BY <1>1, <1>2, OpSet DEF Dispatch, Worked, Typed
    <2>9. Beside
      BY <1>2 DEF Dispatch, Beside
    <2> QED BY <1>2, <2>1, <2>2, <2>5, <2>6, <2>7, <2>8, <2>9 DEF Dispatched
  <1>3. CASE ~(session # 0 /\ valid)
    <2>1. EndsHere(t, x, "not sent", o)
      BY <1>3 DEF Dispatch
    <2> QED BY <2>1, EndIs
  <1> QED BY <1>2, <1>3

\* History says that an operation was forgotten.
LEMMA LoseIs ==
    ASSUME Typed, NEW c \in DOMAIN ops, NEW l \in Losses \ {"no"}, Lose(c, l), objs' = objs
    PROVE  Forgets(c)
  <1>1. PICK o : o = ops[c]
    OBVIOUS
  <1>2. o \in OpRecs
    BY <1>1, Kept DEF Typed
  <1>3. PICK p : p = [o EXCEPT !.lost = l]
    OBVIOUS
  <1>4. /\ p \in OpRecs /\ p.lost = l
        /\ p.done = o.done /\ p.told = o.told /\ p.spoilt = o.spoilt /\ p.wrong = o.wrong
        /\ SameOrigin(p, o) /\ SameAsked(p, o) /\ SameBytes(p, o) /\ p.got = o.got
    BY <1>2, <1>3 DEF OpRecs, SameOrigin, SameAsked, SameBytes
  <1>5. OpsTo(c, p)
    BY <1>1, <1>3, <1>4, OpSet DEF Lose, Typed
  <1> QED BY <1>1, <1>4, <1>5 DEF Forgets

\* What a call does between BeginOp and the submission
Starts(t) ==
    \/ \E valid \in BOOLEAN :
         \/ StartSend(t, valid)
         \/ \E room \in 0 .. MaxParts : ReadData(t, room, valid)
         \/ \E size, total \in 1 .. MaxParts : WriteData(t, size, total, valid)
    \/ StartNothing(t)
    \/ \E fits \in BOOLEAN : StartComment(t, fits)
    \/ StartEmptyId(t)

\* It ends there, goes on to the submission, or is forgotten.
LEMMA StartIs ==
    ASSUME Typed, NEW t \in Threads, Starts(t)
    PROVE  Ended(t) \/ Dispatched(t) \/ Dropped(t)
  <1>p. call[t].pc = "begun"
    BY DEF Starts, StartSend, ReadData, WriteData, StartNothing, StartComment, StartEmptyId, Begun
  <1>w. Worked(t, objs[call[t].req], ops[call[t].op]) /\ Plain(t, objs[call[t].req], ops[call[t].op])
    BY <1>p, PlainWorks
  <1>1. ASSUME NEW valid \in BOOLEAN, StartSend(t, valid) PROVE Ended(t) \/ Dispatched(t) \/ Dropped(t)
    BY <1>1, <1>p, <1>w, DispatchIs DEF StartSend
  <1>2. ASSUME NEW valid \in BOOLEAN, NEW room \in 0 .. MaxParts, ReadData(t, room, valid)
        PROVE  Ended(t) \/ Dispatched(t) \/ Dropped(t)
    <2>1. PICK x, o : /\ Worked(t, x, o)
                      /\ \/ Hit(t, x, o) /\ EndsHere(t, x, "ok", o)
                         \/ Miss(t, x, o) /\ Dispatch(t, x, o, valid)
      BY <1>2, ReadWorks
    <2> QED BY <1>p, <2>1, EndIs, DispatchIs
  <1>3. ASSUME NEW valid \in BOOLEAN, NEW size \in 1 .. MaxParts, NEW total \in 1 .. MaxParts,
               WriteData(t, size, total, valid)
        PROVE  Ended(t) \/ Dispatched(t) \/ Dropped(t)
    <2>1. PICK x, o : /\ Worked(t, x, o)
                      /\ \/ Part(t, x, o) /\ EndsHere(t, x, "ok", o)
                         \/ Whole(t, x, o) /\ Dispatch(t, x, o, valid)
      BY <1>3, WriteWorks
    <2> QED BY <1>p, <2>1, EndIs, DispatchIs
  <1>4. CASE StartNothing(t)
    BY <1>4, <1>p, <1>w, EndIs DEF StartNothing
  <1>5. ASSUME NEW fits \in BOOLEAN, StartComment(t, fits) PROVE Ended(t) \/ Dispatched(t) \/ Dropped(t)
    <2>1. CASE fits
      BY <1>5, <1>p, <1>w, <2>1, EndIs DEF StartComment
    <2>2. CASE ~fits
      <3>1. call[t].op \in DOMAIN ops
        BY <1>p, Senders DEF Sending
      <3>2. Lose(call[t].op, "too long") /\ objs' = objs /\ Goto(t, Idle)
        BY <1>5, <2>2 DEF StartComment, Lose
      <3>3. Forgets(call[t].op)
        BY <3>1, <3>2, LoseIs DEF Losses
      <3>4. CallTo(t, Idle) /\ Beside
        BY <1>5, <2>2, <3>2, IdleIs, CallSet DEF StartComment, Resting, Typed, Beside
      <3> QED BY <1>p, <3>3, <3>4 DEF Dropped
    <2> QED BY <2>1, <2>2
  <1>6. CASE StartEmptyId(t)
    BY <1>6, <1>p, <1>w, EndIs DEF StartEmptyId
  <1> QED BY <1>1, <1>2, <1>3, <1>4, <1>5, <1>6 DEF Starts

\* Whether a request has an operation that is not done
Open(r) == \E c \in DOMAIN ops : ops[c].req = r /\ ops[c].done = FALSE

\* It is begun last on request r, and there is nothing else to it.
BegunAs(t, r, y, p, z) ==
    /\ ObjsTo(r, y) /\ CallTo(t, z) /\ ops'[Len(ops) + 1] = p
    /\ objs[r].result # "aborted"
    /\ y.result = "unset" /\ y.of = 0 /\ y.op = Len(ops) + 1 /\ y.title = objs[r].title
    /\ objs[r].mixed = TRUE \/ Open(r) => y.mixed = TRUE
    /\ y.mixed = TRUE => objs[r].mixed = TRUE \/ Open(r)
    /\ SameReads(y, objs[r]) /\ SameBlob(y, objs[r])
    /\ p.req = r /\ p.lost = "no" /\ p.done = FALSE /\ p.told = FALSE /\ p.spoilt = FALSE
    /\ p.fits = TRUE /\ p.key = "" /\ p.got = <<>> /\ p.blob = <<>>
    /\ z.pc = "begun" /\ z.op = Len(ops) + 1 /\ z.req = r

\* BeginOp puts a new operation behind the others.
Begins(t) ==
    /\ call[t].op = 0 /\ Beside
    /\ Len(ops') = Len(ops) + 1 /\ DOMAIN ops' = 1 .. Len(ops) + 1 /\ Len(ops) + 1 <= MaxOps
    /\ ops' \in Seq(OpRecs) /\ \A c \in DOMAIN ops : ops'[c] = ops[c]
    /\ \E r \in DOMAIN objs, y \in Objs : \E p, z :
         BegunAs(t, r, y, p, z)

\* The packet of an operation gets its number.
Submitted(t) ==
    /\ call[t].pc = "submit" /\ PacketSubmitted(call[t].session)
    /\ \E z : /\ CallTo(t, z) /\ z.pc = "register" /\ z.op = call[t].op /\ z.req = call[t].req
              /\ z.session = call[t].session /\ z.pkt = NextPacket(call[t].session)
    /\ UNCHANGED <<gameVars, objs, ops, pending, reader>>

\* The entry is made, if its number is not taken.
Entered(t, e) ==
    /\ pending' = pending \cup {e} /\ ~ \E f \in pending : f.pkt = call[t].pkt
    /\ e \in [pkt : Nat, op : DOMAIN ops, session : Sessions]
    /\ e.pkt = call[t].pkt /\ e.op = call[t].op /\ e.session = call[t].session
    /\ \/ Forgets(call[t].op)
       \/ UNCHANGED <<objs, ops>> /\ ~Over(call[t].session) /\ call[t].pkt \notin missed
Registered(t) ==
    /\ call[t].pc = "register"
    /\ \E z : CallTo(t, z) /\ Resting(z) /\ (z.pc = "wait" => z.req = call[t].req)
    /\ UNCHANGED <<gameVars, reader, sessionVars>>
    /\ \/ pending' = pending /\ Forgets(call[t].op)
       \/ \E e : Entered(t, e)

\* The new operation is of the request, and all there is to it is new.
LEMMA BeginIs ==
    ASSUME Typed, NEW t \in Threads, NEW r \in requests, NEW does \in KindOps, NEW sync \in BOOLEAN,
           BeginOp(t, r, does, sync)
    PROVE  Begins(t)
  <1>1. PICK c : c = Len(ops) + 1
    OBVIOUS
  <1>2. /\ call[t].pc = "idle" /\ Len(ops) < MaxOps /\ objs[r].result # "aborted" /\ Beside
        /\ objs' = [objs EXCEPT ![r] = BegunOp(r, c)] /\ ops' = Append(ops, NewOp(r, does))
        /\ Goto(t, [Idle EXCEPT !.pc = "begun", !.req = r, !.op = c, !.does = does, !.sync = sync])
    BY <1>1 DEF BeginOp, MayBegin, Beside
  <1>3. r \in DOMAIN objs /\ r \in 1 .. MaxRequests
    BY Kept DEF Typed, TypeOK
  <1>4. ops \in Seq(OpRecs) /\ Len(ops) \in Nat /\ MaxOps \in Nat
    BY Kept, BoundsNat DEF Typed
  <1>5. c \in 1 .. MaxOps /\ c \in 0 .. MaxOps /\ MaxRequests \in Nat
    BY <1>1, <1>2, <1>4, BoundsNat
  <1>6. PICK x : x = objs[r]
    OBVIOUS
  <1>7. x \in Objs
    BY <1>3, <1>6, Kept DEF Typed
  <1>8. PICK over : over = Unfinished(r)
    OBVIOUS
  <1>9. over \in BOOLEAN /\ (over <=> Open(r))
    <2>1. \A d \in DOMAIN ops : ops[d].done = FALSE <=> ~ops[d].done
      <3>1. \A d \in DOMAIN ops : ops[d].done \in BOOLEAN
        BY Kept DEF OpRecs, Typed
      <3> QED BY <3>1
    <2> QED BY <1>8, <2>1 DEF Unfinished, Open
  <1>10. PICK m \in BOOLEAN : m = (x.mixed \/ over)
    OBVIOUS
  <1>11. m = TRUE <=> (x.mixed = TRUE \/ Open(r))
    <2>1. x.mixed \in BOOLEAN
      BY <1>7 DEF Objs
    <2> QED BY <1>9, <1>10, <2>1
  <1>12. PICK y : y = [x EXCEPT !.result = "unset", !.of = 0, !.op = c, !.mixed = m]
    OBVIOUS
  <1>13. BegunOp(r, c) = y
    BY <1>6, <1>8, <1>10, <1>12 DEF BegunOp
  <1>14. 0 \in 0 .. MaxOps /\ "unset" \in Results
    BY <1>4 DEF Results
  <1>15. /\ y \in Objs /\ y.result = "unset" /\ y.of = 0 /\ y.op = c /\ y.title = x.title /\ y.mixed = m
         /\ SameReads(y, x) /\ SameBlob(y, x)
    BY <1>5, <1>7, <1>12, <1>14 DEF Objs, SameReads, SameBlob
  <1>16. ObjsTo(r, y)
    BY <1>2, <1>3, <1>13, <1>15, ObjSet DEF Typed
  <1>17. does \in Ops
    BY DEF KindOps
  <1>18. PICK p : p = NewOp(r, does)
    OBVIOUS
  <1>19. /\ p \in OpRecs /\ p.req = r /\ p.lost = "no" /\ p.done = FALSE /\ p.told = FALSE /\ p.spoilt = FALSE
         /\ p.fits = TRUE /\ p.key = "" /\ p.got = <<>> /\ p.blob = <<>>
    <2>1. 0 \in 0 .. MaxParts /\ 0 \in Characters
      BY BoundsNat, ScoreAssumption
    <2>2. does.fits = TRUE
      BY <1>17, OpsRight
    <2> QED BY <1>3, <1>18, <2>1, <2>2 DEF NewOp, OpRecs, Losses, Players
  <1>20. /\ Len(ops') = Len(ops) + 1 /\ DOMAIN ops' = 1 .. Len(ops) + 1
         /\ ops' \in Seq(OpRecs) /\ (\A d \in DOMAIN ops : ops'[d] = ops[d]) /\ ops'[c] = p
    <2>1. ops' = Append(ops, p)
      BY <1>2, <1>18
    <2>2. ops \in Seq(OpRecs) /\ p \in OpRecs
      BY <1>4, <1>19
    <2>3. /\ Len(Append(ops, p)) = Len(ops) + 1 /\ DOMAIN Append(ops, p) = 1 .. Len(ops) + 1
          /\ Append(ops, p) \in Seq(OpRecs) /\ (\A d \in DOMAIN ops : Append(ops, p)[d] = ops[d])
          /\ Append(ops, p)[Len(ops) + 1] = p
      BY <2>2, Longer
    <2> QED BY <1>1, <2>1, <2>3
  <1>21. PICK z : z = [Idle EXCEPT !.pc = "begun", !.req = r, !.op = c, !.does = does, !.sync = sync]
    OBVIOUS
  <1>22. z \in Calls /\ z.pc = "begun" /\ z.op = c /\ z.req = r
    <2>1. Idle \in Calls
      BY IdleIs DEF Resting
    <2>2. r \in 0 .. MaxRequests
      BY <1>3, <1>5
    <2> QED BY <1>5, <1>17, <1>21, <2>1, <2>2 DEF Calls
  <1>23. CallTo(t, z)
    BY <1>2, <1>21, <1>22, CallSet DEF Typed
  <1>24. call[t].op = 0
    <2>1. Stage(call[t])
      BY DEF Typed
    <2> QED BY <1>2, <2>1 DEF Stage, Sending
  <1>25. Len(ops) + 1 <= MaxOps
    BY <1>2, <1>4
  <1>26. /\ ObjsTo(r, y) /\ CallTo(t, z) /\ ops'[Len(ops) + 1] = p
         /\ objs[r].result # "aborted"
         /\ y.result = "unset" /\ y.of = 0 /\ y.op = Len(ops) + 1 /\ y.title = objs[r].title
         /\ SameReads(y, objs[r]) /\ SameBlob(y, objs[r])
         /\ z.pc = "begun" /\ z.op = Len(ops) + 1 /\ z.req = r
    BY <1>1, <1>2, <1>6, <1>15, <1>16, <1>20, <1>22, <1>23
  <1>27. /\ objs[r].mixed = TRUE \/ Open(r) => y.mixed = TRUE
         /\ y.mixed = TRUE => objs[r].mixed = TRUE \/ Open(r)
    <2>1. y.mixed = m
      BY <1>15
    <2> QED BY <1>6, <1>11, <2>1
  <1>28. BegunAs(t, r, y, p, z)
    BY <1>19, <1>26, <1>27 DEF BegunAs
  <1> QED BY <1>2, <1>3, <1>15, <1>20, <1>24, <1>25, <1>28 DEF Begins

\* A packet is numbered.
LEMMA SubmitIs ==
    ASSUME Typed, NEW t \in Threads, SubmitRequest(t)
    PROVE  Submitted(t)
  <1>1. PICK y : y = call[t]
    OBVIOUS
  <1>2. y \in Calls /\ y.pc = "submit"
    BY <1>1, Kept DEF Typed, SubmitRequest
  <1>3. y.session \in 1 .. last
    <2>1. Stage(y)
      BY <1>1 DEF Typed
    <2> QED BY <1>2, <2>1 DEF Stage
  <1>4. PICK n : n = NextPacket(y.session)
    OBVIOUS
  <1>5. n \in Nat
    <2>1. y.session \in Sessions /\ counter \in [Sessions -> Nat]
      BY <1>3, BoundsNat DEF Typed, TypeOK, SessionTypeOK, Sessions
    <2> QED BY <1>4, <2>1 DEF NextPacket
  <1>6. PICK z : z = [y EXCEPT !.pc = "register", !.pkt = n]
    OBVIOUS
  <1>7. z \in Calls /\ z.pc = "register" /\ z.pkt = n /\ z.op = y.op /\ z.req = y.req /\ z.session = y.session
    BY <1>2, <1>5, <1>6 DEF Calls
  <1>8. CallTo(t, z)
    BY <1>1, <1>4, <1>6, <1>7, CallSet DEF SubmitRequest, Typed
  <1> QED BY <1>1, <1>2, <1>4, <1>7, <1>8 DEF Submitted, SubmitRequest

\* An entry is made, and history says when it came too late.
LEMMA RegisterIs ==
    ASSUME Typed, NEW t \in Threads, Register(t)
    PROVE  Registered(t)
  <1>1. PICK c : c = call[t].op
    OBVIOUS
  <1>2. PICK p : p = call[t].pkt
    OBVIOUS
  <1>3. PICK s : s = call[t].session
    OBVIOUS
  <1>4. call[t].pc = "register" /\ call[t].pc \in Sending /\ UNCHANGED <<gameVars, reader, sessionVars>> /\ objs' = objs
    BY DEF Register, Sending
  <1>5. call[t] \in Calls /\ c \in DOMAIN ops
    BY <1>1, <1>4, Senders
  <1>6. p \in Nat /\ s \in Sessions
    <2>1. p \in Nat
      BY <1>2, <1>5 DEF Calls
    <2>2. Stage(call[t])
      BY DEF Typed
    <2>3. s \in 1 .. last
      BY <1>3, <1>4, <2>2 DEF Stage
    <2> QED BY <2>1, <2>3, BoundsNat DEF Typed, TypeOK, SessionTypeOK, Sessions
  <1>7. \E z : CallTo(t, z) /\ Resting(z) /\ (z.pc = "wait" => z.req = call[t].req)
    <2>1. PICK r : r = call[t].req
      OBVIOUS
    <2>2. r \in 0 .. MaxRequests
      BY <1>5, <2>1 DEF Calls
    <2>3. PICK w : w = [Idle EXCEPT !.pc = "wait", !.req = r]
      OBVIOUS
    <2>4. Resting(w) /\ w.req = r /\ Resting(Idle) /\ Idle.pc # "wait"
      BY <2>2, <2>3, IdleIs
    <2>5. Goto(t, w) \/ Goto(t, Idle)
      BY <2>1, <2>3 DEF Register, Sent, Waiting
    <2>6. CallTo(t, w) \/ CallTo(t, Idle)
      BY <2>4, <2>5, CallSet DEF Resting, Typed
    <2> QED BY <2>1, <2>4, <2>6
  <1>8. CASE \E e \in pending : e.pkt = p
    <2>1. Lose(c, "number taken") /\ pending' = pending
      BY <1>1, <1>2, <1>8 DEF Register
    <2>2. Forgets(c)
      BY <1>4, <1>5, <2>1, LoseIs DEF Losses
    <2> QED BY <1>1, <1>4, <1>7, <2>1, <2>2 DEF Registered
  <1>9. CASE ~ \E e \in pending : e.pkt = p
    <2>1. PICK e : e = [pkt |-> p, op |-> c, session |-> s]
      OBVIOUS
    <2>2. pending' = pending \cup {e}
      BY <1>1, <1>2, <1>3, <1>9, <2>1 DEF Register
    <2>3. e.pkt = p /\ e.op = c /\ e.session = s /\ e \in [pkt : Nat, op : DOMAIN ops, session : Sessions]
      BY <1>5, <1>6, <2>1
    <2>4. Forgets(c) \/ (UNCHANGED <<objs, ops>> /\ ~Over(s) /\ p \notin missed)
      <3>1. CASE Over(s)
        <4>1. Lose(c, "session over")
          BY <1>1, <1>2, <1>3, <1>9, <3>1 DEF Register
        <4> QED BY <1>4, <1>5, <4>1, LoseIs DEF Losses
      <3>2. CASE ~Over(s) /\ p \in missed
        <4>1. Lose(c, "overtaken")
          BY <1>1, <1>2, <1>3, <1>9, <3>2 DEF Register
        <4> QED BY <1>4, <1>5, <4>1, LoseIs DEF Losses
      <3>3. CASE ~Over(s) /\ p \notin missed
        BY <1>1, <1>2, <1>3, <1>4, <1>9, <3>3 DEF Register
      <3> QED BY <3>1, <3>2, <3>3
    <2>5. Entered(t, e)
      BY <1>1, <1>2, <1>3, <1>9, <2>2, <2>3, <2>4 DEF Entered
    <2> QED BY <1>4, <1>7, <2>5 DEF Registered
  <1> QED BY <1>8, <1>9

\* OnScoreReply takes the entry of the number, whosever it is.
Taken(e) ==
    /\ pending' = pending \ {e} /\ reader' = e.op
    /\ \E p : /\ OpsTo(e.op, p) /\ p \in OpRecs
              /\ p.done = ops[e.op].done /\ p.told = ops[e.op].told /\ p.spoilt = ops[e.op].spoilt
              /\ p.lost = ops[e.op].lost
              /\ SameOrigin(p, ops[e.op]) /\ SameAsked(p, ops[e.op]) /\ SameBytes(p, ops[e.op])
              /\ p.got = ops[e.op].got
Answered(p) ==
    /\ reader = 0 /\ p \in inFlight /\ inFlight' = inFlight \ {p}
    /\ \/ missed' = missed \cup {p}
       \/ missed' = missed /\ \E e \in pending : e.pkt = p /\ e.session = last
    /\ UNCHANGED <<gameVars, objs, call, session, last, up, counter, task>>
    /\ \/ UNCHANGED <<pending, reader, ops>> /\ ~ \E e \in pending : e.pkt = p
       \/ \E e \in pending : e.pkt = p /\ Taken(e)

\* The reader finishes an operation: the buffers and the cache, then the result.
Filled(x, o, y, p) ==
    /\ SameTurn(y, x) /\ SameBlob(y, x) /\ y.pc = x.pc /\ y.turned = x.turned /\ y.key = x.key
    /\ x.result # "unset" => SameResult(y, x)
    /\ x.result = "unset" => y.result \in {"ok", "failed"} /\ y.of = reader
    /\ p.done = TRUE /\ p.told = FALSE /\ p.lost = o.lost
    /\ p.spoilt = TRUE => o.told = TRUE
    /\ SameOrigin(p, o) /\ SameBytes(p, o)
    /\ \/ SameReads(y, x) /\ p.got = <<>>
       \/ /\ o.key # "" /\ SameAsked(p, o)
          /\ \E n \in Nat : /\ p.got = <<GameData(o.key, o.pc), 0, n>>
                            /\ y.offset = 0 \/ (y.offset = n /\ y.cache = GameData(o.key, o.pc))
Completed ==
    /\ reader # 0 /\ reader' = 0
    /\ UNCHANGED <<gameVars, call, pending, sessionVars>>
    /\ \E y \in Objs, p \in OpRecs :
         /\ ObjsTo(ops[reader].req, y) /\ OpsTo(reader, p)
         /\ Filled(objs[ops[reader].req], ops[reader], y, p)

\* A sign-out fails every operation that has an entry: those of one request together, with
\* the result of the first if it had none.
FailsObj(r, y) ==
    /\ y \in Objs /\ SameTurn(y, objs[r]) /\ SameReads(y, objs[r]) /\ SameBlob(y, objs[r])
    /\ \/ SameResult(y, objs[r]) /\ (objs[r].result # "unset" \/ ~ \E e \in pending : ops[e.op].req = r)
       \/ /\ objs[r].result = "unset" /\ y.result # "unset"
          /\ \E e \in pending : ops[e.op].req = r /\ y.of = e.op
FailsOp(c, p) ==
    \/ p = ops[c] /\ ~ \E e \in pending : e.op = c
    \/ /\ \E e \in pending : e.op = c
       /\ p \in OpRecs /\ p.done = TRUE /\ p.told = FALSE
       /\ p.lost = ops[c].lost /\ p.spoilt = ops[c].spoilt
       /\ SameOrigin(p, ops[c]) /\ SameBytes(p, ops[c]) /\ p.got = ops[c].got
       /\ ops[c].got # <<>> => SameAsked(p, ops[c])
Failed ==
    /\ PendingFailed /\ pending' = {}
    /\ UNCHANGED <<gameVars, call, reader>>
    /\ objs' \in Seq(Objs) /\ Len(objs') = Len(objs) /\ DOMAIN objs' = DOMAIN objs
    /\ \A r \in DOMAIN objs : FailsObj(r, objs'[r])
    /\ ops' \in Seq(OpRecs) /\ Len(ops') = Len(ops) /\ DOMAIN ops' = DOMAIN ops
    /\ \A c \in DOMAIN ops : FailsOp(c, ops'[c])

\* A reply is taken.
LEMMA TakeIs ==
    ASSUME Typed, NEW p \in inFlight, TakeReply(p)
    PROVE  Answered(p)
  <1>1. /\ reader = 0 /\ inFlight' = inFlight \ {p}
        /\ UNCHANGED <<gameVars, objs, call, session, last, up, counter, task>>
    BY DEF TakeReply, PacketAnswered
  <1>2. \/ missed' = missed \cup {p}
        \/ missed' = missed /\ \E e \in pending : e.pkt = p /\ e.session = last
    BY DEF TakeReply, PacketAnswered
  <1>3. CASE ~ \E e \in pending : e.pkt = p
    <2>1. UNCHANGED <<pending, reader, ops>>
      BY <1>3 DEF TakeReply
    <2> QED BY <1>1, <1>2, <1>3, <2>1 DEF Answered
  <1>4. CASE \E e \in pending : e.pkt = p
    <2>1. PICK e \in pending : /\ e.pkt = p /\ pending' = pending \ {e} /\ reader' = e.op
                               /\ ops' = [ops EXCEPT ![e.op].wrong = e.session # last]
      BY <1>4 DEF TakeReply
    <2>2. PICK c : c = e.op
      OBVIOUS
    <2>3. c \in DOMAIN ops
      BY <2>2 DEF Typed, TypeOK
    <2>4. PICK o : o = ops[c]
      OBVIOUS
    <2>5. o \in OpRecs
      BY <2>3, <2>4, Kept DEF Typed
    <2>6. PICK w \in BOOLEAN : w = (e.session # last)
      OBVIOUS
    <2>7. PICK q : q = [o EXCEPT !.wrong = w]
      OBVIOUS
    <2>8. /\ q \in OpRecs /\ q.done = o.done /\ q.told = o.told /\ q.spoilt = o.spoilt /\ q.lost = o.lost
          /\ SameOrigin(q, o) /\ SameAsked(q, o) /\ SameBytes(q, o) /\ q.got = o.got
      BY <2>5, <2>7 DEF OpRecs, SameOrigin, SameAsked, SameBytes
    <2>9. ops' = [ops EXCEPT ![c] = q]
      BY <2>1, <2>2, <2>4, <2>6, <2>7
    <2>10. OpsTo(c, q)
      BY <2>3, <2>8, <2>9, OpSet DEF Typed
    <2>11. Taken(e)
      BY <2>1, <2>2, <2>4, <2>8, <2>10 DEF Taken
    <2> QED BY <1>1, <1>2, <2>1, <2>11 DEF Answered
  <1> QED BY <1>3, <1>4

\* A reply completes its operation.
LEMMA CompleteIs ==
    ASSUME Typed, NEW good \in BOOLEAN, CompleteOp(good)
    PROVE  Completed
  <1>1. reader # 0 /\ reader' = 0 /\ UNCHANGED <<gameVars, call, pending, sessionVars>>
    BY DEF CompleteOp
  <1>2. PICK c : c = reader
    OBVIOUS
  <1>3. c \in DOMAIN ops /\ c \in 0 .. MaxOps
    <2>1. c \in 0 .. Len(ops) /\ c # 0
      BY <1>1, <1>2 DEF Typed, TypeOK
    <2>2. Len(ops) \in 0 .. MaxOps /\ DOMAIN ops = 1 .. Len(ops) /\ MaxOps \in Nat
      BY Kept, BoundsNat DEF Typed
    <2> QED BY <2>1, <2>2
  <1>4. PICK o : o = ops[c]
    OBVIOUS
  <1>5. o \in OpRecs /\ o.req \in DOMAIN objs
    BY <1>3, <1>4, Kept DEF Typed
  <1>6. PICK x : x = objs[o.req]
    OBVIOUS
  <1>7. x \in Objs
    BY <1>5, <1>6, Kept DEF Typed
  <1>8. PICK n : n = Smaller(MaxParts, o.room)
    OBVIOUS
  <1>9. n \in Nat /\ 0 + n \in 0 .. MaxParts /\ 0 + n = n /\ n \in 0 .. MaxParts /\ 0 \in 0 .. MaxParts
    <2>1. MaxParts \in Nat /\ o.room \in 0 .. MaxParts
      BY <1>5, BoundsNat DEF OpRecs
    <2> QED BY <1>8, <2>1 DEF Smaller
  <1>10. PICK data : data = GameData(o.key, o.pc)
    OBVIOUS
  <1>11. data \in Players \X Characters
    BY <1>5, <1>10 DEF GameData, OpRecs
  <1>12. PICK read \in BOOLEAN : read = (good /\ o.key # "")
    OBVIOUS
  <1>13. PICK what : what = IF good THEN "ok" ELSE "failed"
    OBVIOUS
  <1>14. what \in {"ok", "failed"} /\ what \in Results
    BY <1>13 DEF Results
  <1>15. PICK v : v = IF read THEN AfterRead(x, 0, n, o.room, data) ELSE x
    OBVIOUS
  <1>16. /\ v \in Objs /\ SameTurn(v, x) /\ SameResult(v, x) /\ SameBlob(v, x)
         /\ v.pc = x.pc /\ v.turned = x.turned /\ v.key = x.key
         /\ read = FALSE => SameReads(v, x)
         /\ read = TRUE => v.offset = 0 \/ (v.offset = n /\ v.cache = data)
    <2>1. CASE read = TRUE
      <3>1. v = AfterRead(x, 0, n, o.room, data)
        BY <1>15, <2>1
      <3>2. PICK start : start = 0
        OBVIOUS
      <3>3. start + n \in 0 .. MaxParts /\ start + n = n
        BY <1>9, <3>2
      <3>4. v = AfterRead(x, start, n, o.room, data)
        BY <3>1, <3>2
      <3>5. /\ v \in Objs /\ SameTurn(v, x) /\ SameResult(v, x) /\ SameBlob(v, x)
            /\ v.pc = x.pc /\ v.turned = x.turned /\ v.key = x.key
            /\ v.offset = 0 \/ (v.offset = start + n /\ v.cache = data)
        BY <1>7, <1>11, <3>3, <3>4, AfterReadIs
      <3> QED BY <2>1, <3>3, <3>5
    <2>2. CASE read = FALSE
      <3>1. v = x
        BY <1>15, <2>2
      <3> QED BY <1>7, <2>2, <3>1 DEF SameTurn, SameResult, SameBlob, SameReads
    <2> QED BY <2>1, <2>2
  <1>17. PICK y : y = SetResult(v, what, c)
    OBVIOUS
  <1>18. /\ y \in Objs /\ SameTurn(y, v) /\ SameReads(y, v) /\ SameBlob(y, v)
         /\ v.result # "unset" => SameResult(y, v)
         /\ v.result = "unset" => y.result = what /\ y.of = c
    BY <1>3, <1>14, <1>16, <1>17, SetResultIs
  <1>19. PICK g : g = IF read THEN <<data, 0, n>> ELSE <<>>
    OBVIOUS
  <1>20. g \in {<<>>} \cup (Players \X Characters) \X (0 .. MaxParts) \X (0 .. MaxParts)
    BY <1>9, <1>11, <1>19
  <1>21. PICK s \in BOOLEAN : s = (good /\ o.told)
    OBVIOUS
  <1>22. PICK m : m = [o EXCEPT !.spoilt = s, !.got = g]
    OBVIOUS
  <1>23. /\ m \in OpRecs /\ m.lost = o.lost /\ m.spoilt = s /\ m.got = g
         /\ SameOrigin(m, o) /\ SameBytes(m, o) /\ SameAsked(m, o)
    BY <1>5, <1>20, <1>22 DEF OpRecs, SameOrigin, SameBytes, SameAsked
  <1>24. PICK p : p = Finished(m)
    OBVIOUS
  <1>25. /\ p \in OpRecs /\ p.done = TRUE /\ p.told = FALSE /\ p.lost = o.lost /\ p.spoilt = s /\ p.got = g
         /\ SameOrigin(p, o) /\ SameBytes(p, o) /\ (g # <<>> => SameAsked(p, o))
    BY <1>23, <1>24, FinishedIs DEF SameOrigin, SameBytes, SameAsked
  <1>26. objs' = [objs EXCEPT ![o.req] = y] /\ ops' = [ops EXCEPT ![c] = p]
    BY <1>2, <1>4, <1>6, <1>8, <1>10, <1>12, <1>13, <1>15, <1>17, <1>19, <1>21, <1>22, <1>24 DEF CompleteOp
  <1>27. ObjsTo(o.req, y) /\ OpsTo(c, p)
    BY <1>3, <1>5, <1>18, <1>25, <1>26, ObjSet, OpSet DEF Typed
  <1>28. s = TRUE => o.told = TRUE
    <2>1. o.told \in BOOLEAN
      BY <1>5 DEF OpRecs
    <2> QED BY <1>21, <2>1
  <1>29. /\ SameTurn(y, x) /\ SameBlob(y, x) /\ y.pc = x.pc /\ y.turned = x.turned /\ y.key = x.key
         /\ x.result # "unset" => SameResult(y, x)
         /\ x.result = "unset" => y.result \in {"ok", "failed"} /\ y.of = c
    BY <1>14, <1>16, <1>18 DEF SameTurn, SameBlob, SameReads, SameResult
  <1>30. \/ SameReads(y, x) /\ g = <<>>
         \/ /\ o.key # "" /\ g # <<>>
            /\ g = <<data, 0, n>>
            /\ y.offset = 0 \/ (y.offset = n /\ y.cache = data)
    <2>1. CASE read = TRUE
      BY <1>12, <1>16, <1>18, <1>19, <2>1 DEF SameReads
    <2>2. CASE read = FALSE
      BY <1>16, <1>18, <1>19, <2>2 DEF SameReads
    <2> QED BY <2>1, <2>2
  <1>31. Filled(x, o, y, p)
    <2>1. /\ p.done = TRUE /\ p.told = FALSE /\ p.lost = o.lost
          /\ p.spoilt = TRUE => o.told = TRUE
          /\ SameOrigin(p, o) /\ SameBytes(p, o)
      BY <1>25, <1>28
    <2>2. \/ SameReads(y, x) /\ p.got = <<>>
          \/ /\ o.key # "" /\ SameAsked(p, o)
             /\ \E k \in Nat : /\ p.got = <<GameData(o.key, o.pc), 0, k>>
                               /\ y.offset = 0 \/ (y.offset = k /\ y.cache = GameData(o.key, o.pc))
      BY <1>9, <1>10, <1>25, <1>30
    <2> QED BY <1>2, <1>29, <2>1, <2>2 DEF Filled
  <1> QED BY <1>1, <1>2, <1>4, <1>6, <1>18, <1>25, <1>27, <1>31 DEF Completed

\* A sign-out fails what is pending.
LEMMA FailIs ==
    ASSUME Typed, FailPendingRequests
    PROVE  Failed
  <1> DEFINE of(r) == {e \in pending : ops[e.op].req = r}
             first(r) == CHOOSE e \in of(r) : \A f \in of(r) : e.pkt <= f.pkt
  <1>1. /\ PendingFailed /\ pending' = {} /\ UNCHANGED <<gameVars, call, reader>>
        /\ objs' = [r \in DOMAIN objs |->
                      IF of(r) = {} THEN objs[r] ELSE SetResult(objs[r], "signed out", first(r).op)]
        /\ ops' = [c \in DOMAIN ops |-> IF \E e \in pending : e.op = c THEN Finished(ops[c]) ELSE ops[c]]
    BY DEF FailPendingRequests, FailEntries
  <1>2. ASSUME NEW r \in DOMAIN objs, of(r) # {} PROVE first(r) \in of(r)
    <2>1. PICK S : S = {e.pkt : e \in of(r)}
      OBVIOUS
    <2>2. PICK n : n \in S
      BY <1>2, <2>1
    <2>3. S \in SUBSET Nat
      BY <2>1 DEF Typed, TypeOK
    <2>4. PICK i \in S : \A j \in S : i <= j
      BY <2>2, <2>3, LeastNumber
    <2>5. \E e \in of(r) : \A f \in of(r) : e.pkt <= f.pkt
      BY <2>1, <2>4
    <2> QED BY <2>5
  <1>3. ASSUME NEW r \in DOMAIN objs PROVE FailsObj(r, objs'[r])
    <2>1. PICK x : x = objs[r]
      OBVIOUS
    <2>2. x \in Objs
      BY <2>1, Kept DEF Typed
    <2>3. CASE of(r) = {}
      <3>1. objs'[r] = x
        BY <1>1, <2>1, <2>3
      <3>2. ~ \E e \in pending : ops[e.op].req = r
        BY <2>3
      <3> QED BY <2>1, <2>2, <3>1, <3>2 DEF FailsObj, SameTurn, SameReads, SameBlob, SameResult
    <2>4. CASE of(r) # {}
      <3>1. PICK e : e = first(r)
        OBVIOUS
      <3>2. e \in of(r)
        BY <1>2, <2>4, <3>1
      <3>3. PICK c : c = e.op
        OBVIOUS
      <3>4. c \in 1 .. MaxOps /\ e \in pending /\ ops[e.op].req = r
        BY <3>2, <3>3, Kept DEF Typed, TypeOK
      <3>5. PICK what \in Results \ {"unset"} : what = "signed out"
        BY DEF Results
      <3>6. PICK y : y = SetResult(x, what, c)
        OBVIOUS
      <3>7. /\ y \in Objs /\ SameTurn(y, x) /\ SameReads(y, x) /\ SameBlob(y, x)
            /\ x.result # "unset" => SameResult(y, x)
            /\ x.result = "unset" => y.result = what /\ y.of = c
        <4>1. c \in 0 .. MaxOps
          BY <3>4, Within
        <4> QED BY <2>2, <3>6, <4>1, SetResultIs
      <3>8. objs'[r] = y
        BY <1>1, <2>1, <2>4, <3>1, <3>3, <3>5, <3>6
      <3>9. CASE x.result = "unset"
        BY <2>1, <3>3, <3>4, <3>7, <3>8, <3>9 DEF FailsObj
      <3>10. CASE x.result # "unset"
        BY <2>1, <3>7, <3>8, <3>10 DEF FailsObj
      <3> QED BY <3>9, <3>10
    <2> QED BY <2>3, <2>4
  <1>4. ASSUME NEW c \in DOMAIN ops PROVE FailsOp(c, ops'[c]) /\ ops'[c] \in OpRecs
    <2>1. PICK o : o = ops[c]
      OBVIOUS
    <2>2. o \in OpRecs
      BY <2>1, Kept DEF Typed
    <2>3. CASE \E e \in pending : e.op = c
      <3>1. PICK p : p = Finished(o)
        OBVIOUS
      <3>2. /\ p \in OpRecs /\ p.done = TRUE /\ p.told = FALSE
            /\ p.lost = o.lost /\ p.spoilt = o.spoilt
            /\ SameOrigin(p, o) /\ SameBytes(p, o) /\ p.got = o.got
            /\ o.got # <<>> => SameAsked(p, o)
        BY <2>2, <3>1, FinishedIs
      <3>3. ops'[c] = p
        BY <1>1, <2>1, <2>3, <3>1
      <3> QED BY <2>1, <2>3, <3>2, <3>3 DEF FailsOp
    <2>4. CASE ~ \E e \in pending : e.op = c
      <3>1. ops'[c] = o
        BY <1>1, <2>1, <2>4
      <3> QED BY <2>1, <2>2, <2>4, <3>1 DEF FailsOp
    <2> QED BY <2>3, <2>4
  <1>5. objs \in Seq(Objs) /\ ops \in Seq(OpRecs)
    BY Kept DEF Typed
  <1>6. objs' \in [DOMAIN objs -> Objs]
    <2>1. objs' = [r \in DOMAIN objs |-> objs'[r]]
      <3> HIDE DEF of, first
      <3> QED BY <1>1
    <2>2. \A r \in DOMAIN objs : objs'[r] \in Objs
      BY <1>3 DEF FailsObj
    <2> QED BY <2>1, <2>2
  <1>7. ops' \in [DOMAIN ops -> OpRecs]
    <2>1. ops' = [c \in DOMAIN ops |-> ops'[c]]
      BY <1>1
    <2> QED BY <1>4, <2>1
  <1>8. objs' \in Seq(Objs) /\ Len(objs') = Len(objs) /\ DOMAIN objs' = DOMAIN objs
    BY <1>5, <1>6, Mapped
  <1>9. ops' \in Seq(OpRecs) /\ Len(ops') = Len(ops) /\ DOMAIN ops' = DOMAIN ops
    BY <1>5, <1>7, Mapped
  <1> HIDE DEF of, first
  <1> QED BY <1>1, <1>3, <1>4, <1>8, <1>9 DEF Failed

\* What the game's other calls do to a request, and to an operation
MildObj(r, y) ==
    /\ y \in Objs /\ SameTurn(y, objs[r]) /\ SameBlob(y, objs[r])
    /\ \/ SameResult(y, objs[r])
       \/ objs[r].result = "unset" /\ y.result = "aborted" /\ y.of = 0
    /\ y.key = objs[r].key /\ y.offset = objs[r].offset /\ y.cache = objs[r].cache
    /\ objs[r].turned = TRUE => y.turned = TRUE
    /\ y.pc = objs[r].pc \/ y.turned = TRUE \/ (objs[r].offset = 0 /\ ~Open(r))
MildOp(c, p) ==
    /\ p \in OpRecs /\ p.lost = ops[c].lost /\ p.done = ops[c].done
    /\ p.spoilt = ops[c].spoilt /\ p.wrong = ops[c].wrong
    /\ SameOrigin(p, ops[c]) /\ SameAsked(p, ops[c]) /\ SameBytes(p, ops[c]) /\ p.got = ops[c].got
    /\ p.told = ops[c].told \/ (p.done = FALSE /\ objs'[ops[c].req].result # "unset")

\* A request that is made
Blank(x) ==
    /\ x \in Objs /\ x.op = 0 /\ x.of = 0 /\ x.result = "unset" /\ x.mixed = FALSE
    /\ x.offset = 0 /\ x.parts = 0 /\ x.total = 0

ObjsMild ==
    /\ objs' \in Seq(Objs) /\ DOMAIN objs \subseteq DOMAIN objs' /\ Len(objs') <= MaxRequests
    /\ \A r \in DOMAIN objs : MildObj(r, objs'[r])
    /\ \A r \in DOMAIN objs' \ DOMAIN objs : Blank(objs'[r])
OpsMild ==
    /\ ops' \in Seq(OpRecs) /\ Len(ops') = Len(ops) /\ DOMAIN ops' = DOMAIN ops
    /\ \A c \in DOMAIN ops : MildOp(c, ops'[c])
CallsMild ==
    /\ call' \in [Threads -> Calls]
    /\ \A u \in Threads :
         \/ call'[u] = call[u]
         \/ /\ call[u].op = 0 /\ Resting(call'[u])
            /\ call'[u].pc = "wait" => call'[u].req \in DOMAIN objs
Quiet == ObjsMild /\ OpsMild /\ CallsMild /\ UNCHANGED <<pending, reader, sessionVars>>
SessionOnly == SignIn \/ LoseConnection \/ Disconnect \/ StopClient

Kind ==
    \/ Quiet
    \/ \E t \in Threads : Begins(t) \/ Ended(t) \/ Dispatched(t) \/ Dropped(t) \/ Submitted(t) \/ Registered(t)
    \/ \E p \in inFlight : Answered(p)
    \/ Completed \/ Failed \/ SessionOnly

\* Requests stay as they are.
LEMMA ObjsStay ==
    ASSUME Typed, objs' = objs
    PROVE  ObjsMild
  <1>1. objs \in Seq(Objs) /\ Len(objs) <= MaxRequests /\ \A r \in DOMAIN objs : objs[r] \in Objs
    BY Kept DEF Typed, TypeOK
  <1>2. ASSUME NEW r \in DOMAIN objs PROVE MildObj(r, objs'[r])
    BY <1>1 DEF MildObj, SameTurn, SameBlob, SameResult
  <1> QED BY <1>1, <1>2 DEF ObjsMild

\* Operations stay as they are.
LEMMA OpsStay ==
    ASSUME Typed, ops' = ops
    PROVE  OpsMild
  <1>1. ops \in Seq(OpRecs) /\ \A c \in DOMAIN ops : ops[c] \in OpRecs
    BY Kept DEF Typed
  <1>2. ASSUME NEW c \in DOMAIN ops PROVE MildOp(c, ops'[c])
    BY <1>1 DEF MildOp, SameOrigin, SameAsked, SameBytes
  <1> QED BY <1>1, <1>2 DEF OpsMild

\* Calls stay as they are.
LEMMA CallsStay ==
    ASSUME Typed, call' = call
    PROVE  CallsMild
  BY DEF Typed, TypeOK, CallsMild

\* The game is told the outcome of some operations that are not done, of requests that have a result.
LEMMA ToldIs ==
    ASSUME Typed, NEW D,
           ops' = [c \in DOMAIN ops |-> IF c \in D /\ ~ops[c].done THEN [ops[c] EXCEPT !.told = TRUE] ELSE ops[c]],
           \A c \in D \cap DOMAIN ops : objs'[ops[c].req].result # "unset"
    PROVE  OpsMild
  <1>1. ops \in Seq(OpRecs)
    BY Kept DEF Typed
  <1>2. ASSUME NEW c \in DOMAIN ops PROVE MildOp(c, ops'[c]) /\ ops'[c] \in OpRecs
    <2>1. PICK o : o = ops[c]
      OBVIOUS
    <2>2. o \in OpRecs
      BY <2>1, Kept DEF Typed
    <2>3. PICK p : p = [o EXCEPT !.told = TRUE]
      OBVIOUS
    <2>4. /\ p \in OpRecs /\ p.lost = o.lost /\ p.done = o.done /\ p.spoilt = o.spoilt /\ p.wrong = o.wrong
          /\ SameOrigin(p, o) /\ SameAsked(p, o) /\ SameBytes(p, o) /\ p.got = o.got
      BY <2>2, <2>3 DEF OpRecs, SameOrigin, SameAsked, SameBytes
    <2>5. CASE c \in D /\ ~ops[c].done
      <3>1. ops'[c] = p
        BY <2>1, <2>3, <2>5
      <3>2. o.done = FALSE
        <4>1. o.done \in BOOLEAN
          BY <2>2 DEF OpRecs
        <4> QED BY <2>1, <2>5, <4>1
      <3>3. objs'[o.req].result # "unset"
        BY <2>1, <2>5
      <3> QED BY <2>1, <2>4, <3>1, <3>2, <3>3 DEF MildOp
    <2>6. CASE ~(c \in D /\ ~ops[c].done)
      <3>1. ops'[c] = o
        BY <2>1, <2>6
      <3> QED BY <2>1, <2>2, <3>1 DEF MildOp, SameOrigin, SameAsked, SameBytes
    <2> QED BY <2>5, <2>6
  <1>3. ops' \in [DOMAIN ops -> OpRecs]
    <2>1. ops' = [c \in DOMAIN ops |-> ops'[c]]
      OBVIOUS
    <2> QED BY <1>2, <2>1
  <1>4. ops' \in Seq(OpRecs) /\ Len(ops') = Len(ops) /\ DOMAIN ops' = DOMAIN ops
    BY <1>1, <1>3, Mapped
  <1> QED BY <1>2, <1>4 DEF OpsMild

\* Some requests are aborted, and the game knows.
LEMMA AbortIs ==
    ASSUME Typed, NEW rs, AbortAll(rs)
    PROVE  ObjsMild /\ OpsMild /\ DOMAIN objs' = DOMAIN objs
  <1>1. objs \in Seq(Objs) /\ Len(objs) <= MaxRequests
    BY Kept DEF Typed, TypeOK
  <1>2. ASSUME NEW r \in DOMAIN objs
        PROVE  /\ MildObj(r, objs'[r]) /\ objs'[r] \in Objs
               /\ r \in rs => objs'[r].result # "unset"
    <2>1. PICK x : x = objs[r]
      OBVIOUS
    <2>2. x \in Objs
      BY <2>1, Kept DEF Typed
    <2>3. PICK what \in Results : what = "aborted"
      BY DEF Results
    <2>4. PICK c \in 0 .. MaxOps : c = 0
      BY BoundsNat
    <2>5. PICK y : y = SetResult(x, what, c)
      OBVIOUS
    <2>6. /\ y \in Objs /\ SameTurn(y, x) /\ SameReads(y, x) /\ SameBlob(y, x)
          /\ x.result # "unset" => SameResult(y, x)
          /\ x.result = "unset" => y.result = what /\ y.of = c
      BY <2>2, <2>5, SetResultIs
    <2>7. CASE r \in rs
      <3>1. objs'[r] = y
        BY <2>1, <2>3, <2>4, <2>5, <2>7 DEF AbortAll
      <3> QED BY <2>1, <2>3, <2>4, <2>6, <3>1 DEF MildObj, SameReads, SameResult
    <2>8. CASE r \notin rs
      <3>1. objs'[r] = x
        BY <2>1, <2>8 DEF AbortAll
      <3> QED BY <2>1, <2>2, <2>8, <3>1 DEF MildObj, SameTurn, SameBlob, SameResult
    <2> QED BY <2>7, <2>8
  <1>3. objs' \in [DOMAIN objs -> Objs]
    <2>1. objs' = [r \in DOMAIN objs |-> objs'[r]]
      BY DEF AbortAll
    <2> QED BY <1>2, <2>1
  <1>4. objs' \in Seq(Objs) /\ Len(objs') = Len(objs) /\ DOMAIN objs' = DOMAIN objs
    BY <1>1, <1>3, Mapped
  <1>5. ObjsMild
    BY <1>1, <1>2, <1>4 DEF ObjsMild
  <1>6. OpsMild
    <2>1. PICK D : D = {c \in DOMAIN ops : ops[c].req \in rs}
      OBVIOUS
    <2>2. ops' = [c \in DOMAIN ops |-> IF c \in D /\ ~ops[c].done THEN [ops[c] EXCEPT !.told = TRUE] ELSE ops[c]]
      BY <2>1 DEF AbortAll
    <2>3. \A c \in D \cap DOMAIN ops : objs'[ops[c].req].result # "unset"
      BY <1>2, <2>1, Kept DEF Typed
    <2> QED BY <2>2, <2>3, ToldIs
  <1> QED BY <1>4, <1>5, <1>6

\* One thread comes to rest, or begins to wait.
LEMMA RestIs ==
    ASSUME Typed, NEW t \in Threads, call[t].op = 0, NEW z, Resting(z), z.pc = "wait" => z.req \in DOMAIN objs,
           Goto(t, z)
    PROVE  CallsMild
  <1>1. CallTo(t, z)
    BY CallSet DEF Resting, Typed
  <1> QED BY <1>1 DEF CallTo, CallsMild

\* A thread that is idle or waits has no operation.
LEMMA NoOp ==
    ASSUME Typed, NEW t \in Threads, call[t].pc \in {"idle", "wait"}
    PROVE  call[t].op = 0 /\ (call[t].pc = "wait" => call[t].req \in DOMAIN objs)
  <1>1. Stage(call[t])
    BY DEF Typed
  <1> QED BY <1>1 DEF Stage, Sending

\* Every step is one of these.
LEMMA EveryStep ==
    ASSUME Typed, [Next]_vars
    PROVE  Kind
  <1>1. ASSUME NEW t \in Threads, CreateNpTitleCtx(t)
       PROVE  Kind
    <2>1. ObjsMild
      BY <1>1, ObjsStay DEF CreateNpTitleCtx
    <2>2. OpsMild
      BY <1>1, OpsStay DEF CreateNpTitleCtx
    <2>3. CallsMild
      BY <1>1, CallsStay DEF CreateNpTitleCtx
    <2>4. UNCHANGED <<pending, reader, sessionVars>>
      BY <1>1 DEF CreateNpTitleCtx
    <2> QED BY <2>1, <2>2, <2>3, <2>4 DEF Kind, Quiet
  <1>2. ASSUME NEW t \in Threads, CreateNpTitleCtxA(t)
       PROVE  Kind
    BY <1>1, <1>2 DEF CreateNpTitleCtxA
  <1>3. ASSUME NEW t \in Threads, NEW pc \in Characters, SetPlayerCharacterId(t, pc)
       PROVE  Kind
    <2>1. ObjsMild
      <3>1. CASE objs' = objs
        BY <3>1, ObjsStay
      <3>2. ASSUME NEW r \in requests, objs' = [objs EXCEPT ![r].pc = pc,
                              ![r].turned = @ \/ Unfinished(r) \/ objs[r].offset # 0]
            PROVE  ObjsMild
        <4>1. r \in DOMAIN objs /\ objs \in Seq(Objs) /\ Len(objs) <= MaxRequests
          BY Kept DEF Typed, TypeOK
        <4>2. PICK x : x = objs[r]
          OBVIOUS
        <4>3. x \in Objs
          BY <4>1, <4>2, Kept DEF Typed
        <4>4. PICK over : over = Unfinished(r)
          OBVIOUS
        <4>5. over \in BOOLEAN /\ (over <=> Open(r))
          <5>1. \A d \in DOMAIN ops : ops[d].done = FALSE <=> ~ops[d].done
            <6>1. \A d \in DOMAIN ops : ops[d].done \in BOOLEAN
              BY Kept DEF OpRecs, Typed
            <6> QED BY <6>1
          <5> QED BY <4>4, <5>1 DEF Unfinished, Open
        <4>6. PICK w \in BOOLEAN : w = (x.turned \/ over \/ x.offset # 0)
          OBVIOUS
        <4>7. w = TRUE <=> (x.turned = TRUE \/ Open(r) \/ x.offset # 0)
          <5>1. x.turned \in BOOLEAN
            BY <4>3 DEF Objs
          <5> QED BY <4>5, <4>6, <5>1
        <4>8. PICK y : y = [x EXCEPT !.pc = pc, !.turned = w]
          OBVIOUS
        <4>9. /\ y \in Objs /\ SameTurn(y, x) /\ SameBlob(y, x) /\ SameResult(y, x)
              /\ y.key = x.key /\ y.offset = x.offset /\ y.cache = x.cache /\ y.turned = w
          BY <4>3, <4>8 DEF Objs, SameTurn, SameBlob, SameResult
        <4>10. objs' = [objs EXCEPT ![r] = y]
          BY <3>2, <4>2, <4>4, <4>6, <4>8
        <4>11. ObjsTo(r, y)
          BY <4>1, <4>9, <4>10, ObjSet DEF Typed
        <4>12. /\ x.turned = TRUE => y.turned = TRUE
               /\ y.turned = TRUE \/ (x.offset = 0 /\ ~Open(r))
          BY <4>7, <4>9
        <4>13. ASSUME NEW q \in DOMAIN objs PROVE MildObj(q, objs'[q])
          <5>1. CASE q = r
            <6>1. objs'[q] = y /\ objs[q] = x
              BY <4>2, <4>11, <5>1 DEF ObjsTo
            <6> QED BY <4>9, <4>12, <5>1, <6>1 DEF MildObj
          <5>2. CASE q # r
            <6>1. objs'[q] = objs[q] /\ objs[q] \in Objs
              BY <4>11, <5>2, Kept DEF ObjsTo, Typed
            <6> QED BY <6>1 DEF MildObj, SameTurn, SameBlob, SameResult
          <5> QED BY <5>1, <5>2
        <4> QED BY <4>1, <4>11, <4>13 DEF ObjsMild, ObjsTo
      <3> QED BY <1>3, <3>1, <3>2 DEF SetPlayerCharacterId
    <2>2. OpsMild
      BY <1>3, OpsStay DEF SetPlayerCharacterId
    <2>3. CallsMild
      BY <1>3, CallsStay DEF SetPlayerCharacterId
    <2>4. UNCHANGED <<pending, reader, sessionVars>>
      BY <1>3 DEF SetPlayerCharacterId
    <2> QED BY <2>1, <2>2, <2>3, <2>4 DEF Kind, Quiet
  <1>4. ASSUME NEW t \in Threads, NEW i \in titles, DeleteNpTitleCtx(t, i)
       PROVE  Kind
    <2>1. ObjsMild
      BY <1>4, AbortIs DEF DeleteNpTitleCtx
    <2>2. OpsMild
      BY <1>4, AbortIs DEF DeleteNpTitleCtx
    <2>3. CallsMild
      BY <1>4, CallsStay DEF DeleteNpTitleCtx
    <2>4. UNCHANGED <<pending, reader, sessionVars>>
      BY <1>4 DEF DeleteNpTitleCtx
    <2> QED BY <2>1, <2>2, <2>3, <2>4 DEF Kind, Quiet
  <1>5. ASSUME NEW t \in Threads, NEW i \in titles, CreateRequest(t, i)
       PROVE  Kind
    <2>1. ObjsMild
      <3>1. PICK x : x = NewObj(i)
        OBVIOUS
      <3>2. x \in Objs /\ Blank(x)
        <4>1. i \in 1 .. MaxTitles /\ character[i] \in Characters
          BY DEF Typed, TypeOK
        <4>2. 0 \in 0 .. MaxOps /\ 0 \in 0 .. MaxParts
          BY BoundsNat
        <4>3. NoData \in Players \X Characters /\ "" \in Players /\ "unset" \in Results
          BY ScoreAssumption DEF NoData, GameData, Players, Results
        <4>4. PICK d : d = NoData
          OBVIOUS
        <4>5. x \in Objs
          BY <3>1, <4>1, <4>2, <4>3 DEF NewObj, Objs
        <4>6. /\ x.op = 0 /\ x.of = 0 /\ x.result = "unset" /\ x.mixed = FALSE
              /\ x.offset = 0 /\ x.parts = 0 /\ x.total = 0
          BY <3>1 DEF NewObj
        <4> QED BY <4>5, <4>6 DEF Blank
      <3>3. objs' = Append(objs, x) /\ Len(objs) < MaxRequests
        BY <1>5, <3>1 DEF CreateRequest
      <3>4. objs \in Seq(Objs) /\ Len(objs) \in Nat /\ MaxRequests \in Nat
        BY Kept, BoundsNat DEF Typed
      <3>5. /\ objs' \in Seq(Objs) /\ Len(objs') = Len(objs) + 1
            /\ DOMAIN objs = 1 .. Len(objs) /\ DOMAIN objs' = 1 .. Len(objs) + 1
            /\ objs'[Len(objs) + 1] = x
            /\ \A r \in DOMAIN objs : objs'[r] = objs[r]
        BY <3>2, <3>3, <3>4, Longer
      <3>6. ASSUME NEW r \in DOMAIN objs PROVE MildObj(r, objs'[r])
        <4>1. objs[r] \in Objs
          BY Kept DEF Typed
        <4> QED BY <3>5, <4>1 DEF MildObj, SameTurn, SameBlob, SameResult
      <3>7. \A r \in DOMAIN objs' \ DOMAIN objs : r = Len(objs) + 1
        BY <3>4, <3>5
      <3>8. DOMAIN objs \subseteq DOMAIN objs' /\ Len(objs') <= MaxRequests
        BY <3>3, <3>4, <3>5
      <3> QED BY <3>2, <3>5, <3>6, <3>7, <3>8 DEF ObjsMild
    <2>2. OpsMild
      BY <1>5, OpsStay DEF CreateRequest
    <2>3. CallsMild
      BY <1>5, CallsStay DEF CreateRequest
    <2>4. UNCHANGED <<pending, reader, sessionVars>>
      BY <1>5 DEF CreateRequest
    <2> QED BY <2>1, <2>2, <2>3, <2>4 DEF Kind, Quiet
  <1>6. ASSUME NEW t \in Threads, NEW r \in requests, DeleteRequest(t, r)
       PROVE  Kind
    <2>1. ObjsMild
      BY <1>6, AbortIs DEF DeleteRequest
    <2>2. OpsMild
      BY <1>6, AbortIs DEF DeleteRequest
    <2>3. CallsMild
      BY <1>6, CallsStay DEF DeleteRequest
    <2>4. UNCHANGED <<pending, reader, sessionVars>>
      BY <1>6 DEF DeleteRequest
    <2> QED BY <2>1, <2>2, <2>3, <2>4 DEF Kind, Quiet
  <1>7. ASSUME NEW t \in Threads, NEW r \in requests, AbortRequest(t, r)
       PROVE  Kind
    <2>1. ObjsMild
      BY <1>7, AbortIs DEF AbortRequest
    <2>2. OpsMild
      BY <1>7, AbortIs DEF AbortRequest
    <2>3. CallsMild
      BY <1>7, CallsStay DEF AbortRequest
    <2>4. UNCHANGED <<pending, reader, sessionVars>>
      BY <1>7 DEF AbortRequest
    <2> QED BY <2>1, <2>2, <2>3, <2>4 DEF Kind, Quiet
  <1>8. ASSUME NEW t \in Threads, NEW r \in requests, NEW does \in KindOps, NEW sync \in BOOLEAN, BeginOp(t, r, does, sync)
       PROVE  Kind
    BY <1>8, BeginIs DEF Kind
  <1>9. ASSUME NEW t \in Threads, NEW r \in requests, WaitAsync(t, r)
       PROVE  Kind
    <2>1. ObjsMild
      BY <1>9, ObjsStay DEF WaitAsync
    <2>2. OpsMild
      BY <1>9, OpsStay DEF WaitAsync
    <2>3. CallsMild
      <3>1. PICK z : z = [Idle EXCEPT !.pc = "wait", !.req = r]
        OBVIOUS
      <3>2. r \in 0 .. MaxRequests /\ r \in DOMAIN objs
        BY Kept, BoundsNat DEF Typed, TypeOK
      <3>3. Resting(z) /\ z.req = r
        BY <3>1, <3>2, IdleIs
      <3>4. Goto(t, z) /\ call[t].op = 0
        BY <1>9, <3>1, NoOp DEF WaitAsync
      <3> QED BY <3>2, <3>3, <3>4, RestIs
    <2>4. UNCHANGED <<pending, reader, sessionVars>>
      BY <1>9 DEF WaitAsync
    <2> QED BY <2>1, <2>2, <2>3, <2>4 DEF Kind, Quiet
  <1>10. ASSUME NEW t \in Threads, NEW r \in requests, PollAsync(t, r)
       PROVE  Kind
    <2>1. ObjsMild
      BY <1>10, ObjsStay DEF PollAsync
    <2>2. OpsMild
      <3>1. PICK D : D = {objs[r].op}
        OBVIOUS
      <3>2. /\ ops' = [c \in DOMAIN ops |-> IF c \in D /\ ~ops[c].done THEN [ops[c] EXCEPT !.told = TRUE] ELSE ops[c]]
            /\ objs[r].result # "unset" /\ objs' = objs
        BY <1>10, <3>1 DEF PollAsync, Told
      <3>3. \A c \in D \cap DOMAIN ops : ops[c].req = r
        <4>1. r \in DOMAIN objs /\ 0 \notin DOMAIN ops
          BY Kept DEF Typed, TypeOK
        <4> QED BY <3>1, <4>1 DEF Typed, LastBegun
      <3>4. \A c \in D \cap DOMAIN ops : objs'[ops[c].req].result # "unset"
        BY <3>2, <3>3
      <3> QED BY <3>2, <3>4, ToldIs
    <2>3. CallsMild
      BY <1>10, CallsStay DEF PollAsync
    <2>4. UNCHANGED <<pending, reader, sessionVars>>
      BY <1>10 DEF PollAsync
    <2> QED BY <2>1, <2>2, <2>3, <2>4 DEF Kind, Quiet
  <1>11. ASSUME NEW t \in Threads, NEW valid \in BOOLEAN, StartSend(t, valid)
       PROVE  Kind
    <2>1. Ended(t) \/ Dispatched(t) \/ Dropped(t)
      BY <1>11, StartIs DEF Starts
    <2> QED BY <2>1 DEF Kind
  <1>12. ASSUME NEW t \in Threads, NEW valid \in BOOLEAN, NEW room \in 0 .. MaxParts, ReadData(t, room, valid)
       PROVE  Kind
    <2>1. Ended(t) \/ Dispatched(t) \/ Dropped(t)
      BY <1>12, StartIs DEF Starts
    <2> QED BY <2>1 DEF Kind
  <1>13. ASSUME NEW t \in Threads, NEW valid \in BOOLEAN, NEW size \in 1 .. MaxParts, NEW total \in 1 .. MaxParts, WriteData(t, size, total, valid)
       PROVE  Kind
    <2>1. Ended(t) \/ Dispatched(t) \/ Dropped(t)
      BY <1>13, StartIs DEF Starts
    <2> QED BY <2>1 DEF Kind
  <1>14. ASSUME NEW t \in Threads, StartNothing(t)
       PROVE  Kind
    <2>1. Ended(t) \/ Dispatched(t) \/ Dropped(t)
      BY <1>14, StartIs DEF Starts
    <2> QED BY <2>1 DEF Kind
  <1>15. ASSUME NEW t \in Threads, NEW fits \in BOOLEAN, StartComment(t, fits)
       PROVE  Kind
    <2>1. Ended(t) \/ Dispatched(t) \/ Dropped(t)
      BY <1>15, StartIs DEF Starts
    <2> QED BY <2>1 DEF Kind
  <1>16. ASSUME NEW t \in Threads, StartEmptyId(t)
       PROVE  Kind
    <2>1. Ended(t) \/ Dispatched(t) \/ Dropped(t)
      BY <1>16, StartIs DEF Starts
    <2> QED BY <2>1 DEF Kind
  <1>17. ASSUME NEW t \in Threads, SubmitRequest(t)
       PROVE  Kind
    BY <1>17, SubmitIs DEF Kind
  <1>18. ASSUME NEW t \in Threads, Register(t)
       PROVE  Kind
    BY <1>18, RegisterIs DEF Kind
  <1>19. ASSUME NEW t \in Threads, WaitReturns(t)
       PROVE  Kind
    <2>1. ObjsMild
      BY <1>19, ObjsStay DEF WaitReturns
    <2>2. OpsMild
      <3>0. call[t].req \in DOMAIN objs
        BY <1>19, NoOp DEF WaitReturns
      <3>1. PICK D : D = {objs[call[t].req].op}
        OBVIOUS
      <3>2. /\ ops' = [c \in DOMAIN ops |-> IF c \in D /\ ~ops[c].done THEN [ops[c] EXCEPT !.told = TRUE] ELSE ops[c]]
            /\ objs[call[t].req].result # "unset" /\ objs' = objs
        BY <1>19, <3>1 DEF WaitReturns, Told
      <3>3. \A c \in D \cap DOMAIN ops : ops[c].req = call[t].req
        <4>1. 0 \notin DOMAIN ops
          BY Kept DEF Typed
        <4> QED BY <3>0, <3>1, <4>1 DEF Typed, LastBegun
      <3>4. \A c \in D \cap DOMAIN ops : objs'[ops[c].req].result # "unset"
        BY <3>2, <3>3
      <3> QED BY <3>2, <3>4, ToldIs
    <2>3. CallsMild
      <3>1. Goto(t, Idle) /\ call[t].op = 0 /\ Resting(Idle) /\ Idle.pc # "wait"
        BY <1>19, NoOp, IdleIs DEF WaitReturns
      <3> QED BY <3>1, RestIs
    <2>4. UNCHANGED <<pending, reader, sessionVars>>
      BY <1>19 DEF WaitReturns
    <2> QED BY <2>1, <2>2, <2>3, <2>4 DEF Kind, Quiet
  <1>20. ASSUME NEW p \in inFlight, TakeReply(p)
       PROVE  Kind
    BY <1>20, TakeIs DEF Kind
  <1>21. ASSUME NEW good \in BOOLEAN, CompleteOp(good)
       PROVE  Kind
    BY <1>21, CompleteIs DEF Kind
  <1>22. ASSUME SignIn
       PROVE  Kind
    BY <1>22 DEF Kind, SessionOnly
  <1>23. ASSUME LoseConnection
       PROVE  Kind
    BY <1>23 DEF Kind, SessionOnly
  <1>24. ASSUME Disconnect
       PROVE  Kind
    BY <1>24 DEF Kind, SessionOnly
  <1>25. ASSUME StopClient
       PROVE  Kind
    BY <1>25 DEF Kind, SessionOnly
  <1>26. ASSUME FailPendingRequests
       PROVE  Kind
    BY <1>26, FailIs DEF Kind
  <1>27. CASE UNCHANGED vars
    <2>1. ObjsMild
      BY <1>27, ObjsStay DEF vars
    <2>2. OpsMild
      BY <1>27, OpsStay DEF vars
    <2>3. CallsMild
      BY <1>27, CallsStay DEF vars
    <2> QED BY <1>27, <2>1, <2>2, <2>3 DEF Kind, Quiet, vars
  <1>g. ASSUME NEW t \in Threads, GameCalls(t) PROVE Kind
    BY <1>g, <1>1, <1>2, <1>3, <1>4, <1>5, <1>6, <1>7, <1>8, <1>9, <1>10 DEF GameCalls
  <1>c. ASSUME NEW t \in Threads, CallStep(t) PROVE Kind
    BY <1>c, <1>11, <1>12, <1>13, <1>14, <1>15, <1>16, <1>17, <1>18, <1>19 DEF CallStep
  <1>n. CASE Next
    BY <1>n, <1>g, <1>c, <1>20, <1>21, <1>22, <1>23, <1>24, <1>25, <1>26 DEF Next
  <1> QED BY <1>n, <1>27

-----------------------------------------------------------------------------
(* Types.                                                                  *)

\* Requests and operations are only added, and an operation stays with its request.
ObjsGrow ==
    /\ objs' \in Seq(Objs) /\ DOMAIN objs \subseteq DOMAIN objs' /\ Len(objs') <= MaxRequests
    /\ \A r \in DOMAIN objs' : Decent(objs'[r])
    /\ \A r \in DOMAIN objs : objs'[r].title = objs[r].title
OpsGrow ==
    /\ ops' \in Seq(OpRecs) /\ DOMAIN ops \subseteq DOMAIN ops' /\ Len(ops') <= MaxOps
    /\ \A c \in DOMAIN ops : ops'[c].req = ops[c].req
    /\ \A c \in DOMAIN ops' : ops'[c].req \in DOMAIN objs

\* What is collected is less than what was announced.
LEMMA AllDecent == Typed => \A r \in DOMAIN objs : Decent(objs[r])
  BY DEF Typed, TypeOK, Announcing, Decent

\* A request changes, the others stay.
LEMMA ObjsGrowTo ==
    ASSUME Typed, NEW r \in DOMAIN objs, NEW y, ObjsTo(r, y), Decent(y), y.title = objs[r].title
    PROVE  ObjsGrow
  <1>1. Len(objs) <= MaxRequests
    BY DEF Typed, TypeOK
  <1>2. objs' \in Seq(Objs) /\ DOMAIN objs' = DOMAIN objs /\ Len(objs') <= MaxRequests
    BY <1>1 DEF ObjsTo
  <1>3. \A q \in DOMAIN objs' : Decent(objs'[q])
    BY AllDecent DEF ObjsTo
  <1>4. \A q \in DOMAIN objs : objs'[q].title = objs[q].title
    BY DEF ObjsTo
  <1> QED BY <1>2, <1>3, <1>4 DEF ObjsGrow

\* They all stay.
LEMMA ObjsGrowNot ==
    ASSUME Typed, objs' = objs
    PROVE  ObjsGrow
  BY AllDecent DEF Typed, TypeOK, ObjsGrow

\* What a result does to a request
LEMMA ResultKeeps ==
    ASSUME NEW t, NEW x, NEW o, Worked(t, x, o), NEW what \in Results,
           NEW c \in 1 .. MaxOps, NEW y, y = SetResult(x, what, c)
    PROVE  /\ y \in Objs /\ SameTurn(y, x) /\ SameReads(y, x) /\ SameBlob(y, x)
           /\ x.result # "unset" => SameResult(y, x)
           /\ x.result = "unset" => y.result = what /\ y.of = c
  <1>1. c \in 0 .. MaxOps /\ x \in Objs
    BY Within DEF Worked
  <1> QED BY <1>1, SetResultIs

\* Requests are only added.
LEMMA ObjsStep ==
    ASSUME Typed, Kind
    PROVE  ObjsGrow
  <1>1. CASE Quiet
    <2>1. /\ objs' \in Seq(Objs) /\ DOMAIN objs \subseteq DOMAIN objs' /\ Len(objs') <= MaxRequests
          /\ \A r \in DOMAIN objs : MildObj(r, objs'[r])
          /\ \A r \in DOMAIN objs' \ DOMAIN objs : Blank(objs'[r])
      BY <1>1 DEF Quiet, ObjsMild
    <2>2. \A r \in DOMAIN objs : SameTurn(objs'[r], objs[r]) /\ SameBlob(objs'[r], objs[r])
      BY <2>1 DEF MildObj
    <2>3. \A r \in DOMAIN objs : Decent(objs'[r]) /\ objs'[r].title = objs[r].title
      BY <2>2, AllDecent DEF Decent, SameTurn, SameBlob
    <2>4. \A r \in DOMAIN objs' \ DOMAIN objs : Decent(objs'[r])
      BY <2>1 DEF Blank, Decent
    <2> QED BY <2>1, <2>3, <2>4 DEF ObjsGrow
  <1>2. ASSUME NEW t \in Threads, Begins(t) PROVE ObjsGrow
    <2>1. PICK r \in DOMAIN objs, y \in Objs : \E p, z : BegunAs(t, r, y, p, z)
      BY <1>2 DEF Begins
    <2>2. ObjsTo(r, y) /\ y.title = objs[r].title /\ SameBlob(y, objs[r])
      BY <2>1 DEF BegunAs
    <2>3. Decent(y)
      BY <2>2, AllDecent DEF Decent, SameBlob
    <2> QED BY <2>2, <2>3, ObjsGrowTo
  <1>3. ASSUME NEW t \in Threads, Ended(t) PROVE ObjsGrow
    <2>0. call[t].pc = "begun" /\ call[t].req \in DOMAIN objs
      BY <1>3, Senders DEF Ended, Sending
    <2>1. PICK x, o, y : /\ Worked(t, x, o) /\ ObjsTo(call[t].req, y)
                         /\ \E what \in {"ok", "failed", "not sent"} : y = SetResult(x, what, call[t].op)
      BY <1>3 DEF Ended
    <2>2. SameTurn(y, x) /\ SameBlob(y, x)
      <3>1. PICK c \in 1 .. MaxOps : c = call[t].op
        BY <2>0, Senders DEF Sending
      <3>2. PICK what \in Results : y = SetResult(x, what, c)
        BY <2>1, <3>1 DEF Results
      <3>3. Worked(t, x, o)
        BY <2>1
      <3> QED BY <3>2, <3>3, ResultKeeps
    <2>3. Decent(y) /\ y.title = objs[call[t].req].title
      BY <2>1, <2>2 DEF Worked, Decent, SameBlob, SameTurn
    <2> QED BY <2>0, <2>1, <2>3, ObjsGrowTo
  <1>4. ASSUME NEW t \in Threads, Dispatched(t) PROVE ObjsGrow
    <2>0. call[t].req \in DOMAIN objs
      BY <1>4, Senders DEF Dispatched, Sending
    <2>1. PICK x, o : Worked(t, x, o) /\ ObjsTo(call[t].req, x)
      BY <1>4 DEF Dispatched
    <2>2. Decent(x) /\ x.title = objs[call[t].req].title
      BY <2>1 DEF Worked, SameTurn
    <2> QED BY <2>0, <2>1, <2>2, ObjsGrowTo
  <1>5. CASE Completed
    <2>0. reader \in DOMAIN ops
      <3>1. reader \in 0 .. Len(ops) /\ reader # 0 /\ DOMAIN ops = 1 .. Len(ops) /\ Len(ops) \in Nat
        BY <1>5, Kept DEF Completed, Typed, TypeOK
      <3> QED BY <3>1
    <2>1. PICK y \in Objs, p \in OpRecs : ObjsTo(ops[reader].req, y) /\ Filled(objs[ops[reader].req], ops[reader], y, p)
      BY <1>5 DEF Completed
    <2>2. ops[reader].req \in DOMAIN objs
      BY <2>0 DEF Typed, TypeOK
    <2>3. Decent(y) /\ y.title = objs[ops[reader].req].title
      BY <2>1, <2>2, AllDecent DEF Filled, Decent, SameBlob, SameTurn
    <2> QED BY <2>1, <2>2, <2>3, ObjsGrowTo
  <1>6. CASE Failed
    <2>1. /\ objs' \in Seq(Objs) /\ Len(objs') = Len(objs) /\ DOMAIN objs' = DOMAIN objs
          /\ \A r \in DOMAIN objs : FailsObj(r, objs'[r])
      BY <1>6 DEF Failed
    <2>2. \A r \in DOMAIN objs : SameTurn(objs'[r], objs[r]) /\ SameBlob(objs'[r], objs[r])
      BY <2>1 DEF FailsObj
    <2>3. \A r \in DOMAIN objs : Decent(objs'[r]) /\ objs'[r].title = objs[r].title
      BY <2>2, AllDecent DEF Decent, SameTurn, SameBlob
    <2>4. Len(objs') <= MaxRequests
      BY <2>1 DEF Typed, TypeOK
    <2> QED BY <2>1, <2>3, <2>4 DEF ObjsGrow
  <1>7. CASE objs' = objs
    BY <1>7, ObjsGrowNot
  <1>8. ASSUME NEW t \in Threads, Dropped(t) \/ Submitted(t) \/ Registered(t) PROVE objs' = objs
    BY <1>8 DEF Dropped, Submitted, Registered, Entered, Forgets
  <1>9. ASSUME NEW p \in inFlight, Answered(p) PROVE objs' = objs
    BY <1>9 DEF Answered
  <1>10. ASSUME SessionOnly PROVE objs' = objs
    BY <1>10 DEF SessionOnly, SignIn, LoseConnection, Disconnect, StopClient, others
  <1> QED BY <1>1, <1>2, <1>3, <1>4, <1>5, <1>6, <1>7, <1>8, <1>9, <1>10 DEF Kind

\* An operation changes, the others stay.
LEMMA OpsGrowTo ==
    ASSUME Typed, NEW c \in DOMAIN ops, NEW p, OpsTo(c, p), p.req = ops[c].req
    PROVE  OpsGrow
  <1>1. Len(ops) <= MaxOps /\ \A d \in DOMAIN ops : ops[d].req \in DOMAIN objs
    BY DEF Typed, TypeOK
  <1>2. ops' \in Seq(OpRecs) /\ DOMAIN ops' = DOMAIN ops /\ Len(ops') <= MaxOps
    BY <1>1 DEF OpsTo
  <1>3. \A d \in DOMAIN ops : ops'[d].req = ops[d].req
    BY DEF OpsTo
  <1> QED BY <1>1, <1>2, <1>3 DEF OpsGrow

\* The reader has an operation.
LEMMA Read == Typed /\ reader # 0 => reader \in DOMAIN ops
  <1> SUFFICES ASSUME Typed, reader # 0 PROVE reader \in DOMAIN ops
    OBVIOUS
  <1>1. reader \in 0 .. Len(ops) /\ DOMAIN ops = 1 .. Len(ops) /\ Len(ops) \in Nat
    BY Kept DEF Typed, TypeOK
  <1> QED BY <1>1

\* They all stay.
LEMMA OpsGrowNot ==
    ASSUME Typed, ops' = ops
    PROVE  OpsGrow
  BY DEF Typed, TypeOK, OpsGrow

\* Operations are only added.
LEMMA OpsStep ==
    ASSUME Typed, Kind
    PROVE  OpsGrow
  <1>1. CASE Quiet
    <2>1. /\ ops' \in Seq(OpRecs) /\ Len(ops') = Len(ops) /\ DOMAIN ops' = DOMAIN ops
          /\ \A c \in DOMAIN ops : MildOp(c, ops'[c])
      BY <1>1 DEF Quiet, OpsMild
    <2>2. \A c \in DOMAIN ops : ops'[c].req = ops[c].req
      BY <2>1 DEF MildOp, SameOrigin
    <2> QED BY <2>1, <2>2 DEF OpsGrow, Typed, TypeOK
  <1>2. ASSUME NEW t \in Threads, Begins(t) PROVE OpsGrow
    <2>1. PICK r \in DOMAIN objs, y \in Objs : \E p, z : BegunAs(t, r, y, p, z)
      BY <1>2 DEF Begins
    <2>2. ops'[Len(ops) + 1].req = r
      BY <2>1 DEF BegunAs
    <2>3. /\ ops' \in Seq(OpRecs) /\ DOMAIN ops' = 1 .. Len(ops) + 1 /\ Len(ops') <= MaxOps
          /\ \A c \in DOMAIN ops : ops'[c] = ops[c]
      BY <1>2 DEF Begins
    <2>4. DOMAIN ops = 1 .. Len(ops) /\ Len(ops) \in Nat
      BY Kept DEF Typed
    <2>5. DOMAIN ops \subseteq DOMAIN ops' /\ \A c \in DOMAIN ops' : c \in DOMAIN ops \/ c = Len(ops) + 1
      BY <2>3, <2>4
    <2>6. \A c \in DOMAIN ops' : ops'[c].req \in DOMAIN objs
      BY <2>2, <2>3, <2>5 DEF Typed, TypeOK
    <2> QED BY <2>3, <2>5, <2>6 DEF OpsGrow
  <1>3. ASSUME NEW t \in Threads, Ended(t) PROVE OpsGrow
    <2>0. call[t].op \in DOMAIN ops
      BY <1>3, Senders DEF Ended, Sending
    <2>1. PICK x, o, p : Worked(t, x, o) /\ OpsTo(call[t].op, p) /\ p = Finished(o)
      BY <1>3 DEF Ended
    <2>2. p.req = ops[call[t].op].req
      BY <2>1, FinishedIs DEF Worked, SameOrigin
    <2> QED BY <2>0, <2>1, <2>2, OpsGrowTo
  <1>4. ASSUME NEW t \in Threads, Dispatched(t) PROVE OpsGrow
    <2>0. call[t].op \in DOMAIN ops
      BY <1>4, Senders DEF Dispatched, Sending
    <2>1. PICK x, o : Worked(t, x, o) /\ OpsTo(call[t].op, o)
      BY <1>4 DEF Dispatched
    <2>2. o.req = ops[call[t].op].req
      BY <2>1 DEF Worked, SameOrigin
    <2> QED BY <2>0, <2>1, <2>2, OpsGrowTo
  <1>f. ASSUME NEW c \in DOMAIN ops, Forgets(c) PROVE OpsGrow
    <2>1. PICK p : OpsTo(c, p) /\ SameOrigin(p, ops[c])
      BY <1>f DEF Forgets
    <2>2. p.req = ops[c].req
      BY <2>1 DEF SameOrigin
    <2> QED BY <2>1, <2>2, OpsGrowTo
  <1>5. ASSUME NEW t \in Threads, Dropped(t) PROVE OpsGrow
    <2>1. call[t].op \in DOMAIN ops /\ Forgets(call[t].op)
      BY <1>5, Senders DEF Dropped, Sending
    <2> QED BY <2>1, <1>f
  <1>6. ASSUME NEW t \in Threads, Registered(t) PROVE OpsGrow
    <2>1. call[t].op \in DOMAIN ops
      BY <1>6, Senders DEF Registered, Sending
    <2>2. Forgets(call[t].op) \/ ops' = ops
      BY <1>6 DEF Registered, Entered
    <2> QED BY <2>1, <2>2, <1>f, OpsGrowNot
  <1>7. ASSUME NEW p \in inFlight, Answered(p) PROVE OpsGrow
    <2>1. ASSUME NEW e \in pending, Taken(e) PROVE OpsGrow
      <3>1. e.op \in DOMAIN ops
        BY DEF Typed, TypeOK
      <3>2. PICK q : OpsTo(e.op, q) /\ SameOrigin(q, ops[e.op])
        BY <2>1 DEF Taken
      <3>3. q.req = ops[e.op].req
        BY <3>2 DEF SameOrigin
      <3> QED BY <3>1, <3>2, <3>3, OpsGrowTo
    <2> QED BY <1>7, <2>1, OpsGrowNot DEF Answered
  <1>8. CASE Completed
    <2>1. PICK y \in Objs, p \in OpRecs : OpsTo(reader, p) /\ Filled(objs[ops[reader].req], ops[reader], y, p)
      BY <1>8 DEF Completed
    <2>2. p.req = ops[reader].req /\ reader \in DOMAIN ops
      BY <1>8, <2>1, Read DEF Completed, Filled, SameOrigin
    <2> QED BY <2>1, <2>2, OpsGrowTo
  <1>9. CASE Failed
    <2>1. /\ ops' \in Seq(OpRecs) /\ Len(ops') = Len(ops) /\ DOMAIN ops' = DOMAIN ops
          /\ \A c \in DOMAIN ops : FailsOp(c, ops'[c])
      BY <1>9 DEF Failed
    <2>2. \A c \in DOMAIN ops : ops'[c].req = ops[c].req
      BY <2>1 DEF FailsOp, SameOrigin
    <2> QED BY <2>1, <2>2 DEF OpsGrow, Typed, TypeOK
  <1>10. ASSUME NEW t \in Threads, Submitted(t) PROVE OpsGrow
    BY <1>10, OpsGrowNot DEF Submitted
  <1>11. CASE SessionOnly
    BY <1>11, OpsGrowNot DEF SessionOnly, SignIn, LoseConnection, Disconnect, StopClient, others
  <1> QED BY <1>1, <1>2, <1>3, <1>4, <1>5, <1>6, <1>7, <1>8, <1>9, <1>10, <1>11 DEF Kind

\* The steps that change the tables
TableStep ==
    \E t \in Threads :
       \/ CreateNpTitleCtx(t)
       \/ \E pc \in Characters : SetPlayerCharacterId(t, pc)
       \/ \E i \in titles : DeleteNpTitleCtx(t, i) \/ CreateRequest(t, i)
       \/ \E r \in requests : DeleteRequest(t, r)

\* No other step does.
LEMMA Tables ==
    ASSUME [Next]_vars
    PROVE  UNCHANGED gameVars \/ TableStep
  <1> DEFINE Same == UNCHANGED gameVars
  <1>1. ASSUME NEW t \in Threads, GameCalls(t) PROVE Same \/ TableStep
    <2>1. ASSUME NEW r \in requests,
                 \/ AbortRequest(t, r) \/ WaitAsync(t, r) \/ PollAsync(t, r)
                 \/ \E does \in KindOps, sync \in BOOLEAN : BeginOp(t, r, does, sync)
          PROVE  Same
      BY <2>1 DEF AbortRequest, WaitAsync, PollAsync, BeginOp
    <2> HIDE DEF Same
    <2> QED BY <1>1, <2>1 DEF GameCalls, CreateNpTitleCtxA, TableStep
  <1>2. ASSUME NEW t \in Threads, CallStep(t) PROVE Same
    <2>1. ASSUME NEW x, NEW o, NEW what, EndsHere(t, x, what, o) PROVE Same
      BY <2>1 DEF EndsHere
    <2>2. ASSUME NEW x, NEW o, NEW valid, Dispatch(t, x, o, valid) PROVE Same
      BY <2>1, <2>2 DEF Dispatch
    <2>3. ASSUME NEW valid, StartSend(t, valid) PROVE Same
      BY <2>2, <2>3 DEF StartSend
    <2>4. ASSUME NEW valid, NEW room, ReadData(t, room, valid) PROVE Same
      BY <2>1, <2>2, <2>4 DEF ReadData
    <2>5. ASSUME NEW valid, NEW size, NEW total, WriteData(t, size, total, valid) PROVE Same
      BY <2>1, <2>2, <2>5 DEF WriteData
    <2>6. ASSUME StartNothing(t) \/ StartEmptyId(t) PROVE Same
      BY <2>1, <2>6 DEF StartNothing, StartEmptyId
    <2>7. ASSUME NEW fits, StartComment(t, fits) PROVE Same
      BY <2>1, <2>7 DEF StartComment
    <2>8. ASSUME SubmitRequest(t) \/ Register(t) \/ WaitReturns(t) PROVE Same
      BY <2>8 DEF SubmitRequest, Register, WaitReturns
    <2> HIDE DEF Same
    <2> QED BY <1>2, <2>3, <2>4, <2>5, <2>6, <2>7, <2>8 DEF CallStep
  <1>3. ASSUME NEW p \in inFlight, TakeReply(p) PROVE Same
    BY <1>3 DEF TakeReply
  <1>4. ASSUME NEW good \in BOOLEAN, CompleteOp(good) PROVE Same
    BY <1>4 DEF CompleteOp
  <1>5. ASSUME SignIn \/ LoseConnection \/ Disconnect \/ StopClient \/ FailPendingRequests PROVE Same
    BY <1>5 DEF SignIn, LoseConnection, Disconnect, StopClient, FailPendingRequests, others
  <1>6. ASSUME UNCHANGED vars PROVE Same
    BY <1>6 DEF vars
  <1> HIDE DEF Same
  <1>7. ASSUME Next PROVE Same \/ TableStep
    BY <1>1, <1>2, <1>3, <1>4, <1>5, <1>7 DEF Next
  <1>8. Same \/ TableStep
    BY <1>6, <1>7
  <1> QED BY <1>8 DEF Same

\* What is in the tables is right.
TablesRight ==
    /\ titles \subseteq 1 .. MaxTitles /\ character \in [1 .. MaxTitles -> Characters]
    /\ requests \subseteq DOMAIN objs /\ madeTitles \in 0 .. MaxTitles
    /\ \A r \in requests : objs[r].title \in titles

\* Tables keep their types.
LEMMA TablesStep ==
    ASSUME Typed, [Next]_vars
    PROVE  TablesRight'
  <1>t. TablesRight
    BY DEF Typed, TypeOK, TablesRight
  <1>g. /\ DOMAIN objs \subseteq DOMAIN objs'
        /\ \A r \in DOMAIN objs : objs'[r].title = objs[r].title
    BY EveryStep, ObjsStep DEF ObjsGrow
  <1>1. CASE UNCHANGED gameVars
    BY <1>1, <1>t, <1>g DEF gameVars, TablesRight
  <1>2. ASSUME NEW t \in Threads, CreateNpTitleCtx(t) PROVE TablesRight'
    <2>1. madeTitles + 1 \in 1 .. MaxTitles
      BY <1>2, <1>t, BoundsNat DEF CreateNpTitleCtx, TablesRight
    <2>2. /\ titles' = titles \cup {madeTitles + 1} /\ madeTitles' = madeTitles + 1
          /\ UNCHANGED <<character, requests>>
      BY <1>2 DEF CreateNpTitleCtx
    <2>3. madeTitles' \in 0 .. MaxTitles /\ titles' \subseteq 1 .. MaxTitles
      BY <2>1, <2>2, <1>t, BoundsNat DEF TablesRight
    <2> QED BY <1>t, <1>g, <2>2, <2>3 DEF TablesRight
  <1>3. ASSUME NEW t \in Threads, NEW pc \in Characters, SetPlayerCharacterId(t, pc) PROVE TablesRight'
    <2>1. UNCHANGED <<titles, requests, madeTitles>> /\ character' \in [1 .. MaxTitles -> Characters]
      BY <1>3, <1>t DEF SetPlayerCharacterId, TablesRight
    <2> QED BY <1>t, <1>g, <2>1 DEF TablesRight
  <1>4. ASSUME NEW t \in Threads, NEW i \in titles, DeleteNpTitleCtx(t, i) PROVE TablesRight'
    <2>1. /\ titles' = titles \ {i} /\ requests' = requests \ {r \in requests : objs[r].title = i}
          /\ UNCHANGED <<character, madeTitles>>
      BY <1>4 DEF DeleteNpTitleCtx
    <2> QED BY <1>t, <1>g, <2>1 DEF TablesRight
  <1>5. ASSUME NEW t \in Threads, NEW i \in titles, CreateRequest(t, i) PROVE TablesRight'
    <2>1. PICK x : x = NewObj(i)
      OBVIOUS
    <2>2. x.title = i
      BY <2>1 DEF NewObj
    <2>3. objs' = Append(objs, x) /\ requests' = requests \cup {Len(objs) + 1}
          /\ UNCHANGED <<titles, character, madeTitles>>
      BY <1>5, <2>1 DEF CreateRequest
    <2>4. objs \in Seq(Objs)
      BY Kept DEF Typed
    <2>5. Len(objs) + 1 \in DOMAIN objs' /\ objs'[Len(objs) + 1] = x
      BY <2>3, <2>4
    <2>6. requests' \subseteq DOMAIN objs' /\ \A r \in requests' : objs'[r].title \in titles
      BY <1>t, <1>g, <2>2, <2>3, <2>5 DEF TablesRight
    <2> QED BY <1>t, <2>3, <2>6 DEF TablesRight
  <1>6. ASSUME NEW t \in Threads, NEW r \in requests, DeleteRequest(t, r) PROVE TablesRight'
    <2>1. requests' = requests \ {r} /\ UNCHANGED <<titles, character, madeTitles>>
      BY <1>6 DEF DeleteRequest
    <2> QED BY <1>t, <1>g, <2>1 DEF TablesRight
  <1> QED BY <1>1, <1>2, <1>3, <1>4, <1>5, <1>6, Tables DEF TableStep

\* The newest session and the packets of each only grow in number.
SessionsGrow == last <= last' /\ \A s \in Sessions : counter[s] <= counter'[s]
SessionsRight == SessionTypeOK /\ SessionEnds

\* Where no session begins or ends
LEMMA SessionsStay ==
    ASSUME Typed, UNCHANGED sessionVars
    PROVE  SessionsRight' /\ SessionsGrow
  <1>1. SessionTypeOK /\ SessionEnds
    BY DEF Typed, TypeOK, Sessioned
  <1> QED BY <1>1 DEF sessionVars, SessionTypeOK, SessionsGrow, SessionEnds, SessionsRight

\* Sessions keep their types.
LEMMA SessionStep ==
    ASSUME Typed, [Next]_vars
    PROVE  SessionsRight' /\ SessionsGrow
  <1>k. Kind
    BY EveryStep
  <1>t. SessionTypeOK /\ SessionEnds
    BY DEF Typed, TypeOK, Sessioned
  <1>1. ASSUME NEW t \in Threads, Submitted(t) PROVE SessionsRight' /\ SessionsGrow
    <2>1. PICK s : s = call[t].session
      OBVIOUS
    <2>2. s \in Sessions
      <3>1. Stage(call[t]) /\ call[t].pc = "submit"
        BY <1>1 DEF Typed, Submitted
      <3>2. last \in 0 .. MaxSessions /\ s \in 1 .. last
        BY <1>t, <2>1, <3>1 DEF Stage, SessionTypeOK
      <3> QED BY <3>2, BoundsNat DEF Sessions
    <2>3. counter' = [counter EXCEPT ![s] = @ + 1] /\ UNCHANGED <<session, last, up, task, missed>>
      BY <1>1, <2>1 DEF Submitted, PacketSubmitted
    <2>4. counter' \in [Sessions -> Nat] /\ SessionsGrow
      BY <1>t, <2>2, <2>3 DEF SessionTypeOK, SessionsGrow
    <2>5. inFlight' \subseteq Nat /\ (~up => inFlight' = inFlight)
      <3>1. NextPacket(s) \in Nat
        BY <1>t, <2>2 DEF NextPacket, SessionTypeOK
      <3> QED BY <1>1, <1>t, <2>1, <3>1 DEF Submitted, PacketSubmitted, SessionTypeOK
    <2> QED BY <1>t, <2>3, <2>4, <2>5 DEF SessionTypeOK, SessionEnds, SessionsRight
  <1>2. ASSUME NEW p \in inFlight, Answered(p) PROVE SessionsRight' /\ SessionsGrow
    <2>1. inFlight' = inFlight \ {p} /\ missed' \in {missed, missed \cup {p}}
            /\ UNCHANGED <<session, last, up, counter, task>>
      BY <1>2 DEF Answered
    <2> QED BY <1>t, <2>1 DEF SessionTypeOK, SessionsGrow, SessionEnds, SessionsRight
  <1>3. CASE SignIn
    BY <1>3, <1>t, SessionAssumption
       DEF SignIn, ConnectUser, SessionTypeOK, SessionsGrow, SessionEnds, Sessions, SessionsRight
  <1>4. CASE LoseConnection
    <2>1. UNCHANGED <<session, last, counter, task, missed>>
      BY <1>4 DEF LoseConnection, ConnectionLost
    <2>2. ~up' /\ up' \in BOOLEAN /\ inFlight' = {}
      BY <1>4 DEF LoseConnection, ConnectionLost
    <2>3. SessionTypeOK'
      BY <1>t, <2>1, <2>2 DEF SessionTypeOK
    <2>4. SessionEnds'
      BY <1>t, <2>1, <2>2 DEF SessionEnds
    <2>5. SessionsGrow
      BY <1>t, <2>1 DEF SessionTypeOK, SessionsGrow
    <2> QED BY <2>3, <2>4, <2>5 DEF SessionsRight
  <1>5. CASE Disconnect
    BY <1>5, <1>t, SessionAssumption
       DEF Disconnect, ClientRemoved, SessionTypeOK, SessionsGrow, SessionEnds, Sessions, SessionsRight
  <1>6. CASE StopClient
    <2>1. UNCHANGED <<session, last, counter, missed>> /\ task = "stop" /\ task' = "fail"
      BY <1>6 DEF StopClient, ClientStopped
    <2>2. ~up' /\ up' \in BOOLEAN /\ inFlight' = {}
      BY <1>6 DEF StopClient, ClientStopped
    <2>3. SessionTypeOK'
      BY <1>t, <2>1, <2>2 DEF SessionTypeOK
    <2>4. SessionEnds'
      BY <1>t, <2>1, <2>2 DEF SessionEnds
    <2>5. SessionsGrow
      BY <1>t, <2>1 DEF SessionTypeOK, SessionsGrow
    <2> QED BY <2>3, <2>4, <2>5 DEF SessionsRight
  <1>7. CASE Failed
    BY <1>7, <1>t, SessionAssumption
       DEF Failed, PendingFailed, SessionTypeOK, SessionsGrow, SessionEnds, Sessions, SessionsRight
  <1>8. CASE Quiet \/ Completed
    <2>1. UNCHANGED sessionVars
      BY <1>8 DEF Quiet, Completed
    <2> QED BY <2>1, SessionsStay
  <1>9. ASSUME NEW t \in Threads, Begins(t) \/ Ended(t) \/ Dispatched(t) \/ Dropped(t) \/ Registered(t)
        PROVE  SessionsRight' /\ SessionsGrow
    <2>1. UNCHANGED sessionVars
      BY <1>9 DEF Begins, Ended, Dispatched, Dropped, Registered, Beside
    <2> QED BY <2>1, SessionsStay
  <1> QED BY <1>k, <1>1, <1>2, <1>3, <1>4, <1>5, <1>6, <1>7, <1>8, <1>9 DEF Kind, SessionOnly

\* What a thread carries stays right as sessions go on.
LEMMA StageStays ==
    ASSUME Typed, [Next]_vars, NEW x \in Calls, Stage(x)
    PROVE  Stage(x)'
  <1>1. Kind
    BY EveryStep
  <1>2. DOMAIN objs \subseteq DOMAIN objs'
    BY <1>1, ObjsStep DEF ObjsGrow
  <1>3. DOMAIN ops \subseteq DOMAIN ops' /\ \A c \in DOMAIN ops : ops'[c].req = ops[c].req
    BY <1>1, OpsStep DEF OpsGrow
  <1>4. last <= last' /\ last \in Nat /\ last' \in Nat /\ last <= MaxSessions /\ counter' \in [Sessions -> Nat]
          /\ counter \in [Sessions -> Nat] /\ \A s \in Sessions : counter[s] <= counter'[s]
    BY SessionStep, SessionAssumption DEF SessionsGrow, SessionsRight, Typed, TypeOK, SessionTypeOK
  <1>5. x.session \in 1 .. last => x.session \in 1 .. last' /\ x.session \in Sessions
    BY <1>4, SessionAssumption DEF Sessions
  <1>6. x.session \in 1 .. last /\ x.pkt \in 1 .. counter[x.session] => x.pkt \in 1 .. counter'[x.session]
    <2>1. SUFFICES ASSUME x.session \in 1 .. last, x.pkt \in 1 .. counter[x.session]
                   PROVE  x.pkt \in 1 .. counter'[x.session]
      OBVIOUS
    <2>2. counter[x.session] \in Nat /\ counter'[x.session] \in Nat /\ counter[x.session] <= counter'[x.session]
      BY <1>4, <1>5, <2>1
    <2> QED BY <2>1, <2>2
  <1> QED BY <1>2, <1>3, <1>5, <1>6 DEF Stage

\* A thread at rest carries nothing.
LEMMA StageRests ==
    ASSUME NEW z, Resting(z), z.pc = "wait" => z.req \in DOMAIN objs'
    PROVE  Stage(z)'
  BY DEF Resting, Stage, Sending

\* What a thread carries is right.
CallsRight == call \in [Threads -> Calls] /\ \A u \in Threads : Stage(call[u])

\* One thread goes on.
LEMMA OneCall ==
    ASSUME Typed, [Next]_vars, NEW t \in Threads, NEW z, CallTo(t, z), Stage(z)'
    PROVE  CallsRight'
  <1>1. ASSUME NEW u \in Threads PROVE Stage(call[u])'
    <2>1. CASE u = t
      <3>1. call'[u] = z
        BY <2>1 DEF CallTo
      <3> QED BY <3>1 DEF Stage
    <2>2. CASE u # t
      <3>1. PICK x : x = call[u]
        OBVIOUS
      <3>2. x \in Calls /\ Stage(x)
        BY <3>1, Kept DEF Typed
      <3>3. Stage(x)'
        BY <3>2, StageStays
      <3>4. call'[u] = x
        BY <2>2, <3>1 DEF CallTo
      <3> QED BY <3>3, <3>4 DEF Stage
    <2> QED BY <2>1, <2>2
  <1> QED BY <1>1 DEF CallTo, CallsRight

\* No thread goes on.
LEMMA CallsRemain ==
    ASSUME Typed, [Next]_vars, call' = call
    PROVE  CallsRight'
  <1>1. ASSUME NEW u \in Threads PROVE Stage(call[u])'
    <2>1. PICK x : x = call[u]
      OBVIOUS
    <2>2. x \in Calls /\ Stage(x)
      BY <2>1, Kept DEF Typed
    <2>3. Stage(x)'
      BY <2>2, StageStays
    <2> QED BY <2>1, <2>3 DEF Stage
  <1> QED BY <1>1 DEF Typed, TypeOK, CallsRight

\* Calls keep their types.
LEMMA CallsStep ==
    ASSUME Typed, [Next]_vars
    PROVE  CallsRight'
  <1>k. Kind /\ [Next]_vars
    BY EveryStep
  <1>o. DOMAIN objs \subseteq DOMAIN objs'
    BY <1>k, ObjsStep DEF ObjsGrow
  <1>1. CASE Quiet
    <2>1. ASSUME NEW u \in Threads PROVE Stage(call[u])'
      <3>1. CASE call'[u] = call[u]
        <4>1. PICK x : x = call[u]
          OBVIOUS
        <4>2. x \in Calls /\ Stage(x)
          BY <4>1, Kept DEF Typed
        <4>3. Stage(x)'
          BY <1>k, <4>2, StageStays
        <4> QED BY <3>1, <4>1, <4>3 DEF Stage
      <3>2. CASE Resting(call'[u]) /\ (call'[u].pc = "wait" => call'[u].req \in DOMAIN objs)
        BY <1>o, <3>2 DEF Resting, Stage, Sending
      <3> QED BY <1>1, <3>1, <3>2 DEF Quiet, CallsMild
    <2> QED BY <1>1, <2>1 DEF Quiet, CallsMild, CallsRight
  <1>2. ASSUME NEW t \in Threads, Begins(t) PROVE CallsRight'
    <2>1. PICK r \in DOMAIN objs, y \in Objs : \E p, z : BegunAs(t, r, y, p, z)
      BY <1>2 DEF Begins
    <2>2. PICK p, z : BegunAs(t, r, y, p, z)
      BY <2>1
    <2>3. CallTo(t, z) /\ z.pc = "begun" /\ z.op = Len(ops) + 1 /\ z.req = r /\ ops'[Len(ops) + 1].req = r
      BY <2>2 DEF BegunAs
    <2>4. Len(ops) + 1 \in DOMAIN ops'
      <3>1. Len(ops) \in Nat /\ DOMAIN ops' = 1 .. Len(ops) + 1
        BY <1>2, Kept DEF Begins, Typed
      <3> QED BY <3>1
    <2>5. Stage(z)'
      BY <2>3, <2>4 DEF Stage, Sending
    <2> QED BY <1>k, <2>3, <2>5, OneCall
  <1>3. ASSUME NEW t \in Threads, Ended(t) \/ Dropped(t) PROVE CallsRight'
    <2>1. CallTo(t, Idle)
      BY <1>3 DEF Ended, Dropped
    <2>2. PICK z : z = Idle
      OBVIOUS
    <2>3. Resting(z) /\ z.pc = "idle"
      BY <2>2, IdleIs
    <2>4. Stage(z)'
      BY <2>3, StageRests
    <2> QED BY <1>k, <2>1, <2>2, <2>4, OneCall
  <1>4. ASSUME NEW t \in Threads, Dispatched(t) PROVE CallsRight'
    <2>1. PICK z : CallTo(t, z) /\ z.pc = "submit" /\ z.op = call[t].op /\ z.req = call[t].req
                     /\ session # 0 /\ z.session = session
      BY <1>4 DEF Dispatched
    <2>2. call[t].op \in DOMAIN ops /\ call[t].req = ops[call[t].op].req
      BY <1>4, Senders DEF Dispatched, Sending
    <2>3. z.op \in DOMAIN ops' /\ z.req = ops'[z.op].req
      BY <1>k, <2>1, <2>2, OpsStep DEF OpsGrow
    <2>4. z.session \in 1 .. last'
      <3>1. session = last /\ session # 0 /\ last \in 0 .. MaxSessions
        BY <2>1 DEF Typed, TypeOK, SessionTypeOK
      <3>2. last' = last
        BY <1>4 DEF Dispatched, Beside, sessionVars
      <3> QED BY <2>1, <3>1, <3>2, BoundsNat
    <2>5. Stage(z)'
      BY <2>1, <2>3, <2>4 DEF Stage, Sending
    <2> QED BY <1>k, <2>1, <2>5, OneCall
  <1>5. ASSUME NEW t \in Threads, Submitted(t) PROVE CallsRight'
    <2>1. PICK z : CallTo(t, z) /\ z.pc = "register" /\ z.op = call[t].op /\ z.req = call[t].req
                     /\ z.session = call[t].session /\ z.pkt = NextPacket(call[t].session)
      BY <1>5 DEF Submitted
    <2>2. call[t].op \in DOMAIN ops /\ call[t].req = ops[call[t].op].req
      BY <1>5, Senders DEF Submitted, Sending
    <2>3. z.op \in DOMAIN ops' /\ z.req = ops'[z.op].req
      BY <1>k, <2>1, <2>2, OpsStep DEF OpsGrow
    <2>4. PICK s : s = call[t].session
      OBVIOUS
    <2>5. s \in 1 .. last /\ s \in Sessions /\ last' = last
      <3>1. Stage(call[t]) /\ call[t].pc = "submit"
        BY <1>5 DEF Typed, Submitted
      <3>2. last \in 0 .. MaxSessions /\ s \in 1 .. last /\ last' = last
        BY <1>5, <2>4, <3>1 DEF Stage, Typed, TypeOK, SessionTypeOK, Submitted, PacketSubmitted
      <3> QED BY <3>2, BoundsNat DEF Sessions
    <2>6. counter'[s] = counter[s] + 1 /\ counter[s] \in Nat
      BY <1>5, <2>4, <2>5 DEF Submitted, PacketSubmitted, Typed, TypeOK, SessionTypeOK
    <2>7. z.session = s /\ z.pkt = counter[s] + 1
      BY <2>1, <2>4 DEF NextPacket
    <2>8. z.session \in 1 .. last' /\ z.pkt \in 1 .. counter'[z.session]
      BY <2>5, <2>6, <2>7
    <2>9. Stage(z)'
      BY <2>1, <2>3, <2>8 DEF Stage, Sending
    <2> QED BY <1>k, <2>1, <2>9, OneCall
  <1>6. ASSUME NEW t \in Threads, Registered(t) PROVE CallsRight'
    <2>1. PICK z : CallTo(t, z) /\ Resting(z) /\ (z.pc = "wait" => z.req = call[t].req)
      BY <1>6 DEF Registered
    <2>2. call[t].req \in DOMAIN objs
      BY <1>6, Senders DEF Registered, Sending
    <2>3. Stage(z)'
      BY <1>o, <2>1, <2>2, StageRests
    <2> QED BY <1>k, <2>1, <2>3, OneCall
  <1>7. CASE call' = call
    BY <1>k, <1>7, CallsRemain
  <1>8. ASSUME NEW p \in inFlight, Answered(p) PROVE call' = call
    BY <1>8 DEF Answered
  <1>9. ASSUME Completed \/ Failed \/ SessionOnly PROVE call' = call
    BY <1>9 DEF Completed, Failed, SessionOnly, SignIn, LoseConnection, Disconnect, StopClient, others
  <1> QED BY <1>k, <1>1, <1>2, <1>3, <1>4, <1>5, <1>6, <1>7, <1>8, <1>9 DEF Kind

\* No operation is begun on a request there is.
Unturned ==
    /\ \A r \in DOMAIN objs : SameTurn(objs'[r], objs[r])
    /\ \A r \in DOMAIN objs' \ DOMAIN objs : Blank(objs'[r])

\* One request changes in another way.
LEMMA UnturnedTo ==
    ASSUME NEW r \in DOMAIN objs, NEW y, ObjsTo(r, y), SameTurn(y, objs[r])
    PROVE  Unturned
  <1>1. ASSUME NEW q \in DOMAIN objs PROVE SameTurn(objs'[q], objs[q])
    <2>1. CASE q = r
      BY <2>1 DEF ObjsTo
    <2>2. CASE q # r
      BY <2>2 DEF ObjsTo, SameTurn
    <2> QED BY <2>1, <2>2
  <1> QED BY <1>1 DEF ObjsTo, Unturned

\* Only BeginOp does so.
LEMMA TurnStep ==
    ASSUME Typed, Kind
    PROVE  (\E t \in Threads : Begins(t)) \/ Unturned
  <1>1. ASSUME Quiet PROVE Unturned
    BY <1>1 DEF Quiet, ObjsMild, MildObj, Unturned
  <1>2. ASSUME NEW t \in Threads, Ended(t) PROVE Unturned
    <2>0. call[t].pc = "begun" /\ call[t].req \in DOMAIN objs
      BY <1>2, Senders DEF Ended, Sending
    <2>1. PICK x, o, y : /\ Worked(t, x, o) /\ ObjsTo(call[t].req, y)
                         /\ \E what \in {"ok", "failed", "not sent"} : y = SetResult(x, what, call[t].op)
      BY <1>2 DEF Ended
    <2>2. SameTurn(y, x)
      <3>1. PICK c \in 1 .. MaxOps : c = call[t].op
        BY <2>0, Senders DEF Sending
      <3>2. PICK what \in Results : y = SetResult(x, what, c)
        BY <2>1, <3>1 DEF Results
      <3>3. Worked(t, x, o)
        BY <2>1
      <3> QED BY <3>2, <3>3, ResultKeeps
    <2>3. SameTurn(y, objs[call[t].req])
      BY <2>1, <2>2 DEF Worked, SameTurn
    <2> QED BY <2>0, <2>1, <2>3, UnturnedTo
  <1>3. ASSUME NEW t \in Threads, Dispatched(t) PROVE Unturned
    <2>0. call[t].req \in DOMAIN objs
      BY <1>3, Senders DEF Dispatched, Sending
    <2>1. PICK x, o : Worked(t, x, o) /\ ObjsTo(call[t].req, x)
      BY <1>3 DEF Dispatched
    <2> QED BY <2>0, <2>1, UnturnedTo DEF Worked
  <1>4. ASSUME Completed PROVE Unturned
    <2>1. PICK y \in Objs, p \in OpRecs : ObjsTo(ops[reader].req, y) /\ Filled(objs[ops[reader].req], ops[reader], y, p)
      BY <1>4 DEF Completed
    <2>2. ops[reader].req \in DOMAIN objs
      BY <1>4, Read DEF Completed, Typed, TypeOK
    <2> QED BY <2>1, <2>2, UnturnedTo DEF Filled
  <1>5. ASSUME Failed PROVE Unturned
    BY <1>5 DEF Failed, FailsObj, Unturned
  <1>6. ASSUME objs' = objs PROVE Unturned
    BY <1>6 DEF Unturned, SameTurn
  <1>7. ASSUME NEW t \in Threads, Dropped(t) \/ Submitted(t) \/ Registered(t) PROVE objs' = objs
    BY <1>7 DEF Dropped, Submitted, Registered, Entered, Forgets
  <1>8. ASSUME NEW p \in inFlight, Answered(p) PROVE objs' = objs
    BY <1>8 DEF Answered
  <1>9. ASSUME SessionOnly PROVE objs' = objs
    BY <1>9 DEF SessionOnly, SignIn, LoseConnection, Disconnect, StopClient, others
  <1> QED BY <1>1, <1>2, <1>3, <1>4, <1>5, <1>6, <1>7, <1>8, <1>9 DEF Kind

\* A request's last operation is one of its own.
LEMMA LastBegunStep ==
    ASSUME Typed, Kind
    PROVE  LastBegun'
  <1>o. DOMAIN ops \subseteq DOMAIN ops' /\ \A c \in DOMAIN ops : ops'[c].req = ops[c].req
    BY OpsStep DEF OpsGrow
  <1>1. ASSUME NEW t \in Threads, Begins(t) PROVE LastBegun'
    <2>1. PICK r \in DOMAIN objs, y \in Objs : \E p, z : BegunAs(t, r, y, p, z)
      BY <1>1 DEF Begins
    <2>2. ObjsTo(r, y) /\ y.op = Len(ops) + 1 /\ ops'[Len(ops) + 1].req = r
      BY <2>1 DEF BegunAs
    <2>3. Len(ops) + 1 \in DOMAIN ops'
      <3>1. Len(ops) \in Nat /\ DOMAIN ops' = 1 .. Len(ops) + 1
        BY <1>1, Kept DEF Begins, Typed
      <3> QED BY <3>1
    <2>4. ASSUME NEW q \in DOMAIN objs', objs'[q].op # 0
          PROVE  objs'[q].op \in DOMAIN ops' /\ ops'[objs'[q].op].req = q
      <3>1. CASE q = r
        BY <2>2, <2>3, <3>1 DEF ObjsTo
      <3>2. CASE q # r
        <4>1. objs'[q] = objs[q] /\ q \in DOMAIN objs
          BY <2>2, <3>2 DEF ObjsTo
        <4>2. objs[q].op \in DOMAIN ops /\ ops[objs[q].op].req = q
          BY <2>4, <4>1 DEF Typed, LastBegun
        <4> QED BY <1>o, <4>1, <4>2
      <3> QED BY <3>1, <3>2
    <2> QED BY <2>4 DEF LastBegun
  <1>2. CASE Unturned
    <2>1. ASSUME NEW q \in DOMAIN objs', objs'[q].op # 0
          PROVE  objs'[q].op \in DOMAIN ops' /\ ops'[objs'[q].op].req = q
      <3>1. q \in DOMAIN objs
        BY <1>2, <2>1 DEF Unturned, Blank
      <3>2. objs'[q].op = objs[q].op
        BY <1>2, <3>1 DEF Unturned, SameTurn
      <3>3. objs[q].op \in DOMAIN ops /\ ops[objs[q].op].req = q
        BY <2>1, <3>1, <3>2 DEF Typed, LastBegun
      <3> QED BY <1>o, <3>2, <3>3
    <2> QED BY <2>1 DEF LastBegun
  <1> QED BY <1>1, <1>2, TurnStep

\* What an entry is of
Entry(e) ==
    /\ e \in [pkt : Nat, op : DOMAIN ops, session : Sessions]
    /\ e.session \in 1 .. last /\ e.pkt \in 1 .. counter[e.session]
PendingRight ==
    /\ \A e \in pending : Entry(e)
    /\ \A e, f \in pending : e.pkt = f.pkt => e = f
    /\ reader \in 0 .. Len(ops)

\* It stays so.
LEMMA EntryStays ==
    ASSUME Typed, [Next]_vars, NEW e, Entry(e)
    PROVE  Entry(e)'
  <1>1. DOMAIN ops \subseteq DOMAIN ops'
    BY EveryStep, OpsStep DEF OpsGrow
  <1>2. e \in [pkt : Nat, op : DOMAIN ops', session : Sessions]
    BY <1>1 DEF Entry
  <1>3. e.session \in 1 .. last' /\ e.session \in Sessions
    <2>1. last <= last' /\ last \in Nat /\ last' \in Nat
      BY SessionStep, SessionAssumption DEF SessionsGrow, SessionsRight, Typed, TypeOK, SessionTypeOK
    <2>2. e.session \in 1 .. last /\ e.session \in Sessions
      BY DEF Entry
    <2> QED BY <2>1, <2>2
  <1>4. counter[e.session] \in Nat /\ counter'[e.session] \in Nat /\ counter[e.session] <= counter'[e.session]
    BY <1>3, SessionStep DEF SessionsGrow, SessionsRight, Typed, TypeOK, SessionTypeOK
  <1>5. e.pkt \in 1 .. counter'[e.session]
    BY <1>4 DEF Entry
  <1> QED BY <1>2, <1>3, <1>5 DEF Entry

\* Entries stay when none is added.
LEMMA PendingShrinks ==
    ASSUME Typed, [Next]_vars, pending' \subseteq pending, reader' \in DOMAIN ops \cup {0, reader}
    PROVE  PendingRight'
  <1>1. PendingRight
    BY DEF Typed, TypeOK, Sessioned, PendingRight, Entry
  <1>2. ASSUME NEW e \in pending' PROVE Entry(e)'
    BY <1>1, <1>2, EntryStays DEF PendingRight
  <1>3. reader' \in 0 .. Len(ops')
    <2>1. ops \in Seq(OpRecs) /\ ops' \in Seq(OpRecs) /\ DOMAIN ops \subseteq DOMAIN ops'
      BY EveryStep, OpsStep, Kept DEF OpsGrow, Typed
    <2>2. reader' \in DOMAIN ops \cup {0}
      BY <1>1, <2>1 DEF PendingRight
    <2>3. DOMAIN ops' = 1 .. Len(ops') /\ Len(ops') \in Nat
      BY <2>1
    <2> QED BY <2>1, <2>2, <2>3
  <1> QED BY <1>1, <1>2, <1>3 DEF PendingRight

\* What waits for a reply keeps its type.
LEMMA PendingStep ==
    ASSUME Typed, [Next]_vars
    PROVE  PendingRight'
  <1>k. Kind /\ [Next]_vars
    BY EveryStep
  <1>1. CASE pending' = pending /\ reader' = reader
    BY <1>k, <1>1, PendingShrinks
  <1>2. ASSUME NEW t \in Threads, Registered(t) PROVE PendingRight'
    <2>1. reader' = reader
      BY <1>2 DEF Registered
    <2>2. ASSUME NEW e, Entered(t, e) PROVE PendingRight'
      <3>1. /\ pending' = pending \cup {e} /\ ~ \E f \in pending : f.pkt = call[t].pkt
            /\ e \in [pkt : Nat, op : DOMAIN ops, session : Sessions]
            /\ e.pkt = call[t].pkt /\ e.op = call[t].op /\ e.session = call[t].session
        BY <2>2 DEF Entered
      <3>2. Stage(call[t]) /\ call[t].pc = "register"
        BY <1>2 DEF Typed, Registered
      <3>3. Entry(e)
        BY <3>1, <3>2 DEF Stage, Entry
      <3>4. PendingRight
        BY DEF Typed, TypeOK, Sessioned, PendingRight, Entry
      <3>5. ASSUME NEW f \in pending' PROVE Entry(f)'
        <4>1. Entry(f)
          BY <3>1, <3>3, <3>4, <3>5 DEF PendingRight
        <4> QED BY <1>k, <4>1, EntryStays
      <3>6. \A f, g \in pending' : f.pkt = g.pkt => f = g
        BY <3>1, <3>4 DEF PendingRight
      <3>7. reader' \in 0 .. Len(ops')
        <4>1. ops \in Seq(OpRecs) /\ ops' \in Seq(OpRecs) /\ DOMAIN ops \subseteq DOMAIN ops'
          BY <1>k, OpsStep, Kept DEF OpsGrow, Typed
        <4>2. reader' \in DOMAIN ops \cup {0}
          BY <2>1, <3>4, <4>1 DEF PendingRight
        <4>3. DOMAIN ops' = 1 .. Len(ops') /\ Len(ops') \in Nat
          BY <4>1
        <4> QED BY <4>1, <4>2, <4>3
      <3> QED BY <3>5, <3>6, <3>7 DEF PendingRight
    <2> QED BY <1>1, <1>2, <2>1, <2>2 DEF Registered
  <1>3. ASSUME NEW p \in inFlight, Answered(p) PROVE PendingRight'
    <2>1. ASSUME NEW e \in pending, Taken(e) PROVE PendingRight'
      <3>1. e.op \in DOMAIN ops
        BY DEF Typed, TypeOK
      <3>2. pending' \subseteq pending /\ reader' = e.op
        BY <2>1 DEF Taken
      <3> QED BY <1>k, <3>1, <3>2, PendingShrinks
    <2> QED BY <1>1, <1>3, <2>1 DEF Answered
  <1>4. CASE Completed \/ Failed
    <2>1. pending' \subseteq pending /\ reader' \in {0, reader}
      BY <1>4 DEF Completed, Failed
    <2> QED BY <1>k, <2>1, PendingShrinks
  <1>5. ASSUME NEW t \in Threads, Begins(t) \/ Ended(t) \/ Dispatched(t) \/ Dropped(t) \/ Submitted(t)
        PROVE  pending' = pending /\ reader' = reader
    BY <1>5 DEF Begins, Ended, Dispatched, Dropped, Submitted, Beside
  <1>6. ASSUME Quiet \/ SessionOnly PROVE pending' = pending /\ reader' = reader
    BY <1>6 DEF Quiet, SessionOnly, SignIn, LoseConnection, Disconnect, StopClient, others
  <1> QED BY <1>k, <1>1, <1>2, <1>3, <1>4, <1>5, <1>6 DEF Kind

\* The types are inductive.
LEMMA TypeStep ==
    ASSUME Typed, [Next]_vars
    PROVE  Typed'
  <1>k. Kind
    BY EveryStep
  <1>1. TablesRight' /\ SessionsRight' /\ CallsRight' /\ PendingRight' /\ LastBegun'
    BY <1>k, TablesStep, SessionStep, CallsStep, PendingStep, LastBegunStep
  <1>2. ObjsGrow /\ OpsGrow
    BY <1>k, ObjsStep, OpsStep
  <1>3. \A c \in DOMAIN ops' : ops'[c].req \in DOMAIN objs'
    BY <1>2 DEF ObjsGrow, OpsGrow
  <1>4. \A r \in DOMAIN objs' : /\ objs'[r].parts < objs'[r].total \/ objs'[r].total = 0
                                /\ objs'[r].total = 0 => objs'[r].parts = 0
    BY <1>2 DEF ObjsGrow, Decent
  <1>5. (\A e \in pending : e \in [pkt : Nat, op : DOMAIN ops, session : Sessions]
                              /\ e.session \in 1 .. last /\ e.pkt \in 1 .. counter[e.session])'
    BY <1>1 DEF PendingRight, Entry
  <1>6. TypeOK'
    BY <1>1, <1>2, <1>3, <1>4, <1>5 DEF TypeOK, TablesRight, SessionsRight, CallsRight, PendingRight, ObjsGrow, OpsGrow
  <1>7. Sessioned' /\ Announcing'
    BY <1>1, <1>4, <1>5 DEF Sessioned, SessionsRight, Announcing
  <1> QED BY <1>1, <1>6, <1>7 DEF Typed, CallsRight

\* The types hold at the start.
LEMMA TypeInit == Init => Typed
  <1> SUFFICES ASSUME Init PROVE Typed
    OBVIOUS
  <1>1. objs = <<>> /\ ops = <<>> /\ Len(objs) = 0 /\ Len(ops) = 0 /\ DOMAIN objs = {} /\ DOMAIN ops = {}
    BY DEF Init
  <1>2. Idle \in Calls /\ Stage(Idle)
    BY IdleIs DEF Resting, Stage, Sending
  <1>3. call \in [Threads -> Calls] /\ \A u \in Threads : call[u] = Idle
    BY <1>2 DEF Init
  <1>4. \A u \in Threads : Stage(call[u])
    BY <1>2, <1>3
  <1>5. SessionTypeOK
    <2>1. counter \in [Sessions -> Nat]
      BY DEF Init, SessionInit
    <2>2. session = 0 /\ last = 0 /\ up = FALSE /\ task = "none" /\ inFlight = {} /\ missed = {}
      BY DEF Init, SessionInit
    <2>3. 0 \in 0 .. MaxSessions
      BY SessionAssumption
    <2> QED BY <2>1, <2>2, <2>3 DEF SessionTypeOK
  <1>6. Sessioned
    BY DEF Init, SessionInit, Sessioned, SessionEnds
  <1>7. titles = {} /\ requests = {} /\ pending = {} /\ reader = 0 /\ madeTitles \in 0 .. MaxTitles
    BY BoundsNat DEF Init
  <1>8. character \in [1 .. MaxTitles -> Characters]
    BY ScoreAssumption DEF Init
  <1>9. 0 <= MaxRequests /\ 0 <= MaxOps
    BY BoundsNat
  <1>10. objs \in Seq(Objs) /\ ops \in Seq(OpRecs)
    BY <1>1
  <1>11. TypeOK
    BY <1>1, <1>3, <1>5, <1>7, <1>8, <1>9, <1>10 DEF TypeOK
  <1> QED BY <1>1, <1>4, <1>6, <1>11 DEF Typed, Announcing, LastBegun

\* Every variable keeps its type, whichever way the game's threads, the replies of the
\* server and the sign-outs interleave: a request belongs to a title context that is
\* there, an entry of the map is of an operation that was begun and of a packet that was
\* sent, and of a blob less is collected than was announced.
THEOREM TypeCorrect == Spec => []TypeOK
  <1>1. Typed /\ [Next]_vars => Typed'
    BY TypeStep
  <1>2. Typed => TypeOK
    BY DEF Typed
  <1> QED BY <1>1, <1>2, TypeInit, PTL DEF Spec

-----------------------------------------------------------------------------
(* Who completes an operation.                                             *)

\* Threads, entries and the reader have operations that were begun.
LEMMA Known ==
    ASSUME Typed
    PROVE  /\ 0 \notin DOMAIN ops /\ Len(ops) + 1 \notin DOMAIN ops /\ Len(ops) + 1 # 0
           /\ \A t \in Threads : /\ call[t].op \in DOMAIN ops \cup {0}
                                 /\ call[t].pc \in Sending <=> call[t].op # 0
           /\ \A e \in pending : e.op \in DOMAIN ops
           /\ reader \in DOMAIN ops \cup {0}
  <1>1. 0 \notin DOMAIN ops /\ Len(ops) + 1 \notin DOMAIN ops /\ Len(ops) + 1 # 0
    <2>1. DOMAIN ops = 1 .. Len(ops) /\ Len(ops) \in Nat
      BY Kept
    <2> QED BY <2>1
  <1>2. ASSUME NEW t \in Threads
        PROVE  call[t].op \in DOMAIN ops \cup {0} /\ (call[t].pc \in Sending <=> call[t].op # 0)
    <2>1. Stage(call[t])
      BY DEF Typed
    <2> QED BY <1>1, <2>1 DEF Stage
  <1>3. \A e \in pending : e.op \in DOMAIN ops
    BY DEF Typed, TypeOK
  <1>4. reader \in DOMAIN ops \cup {0}
    BY Read
  <1> QED BY <1>1, <1>2, <1>3, <1>4

\* Only an operation that was begun will be completed.
LEMMA ComesKnown ==
    ASSUME Typed, NEW c, ToCome(c), c # 0
    PROVE  c \in DOMAIN ops
  BY Known DEF ToCome

\* In a session's changes the operations, the calls and the entries stay.
LEMMA SessionAlone ==
    ASSUME SessionOnly
    PROVE  UNCHANGED <<objs, ops, call, pending, reader>>
  BY DEF SessionOnly, SignIn, LoseConnection, Disconnect, StopClient, others

\* Threads that do not begin or end keep their operations.
LEMMA SameOps ==
    ASSUME Typed
    PROVE  /\ Quiet => \A u \in Threads : call'[u].op = call[u].op
           /\ \A t \in Threads : Dispatched(t) \/ Submitted(t) => \A u \in Threads : call'[u].op = call[u].op
           /\ \A t \in Threads : Ended(t) \/ Dropped(t) \/ Registered(t) =>
                 call'[t].op = 0 /\ \A u \in Threads : u # t => call'[u] = call[u]
  <1>1. ASSUME Quiet, NEW u \in Threads PROVE call'[u].op = call[u].op
    BY <1>1 DEF Quiet, CallsMild, Resting
  <1>2. ASSUME NEW t \in Threads, Dispatched(t), NEW u \in Threads PROVE call'[u].op = call[u].op
    <2>1. PICK z : CallTo(t, z) /\ z.op = call[t].op
      BY <1>2 DEF Dispatched
    <2> QED BY <2>1 DEF CallTo
  <1>3. ASSUME NEW t \in Threads, Submitted(t), NEW u \in Threads PROVE call'[u].op = call[u].op
    <2>1. PICK z : CallTo(t, z) /\ z.op = call[t].op
      BY <1>3 DEF Submitted
    <2> QED BY <2>1 DEF CallTo
  <1>4. ASSUME NEW t \in Threads, Ended(t) \/ Dropped(t) \/ Registered(t)
        PROVE  call'[t].op = 0 /\ \A u \in Threads : u # t => call'[u] = call[u]
    <2>1. PICK z : CallTo(t, z) /\ z.op = 0
      BY <1>4, IdleIs DEF Ended, Dropped, Registered, Resting
    <2> QED BY <2>1 DEF CallTo
  <1> QED BY <1>1, <1>2, <1>3, <1>4

\* Where nothing is added, nothing comes to be in two places.
LEMMA PlacesLeft ==
    ASSUME Typed, OnePlace, \A u \in Threads : call'[u].op \in {call[u].op, 0},
           pending' \subseteq pending, reader' \in {reader, 0}
    PROVE  OnePlace'
  <1>1. \A e \in pending : e.op # 0
    BY Known
  <1> QED BY <1>1 DEF OnePlace

\* An operation is in one place.
LEMMA OnePlaceStep ==
    ASSUME Typed, Kind, OnePlace
    PROVE  OnePlace'
  <1>1. ASSUME NEW t \in Threads, Begins(t) PROVE OnePlace'
    <2>1. PICK c : c = Len(ops) + 1
      OBVIOUS
    <2>2. PICK z : CallTo(t, z) /\ z.op = c
      <3>1. PICK r \in DOMAIN objs, y \in Objs : \E p, z : BegunAs(t, r, y, p, z)
        BY <1>1 DEF Begins
      <3> QED BY <2>1, <3>1 DEF BegunAs
    <2>3. call'[t].op = c /\ (\A u \in Threads : u # t => call'[u] = call[u]) /\ c \notin DOMAIN ops /\ c # 0
      BY <2>1, <2>2, Known DEF CallTo
    <2>4. pending' = pending /\ reader' = reader
      BY <1>1 DEF Begins, Beside
    <2>5. /\ \A u \in Threads : call[u].op \in DOMAIN ops \cup {0}
          /\ \A e \in pending : e.op \in DOMAIN ops
          /\ reader \in DOMAIN ops \cup {0}
      BY Known
    <2>6. \A u, v \in Threads : call'[u].op = call'[v].op /\ call'[u].op # 0 => u = v
      BY <2>3, <2>5 DEF OnePlace
    <2>7. \A u \in Threads, e \in pending : call'[u].op # e.op
      BY <2>3, <2>5 DEF OnePlace
    <2>8. \A u \in Threads : reader # 0 => call'[u].op # reader
      BY <2>3, <2>5 DEF OnePlace
    <2> QED BY <2>4, <2>6, <2>7, <2>8 DEF OnePlace
  <1>2. ASSUME NEW t \in Threads, Registered(t) PROVE OnePlace'
    <2>1. call'[t].op = 0 /\ (\A u \in Threads : u # t => call'[u] = call[u]) /\ reader' = reader
      BY <1>2, SameOps DEF Registered
    <2>2. ASSUME NEW e, Entered(t, e) PROVE OnePlace'
      <3>1. pending' = pending \cup {e} /\ e.op = call[t].op
        BY <2>2 DEF Entered
      <3>2. e.op # 0 /\ \A f \in pending : f.op # 0
        BY <1>2, <3>1, Known DEF Registered, Sending
      <3>3. \A u, v \in Threads : call'[u].op = call'[v].op /\ call'[u].op # 0 => u = v
        BY <2>1 DEF OnePlace
      <3>4. \A f, g \in pending' : f.op = g.op => f = g
        BY <3>1 DEF OnePlace
      <3>5. \A u \in Threads, f \in pending' : call'[u].op # f.op
        BY <2>1, <3>1, <3>2 DEF OnePlace
      <3>6. \A u \in Threads : reader' # 0 => call'[u].op # reader'
        BY <2>1 DEF OnePlace
      <3>7. \A f \in pending' : f.op # reader'
        BY <2>1, <3>1, <3>2 DEF OnePlace
      <3> QED BY <3>3, <3>4, <3>5, <3>6, <3>7 DEF OnePlace
    <2>3. CASE pending' = pending
      BY <2>1, <2>3, PlacesLeft
    <2> QED BY <1>2, <2>2, <2>3 DEF Registered
  <1>3. ASSUME NEW p \in inFlight, Answered(p) PROVE OnePlace'
    <2>1. call' = call
      BY <1>3 DEF Answered
    <2>2. ASSUME NEW e \in pending, Taken(e) PROVE OnePlace'
      <3>1. pending' = pending \ {e} /\ reader' = e.op
        BY <2>2 DEF Taken
      <3> QED BY <2>1, <3>1 DEF OnePlace
    <2>3. CASE pending' = pending /\ reader' = reader
      BY <2>1, <2>3, PlacesLeft
    <2> QED BY <1>3, <2>2, <2>3 DEF Answered
  <1>4. CASE \E t \in Threads : Ended(t) \/ Dispatched(t) \/ Dropped(t) \/ Submitted(t)
    <2>1. \A u \in Threads : call'[u].op \in {call[u].op, 0}
      BY <1>4, SameOps
    <2>2. pending' = pending /\ reader' = reader
      BY <1>4 DEF Ended, Dispatched, Dropped, Submitted, Beside
    <2> QED BY <2>1, <2>2, PlacesLeft
  <1>5. CASE Quiet
    <2>1. \A u \in Threads : call'[u].op \in {call[u].op, 0}
      BY <1>5, SameOps
    <2>2. pending' = pending /\ reader' = reader
      BY <1>5 DEF Quiet
    <2> QED BY <2>1, <2>2, PlacesLeft
  <1>6. CASE Completed \/ Failed \/ SessionOnly
    <2>1. call' = call /\ pending' \subseteq pending /\ reader' \in {reader, 0}
      BY <1>6, SessionAlone DEF Completed, Failed
    <2> QED BY <2>1, PlacesLeft
  <1> QED BY <1>1, <1>2, <1>3, <1>4, <1>5, <1>6 DEF Kind

\* An operation whose result is set, or that is forgotten, or that keeps its place
LEMMA OwedSame ==
    ASSUME NEW c \in DOMAIN ops, OwedOne(c), ops'[c].done = ops[c].done,
           ops'[c].lost # "no" \/ (ops'[c].lost = ops[c].lost /\ (ToCome(c) => ToCome(c)')),
           ToCome(c)' => ToCome(c)
    PROVE  OwedOne(c)'
  BY DEF OwedOne

\* Who completes an operation is the same while calls, entries and reader have the same.
LEMMA SamePlace ==
    ASSUME NEW c, \A u \in Threads : call'[u].op = call[u].op, pending' = pending, reader' = reader
    PROVE  ToCome(c)' <=> ToCome(c)
  BY DEF ToCome

\* One who will complete an operation is there until it has its result or is forgotten.
LEMMA OwedStep ==
    ASSUME Typed, Kind, OnePlace, Owed
    PROVE  Owed'
  <1>1. CASE Quiet
    <2>1. pending' = pending /\ reader' = reader /\ \A u \in Threads : call'[u].op = call[u].op
      BY <1>1, SameOps DEF Quiet
    <2>2. ASSUME NEW c \in DOMAIN ops PROVE OwedOne(c)'
      <3>1. ops'[c].done = ops[c].done /\ ops'[c].lost = ops[c].lost
        BY <1>1 DEF Quiet, OpsMild, MildOp
      <3> QED BY <2>1, <3>1, SamePlace, OwedSame DEF Owed
    <2> QED BY <1>1, <2>2 DEF Owed, Quiet, OpsMild
  <1>2. ASSUME NEW t \in Threads, Begins(t) PROVE Owed'
    <2>1. PICK n : n = Len(ops) + 1
      OBVIOUS
    <2>2. PICK r \in DOMAIN objs, y \in Objs : \E p, z : BegunAs(t, r, y, p, z)
      BY <1>2 DEF Begins
    <2>3. PICK z : CallTo(t, z) /\ z.op = n /\ ops'[n].done = FALSE
      BY <2>1, <2>2 DEF BegunAs
    <2>4. call'[t].op = n /\ (\A u \in Threads : u # t => call'[u] = call[u]) /\ call[t].op = 0
      BY <1>2, <2>3 DEF CallTo, Begins
    <2>5. pending' = pending /\ reader' = reader /\ DOMAIN ops' = 1 .. n /\ \A c \in DOMAIN ops : ops'[c] = ops[c]
      BY <1>2, <2>1 DEF Begins, Beside
    <2>6. \A c \in DOMAIN ops' : c \in DOMAIN ops \/ c = n
      BY <2>1, <2>5, Kept DEF Typed
    <2>7. OwedOne(n)'
      BY <2>3, <2>4 DEF OwedOne, ToCome
    <2>8. ASSUME NEW c \in DOMAIN ops PROVE OwedOne(c)'
      <3>1. c # n /\ c # 0
        BY <2>1, Known
      <3>2. ToCome(c)' <=> ToCome(c)
        BY <2>4, <2>5, <3>1 DEF ToCome
      <3> QED BY <2>5, <3>2, OwedSame DEF Owed
    <2> QED BY <2>6, <2>7, <2>8 DEF Owed
  <1>3. ASSUME NEW t \in Threads, Ended(t) PROVE Owed'
    <2>1. PICK n : n = call[t].op
      OBVIOUS
    <2>2. call'[t].op = 0 /\ (\A u \in Threads : u # t => call'[u] = call[u]) /\ pending' = pending /\ reader' = reader
      BY <1>3, SameOps DEF Ended, Beside
    <2>3. n \in DOMAIN ops /\ n # 0
      BY <1>3, <2>1, Known DEF Ended, Sending
    <2>4. PICK x, o, p : Worked(t, x, o) /\ p = Finished(o) /\ OpsTo(n, p)
      BY <1>3, <2>1 DEF Ended
    <2>5. p.done = TRUE
      BY <2>4, FinishedIs DEF Worked
    <2>6. OwedOne(n)'
      <3>1. ~ToCome(n)'
        BY <2>1, <2>2, <2>3 DEF ToCome, OnePlace
      <3> QED BY <2>4, <2>5, <3>1 DEF OwedOne, OpsTo
    <2>7. ASSUME NEW c \in DOMAIN ops, c # n PROVE OwedOne(c)'
      <3>1. c # 0
        BY Known
      <3>2. ToCome(c)' <=> ToCome(c)
        BY <2>1, <2>2, <2>7, <3>1 DEF ToCome
      <3>3. ops'[c] = ops[c]
        BY <2>4, <2>7 DEF OpsTo
      <3> QED BY <3>2, <3>3, OwedSame DEF Owed
    <2> QED BY <2>4, <2>6, <2>7 DEF Owed, OpsTo
  <1>4. ASSUME NEW t \in Threads, Dispatched(t) PROVE Owed'
    <2>1. pending' = pending /\ reader' = reader /\ \A u \in Threads : call'[u].op = call[u].op
      BY <1>4, SameOps DEF Dispatched, Beside
    <2>2. PICK x, o : Worked(t, x, o) /\ OpsTo(call[t].op, o)
      BY <1>4 DEF Dispatched
    <2>3. ASSUME NEW c \in DOMAIN ops PROVE OwedOne(c)'
      <3>1. ops'[c].done = ops[c].done /\ ops'[c].lost = ops[c].lost
        BY <2>2 DEF Worked, OpsTo, SameOutcome
      <3> QED BY <2>1, <3>1, SamePlace, OwedSame DEF Owed
    <2> QED BY <2>2, <2>3 DEF Owed, OpsTo
  <1>5. ASSUME NEW t \in Threads, Dropped(t) PROVE Owed'
    <2>1. PICK n : n = call[t].op
      OBVIOUS
    <2>2. call'[t].op = 0 /\ (\A u \in Threads : u # t => call'[u] = call[u]) /\ pending' = pending /\ reader' = reader
      BY <1>5, SameOps DEF Dropped, Beside
    <2>3. PICK p : OpsTo(n, p) /\ p.lost # "no" /\ p.done = ops[n].done
      BY <1>5, <2>1 DEF Dropped, Forgets
    <2>4. ASSUME NEW c \in DOMAIN ops PROVE OwedOne(c)'
      <3>1. c # 0
        BY Known
      <3>2. ToCome(c)' => ToCome(c)
        BY <2>2, <3>1 DEF ToCome
      <3>3. CASE c = n
        BY <2>3, <3>2, <3>3, OwedSame DEF Owed, OpsTo
      <3>4. CASE c # n
        <4>1. ToCome(c) => ToCome(c)'
          BY <2>1, <2>2, <3>4 DEF ToCome
        <4>2. ops'[c] = ops[c]
          BY <2>3, <3>4 DEF OpsTo
        <4> QED BY <3>2, <4>1, <4>2, OwedSame DEF Owed
      <3> QED BY <3>3, <3>4
    <2> QED BY <2>3, <2>4 DEF Owed, OpsTo
  <1>6. ASSUME NEW t \in Threads, Submitted(t) PROVE Owed'
    <2>1. pending' = pending /\ reader' = reader /\ ops' = ops /\ \A u \in Threads : call'[u].op = call[u].op
      BY <1>6, SameOps DEF Submitted
    <2>2. ASSUME NEW c \in DOMAIN ops PROVE OwedOne(c)'
      BY <2>1, SamePlace, OwedSame DEF Owed
    <2> QED BY <2>1, <2>2 DEF Owed
  <1>7. ASSUME NEW t \in Threads, Registered(t) PROVE Owed'
    <2>1. PICK n : n = call[t].op
      OBVIOUS
    <2>2. call'[t].op = 0 /\ (\A u \in Threads : u # t => call'[u] = call[u]) /\ reader' = reader
      BY <1>7, SameOps DEF Registered
    <2>3. \/ \E p : OpsTo(n, p) /\ p.lost # "no" /\ p.done = ops[n].done
          \/ ops' = ops /\ \E e : Entered(t, e)
      BY <1>7, <2>1 DEF Registered, Entered, Forgets
    <2>4. DOMAIN ops' = DOMAIN ops /\ \A c \in DOMAIN ops :
            ops'[c].done = ops[c].done /\ (ops'[c].lost = ops[c].lost \/ (c = n /\ ops'[c].lost # "no"))
      BY <2>3 DEF OpsTo
    <2>5. \A e \in pending' : e \in pending \/ e.op = n
      BY <1>7, <2>1 DEF Registered, Entered
    <2>6. pending \subseteq pending'
      BY <1>7 DEF Registered, Entered
    <2>7. ASSUME NEW c \in DOMAIN ops PROVE OwedOne(c)'
      <3>1. c # 0
        BY Known
      <3>2. ToCome(c)' => ToCome(c)
        BY <2>1, <2>2, <2>5, <3>1 DEF ToCome
      <3>3. CASE ops'[c].lost # "no"
        BY <2>4, <3>2, <3>3, OwedSame DEF Owed
      <3>4. CASE ops'[c].lost = "no"
        <4>1. ops'[c].lost = ops[c].lost
          BY <2>4, <3>4
        <4>2. ToCome(c) => ToCome(c)'
          <5>1. CASE c # n
            BY <2>1, <2>2, <2>6, <5>1 DEF ToCome
          <5>2. CASE c = n
            <6>1. ops' = ops /\ \E e : Entered(t, e)
              BY <2>3, <3>4, <5>2 DEF OpsTo
            <6>2. \E e \in pending' : e.op = n
              BY <2>1, <6>1 DEF Entered
            <6> QED BY <5>2, <6>2 DEF ToCome
          <5> QED BY <5>1, <5>2
        <4> QED BY <2>4, <3>2, <4>1, <4>2, OwedSame DEF Owed
      <3> QED BY <3>3, <3>4
    <2> QED BY <2>4, <2>7 DEF Owed
  <1>8. ASSUME NEW p \in inFlight, Answered(p) PROVE Owed'
    <2>1. call' = call /\ reader = 0
      BY <1>8 DEF Answered
    <2>2. ASSUME NEW e \in pending, Taken(e) PROVE Owed'
      <3>1. pending' = pending \ {e} /\ reader' = e.op
        BY <2>2 DEF Taken
      <3>2. PICK q : OpsTo(e.op, q) /\ q.done = ops[e.op].done /\ q.lost = ops[e.op].lost
        BY <2>2 DEF Taken
      <3>3. ASSUME NEW c \in DOMAIN ops PROVE OwedOne(c)'
        <4>1. c # 0
          BY Known
        <4>2. ToCome(c)' <=> ToCome(c)
          BY <2>1, <3>1, <4>1 DEF ToCome
        <4>3. ops'[c].done = ops[c].done /\ ops'[c].lost = ops[c].lost
          BY <3>2 DEF OpsTo
        <4> QED BY <4>2, <4>3, OwedSame DEF Owed
      <3> QED BY <3>2, <3>3 DEF Owed, OpsTo
    <2>3. CASE UNCHANGED <<pending, reader, ops>>
      <3>1. ASSUME NEW c \in DOMAIN ops PROVE OwedOne(c)'
        BY <2>1, <2>3, SamePlace, OwedSame DEF Owed
      <3> QED BY <2>3, <3>1 DEF Owed
    <2> QED BY <1>8, <2>2, <2>3 DEF Answered
  <1>9. CASE Completed
    <2>1. PICK n : n = reader
      OBVIOUS
    <2>2. n # 0 /\ reader' = 0 /\ call' = call /\ pending' = pending
      BY <1>9, <2>1 DEF Completed
    <2>3. PICK p : OpsTo(n, p) /\ p.done = TRUE
      BY <1>9, <2>1 DEF Completed, Filled
    <2>4. OwedOne(n)'
      <3>1. ~ToCome(n)'
        BY <2>1, <2>2 DEF ToCome, OnePlace
      <3> QED BY <2>3, <3>1 DEF OwedOne, OpsTo
    <2>5. ASSUME NEW c \in DOMAIN ops, c # n PROVE OwedOne(c)'
      <3>1. c # 0
        BY Known
      <3>2. ToCome(c)' <=> ToCome(c)
        BY <2>1, <2>2, <2>5, <3>1 DEF ToCome
      <3>3. ops'[c] = ops[c]
        BY <2>3, <2>5 DEF OpsTo
      <3> QED BY <3>2, <3>3, OwedSame DEF Owed
    <2> QED BY <2>3, <2>4, <2>5 DEF Owed, OpsTo
  <1>10. CASE Failed
    <2>1. call' = call /\ pending' = {} /\ reader' = reader /\ DOMAIN ops' = DOMAIN ops
          /\ \A c \in DOMAIN ops : FailsOp(c, ops'[c])
      BY <1>10 DEF Failed
    <2>2. ASSUME NEW c \in DOMAIN ops PROVE OwedOne(c)'
      <3>1. CASE \E e \in pending : e.op = c
        <4>1. ops'[c].done = TRUE
          BY <2>1, <3>1 DEF FailsOp
        <4>2. ~ToCome(c)'
          BY <2>1, <3>1 DEF ToCome, OnePlace
        <4> QED BY <4>1, <4>2 DEF OwedOne
      <3>2. CASE ~ \E e \in pending : e.op = c
        <4>1. ops'[c] = ops[c]
          BY <2>1, <3>2 DEF FailsOp
        <4>2. ToCome(c)' <=> ToCome(c)
          BY <2>1, <3>2 DEF ToCome
        <4> QED BY <4>1, <4>2, OwedSame DEF Owed
      <3> QED BY <3>1, <3>2
    <2> QED BY <2>1, <2>2 DEF Owed
  <1>11. CASE SessionOnly
    <2>1. UNCHANGED <<ops, call, pending, reader>>
      BY <1>11, SessionAlone
    <2>2. ASSUME NEW c \in DOMAIN ops PROVE OwedOne(c)'
      BY <2>1, SamePlace, OwedSame DEF Owed
    <2> QED BY <2>1, <2>2 DEF Owed
  <1> QED BY <1>1, <1>2, <1>3, <1>4, <1>5, <1>6, <1>7, <1>8, <1>9, <1>10, <1>11 DEF Kind

\* A thread that is registering in a step was so before it, unless it is submitting.
LEMMA SameRegister ==
    ASSUME Typed, Kind, \A t \in Threads : ~Submitted(t), NEW u \in Threads, call'[u].pc = "register"
    PROVE  call'[u] = call[u]
  <1>1. CASE Quiet
    BY <1>1 DEF Quiet, CallsMild, Resting
  <1>2. ASSUME NEW t \in Threads, NEW z, CallTo(t, z), z.pc # "register" PROVE call'[u] = call[u]
    BY <1>2 DEF CallTo
  <1>3. ASSUME NEW t \in Threads, Begins(t) PROVE call'[u] = call[u]
    <2>1. PICK r \in DOMAIN objs, y \in Objs : \E p, z : BegunAs(t, r, y, p, z)
      BY <1>3 DEF Begins
    <2>2. PICK p, z : BegunAs(t, r, y, p, z)
      BY <2>1
    <2> QED BY <1>2, <2>2 DEF BegunAs
  <1>4. ASSUME NEW t \in Threads, Dispatched(t) PROVE call'[u] = call[u]
    BY <1>2, <1>4 DEF Dispatched
  <1>5. ASSUME NEW t \in Threads, Ended(t) \/ Dropped(t) PROVE call'[u] = call[u]
    <2>1. CallTo(t, Idle)
      BY <1>5 DEF Ended, Dropped
    <2>2. Idle.pc # "register"
      BY IdleIs
    <2> QED BY <1>2, <2>1, <2>2
  <1>6. ASSUME NEW t \in Threads, Registered(t) PROVE call'[u] = call[u]
    BY <1>2, <1>6 DEF Registered, Resting
  <1>7. ASSUME NEW p \in inFlight, Answered(p) PROVE call'[u] = call[u]
    BY <1>7 DEF Answered
  <1>8. CASE Completed \/ Failed \/ SessionOnly
    BY <1>8, SessionAlone DEF Completed, Failed
  <1> QED BY <1>1, <1>3, <1>4, <1>5, <1>6, <1>7, <1>8 DEF Kind

\* And the one that has registered is not any more.
LEMMA RegisteredRests ==
    ASSUME NEW t \in Threads, Registered(t)
    PROVE  call'[t].pc # "register" /\ call[t].pc = "register"
  <1>1. PICK z : CallTo(t, z) /\ Resting(z)
    BY DEF Registered
  <1> QED BY <1>1 DEF CallTo, Resting, Registered

\* A packet number is of one operation of a session.
LEMMA NumberedStep ==
    ASSUME Typed, Kind, Numbered
    PROVE  Numbered'
  <1>q. ASSUME \A t \in Threads : ~Submitted(t), pending' \subseteq pending
        PROVE  Numbered'
    <2>1. \A u \in Threads : call'[u].pc = "register" => call'[u] = call[u]
      BY <1>q, SameRegister
    <2> QED BY <1>q, <2>1 DEF Numbered
  <1>1. ASSUME NEW t \in Threads, Submitted(t) PROVE Numbered'
    <2>1. PICK s : s = call[t].session
      OBVIOUS
    <2>2. s \in Sessions
      <3>1. Stage(call[t]) /\ call[t].pc = "submit"
        BY <1>1 DEF Typed, Submitted
      <3>2. last \in 0 .. MaxSessions /\ s \in 1 .. last
        BY <2>1, <3>1 DEF Stage, Typed, TypeOK, SessionTypeOK
      <3> QED BY <3>2, SessionAssumption DEF Sessions
    <2>3. counter[s] \in Nat
      BY <2>2 DEF Typed, TypeOK, SessionTypeOK
    <2>4. PICK z : CallTo(t, z) /\ z.session = s /\ z.pkt = counter[s] + 1
      BY <1>1, <2>1 DEF Submitted, NextPacket
    <2>5. \A u \in Threads : call[u].pc = "register" /\ call[u].session = s => call[u].pkt # counter[s] + 1
      <3>1. \A u \in Threads : call[u].pc = "register" /\ call[u].session = s => call[u].pkt \in 1 .. counter[s]
        BY DEF Typed, Stage
      <3> QED BY <2>3, <3>1
    <2>6. \A e \in pending : e.session = s => e.pkt # counter[s] + 1
      <3>1. \A e \in pending : e.session = s => e.pkt \in 1 .. counter[s]
        BY DEF Typed, Sessioned
      <3> QED BY <2>3, <3>1
    <2>7. /\ call'[t].session = s /\ call'[t].pkt = counter[s] + 1
          /\ pending' = pending /\ \A u \in Threads : u # t => call'[u] = call[u]
      BY <1>1, <2>4 DEF Submitted, CallTo
    <2>8. ASSUME NEW u \in Threads, NEW v \in Threads, call'[u].pc = "register", call'[v].pc = "register",
                 call'[u].session = call'[v].session, call'[u].pkt = call'[v].pkt
          PROVE  u = v
      BY <2>5, <2>7, <2>8 DEF Numbered
    <2>9. ASSUME NEW u \in Threads, NEW e \in pending', call'[u].pc = "register", call'[u].session = e.session
          PROVE  call'[u].pkt # e.pkt
      BY <2>6, <2>7, <2>9 DEF Numbered
    <2> QED BY <2>8, <2>9 DEF Numbered
  <1>2. ASSUME \A t \in Threads : ~Submitted(t), NEW t \in Threads, Registered(t) PROVE Numbered'
    <2>1. \A u \in Threads : call'[u].pc = "register" => u # t /\ call'[u] = call[u]
      BY <1>2, SameRegister, RegisteredRests
    <2>2. \A e \in pending' : e \in pending \/ (e.pkt = call[t].pkt /\ e.session = call[t].session)
      BY <1>2 DEF Registered, Entered
    <2>3. call[t].pc = "register"
      BY <1>2, RegisteredRests
    <2> QED BY <2>1, <2>2, <2>3 DEF Numbered
  <1>3. ASSUME ~ \E t \in Threads : Registered(t) PROVE pending' \subseteq pending
    <2>1. ASSUME NEW t \in Threads, Begins(t) \/ Ended(t) \/ Dispatched(t) \/ Dropped(t) \/ Submitted(t)
          PROVE  pending' = pending
      BY <2>1 DEF Begins, Ended, Dispatched, Dropped, Submitted, Beside
    <2>2. ASSUME NEW p \in inFlight, Answered(p) PROVE pending' \subseteq pending
      BY <2>2 DEF Answered, Taken
    <2>3. ASSUME Quiet \/ Completed \/ Failed \/ SessionOnly PROVE pending' \subseteq pending
      BY <2>3, SessionAlone DEF Quiet, Completed, Failed
    <2> QED BY <1>3, <2>1, <2>2, <2>3 DEF Kind
  <1> QED BY <1>q, <1>1, <1>2, <1>3

\* What was forgotten stays so.
LEMMA LostStays ==
    ASSUME Typed, Kind, NEW c \in DOMAIN ops, ops'[c].lost = "no"
    PROVE  ops[c].lost = "no"
  <1>1. CASE Quiet
    BY <1>1 DEF Quiet, OpsMild, MildOp
  <1>2. ASSUME NEW t \in Threads, Begins(t) PROVE ops[c].lost = "no"
    BY <1>2 DEF Begins
  <1>3. ASSUME NEW n \in DOMAIN ops, NEW p, OpsTo(n, p), p.lost = ops[n].lost \/ p.lost # "no" PROVE ops[c].lost = "no"
    <2>1. CASE c = n
      BY <1>3, <2>1 DEF OpsTo
    <2>2. CASE c # n
      BY <1>3, <2>2 DEF OpsTo
    <2> QED BY <2>1, <2>2
  <1>4. ASSUME NEW t \in Threads, Ended(t) PROVE ops[c].lost = "no"
    <2>1. PICK x, o, p : Worked(t, x, o) /\ p = Finished(o) /\ OpsTo(call[t].op, p)
      BY <1>4 DEF Ended
    <2>2. p.lost = ops[call[t].op].lost
      BY <2>1, FinishedIs DEF Worked, SameOutcome
    <2>3. call[t].op \in DOMAIN ops
      BY <1>4, Senders DEF Ended, Sending
    <2> QED BY <1>3, <2>1, <2>2, <2>3
  <1>5. ASSUME NEW t \in Threads, Dispatched(t) PROVE ops[c].lost = "no"
    <2>1. PICK x, o : Worked(t, x, o) /\ OpsTo(call[t].op, o)
      BY <1>5 DEF Dispatched
    <2>2. o.lost = ops[call[t].op].lost
      BY <2>1 DEF Worked, SameOutcome
    <2>3. call[t].op \in DOMAIN ops
      BY <1>5, Senders DEF Dispatched, Sending
    <2> QED BY <1>3, <2>1, <2>2, <2>3
  <1>6. ASSUME NEW n \in DOMAIN ops, Forgets(n) PROVE ops[c].lost = "no"
    BY <1>3, <1>6 DEF Forgets
  <1>7. ASSUME NEW t \in Threads, Dropped(t) PROVE ops[c].lost = "no"
    <2>1. call[t].op \in DOMAIN ops /\ Forgets(call[t].op)
      BY <1>7, Senders DEF Dropped, Sending
    <2> QED BY <1>6, <2>1
  <1>8. ASSUME NEW t \in Threads, Registered(t) PROVE ops[c].lost = "no"
    <2>1. call[t].op \in DOMAIN ops /\ (Forgets(call[t].op) \/ ops' = ops)
      BY <1>8, Senders DEF Registered, Entered, Sending
    <2> QED BY <1>6, <2>1
  <1>9. ASSUME NEW p \in inFlight, Answered(p) PROVE ops[c].lost = "no"
    <2>1. ASSUME NEW e \in pending, Taken(e) PROVE ops[c].lost = "no"
      <3>1. e.op \in DOMAIN ops
        BY Known
      <3>2. PICK q : OpsTo(e.op, q) /\ q.lost = ops[e.op].lost
        BY <2>1 DEF Taken
      <3> QED BY <1>3, <3>1, <3>2
    <2> QED BY <1>9, <2>1 DEF Answered
  <1>10. CASE Completed
    <2>1. PICK p : OpsTo(reader, p) /\ p.lost = ops[reader].lost
      BY <1>10 DEF Completed, Filled
    <2>2. reader \in DOMAIN ops
      BY <1>10, Read DEF Completed
    <2> QED BY <1>3, <2>1, <2>2
  <1>11. CASE Failed
    BY <1>11 DEF Failed, FailsOp
  <1>12. ASSUME NEW t \in Threads, Submitted(t) PROVE ops[c].lost = "no"
    BY <1>12 DEF Submitted
  <1>13. CASE SessionOnly
    BY <1>13, SessionAlone
  <1> QED BY <1>1, <1>2, <1>4, <1>5, <1>7, <1>8, <1>9, <1>10, <1>11, <1>12, <1>13 DEF Kind

\* Every step keeps the entries expected.
LEMMA ExpectableStep ==
    ASSUME Typed, Kind, Expectable, Underway
    PROVE  Expectable'
  <1> SUFFICES ASSUME NEW e \in pending', ops'[e.op].lost = "no"
               PROVE  e.session = last' /\ StillExpected(e.pkt)'
    BY DEF Expectable
  <1>o. ASSUME e \in pending PROVE e.op \in DOMAIN ops /\ ops[e.op].lost = "no" /\ e.session = last /\ StillExpected(e.pkt)
    <2>1. e.op \in DOMAIN ops
      BY <1>o, Known
    <2>2. PICK c : c = e.op
      OBVIOUS
    <2>3. ops[c].lost = "no"
      BY <2>1, <2>2, LostStays
    <2> QED BY <1>o, <2>1, <2>2, <2>3 DEF Expectable
  <1>q. ASSUME UNCHANGED sessionVars, e \in pending PROVE e.session = last' /\ StillExpected(e.pkt)'
    BY <1>q, <1>o DEF sessionVars, StillExpected
  <1>1. CASE Quiet \/ Completed
    BY <1>1, <1>q DEF Quiet, Completed
  <1>2. ASSUME NEW t \in Threads, Begins(t) \/ Ended(t) \/ Dispatched(t) \/ Dropped(t)
        PROVE e.session = last' /\ StillExpected(e.pkt)'
    BY <1>2, <1>q DEF Begins, Ended, Dispatched, Dropped, Beside
  <1>3. ASSUME NEW t \in Threads, Submitted(t) PROVE e.session = last' /\ StillExpected(e.pkt)'
    <2>1. e \in pending /\ UNCHANGED <<session, last, up, task>> /\ inFlight \subseteq inFlight'
      BY <1>3 DEF Submitted, PacketSubmitted
    <2> QED BY <1>o, <2>1 DEF StillExpected
  <1>4. ASSUME NEW t \in Threads, Registered(t) PROVE e.session = last' /\ StillExpected(e.pkt)'
    <2>1. UNCHANGED sessionVars
      BY <1>4 DEF Registered
    <2>2. CASE e \notin pending
      <3>1. Entered(t, e)
        BY <1>4, <2>2 DEF Registered, Entered
      <3>2. ~Forgets(call[t].op)
        BY <3>1 DEF Entered, Forgets, OpsTo
      <3>3. e.session = call[t].session /\ e.pkt = call[t].pkt /\ ~Over(e.session) /\ e.pkt \notin missed
        BY <3>1, <3>2 DEF Entered
      <3>4. e.session = last /\ (session = last \/ task # "none")
        BY <3>3 DEF Over
      <3>5. up => e.pkt \in inFlight
        BY <1>4, <3>3, <3>4 DEF Registered, Underway
      <3>6. StillExpected(e.pkt)
        BY <3>4, <3>5 DEF StillExpected
      <3> QED BY <2>1, <3>4, <3>6 DEF sessionVars, StillExpected
    <2> QED BY <1>q, <2>1, <2>2
  <1>5. ASSUME NEW p \in inFlight, Answered(p) PROVE e.session = last' /\ StillExpected(e.pkt)'
    <2>1. UNCHANGED <<session, last, up, task>> /\ inFlight' = inFlight \ {p}
      BY <1>5 DEF Answered
    <2>2. e \in pending /\ e.pkt # p
      <3>1. CASE UNCHANGED <<pending, reader, ops>> /\ ~ \E f \in pending : f.pkt = p
        BY <3>1
      <3>2. ASSUME NEW f \in pending, f.pkt = p, Taken(f) PROVE e \in pending /\ e.pkt # p
        <4>1. e \in pending /\ e # f
          BY <3>2 DEF Taken
        <4>2. e.pkt # p
          BY <3>2, <4>1 DEF Typed, TypeOK
        <4> QED BY <4>1, <4>2
      <3> QED BY <1>5, <3>1, <3>2 DEF Answered
    <2> QED BY <1>o, <2>1, <2>2 DEF StillExpected
  <1>6. CASE Failed
    BY <1>6 DEF Failed
  <1>7. CASE SessionOnly
    <2>1. e \in pending
      BY <1>7, SessionAlone
    <2>2. e.session = last /\ StillExpected(e.pkt) /\ e.session \in 1 .. last
      BY <1>o, <2>1 DEF Typed, Sessioned
    <2>3. CASE SignIn
      <3>1. session = 0 /\ task = "none"
        BY <2>3 DEF SignIn, ConnectUser
      <3>2. inFlight = {}
        BY <3>1 DEF Typed, Sessioned, SessionEnds
      <3>3. last = 0
        BY <2>2, <3>1, <3>2 DEF StillExpected
      <3> QED BY <2>2, <3>3
    <2>4. CASE LoseConnection
      <3>1. session # 0 /\ up' = FALSE /\ UNCHANGED <<session, last>>
        BY <2>4 DEF LoseConnection, ConnectionLost
      <3>2. session = last
        BY <3>1 DEF Typed, TypeOK, SessionTypeOK
      <3> QED BY <2>2, <3>1, <3>2 DEF StillExpected
    <2>5. CASE Disconnect
      <3>1. task' # "none" /\ last' = last
        BY <2>5 DEF Disconnect, ClientRemoved
      <3> QED BY <2>2, <3>1 DEF StillExpected
    <2>6. CASE StopClient
      <3>1. task' # "none" /\ last' = last
        BY <2>6 DEF StopClient, ClientStopped
      <3> QED BY <2>2, <3>1 DEF StillExpected
    <2> QED BY <1>7, <2>3, <2>4, <2>5, <2>6 DEF SessionOnly
  <1> QED BY <1>1, <1>2, <1>3, <1>4, <1>5, <1>6, <1>7 DEF Kind

\* Every step keeps those on their way.
LEMMA UnderwayStep ==
    ASSUME Typed, Kind, Numbered, Underway
    PROVE  Underway'
  <1> SUFFICES ASSUME NEW u \in Threads, call'[u].pc = "register", call'[u].session = last', up'
               PROVE  call'[u].pkt \in inFlight' \cup missed'
    BY DEF Underway
  <1>1. ASSUME NEW t \in Threads, Submitted(t) PROVE call'[u].pkt \in inFlight' \cup missed'
    <2>1. PICK z : CallTo(t, z) /\ z.session = call[t].session /\ z.pkt = NextPacket(call[t].session)
      BY <1>1 DEF Submitted
    <2>2. UNCHANGED <<last, up, missed>> /\ inFlight \subseteq inFlight'
      BY <1>1 DEF Submitted, PacketSubmitted
    <2>3. CASE u = t
      <3>1. call'[u] = z
        BY <2>1, <2>3 DEF CallTo
      <3> QED BY <1>1, <2>1, <2>2, <3>1 DEF Submitted, PacketSubmitted
    <2>4. CASE u # t
      <3>1. call'[u] = call[u]
        BY <2>1, <2>4 DEF CallTo
      <3> QED BY <2>2, <3>1 DEF Underway
    <2> QED BY <2>3, <2>4
  <1>2. ASSUME \A t \in Threads : ~Submitted(t) PROVE call'[u].pkt \in inFlight' \cup missed'
    <2>1. call'[u] = call[u]
      BY <1>2, SameRegister
    <2>q. ASSUME UNCHANGED <<last, up>>, inFlight \cup missed \subseteq inFlight' \cup missed'
          PROVE  call'[u].pkt \in inFlight' \cup missed'
      BY <2>1, <2>q DEF Underway
    <2>2. CASE Quiet \/ Completed
      BY <2>2, <2>q DEF Quiet, Completed, sessionVars
    <2>3. ASSUME NEW t \in Threads, Begins(t) \/ Ended(t) \/ Dispatched(t) \/ Dropped(t) \/ Registered(t)
          PROVE  call'[u].pkt \in inFlight' \cup missed'
      BY <2>3, <2>q DEF Begins, Ended, Dispatched, Dropped, Registered, Beside, sessionVars
    <2>4. ASSUME NEW p \in inFlight, Answered(p) PROVE call'[u].pkt \in inFlight' \cup missed'
      <3>1. UNCHANGED <<last, up>> /\ inFlight' = inFlight \ {p}
        BY <2>4 DEF Answered
      <3>2. CASE missed' = missed \cup {p}
        BY <2>q, <3>1, <3>2
      <3>3. ASSUME missed' = missed, NEW e \in pending, e.pkt = p, e.session = last
            PROVE  call'[u].pkt \in inFlight' \cup missed'
        <4>1. call[u].pc = "register" /\ call[u].session = last /\ up
          BY <2>1, <3>1
        <4>2. call[u].pkt # p
          BY <3>3, <4>1 DEF Numbered
        <4>3. call[u].pkt \in inFlight \cup missed
          BY <4>1 DEF Underway
        <4> QED BY <2>1, <3>1, <3>3, <4>2, <4>3
      <3> QED BY <2>4, <3>2, <3>3 DEF Answered
    <2>5. CASE Failed
      BY <2>5, <2>q DEF Failed, PendingFailed
    <2>6. CASE SignIn
      <3>1. last' = last + 1
        BY <2>6 DEF SignIn, ConnectUser
      <3>2. last \in Nat
        BY SessionAssumption DEF Typed, TypeOK, SessionTypeOK
      <3>3. call[u].session \in 1 .. last
        BY <2>1 DEF Typed, Stage
      <3> QED BY <2>1, <3>1, <3>2, <3>3
    <2>7. CASE LoseConnection \/ StopClient
      BY <2>7 DEF LoseConnection, ConnectionLost, StopClient, ClientStopped
    <2>8. CASE Disconnect
      <3>1. UNCHANGED <<last, up, inFlight, missed>>
        BY <2>8 DEF Disconnect, ClientRemoved
      <3> QED BY <2>q, <3>1
    <2> QED BY <1>2, <2>2, <2>3, <2>4, <2>5, <2>6, <2>7, <2>8 DEF Kind, SessionOnly
  <1> QED BY <1>1, <1>2

-----------------------------------------------------------------------------
(* The outcome of an operation.                                            *)

\* What a step makes of results, if it begins no operation: a request gets its first result by an
\* abort or with the end of an operation, and the game is told an outcome only if there is one.
ObjSettles(r) ==
    /\ SameTurn(objs'[r], objs[r])
    /\ \/ SameResult(objs'[r], objs[r])
       \/ objs[r].result = "unset" /\ objs'[r].result = "aborted" /\ objs'[r].of = 0
       \/ /\ objs[r].result = "unset" /\ objs'[r].result # "unset"
          /\ \E d \in DOMAIN ops : /\ ops[d].req = r /\ ops[d].done = FALSE /\ ops'[d].done = TRUE
                                   /\ objs'[r].of = d
OpSettles(c) ==
    /\ ops'[c].req = ops[c].req
    /\ \/ ops'[c].done = ops[c].done
       \/ ops'[c].done = TRUE /\ objs'[ops[c].req].result # "unset"
    /\ ops'[c].told = TRUE =>
         ops[c].told = TRUE \/ (ops'[c].done = FALSE /\ objs'[ops[c].req].result # "unset")
    /\ ops'[c].spoilt = TRUE => ops[c].spoilt = TRUE \/ ops[c].told = TRUE
Settles ==
    /\ DOMAIN ops' = DOMAIN ops /\ \A c \in DOMAIN ops : OpSettles(c)
    /\ DOMAIN objs \subseteq DOMAIN objs' /\ \A r \in DOMAIN objs : ObjSettles(r)
    /\ \A r \in DOMAIN objs' \ DOMAIN objs : Blank(objs'[r])

\* Nothing happens to any outcome.
LEMMA SettlesNot ==
    ASSUME objs' = objs, ops' = ops
    PROVE  Settles
  BY DEF Settles, OpSettles, ObjSettles, SameTurn, SameResult

\* An operation that is not done goes on.
LEMMA SettlesOn ==
    ASSUME Typed, NEW c \in DOMAIN ops, NEW p, OpsTo(c, p),
           p.req = ops[c].req, p.done = ops[c].done, p.told = ops[c].told, p.spoilt = ops[c].spoilt,
           NEW x, ObjsTo(ops[c].req, x),
           SameTurn(x, objs[ops[c].req]), SameResult(x, objs[ops[c].req])
    PROVE  Settles
  <1>1. ASSUME NEW d \in DOMAIN ops PROVE OpSettles(d)
    <2>1. CASE d = c
      BY <2>1 DEF OpsTo, OpSettles
    <2>2. CASE d # c
      BY <2>2 DEF OpsTo, OpSettles
    <2> QED BY <2>1, <2>2
  <1>2. ASSUME NEW r \in DOMAIN objs PROVE ObjSettles(r)
    <2>1. CASE r = ops[c].req
      BY <2>1 DEF ObjsTo, ObjSettles
    <2>2. CASE r # ops[c].req
      BY <2>2 DEF ObjsTo, ObjSettles, SameTurn, SameResult
    <2> QED BY <2>1, <2>2
  <1> QED BY <1>1, <1>2 DEF Settles, OpsTo, ObjsTo

\* An operation ends, and its request has a result.
LEMMA SettlesEnd ==
    ASSUME Typed, NEW c \in DOMAIN ops, ops[c].done = FALSE,
           NEW p, OpsTo(c, p), p.req = ops[c].req, p.done = TRUE, p.told = FALSE,
           p.spoilt = TRUE => ops[c].spoilt = TRUE \/ ops[c].told = TRUE,
           NEW y, ObjsTo(ops[c].req, y), SameTurn(y, objs[ops[c].req]), y.result # "unset",
           objs[ops[c].req].result # "unset" => SameResult(y, objs[ops[c].req]),
           objs[ops[c].req].result = "unset" => y.of = c
    PROVE  Settles
  <1>0. ops'[c] = p /\ objs'[ops[c].req] = y
    BY DEF OpsTo, ObjsTo
  <1>1. ASSUME NEW d \in DOMAIN ops PROVE OpSettles(d)
    <2>1. CASE d = c
      BY <1>0, <2>1 DEF OpSettles
    <2>2. CASE d # c
      BY <2>2 DEF OpsTo, OpSettles
    <2> QED BY <2>1, <2>2
  <1>2. ASSUME NEW r \in DOMAIN objs PROVE ObjSettles(r)
    <2>1. CASE r = ops[c].req
      BY <1>0, <2>1 DEF ObjSettles
    <2>2. CASE r # ops[c].req
      BY <2>2 DEF ObjsTo, ObjSettles, SameTurn, SameResult
    <2> QED BY <2>1, <2>2
  <1> QED BY <1>1, <1>2 DEF Settles, OpsTo, ObjsTo

\* That is all a step does to results, if it begins no operation.
LEMMA SettleStep ==
    ASSUME Typed, Kind, Owed
    PROVE  (\E t \in Threads : Begins(t)) \/ Settles
  <1>o. \A c \in DOMAIN ops : ToCome(c) => ops[c].done = FALSE
    BY DEF Owed, OwedOne
  <1>1. ASSUME Quiet PROVE Settles
    <2>1. ASSUME NEW c \in DOMAIN ops PROVE OpSettles(c)
      BY <1>1 DEF Quiet, OpsMild, MildOp, SameOrigin, OpSettles
    <2>2. ASSUME NEW r \in DOMAIN objs PROVE ObjSettles(r)
      BY <1>1 DEF Quiet, ObjsMild, MildObj, ObjSettles
    <2> QED BY <1>1, <2>1, <2>2 DEF Quiet, ObjsMild, OpsMild, Settles
  <1>2. ASSUME NEW t \in Threads, Ended(t) PROVE Settles
    <2>0. /\ call[t].op \in DOMAIN ops /\ call[t].req = ops[call[t].op].req /\ ops[call[t].op].done = FALSE
          /\ call[t].op \in 1 .. MaxOps
      BY <1>2, <1>o, Senders DEF Ended, Sending, ToCome
    <2>1. PICK x, o, y, p :
              /\ Worked(t, x, o) /\ ObjsTo(call[t].req, y) /\ OpsTo(call[t].op, p) /\ p = Finished(o)
              /\ \E what \in {"ok", "failed", "not sent"} : y = SetResult(x, what, call[t].op)
      BY <1>2 DEF Ended
    <2>2. PICK c \in 1 .. MaxOps : c = call[t].op
      BY <2>0
    <2>3. PICK what \in Results : what # "unset" /\ y = SetResult(x, what, c)
      BY <2>1, <2>2 DEF Results
    <2>4. Worked(t, x, o)
      BY <2>1
    <2>5. /\ SameTurn(y, x) /\ (x.result # "unset" => SameResult(y, x))
          /\ x.result = "unset" => y.result = what /\ y.of = c
      BY <2>3, <2>4, ResultKeeps
    <2>6. SameTurn(x, objs[call[t].req]) /\ SameResult(x, objs[call[t].req])
      BY <2>4 DEF Worked
    <2>7. /\ SameTurn(y, objs[call[t].req]) /\ y.result # "unset"
          /\ objs[call[t].req].result # "unset" => SameResult(y, objs[call[t].req])
          /\ objs[call[t].req].result = "unset" => y.of = c
      BY <2>3, <2>5, <2>6 DEF SameTurn, SameResult
    <2>8. p.req = ops[c].req /\ p.done = TRUE /\ p.told = FALSE /\ p.spoilt = ops[c].spoilt
      BY <2>1, <2>2, <2>4, FinishedIs DEF Worked, SameOrigin, SameOutcome
    <2> QED BY <2>0, <2>1, <2>2, <2>7, <2>8, SettlesEnd
  <1>3. ASSUME NEW t \in Threads, Dispatched(t) PROVE Settles
    <2>0. call[t].op \in DOMAIN ops /\ call[t].req = ops[call[t].op].req
      BY <1>3, Senders DEF Dispatched, Sending
    <2>1. PICK x, o : Worked(t, x, o) /\ ObjsTo(call[t].req, x) /\ OpsTo(call[t].op, o)
      BY <1>3 DEF Dispatched
    <2>2. /\ o.req = ops[call[t].op].req /\ o.done = ops[call[t].op].done
          /\ o.told = ops[call[t].op].told /\ o.spoilt = ops[call[t].op].spoilt
      BY <2>1 DEF Worked, SameOrigin, SameOutcome
    <2> QED BY <2>0, <2>1, <2>2, SettlesOn DEF Worked
  <1>f. ASSUME NEW c \in DOMAIN ops, NEW p, OpsTo(c, p), SameOrigin(p, ops[c]), objs' = objs,
               p.done = ops[c].done, p.told = ops[c].told, p.spoilt = ops[c].spoilt
        PROVE  Settles
    <2>1. ops[c].req \in DOMAIN objs /\ objs \in Seq(Objs)
      BY Kept DEF Typed
    <2>2. ObjsTo(ops[c].req, objs[ops[c].req])
      BY <1>f, <2>1 DEF ObjsTo
    <2>3. p.req = ops[c].req
      BY <1>f DEF SameOrigin
    <2> QED BY <1>f, <2>2, <2>3, SettlesOn DEF SameTurn, SameResult
  <1>g. ASSUME NEW c \in DOMAIN ops, Forgets(c) PROVE Settles
    <2>1. PICK p : OpsTo(c, p) /\ SameOrigin(p, ops[c]) /\ p.done = ops[c].done /\ p.told = ops[c].told
                     /\ p.spoilt = ops[c].spoilt
      BY <1>g DEF Forgets
    <2>2. objs' = objs
      BY <1>g DEF Forgets
    <2> QED BY <1>f, <2>1, <2>2
  <1>4. ASSUME NEW t \in Threads, Dropped(t) PROVE Settles
    <2>1. call[t].op \in DOMAIN ops /\ Forgets(call[t].op)
      BY <1>4, Senders DEF Dropped, Sending
    <2> QED BY <1>g, <2>1
  <1>5. ASSUME NEW t \in Threads, Registered(t) PROVE Settles
    <2>1. call[t].op \in DOMAIN ops /\ (Forgets(call[t].op) \/ UNCHANGED <<objs, ops>>)
      BY <1>5, Senders DEF Registered, Entered, Sending
    <2> QED BY <1>g, <2>1, SettlesNot
  <1>6. ASSUME NEW p \in inFlight, Answered(p) PROVE Settles
    <2>1. ASSUME NEW e \in pending, Taken(e), objs' = objs PROVE Settles
      <3>1. e.op \in DOMAIN ops
        BY Known
      <3>2. PICK q : /\ OpsTo(e.op, q) /\ SameOrigin(q, ops[e.op]) /\ q.done = ops[e.op].done
                     /\ q.told = ops[e.op].told /\ q.spoilt = ops[e.op].spoilt
        BY <2>1 DEF Taken
      <3>3. PICK c : c = e.op
        OBVIOUS
      <3> QED BY <1>f, <2>1, <3>1, <3>2, <3>3
    <2> QED BY <1>6, <2>1, SettlesNot DEF Answered
  <1>7. ASSUME Completed PROVE Settles
    <2>0. reader \in DOMAIN ops /\ ops[reader].done = FALSE
      BY <1>7, <1>o, Read DEF Completed, ToCome
    <2>1. PICK y \in Objs, p \in OpRecs :
              /\ ObjsTo(ops[reader].req, y) /\ OpsTo(reader, p)
              /\ Filled(objs[ops[reader].req], ops[reader], y, p)
      BY <1>7 DEF Completed
    <2>2. /\ SameTurn(y, objs[ops[reader].req])
          /\ objs[ops[reader].req].result # "unset" => SameResult(y, objs[ops[reader].req])
          /\ objs[ops[reader].req].result = "unset" => y.result \in {"ok", "failed"} /\ y.of = reader
          /\ p.req = ops[reader].req /\ p.done = TRUE /\ p.told = FALSE
          /\ p.spoilt = TRUE => ops[reader].told = TRUE
      BY <2>1 DEF Filled, SameOrigin
    <2>3. y.result # "unset"
      BY <2>2 DEF SameResult
    <2> QED BY <2>0, <2>1, <2>2, <2>3, SettlesEnd
  <1>8. ASSUME Failed PROVE Settles
    <2>1. /\ DOMAIN objs' = DOMAIN objs /\ \A r \in DOMAIN objs : FailsObj(r, objs'[r])
          /\ DOMAIN ops' = DOMAIN ops /\ \A c \in DOMAIN ops : FailsOp(c, ops'[c])
      BY <1>8 DEF Failed
    <2>2. ASSUME NEW c \in DOMAIN ops PROVE OpSettles(c)
      <3>1. CASE ops'[c] = ops[c]
        BY <3>1 DEF OpSettles
      <3>2. CASE ops'[c] # ops[c]
        <4>1. /\ \E e \in pending : e.op = c
              /\ ops'[c].done = TRUE /\ ops'[c].told = FALSE
              /\ ops'[c].spoilt = ops[c].spoilt /\ ops'[c].req = ops[c].req
          BY <2>1, <3>2 DEF FailsOp, SameOrigin
        <4>2. FailsObj(ops[c].req, objs'[ops[c].req])
          BY <2>1, Kept DEF Typed
        <4>3. objs'[ops[c].req].result # "unset"
          BY <4>1, <4>2 DEF FailsObj, SameResult
        <4> QED BY <4>1, <4>3 DEF OpSettles
      <3> QED BY <3>1, <3>2
    <2>3. ASSUME NEW r \in DOMAIN objs PROVE ObjSettles(r)
      <3>1. FailsObj(r, objs'[r])
        BY <2>1
      <3>2. CASE SameResult(objs'[r], objs[r])
        BY <3>1, <3>2 DEF FailsObj, ObjSettles
      <3>3. ASSUME objs[r].result = "unset", objs'[r].result # "unset",
                   NEW e \in pending, ops[e.op].req = r, objs'[r].of = e.op
            PROVE  ObjSettles(r)
        <4>1. PICK d : d = e.op
          OBVIOUS
        <4>2. d \in DOMAIN ops /\ ops[d].req = r /\ objs'[r].of = d
          BY <3>3, <4>1, Known
        <4>3. ops[d].done = FALSE
          BY <1>o, <4>1, <4>2 DEF ToCome
        <4>4. ops'[d].done = TRUE
          BY <2>1, <4>1, <4>2 DEF FailsOp
        <4>5. SameTurn(objs'[r], objs[r])
          BY <3>1 DEF FailsObj
        <4> QED BY <3>3, <4>2, <4>3, <4>4, <4>5 DEF ObjSettles
      <3> QED BY <3>1, <3>2, <3>3 DEF FailsObj
    <2> QED BY <2>1, <2>2, <2>3 DEF Settles
  <1>9. ASSUME SessionOnly PROVE Settles
    BY <1>9, SessionAlone, SettlesNot
  <1>10. ASSUME NEW t \in Threads, Submitted(t) PROVE Settles
    BY <1>10, SettlesNot DEF Submitted
  <1> QED BY <1>1, <1>2, <1>3, <1>4, <1>5, <1>6, <1>7, <1>8, <1>9, <1>10 DEF Kind

\* Operations stay in their order.
LEMMA LatestStep ==
    ASSUME Typed, Kind, Owed, Latest
    PROVE  Latest'
  <1>1. ASSUME NEW t \in Threads, Begins(t) PROVE Latest'
    <2>0. DOMAIN ops = 1 .. Len(ops) /\ Len(ops) \in Nat
      BY Kept DEF Typed
    <2>1. PICK r \in DOMAIN objs, y \in Objs : \E p, z : BegunAs(t, r, y, p, z)
      BY <1>1 DEF Begins
    <2>2. ObjsTo(r, y) /\ y.op = Len(ops) + 1 /\ ops'[Len(ops) + 1].req = r
      BY <2>1 DEF BegunAs
    <2>3. DOMAIN ops' = 1 .. Len(ops) + 1 /\ \A c \in DOMAIN ops : ops'[c] = ops[c]
      BY <1>1 DEF Begins
    <2>4. ASSUME NEW c \in DOMAIN ops' PROVE c <= objs'[ops'[c].req].op
      <3>1. CASE c = Len(ops) + 1
        BY <2>0, <2>2, <3>1 DEF ObjsTo
      <3>2. CASE c # Len(ops) + 1
        <4>1. c \in DOMAIN ops /\ c <= Len(ops) + 1
          BY <2>0, <2>3, <3>2
        <4>2. ops'[c] = ops[c] /\ ops[c].req \in DOMAIN objs
          BY <2>3, <4>1, Kept DEF Typed
        <4>3. CASE ops[c].req = r
          BY <2>2, <4>1, <4>2, <4>3 DEF ObjsTo
        <4>4. CASE ops[c].req # r
          BY <2>2, <4>1, <4>2, <4>4 DEF ObjsTo, Latest
        <4> QED BY <4>3, <4>4
      <3> QED BY <3>1, <3>2
    <2> QED BY <2>4 DEF Latest
  <1>2. CASE Settles
    <2>1. ASSUME NEW c \in DOMAIN ops' PROVE c <= objs'[ops'[c].req].op
      <3>1. c \in DOMAIN ops /\ ops'[c].req = ops[c].req /\ ops[c].req \in DOMAIN objs
        BY <1>2, Kept DEF Settles, OpSettles, Typed
      <3>2. objs'[ops[c].req].op = objs[ops[c].req].op
        BY <1>2, <3>1 DEF Settles, ObjSettles, SameTurn
      <3> QED BY <3>1, <3>2 DEF Latest
    <2> QED BY <2>1 DEF Latest
  <1> QED BY <1>1, <1>2, SettleStep

\* An operation without a result finds its request.
LEMMA OutcomesStep ==
    ASSUME Typed, Kind, Owed, Outcomes
    PROVE  Outcomes'
  <1>f. \A c \in DOMAIN ops : Finds(ops[c], c, objs[ops[c].req])
    BY DEF Outcomes
  <1>1. ASSUME NEW t \in Threads, Begins(t) PROVE Outcomes'
    <2>1. PICK r \in DOMAIN objs, y \in Objs : \E p, z : BegunAs(t, r, y, p, z)
      BY <1>1 DEF Begins
    <2>2. PICK p, z : BegunAs(t, r, y, p, z)
      BY <2>1
    <2>3. /\ ops'[Len(ops) + 1] = p /\ p.req = r /\ p.done = FALSE /\ p.told = FALSE /\ p.spoilt = FALSE
          /\ y.result = "unset" /\ y.of = 0 /\ y.op = Len(ops) + 1 /\ ObjsTo(r, y)
          /\ objs[r].result # "aborted" /\ (objs[r].mixed = TRUE \/ Open(r) => y.mixed = TRUE)
      BY <2>2 DEF BegunAs
    <2>4. /\ \A c \in DOMAIN ops : ops'[c] = ops[c]
          /\ \A c \in DOMAIN ops' : c \in DOMAIN ops \/ c = Len(ops) + 1
          /\ Len(ops) + 1 \notin DOMAIN ops
      <3>1. DOMAIN ops' = 1 .. Len(ops) + 1 /\ \A c \in DOMAIN ops : ops'[c] = ops[c]
        BY <1>1 DEF Begins
      <3>2. DOMAIN ops = 1 .. Len(ops) /\ Len(ops) \in Nat
        BY Kept DEF Typed
      <3> QED BY <3>1, <3>2
    <2>5. ASSUME NEW c \in DOMAIN ops' PROVE Finds(ops'[c], c, objs'[ops'[c].req])
      <3>1. CASE c = Len(ops) + 1
        <4>1. ops'[c] = p /\ objs'[ops'[c].req] = y
          BY <2>3, <3>1 DEF ObjsTo
        <4> QED BY <2>3, <3>1, <4>1 DEF Finds
      <3>2. CASE c \in DOMAIN ops
        <4>1. ops'[c] = ops[c] /\ ops[c].req \in DOMAIN objs /\ Finds(ops[c], c, objs[ops[c].req])
          BY <1>f, <2>4, <3>2, Kept DEF Typed
        <4>2. CASE ops[c].req # r
          BY <2>3, <4>1, <4>2 DEF ObjsTo
        <4>3. CASE ops[c].req = r
          <5>1. objs'[ops'[c].req] = y /\ y.op # c
            BY <2>3, <2>4, <3>2, <4>1, <4>3 DEF ObjsTo
          <5>2. ops[c].done = FALSE => y.mixed = TRUE
            BY <2>3, <3>2, <4>3 DEF Open
          <5>3. ops[c].told = TRUE \/ ops[c].spoilt = TRUE => y.mixed = TRUE
            BY <2>3, <4>1, <4>3 DEF Finds
          <5> QED BY <4>1, <5>1, <5>2, <5>3 DEF Finds
        <4> QED BY <4>2, <4>3
      <3> QED BY <2>4, <3>1, <3>2
    <2>6. ASSUME NEW q \in DOMAIN objs' PROVE objs'[q].of = 0 \/ objs'[q].of = objs'[q].op \/ objs'[q].mixed = TRUE
      <3>1. CASE q = r
        BY <2>3, <3>1 DEF ObjsTo
      <3>2. CASE q # r
        BY <2>3, <3>2 DEF ObjsTo, Outcomes
      <3> QED BY <3>1, <3>2
    <2> QED BY <2>5, <2>6 DEF Outcomes
  <1>2. CASE Settles
    <2>1. ASSUME NEW c \in DOMAIN ops' PROVE Finds(ops'[c], c, objs'[ops'[c].req])
      <3>0. PICK r : r = ops[c].req
        OBVIOUS
      <3>1. c \in DOMAIN ops /\ r \in DOMAIN objs /\ OpSettles(c) /\ ObjSettles(r) /\ ops'[c].req = r
        BY <1>2, <3>0, Kept DEF Settles, OpSettles, Typed
      <3>2. Finds(ops[c], c, objs[r])
        BY <1>f, <3>0, <3>1
      <3>3. objs'[r].op = objs[r].op /\ objs'[r].mixed = objs[r].mixed
        BY <3>1 DEF ObjSettles, SameTurn
      <3>4. objs[r].result # "unset" => objs'[r].result = objs[r].result
        BY <3>1 DEF ObjSettles, SameResult
      <3>5. ops'[c].done = TRUE /\ objs'[r].op = c => objs'[r].result # "unset"
        BY <3>0, <3>1, <3>2, <3>3, <3>4 DEF OpSettles, Finds
      <3>6. ASSUME ops'[c].done = FALSE
            PROVE  objs'[r].mixed = TRUE \/ (objs'[r].op = c /\ objs'[r].result \in {"unset", "aborted"})
        <4>1. ops[c].done = FALSE
          BY <3>1, <3>6 DEF OpSettles
        <4>2. objs[r].mixed = TRUE \/ (objs[r].op = c /\ objs[r].result \in {"unset", "aborted"})
          BY <3>2, <4>1 DEF Finds
        <4>3. ASSUME NEW d \in DOMAIN ops, ops[d].req = r, ops[d].done = FALSE, ops'[d].done = TRUE
              PROVE  objs[r].mixed = TRUE
          <5>1. objs[r].mixed = TRUE \/ objs[r].op = d
            BY <1>f, <4>3 DEF Finds
          <5>2. d # c
            BY <3>6, <4>3
          <5> QED BY <4>2, <5>1, <5>2
        <4> QED BY <3>1, <3>3, <4>2, <4>3 DEF ObjSettles, SameResult
      <3>7. ASSUME ops[c].told = TRUE \/ ops[c].spoilt = TRUE
            PROVE  objs'[r].mixed = TRUE \/ objs'[r].result = "aborted"
        BY <3>2, <3>3, <3>4, <3>7 DEF Finds
      <3>8. ASSUME ops'[c].told = TRUE \/ ops'[c].spoilt = TRUE
            PROVE  objs'[r].mixed = TRUE \/ objs'[r].result = "aborted"
        <4>1. \/ ops[c].told = TRUE \/ ops[c].spoilt = TRUE
              \/ ops'[c].done = FALSE /\ objs'[r].result # "unset"
          BY <3>0, <3>1, <3>8 DEF OpSettles
        <4> QED BY <3>6, <3>7, <4>1
      <3> QED BY <3>1, <3>5, <3>6, <3>8 DEF Finds
    <2>2. ASSUME NEW r \in DOMAIN objs' PROVE objs'[r].of = 0 \/ objs'[r].of = objs'[r].op \/ objs'[r].mixed = TRUE
      <3>1. CASE r \notin DOMAIN objs
        BY <1>2, <3>1 DEF Settles, Blank
      <3>2. CASE r \in DOMAIN objs
        <4>1. ObjSettles(r) /\ (objs[r].of = 0 \/ objs[r].of = objs[r].op \/ objs[r].mixed = TRUE)
          BY <1>2, <3>2 DEF Settles, Outcomes
        <4>2. ASSUME NEW d \in DOMAIN ops, ops[d].req = r, ops[d].done = FALSE
              PROVE  objs[r].mixed = TRUE \/ objs[r].op = d
          BY <1>f, <4>2 DEF Finds
        <4> QED BY <4>1, <4>2 DEF ObjSettles, SameTurn, SameResult
      <3> QED BY <3>1, <3>2
    <2> QED BY <2>1, <2>2 DEF Outcomes
  <1> QED BY <1>1, <1>2, SettleStep

-----------------------------------------------------------------------------
(* Reads.                                                                  *)

\* What a step makes of reads, if none is served, asked of the server or answered.
SteadyObj(r) ==
    /\ objs'[r].key = objs[r].key /\ objs'[r].offset = objs[r].offset /\ objs'[r].cache = objs[r].cache
    /\ objs'[r].mixed = FALSE => objs[r].mixed = FALSE
    /\ objs[r].turned = TRUE => objs'[r].turned = TRUE
    /\ objs'[r].pc = objs[r].pc \/ objs'[r].turned = TRUE \/ (objs[r].offset = 0 /\ ~Open(r))
SteadyOp(c) ==
    /\ ops'[c].req = ops[c].req /\ ops'[c].got = ops[c].got
    /\ ops'[c].done = FALSE => ops[c].done = FALSE /\ SameAsked(ops'[c], ops[c])
    /\ ops[c].got # <<>> => SameAsked(ops'[c], ops[c])
Steady ==
    /\ DOMAIN ops \subseteq DOMAIN ops' /\ \A c \in DOMAIN ops : SteadyOp(c)
    /\ \A c \in DOMAIN ops' \ DOMAIN ops : ops'[c].key = "" /\ ops'[c].got = <<>>
    /\ DOMAIN objs \subseteq DOMAIN objs' /\ \A r \in DOMAIN objs : SteadyObj(r)
    /\ \A r \in DOMAIN objs' \ DOMAIN objs : Blank(objs'[r])

\* A read is on its way to the server, or was not sent; it is served from the cache; it is answered.
AskedFor(c, y, p) ==
    /\ y.offset = 0 /\ p.got = <<>>
    /\ p.done = FALSE => /\ p.key = y.key /\ p.pc = y.pc
                         /\ \E t \in Threads : call'[t].op = c /\ call'[t].pc = "submit"
Served(c, y, p, x) ==
    /\ p.done = TRUE /\ y.key = x.key /\ p.key = y.key /\ p.pc = y.pc /\ x.offset # 0
    /\ \E start \in Nat, n \in Nat :
         /\ p.got = <<x.cache, start, n>> /\ (start = 0 \/ start = x.offset)
         /\ y.offset = 0 \/ (y.offset = start + n /\ y.cache = x.cache)
Replied(c, y, p, x) ==
    /\ p.done = TRUE /\ y.key = x.key /\ ops[c].key # "" /\ SameAsked(p, ops[c])
    /\ \E n \in Nat : /\ p.got = <<GameData(p.key, p.pc), 0, n>>
                      /\ y.offset = 0 \/ (y.offset = n /\ y.cache = GameData(p.key, p.pc))
Reads(c, y, p) ==
    /\ ObjsTo(ops[c].req, y) /\ OpsTo(c, p) /\ p.req = ops[c].req
    /\ y.mixed = objs[ops[c].req].mixed /\ y.turned = objs[ops[c].req].turned /\ y.pc = objs[ops[c].req].pc
    /\ \/ AskedFor(c, y, p)
       \/ Served(c, y, p, objs[ops[c].req])
       \/ Replied(c, y, p, objs[ops[c].req])
OneReads == \E c \in DOMAIN ops : ops[c].done = FALSE /\ \E y, p : Reads(c, y, p)

\* Nothing happens to any read.
LEMMA SteadyNot ==
    ASSUME objs' = objs, ops' = ops
    PROVE  Steady
  BY DEF Steady, SteadyOp, SteadyObj, SameAsked

\* An operation goes on that is no read, or as a read it was.
LEMMA SteadyTo ==
    ASSUME Typed, NEW c \in DOMAIN ops, NEW p, OpsTo(c, p), p.req = ops[c].req, p.got = ops[c].got,
           p.done = FALSE => ops[c].done = FALSE /\ SameAsked(p, ops[c]),
           ops[c].got # <<>> => SameAsked(p, ops[c]),
           NEW y, ObjsTo(ops[c].req, y), SameReads(y, objs[ops[c].req]), y.mixed = objs[ops[c].req].mixed
    PROVE  Steady
  <1>1. ASSUME NEW d \in DOMAIN ops PROVE SteadyOp(d)
    <2>1. CASE d = c
      BY <2>1 DEF OpsTo, SteadyOp
    <2>2. CASE d # c
      BY <2>2 DEF OpsTo, SteadyOp, SameAsked
    <2> QED BY <2>1, <2>2
  <1>2. ASSUME NEW r \in DOMAIN objs PROVE SteadyObj(r)
    <2>1. CASE r = ops[c].req
      BY <2>1 DEF ObjsTo, SteadyObj, SameReads
    <2>2. CASE r # ops[c].req
      BY <2>2 DEF ObjsTo, SteadyObj
    <2> QED BY <2>1, <2>2
  <1> QED BY <1>1, <1>2 DEF Steady, OpsTo, ObjsTo

\* That is all that a step does to reads.
LEMMA ReadStep ==
    ASSUME Typed, Kind, Owed, Unread
    PROVE  Steady \/ OneReads
  <1>o. \A c \in DOMAIN ops : ToCome(c) => ops[c].done = FALSE /\ ops[c].got = <<>>
    BY DEF Owed, OwedOne, Unread
  <1>1. ASSUME Quiet PROVE Steady
    <2>1. ASSUME NEW c \in DOMAIN ops PROVE SteadyOp(c)
      BY <1>1 DEF Quiet, OpsMild, MildOp, SameOrigin, SteadyOp
    <2>2. ASSUME NEW r \in DOMAIN objs PROVE SteadyObj(r)
      BY <1>1 DEF Quiet, ObjsMild, MildObj, SameTurn, SteadyObj
    <2> QED BY <1>1, <2>1, <2>2 DEF Quiet, ObjsMild, OpsMild, Steady
  <1>2. ASSUME NEW t \in Threads, Begins(t) PROVE Steady
    <2>1. PICK r \in DOMAIN objs, y \in Objs : \E p, z : BegunAs(t, r, y, p, z)
      BY <1>2 DEF Begins
    <2>2. PICK p, z : BegunAs(t, r, y, p, z)
      BY <2>1
    <2>3. /\ ObjsTo(r, y) /\ SameReads(y, objs[r]) /\ (objs[r].mixed = TRUE \/ Open(r) => y.mixed = TRUE)
          /\ ops'[Len(ops) + 1] = p /\ p.key = "" /\ p.got = <<>>
      BY <2>2 DEF BegunAs
    <2>4. /\ \A c \in DOMAIN ops : ops'[c] = ops[c]
          /\ DOMAIN ops \subseteq DOMAIN ops'
          /\ \A c \in DOMAIN ops' : c \in DOMAIN ops \/ c = Len(ops) + 1
      <3>1. DOMAIN ops' = 1 .. Len(ops) + 1 /\ \A c \in DOMAIN ops : ops'[c] = ops[c]
        BY <1>2 DEF Begins
      <3>2. DOMAIN ops = 1 .. Len(ops) /\ Len(ops) \in Nat
        BY Kept DEF Typed
      <3> QED BY <3>1, <3>2
    <2>5. ASSUME NEW c \in DOMAIN ops PROVE SteadyOp(c)
      BY <2>4 DEF SteadyOp, SameAsked
    <2>6. ASSUME NEW q \in DOMAIN objs PROVE SteadyObj(q)
      <3>1. CASE q = r
        <4>1. objs[r].mixed \in BOOLEAN
          BY Kept DEF Typed, Objs
        <4> QED BY <2>3, <3>1, <4>1 DEF ObjsTo, SteadyObj, SameReads
      <3>2. CASE q # r
        BY <2>3, <3>2 DEF ObjsTo, SteadyObj
      <3> QED BY <3>1, <3>2
    <2> QED BY <2>3, <2>4, <2>5, <2>6 DEF Steady, ObjsTo
  <1>3. ASSUME NEW t \in Threads, Ended(t) PROVE Steady \/ OneReads
    <2>0. /\ call[t].op \in DOMAIN ops /\ call[t].req = ops[call[t].op].req
          /\ call[t].op \in 1 .. MaxOps
      BY <1>3, Senders DEF Ended, Sending
    <2>1. PICK x, o, y, p :
              /\ Worked(t, x, o) /\ ObjsTo(call[t].req, y) /\ OpsTo(call[t].op, p) /\ p = Finished(o)
              /\ \E what \in {"ok", "failed", "not sent"} : y = SetResult(x, what, call[t].op)
              /\ Plain(t, x, o) \/ Hit(t, x, o) \/ Miss(t, x, o) \/ Part(t, x, o) \/ Whole(t, x, o)
      BY <1>3 DEF Ended
    <2>2. PICK c \in 1 .. MaxOps : c = call[t].op
      BY <2>0
    <2>3. PICK what \in Results : y = SetResult(x, what, c)
      BY <2>1, <2>2 DEF Results
    <2>4. Worked(t, x, o)
      BY <2>1
    <2>5. SameTurn(y, x) /\ SameReads(y, x)
      BY <2>3, <2>4, ResultKeeps
    <2>6. /\ x.mixed = objs[call[t].req].mixed /\ x.pc = objs[call[t].req].pc
          /\ x.turned = objs[call[t].req].turned /\ o.req = ops[c].req
      BY <2>2, <2>4 DEF Worked, SameTurn, SameOrigin
    <2>7. /\ p.done = TRUE /\ p.req = o.req /\ p.got = o.got
          /\ o.got # <<>> => SameAsked(p, o)
      BY <2>1, <2>4, FinishedIs DEF Worked, SameOrigin
    <2>8. c \in DOMAIN ops /\ ops[c].done = FALSE /\ ops[c].got = <<>>
      BY <1>o, <2>0, <2>2 DEF ToCome
    <2>9. CASE Plain(t, x, o) \/ Writes(t, x, o)
      <3>1. SameReads(x, objs[call[t].req]) /\ o.got = ops[c].got
        BY <2>2, <2>9 DEF Plain, Writes, SameReads
      <3>2. SameReads(y, objs[ops[c].req]) /\ y.mixed = objs[ops[c].req].mixed
        BY <2>0, <2>2, <2>5, <2>6, <3>1 DEF SameReads, SameTurn
      <3> QED BY <2>0, <2>1, <2>2, <2>6, <2>7, <2>8, <3>1, <3>2, SteadyTo
    <2>10. CASE Miss(t, x, o)
      <3>1. AskedFor(c, y, p)
        BY <2>2, <2>5, <2>7, <2>8, <2>10 DEF AskedFor, Miss, SameReads
      <3>2. Reads(c, y, p)
        BY <2>0, <2>1, <2>2, <2>5, <2>6, <2>7, <3>1 DEF Reads, SameReads, SameTurn
      <3> QED BY <2>8, <3>2 DEF OneReads
    <2>11. CASE Hit(t, x, o)
      <3>1. /\ objs[ops[c].req].offset # 0 /\ x.key = objs[ops[c].req].key
            /\ o.key = x.key /\ o.pc = x.pc
        BY <2>0, <2>2, <2>11 DEF Hit
      <3>2. PICK start \in Nat, n \in Nat :
                /\ o.got = <<objs[ops[c].req].cache, start, n>>
                /\ start = 0 \/ start = objs[ops[c].req].offset
                /\ x.offset = 0 \/ (x.offset = start + n /\ x.cache = objs[ops[c].req].cache)
        BY <2>0, <2>2, <2>11 DEF Hit
      <3>3. SameAsked(p, o)
        BY <2>7, <3>2
      <3>4. Served(c, y, p, objs[ops[c].req])
        BY <2>5, <2>7, <3>1, <3>2, <3>3 DEF Served, SameReads, SameAsked
      <3>5. Reads(c, y, p)
        BY <2>0, <2>1, <2>2, <2>5, <2>6, <2>7, <3>4 DEF Reads, SameReads, SameTurn
      <3> QED BY <2>8, <3>5 DEF OneReads
    <2> QED BY <2>1, <2>9, <2>10, <2>11 DEF Part, Whole
  <1>4. ASSUME NEW t \in Threads, Dispatched(t) PROVE Steady \/ OneReads
    <2>0. call[t].op \in DOMAIN ops /\ call[t].req = ops[call[t].op].req
      BY <1>4, Senders DEF Dispatched, Sending
    <2>1. PICK x, o, z : /\ Worked(t, x, o) /\ ObjsTo(call[t].req, x) /\ OpsTo(call[t].op, o)
                         /\ Plain(t, x, o) \/ Miss(t, x, o) \/ Whole(t, x, o)
                         /\ CallTo(t, z) /\ z.pc = "submit" /\ z.op = call[t].op
      BY <1>4 DEF Dispatched
    <2>2. PICK c : c = call[t].op
      OBVIOUS
    <2>3. /\ x.mixed = objs[ops[c].req].mixed /\ x.pc = objs[ops[c].req].pc
          /\ x.turned = objs[ops[c].req].turned /\ o.req = ops[c].req /\ o.done = ops[c].done
      BY <2>0, <2>1, <2>2 DEF Worked, SameTurn, SameOrigin, SameOutcome
    <2>4. c \in DOMAIN ops /\ ops[c].done = FALSE /\ ops[c].got = <<>>
      BY <1>o, <2>0, <2>2 DEF ToCome
    <2>5. CASE Plain(t, x, o) \/ Writes(t, x, o)
      <3>1. SameReads(x, objs[ops[c].req]) /\ o.got = ops[c].got /\ SameAsked(o, ops[c])
        BY <2>0, <2>2, <2>5 DEF Plain, Writes, SameReads, SameAsked
      <3> QED BY <2>0, <2>1, <2>2, <2>3, <2>4, <3>1, SteadyTo
    <2>6. CASE Miss(t, x, o)
      <3>1. call'[t].op = c /\ call'[t].pc = "submit"
        BY <2>1, <2>2 DEF CallTo
      <3>2. AskedFor(c, x, o)
        BY <2>2, <2>4, <2>6, <3>1 DEF AskedFor, Miss
      <3>3. Reads(c, x, o)
        BY <2>0, <2>1, <2>2, <2>3, <3>2 DEF Reads
      <3> QED BY <2>4, <3>3 DEF OneReads
    <2> QED BY <2>1, <2>5, <2>6 DEF Whole
  <1>f. ASSUME NEW c \in DOMAIN ops, NEW p, OpsTo(c, p), SameOrigin(p, ops[c]), objs' = objs,
               p.done = ops[c].done, SameAsked(p, ops[c]), p.got = ops[c].got
        PROVE  Steady
    <2>1. ops[c].req \in DOMAIN objs /\ objs \in Seq(Objs)
      BY Kept DEF Typed
    <2>2. ObjsTo(ops[c].req, objs[ops[c].req])
      BY <1>f, <2>1 DEF ObjsTo
    <2>3. p.req = ops[c].req
      BY <1>f DEF SameOrigin
    <2> QED BY <1>f, <2>2, <2>3, SteadyTo DEF SameReads
  <1>g. ASSUME NEW c \in DOMAIN ops, Forgets(c) PROVE Steady
    <2>1. PICK p : OpsTo(c, p) /\ SameOrigin(p, ops[c]) /\ p.done = ops[c].done /\ SameAsked(p, ops[c])
                     /\ p.got = ops[c].got
      BY <1>g DEF Forgets
    <2>2. objs' = objs
      BY <1>g DEF Forgets
    <2> QED BY <1>f, <2>1, <2>2
  <1>5. ASSUME NEW t \in Threads, Dropped(t) PROVE Steady
    <2>1. call[t].op \in DOMAIN ops /\ Forgets(call[t].op)
      BY <1>5, Senders DEF Dropped, Sending
    <2> QED BY <1>g, <2>1
  <1>6. ASSUME NEW t \in Threads, Registered(t) PROVE Steady
    <2>1. call[t].op \in DOMAIN ops /\ (Forgets(call[t].op) \/ UNCHANGED <<objs, ops>>)
      BY <1>6, Senders DEF Registered, Entered, Sending
    <2> QED BY <1>g, <2>1, SteadyNot
  <1>7. ASSUME NEW p \in inFlight, Answered(p) PROVE Steady
    <2>1. ASSUME NEW e \in pending, Taken(e), objs' = objs PROVE Steady
      <3>1. e.op \in DOMAIN ops
        BY Known
      <3>2. PICK q : /\ OpsTo(e.op, q) /\ SameOrigin(q, ops[e.op]) /\ q.done = ops[e.op].done
                     /\ SameAsked(q, ops[e.op]) /\ q.got = ops[e.op].got
        BY <2>1 DEF Taken
      <3>3. PICK c : c = e.op
        OBVIOUS
      <3> QED BY <1>f, <2>1, <3>1, <3>2, <3>3
    <2> QED BY <1>7, <2>1, SteadyNot DEF Answered
  <1>8. ASSUME Completed PROVE Steady \/ OneReads
    <2>0. PICK c : c = reader
      OBVIOUS
    <2>1. c \in DOMAIN ops /\ ops[c].done = FALSE /\ ops[c].got = <<>>
      BY <1>8, <1>o, <2>0, Read DEF Completed, ToCome
    <2>2. PICK y \in Objs, p \in OpRecs :
              ObjsTo(ops[c].req, y) /\ OpsTo(c, p) /\ Filled(objs[ops[c].req], ops[c], y, p)
      BY <1>8, <2>0 DEF Completed
    <2>3. /\ y.mixed = objs[ops[c].req].mixed /\ y.pc = objs[ops[c].req].pc
          /\ y.turned = objs[ops[c].req].turned /\ y.key = objs[ops[c].req].key
          /\ p.req = ops[c].req /\ p.done = TRUE
      BY <2>2 DEF Filled, SameTurn, SameOrigin
    <2>4. CASE SameReads(y, objs[ops[c].req]) /\ p.got = <<>>
      BY <2>1, <2>2, <2>3, <2>4, SteadyTo
    <2>5. ASSUME ops[c].key # "", SameAsked(p, ops[c]),
                 NEW n \in Nat, p.got = <<GameData(ops[c].key, ops[c].pc), 0, n>>,
                 y.offset = 0 \/ (y.offset = n /\ y.cache = GameData(ops[c].key, ops[c].pc))
          PROVE  OneReads
      <3>1. GameData(p.key, p.pc) = GameData(ops[c].key, ops[c].pc)
        BY <2>5 DEF SameAsked
      <3>2. Replied(c, y, p, objs[ops[c].req])
        BY <2>3, <2>5, <3>1 DEF Replied
      <3>3. Reads(c, y, p)
        BY <2>2, <2>3, <3>2 DEF Reads
      <3> QED BY <2>1, <3>3 DEF OneReads
    <2>6. \/ SameReads(y, objs[ops[c].req]) /\ p.got = <<>>
          \/ /\ ops[c].key # "" /\ SameAsked(p, ops[c])
             /\ \E n \in Nat : /\ p.got = <<GameData(ops[c].key, ops[c].pc), 0, n>>
                               /\ y.offset = 0 \/ (y.offset = n /\ y.cache = GameData(ops[c].key, ops[c].pc))
      BY <2>2 DEF Filled
    <2> QED BY <2>4, <2>5, <2>6
  <1>9. ASSUME Failed PROVE Steady
    <2>1. /\ DOMAIN objs' = DOMAIN objs /\ \A r \in DOMAIN objs : FailsObj(r, objs'[r])
          /\ DOMAIN ops' = DOMAIN ops /\ \A c \in DOMAIN ops : FailsOp(c, ops'[c])
      BY <1>9 DEF Failed
    <2>2. ASSUME NEW c \in DOMAIN ops PROVE SteadyOp(c)
      BY <2>1 DEF FailsOp, SteadyOp, SameOrigin, SameAsked
    <2>3. ASSUME NEW r \in DOMAIN objs PROVE SteadyObj(r)
      BY <2>1 DEF FailsObj, SteadyObj, SameTurn, SameReads
    <2> QED BY <2>1, <2>2, <2>3 DEF Steady
  <1>10. ASSUME SessionOnly PROVE Steady
    BY <1>10, SessionAlone, SteadyNot
  <1>11. ASSUME NEW t \in Threads, Submitted(t) PROVE Steady
    BY <1>11, SteadyNot DEF Submitted
  <1> QED BY <1>1, <1>2, <1>3, <1>4, <1>5, <1>6, <1>7, <1>8, <1>9, <1>10, <1>11 DEF Kind

\* A thread whose operation was just begun was so before, or the operation is new.
LEMMA BegunSame ==
    ASSUME Typed, Kind, NEW u \in Threads, call'[u].pc = "begun"
    PROVE  \/ call'[u] = call[u]
           \/ call'[u].op \in DOMAIN ops' \ DOMAIN ops
  <1>1. CASE Quiet
    BY <1>1 DEF Quiet, CallsMild, Resting
  <1>2. ASSUME NEW t \in Threads, NEW z, CallTo(t, z), z.pc # "begun" PROVE call'[u] = call[u]
    BY <1>2 DEF CallTo
  <1>3. ASSUME NEW t \in Threads, Begins(t) PROVE call'[u] = call[u] \/ call'[u].op \in DOMAIN ops' \ DOMAIN ops
    <2>1. PICK r \in DOMAIN objs, y \in Objs : \E p, z : BegunAs(t, r, y, p, z)
      BY <1>3 DEF Begins
    <2>2. PICK z : CallTo(t, z) /\ z.op = Len(ops) + 1
      BY <2>1 DEF BegunAs
    <2>3. Len(ops) + 1 \in DOMAIN ops' \ DOMAIN ops
      <3>1. DOMAIN ops' = 1 .. Len(ops) + 1 /\ DOMAIN ops = 1 .. Len(ops) /\ Len(ops) \in Nat
        BY <1>3, Kept DEF Begins, Typed
      <3> QED BY <3>1
    <2> QED BY <2>2, <2>3 DEF CallTo
  <1>4. ASSUME NEW t \in Threads, Dispatched(t) \/ Submitted(t) PROVE call'[u] = call[u]
    BY <1>2, <1>4 DEF Dispatched, Submitted
  <1>5. ASSUME NEW t \in Threads, Ended(t) \/ Dropped(t) PROVE call'[u] = call[u]
    <2>1. CallTo(t, Idle) /\ Idle.pc # "begun"
      BY <1>5, IdleIs DEF Ended, Dropped
    <2> QED BY <1>2, <2>1
  <1>6. ASSUME NEW t \in Threads, Registered(t) PROVE call'[u] = call[u]
    BY <1>2, <1>6 DEF Registered, Resting
  <1>7. ASSUME NEW p \in inFlight, Answered(p) PROVE call'[u] = call[u]
    BY <1>7 DEF Answered
  <1>8. CASE Completed \/ Failed \/ SessionOnly
    BY <1>8, SessionAlone DEF Completed, Failed
  <1> QED BY <1>1, <1>3, <1>4, <1>5, <1>6, <1>7, <1>8 DEF Kind

\* What has a result is not read for again.
LEMMA UnreadStep ==
    ASSUME Typed, Typed', Kind, OnePlace', Owed, Owed', Unread
    PROVE  Unread'
  <1>1. CASE Steady
    <2>1. ASSUME NEW c \in DOMAIN ops', ops'[c].done = FALSE PROVE ops'[c].got = <<>>
      BY <1>1, <2>1 DEF Steady, SteadyOp, Unread
    <2>2. ASSUME NEW u \in Threads, call'[u].pc = "begun" PROVE ops'[call'[u].op].key = ""
      <3>1. CASE call'[u] = call[u]
        <4>1. call[u].op \in DOMAIN ops /\ ops[call[u].op].key = ""
          BY <2>2, <3>1, Senders DEF Unread, Sending
        <4>2. ops'[call[u].op].done = FALSE
          BY <1>1, <3>1, <4>1 DEF Owed, OwedOne, ToCome, Steady
        <4> QED BY <1>1, <3>1, <4>1, <4>2 DEF Steady, SteadyOp, SameAsked
      <3>2. CASE call'[u].op \in DOMAIN ops' \ DOMAIN ops
        BY <1>1, <3>2 DEF Steady
      <3> QED BY <2>2, <3>1, <3>2, BegunSame
    <2> QED BY <2>1, <2>2 DEF Unread
  <1>2. ASSUME NEW c \in DOMAIN ops, NEW y, NEW p, Reads(c, y, p) PROVE Unread'
    <2>1. OpsTo(c, p) /\ (p.done = FALSE => p.got = <<>> /\ \E t \in Threads : call'[t].op = c /\ call'[t].pc = "submit")
      BY <1>2 DEF Reads, AskedFor, Served, Replied
    <2>2. ASSUME NEW d \in DOMAIN ops', ops'[d].done = FALSE PROVE ops'[d].got = <<>>
      BY <2>1, <2>2 DEF OpsTo, Unread
    <2>3. ASSUME NEW u \in Threads, call'[u].pc = "begun" PROVE ops'[call'[u].op].key = ""
      <3>1. call'[u] = call[u]
        BY <2>1, <2>3, BegunSame DEF OpsTo
      <3>2. call[u].op \in DOMAIN ops /\ ops[call[u].op].key = ""
        BY <2>3, <3>1, Senders DEF Unread, Sending
      <3>3. call[u].op # c
        <4> SUFFICES ASSUME call[u].op = c PROVE FALSE
          OBVIOUS
        <4>1. ops'[c].done = FALSE
          BY <2>1, <3>1 DEF Owed, OwedOne, ToCome, OpsTo
        <4>2. PICK t \in Threads : call'[t].op = c /\ call'[t].pc = "submit"
          BY <2>1, <4>1 DEF OpsTo
        <4>3. c # 0
          BY Known
        <4>4. t = u
          BY <3>1, <4>2, <4>3 DEF OnePlace
        <4> QED BY <2>3, <4>2, <4>4
      <3> QED BY <2>1, <3>1, <3>2, <3>3 DEF OpsTo
    <2> QED BY <2>2, <2>3 DEF Unread
  <1> QED BY <1>1, <1>2, ReadStep DEF OneReads

\* A read that was served or answered stays what it is.
LEMMA UpToKeeps ==
    ASSUME Typed, Unread, Steady \/ OneReads,
           NEW d \in DOMAIN ops, NEW r, NEW data, NEW n, ReadUpTo(d, r, data, n)
    PROVE  d \in DOMAIN ops' /\ ReadUpTo(d, r, data, n)'
  <1>1. CASE Steady
    BY <1>1 DEF Steady, SteadyOp, ReadUpTo
  <1>2. ASSUME NEW c \in DOMAIN ops, ops[c].done = FALSE, NEW y, NEW p, Reads(c, y, p)
        PROVE  d \in DOMAIN ops' /\ ReadUpTo(d, r, data, n)'
    <2>1. c # d
      BY <1>2 DEF Unread, ReadUpTo
    <2>2. OpsTo(c, p)
      BY <1>2 DEF Reads
    <2>3. ops'[d] = ops[d] /\ d \in DOMAIN ops'
      BY <2>1, <2>2 DEF OpsTo
    <2> QED BY <2>3 DEF ReadUpTo
  <1> QED BY <1>1, <1>2 DEF OneReads

\* A read that was not done is the last one of its request, unless operations overlapped.
LEMMA LastRead ==
    ASSUME Outcomes, NEW c \in DOMAIN ops, ops[c].done = FALSE, objs[ops[c].req].mixed = FALSE
    PROVE  objs[ops[c].req].op = c
  <1>1. Finds(ops[c], c, objs[ops[c].req])
    BY DEF Outcomes
  <1> QED BY <1>1 DEF Finds

\* Reads stay right where none is served, asked of the server or answered.
LEMMA SteadyReads ==
    ASSUME Typed, Unread, Steady, ReadsRight
    PROVE  ReadsRight'
  <1>1. ASSUME NEW r \in DOMAIN objs' PROVE KeptRight(r)'
    <2>1. CASE r \notin DOMAIN objs
      BY <2>1 DEF Steady, Blank, KeptRight
    <2>2. CASE r \in DOMAIN objs
      <3>0. SUFFICES ASSUME objs'[r].mixed = FALSE, objs'[r].offset # 0
                     PROVE  /\ objs'[r].cache[1] = objs'[r].key
                            /\ objs'[r].cache[2] = objs'[r].pc \/ objs'[r].turned = TRUE
                            /\ \E d \in DOMAIN ops' : ReadUpTo(d, r, objs[r].cache, objs[r].offset)'
        <4>1. objs'[r].cache = objs[r].cache /\ objs'[r].offset = objs[r].offset
          BY <2>2 DEF Steady, SteadyObj
        <4> QED BY <3>0, <4>1 DEF KeptRight, ReadUpTo
      <3>1. SteadyObj(r) /\ KeptRight(r)
        BY <2>2 DEF Steady, ReadsRight
      <3>2. /\ objs[r].cache[1] = objs[r].key /\ (objs[r].cache[2] = objs[r].pc \/ objs[r].turned = TRUE)
            /\ \E d \in DOMAIN ops : ReadUpTo(d, r, objs[r].cache, objs[r].offset)
        BY <3>0, <3>1 DEF SteadyObj, KeptRight
      <3>3. PICK d \in DOMAIN ops : ReadUpTo(d, r, objs[r].cache, objs[r].offset)
        BY <3>2
      <3>4. d \in DOMAIN ops' /\ ReadUpTo(d, r, objs[r].cache, objs[r].offset)'
        BY <3>1, <3>3 DEF Steady, SteadyOp, SteadyObj, ReadUpTo
      <3> QED BY <3>0, <3>1, <3>2, <3>4 DEF SteadyObj
    <2> QED BY <2>1, <2>2
  <1>2. ASSUME NEW c \in DOMAIN ops' PROVE AskedRight(c)'
    <2>1. CASE c \notin DOMAIN ops
      BY <2>1 DEF Steady, AskedRight
    <2>2. CASE c \in DOMAIN ops
      <3>0. PICK r : r = ops[c].req
        OBVIOUS
      <3>1. SUFFICES ASSUME ops'[c].done = FALSE, ops'[c].key # "", objs'[r].mixed = FALSE
                     PROVE  /\ objs'[r].key = ops'[c].key /\ objs'[r].offset = 0
                            /\ objs'[r].pc = ops'[c].pc \/ objs'[r].turned = TRUE
        <4>1. ops'[c].req = r
          BY <2>2, <3>0 DEF Steady, SteadyOp
        <4> QED BY <3>1, <4>1 DEF AskedRight
      <3>2. /\ SteadyOp(c) /\ SteadyObj(r) /\ AskedRight(c) /\ r \in DOMAIN objs
        BY <2>2, <3>0, Kept DEF Steady, ReadsRight, Typed
      <3>3. /\ ops[c].done = FALSE /\ ops[c].key # "" /\ objs[r].mixed = FALSE
            /\ ops'[c].key = ops[c].key /\ ops'[c].pc = ops[c].pc
        BY <3>1, <3>2 DEF SteadyOp, SteadyObj, SameAsked
      <3>4. Open(r)
        BY <2>2, <3>0, <3>3 DEF Open
      <3> QED BY <3>0, <3>2, <3>3, <3>4 DEF SteadyObj, AskedRight
    <2> QED BY <2>1, <2>2
  <1>3. ASSUME NEW c \in DOMAIN ops' PROVE GotRight(c)'
    <2>1. CASE c \notin DOMAIN ops
      BY <2>1 DEF Steady, GotRight
    <2>2. CASE c \in DOMAIN ops
      <3>0. PICK r : r = ops[c].req
        OBVIOUS
      <3>2. /\ SteadyOp(c) /\ SteadyObj(r) /\ GotRight(c) /\ r \in DOMAIN objs
        BY <2>2, <3>0, Kept DEF Steady, ReadsRight, Typed
      <3>3. ops'[c].req = r /\ ops'[c].got = ops[c].got
        BY <3>0, <3>2 DEF SteadyOp
      <3>4. SUFFICES ASSUME ops[c].got # <<>>, objs'[r].mixed = FALSE
                     PROVE  /\ \/ ops[c].got[1] = GameData(ops'[c].key, ops'[c].pc)
                               \/ objs'[r].turned = TRUE /\ ops[c].got[1][1] = ops'[c].key
                            /\ ops[c].got[2] # 0 =>
                                 \E d \in 1 .. c - 1 : ReadUpTo(d, r, ops[c].got[1], ops[c].got[2])'
        <4> QED BY <3>3, <3>4 DEF GotRight, ReadUpTo
      <3>5. ops'[c].key = ops[c].key /\ ops'[c].pc = ops[c].pc /\ objs[r].mixed = FALSE
        BY <3>2, <3>4 DEF SteadyOp, SteadyObj, SameAsked
      <3>6. /\ \/ ops[c].got[1] = GameData(ops[c].key, ops[c].pc)
               \/ objs[r].turned = TRUE /\ ops[c].got[1][1] = ops[c].key
            /\ ops[c].got[2] # 0 =>
                 \E d \in 1 .. c - 1 : ReadUpTo(d, r, ops[c].got[1], ops[c].got[2])
        BY <3>0, <3>2, <3>4, <3>5 DEF GotRight
      <3>7. ASSUME NEW d \in 1 .. c - 1, ReadUpTo(d, r, ops[c].got[1], ops[c].got[2])
            PROVE  ReadUpTo(d, r, ops[c].got[1], ops[c].got[2])'
        <4>1. d \in DOMAIN ops
          <5>1. c \in 1 .. Len(ops) /\ DOMAIN ops = 1 .. Len(ops) /\ Len(ops) \in Nat
            BY <2>2, Kept DEF Typed
          <5> QED BY <5>1
        <4> QED BY <3>3, <3>7, <4>1 DEF ReadUpTo, Steady, SteadyOp
      <3>8. objs[r].turned = TRUE => objs'[r].turned = TRUE
        BY <3>2 DEF SteadyObj
      <3> QED BY <3>5, <3>6, <3>7, <3>8
    <2> QED BY <2>1, <2>2
  <1> QED BY <1>1, <1>2, <1>3 DEF ReadsRight

\* One read is served, asked of the server or answered: it must itself be right.
LEMMA OneReadRight ==
    ASSUME Typed, Unread, Outcomes, ReadsRight,
           NEW c \in DOMAIN ops, ops[c].done = FALSE, NEW y, NEW p, Reads(c, y, p), NEW r, r = ops[c].req,
           KeptRight(r)', AskedRight(c)', GotRight(c)'
    PROVE  ReadsRight'
  <1>0. /\ ObjsTo(r, y) /\ OpsTo(c, p) /\ p.req = r /\ r \in DOMAIN objs
        /\ y.mixed = objs[r].mixed /\ y.turned = objs[r].turned
    BY Kept DEF Reads, Typed
  <1>1. \A q \in DOMAIN objs : q # r => objs'[q] = objs[q]
    BY <1>0 DEF ObjsTo
  <1>2. \A d \in DOMAIN ops : d # c => ops'[d] = ops[d]
    BY <1>0 DEF OpsTo
  <1>3. DOMAIN ops' = DOMAIN ops /\ DOMAIN objs' = DOMAIN objs /\ objs'[r] = y
    BY <1>0 DEF OpsTo, ObjsTo
  <1>4. OneReads
    BY DEF OneReads
  <1>5. ASSUME NEW q \in DOMAIN objs' PROVE KeptRight(q)'
    <2>1. CASE q # r
      <3>1. PICK x : x = objs[q]
        OBVIOUS
      <3>2. q \in DOMAIN objs /\ objs'[q] = x
        BY <1>1, <1>3, <2>1, <3>1
      <3>3. ASSUME x.mixed = FALSE, x.offset # 0
            PROVE  /\ x.cache[1] = x.key /\ (x.cache[2] = x.pc \/ x.turned = TRUE)
                   /\ \E d \in DOMAIN ops' : ReadUpTo(d, q, x.cache, x.offset)'
        <4>1. KeptRight(q)
          BY <3>2 DEF ReadsRight
        <4>2. /\ x.cache[1] = x.key /\ (x.cache[2] = x.pc \/ x.turned = TRUE)
              /\ \E d \in DOMAIN ops : ReadUpTo(d, q, x.cache, x.offset)
          BY <3>1, <3>3, <4>1 DEF KeptRight
        <4>3. PICK d \in DOMAIN ops : ReadUpTo(d, q, x.cache, x.offset)
          BY <4>2
        <4> QED BY <1>4, <4>2, <4>3, UpToKeeps
      <3> QED BY <3>2, <3>3 DEF KeptRight
    <2> QED BY <2>1
  <1>6. ASSUME NEW d \in DOMAIN ops' PROVE AskedRight(d)'
    <2>1. CASE d # c
      <3>1. PICK o : o = ops[d]
        OBVIOUS
      <3>2. d \in DOMAIN ops /\ ops'[d] = o /\ AskedRight(d)
        BY <1>2, <1>3, <2>1, <3>1 DEF ReadsRight
      <3>3. CASE o.req # r
        <4>1. objs'[o.req] = objs[o.req]
          BY <1>1, <3>1, <3>2, <3>3, Kept DEF Typed
        <4> QED BY <3>1, <3>2, <4>1 DEF AskedRight
      <3>4. CASE o.req = r
        <4>1. o.done = FALSE /\ y.mixed = FALSE => c = d
          BY <1>0, <3>1, <3>2, <3>4, LastRead
        <4> QED BY <1>3, <2>1, <3>2, <3>4, <4>1 DEF AskedRight
      <3> QED BY <3>3, <3>4
    <2> QED BY <2>1
  <1>7. ASSUME NEW d \in DOMAIN ops' PROVE GotRight(d)'
    <2>1. CASE d # c
      <3>1. PICK o : o = ops[d]
        OBVIOUS
      <3>2. d \in DOMAIN ops /\ ops'[d] = o /\ GotRight(d) /\ o.req \in DOMAIN objs
        BY <1>2, <1>3, <2>1, <3>1, Kept DEF ReadsRight, Typed
      <3>3. objs'[o.req].mixed = objs[o.req].mixed /\ objs'[o.req].turned = objs[o.req].turned
        BY <1>0, <1>1, <1>3, <3>2
      <3>4. ASSUME o.got # <<>>, objs[o.req].mixed = FALSE, o.got[2] # 0
            PROVE  \E e \in 1 .. d - 1 : ReadUpTo(e, o.req, o.got[1], o.got[2])'
        <4>1. PICK e \in 1 .. d - 1 : ReadUpTo(e, o.req, o.got[1], o.got[2])
          BY <3>1, <3>2, <3>4 DEF GotRight
        <4>2. e \in DOMAIN ops
          <5>1. d \in 1 .. Len(ops) /\ DOMAIN ops = 1 .. Len(ops) /\ Len(ops) \in Nat
            BY <3>2, Kept DEF Typed
          <5> QED BY <5>1
        <4> QED BY <1>4, <4>1, <4>2, UpToKeeps
      <3>5. o.got # <<>> /\ objs[o.req].mixed = FALSE =>
               \/ o.got[1] = GameData(o.key, o.pc)
               \/ objs[o.req].turned = TRUE /\ o.got[1][1] = o.key
        BY <3>1, <3>2 DEF GotRight
      <3> QED BY <3>2, <3>3, <3>4, <3>5 DEF GotRight
    <2> QED BY <2>1
  <1> QED BY <1>5, <1>6, <1>7 DEF ReadsRight

\* Every step keeps reads right.
LEMMA ReadsRightStep ==
    ASSUME Typed, Typed', Kind, Owed, Latest, Outcomes, Unread, ReadsRight
    PROVE  ReadsRight'
  <1>1. ASSUME NEW c \in DOMAIN ops, ops[c].done = FALSE, NEW y, NEW p, Reads(c, y, p) PROVE ReadsRight'
    <2>0. PICK r : r = ops[c].req
      OBVIOUS
    <2>1. PICK x : x = objs[r]
      OBVIOUS
    <2>2. /\ objs'[r] = y /\ ops'[c] = p /\ p.req = r /\ r \in DOMAIN objs
          /\ y.mixed = x.mixed /\ y.turned = x.turned /\ y.pc = x.pc
          /\ DOMAIN ops' = DOMAIN ops
      BY <1>1, <2>0, <2>1, Kept DEF Reads, ObjsTo, OpsTo, Typed
    <2>3. KeptRight(r) /\ AskedRight(c)
      BY <2>2 DEF ReadsRight
    <2>4. CASE AskedFor(c, y, p)
      <3>1. y.offset = 0 /\ p.got = <<>> /\ (p.done = FALSE => p.key = y.key /\ p.pc = y.pc)
        BY <2>4 DEF AskedFor
      <3>2. KeptRight(r)'
        BY <2>2, <3>1 DEF KeptRight
      <3>3. AskedRight(c)'
        BY <2>2, <3>1 DEF AskedRight
      <3>4. GotRight(c)'
        BY <2>2, <3>1 DEF GotRight
      <3> QED BY <1>1, <2>0, <3>2, <3>3, <3>4, OneReadRight
    <2>5. CASE Served(c, y, p, x)
      <3>1. p.done = TRUE /\ y.key = x.key /\ p.key = y.key /\ p.pc = y.pc /\ x.offset # 0
        BY <2>5 DEF Served
      <3>2. PICK start \in Nat, n \in Nat :
                /\ p.got = <<x.cache, start, n>> /\ (start = 0 \/ start = x.offset)
                /\ y.offset = 0 \/ (y.offset = start + n /\ y.cache = x.cache)
        BY <2>5 DEF Served
      <3>3. p.got # <<>> /\ p.got[1] = x.cache /\ p.got[2] = start /\ p.got[3] = n
        BY <3>2
      <3>4. ASSUME x.mixed = FALSE
            PROVE  /\ x.cache[1] = x.key /\ (x.cache[2] = x.pc \/ x.turned = TRUE)
                   /\ \E d \in DOMAIN ops : ReadUpTo(d, r, x.cache, x.offset)
        BY <2>1, <2>3, <3>1, <3>4 DEF KeptRight
      <3>5. x.cache = <<x.cache[1], x.cache[2]>>
        <4>1. x \in Objs
          BY <2>1, <2>2, Kept DEF Typed
        <4>2. x.cache \in Players \X Characters
          BY <4>1 DEF Objs
        <4> QED BY <4>2
      <3>6. KeptRight(r)'
        <4>1. ReadUpTo(c, r, x.cache, start + n)'
          BY <2>2, <3>3 DEF ReadUpTo
        <4>2. ASSUME y.mixed = FALSE, y.offset # 0
              PROVE  /\ y.cache[1] = y.key /\ (y.cache[2] = y.pc \/ y.turned = TRUE)
                     /\ \E d \in DOMAIN ops' : ReadUpTo(d, r, y.cache, y.offset)'
          BY <2>2, <3>1, <3>2, <3>4, <4>1, <4>2
        <4> QED BY <2>2, <4>2 DEF KeptRight
      <3>7. AskedRight(c)'
        BY <2>2, <3>1 DEF AskedRight
      <3>8. GotRight(c)'
        <4>1. ASSUME y.mixed = FALSE
              PROVE  p.got[1] = GameData(p.key, p.pc) \/ (y.turned = TRUE /\ p.got[1][1] = p.key)
          BY <2>2, <3>1, <3>3, <3>4, <3>5, <4>1 DEF GameData
        <4>2. ASSUME y.mixed = FALSE, start # 0
              PROVE  \E d \in 1 .. c - 1 : ReadUpTo(d, r, x.cache, start)'
          <5>1. PICK d \in DOMAIN ops : ReadUpTo(d, r, x.cache, start)
            BY <2>2, <3>2, <3>4, <4>2
          <5>2. d # c /\ ops[d].req = r
            BY <1>1, <5>1 DEF ReadUpTo, Unread
          <5>3. d <= c
            <6>1. objs[r].op = c
              BY <1>1, <2>0, <2>1, <2>2, <4>2, LastRead
            <6> QED BY <5>2, <6>1 DEF Latest
          <5>4. d \in 1 .. c - 1
            <6>1. c \in 1 .. Len(ops) /\ d \in 1 .. Len(ops) /\ Len(ops) \in Nat
              BY Kept DEF Typed
            <6> QED BY <5>2, <5>3, <6>1
          <5>5. OneReads
            BY <1>1 DEF OneReads
          <5> QED BY <5>1, <5>4, <5>5, UpToKeeps
        <4>3. ASSUME y.mixed = FALSE
              PROVE  p.got[2] # 0 => \E d \in 1 .. c - 1 : ReadUpTo(d, r, p.got[1], p.got[2])'
          BY <3>3, <4>2, <4>3
        <4> QED BY <2>2, <4>1, <4>3 DEF GotRight
      <3> QED BY <1>1, <2>0, <3>6, <3>7, <3>8, OneReadRight
    <2>6. CASE Replied(c, y, p, x)
      <3>1. /\ p.done = TRUE /\ y.key = x.key /\ ops[c].key # "" /\ p.key = ops[c].key /\ p.pc = ops[c].pc
        BY <2>6 DEF Replied, SameAsked
      <3>2. PICK n \in Nat : /\ p.got = <<GameData(p.key, p.pc), 0, n>>
                             /\ y.offset = 0 \/ (y.offset = n /\ y.cache = GameData(p.key, p.pc))
        BY <2>6 DEF Replied
      <3>3. /\ p.got # <<>> /\ p.got[1] = GameData(p.key, p.pc) /\ p.got[2] = 0 /\ p.got[3] = n
            /\ GameData(p.key, p.pc)[1] = p.key /\ GameData(p.key, p.pc)[2] = p.pc
        BY <3>2 DEF GameData
      <3>4. x.mixed = FALSE => x.key = p.key /\ (x.pc = p.pc \/ x.turned = TRUE)
        BY <1>1, <2>0, <2>1, <2>3, <3>1 DEF AskedRight
      <3>5. KeptRight(r)'
        <4>1. ReadUpTo(c, r, GameData(p.key, p.pc), n)'
          BY <2>2, <3>3 DEF ReadUpTo
        <4>2. ASSUME y.mixed = FALSE, y.offset # 0
              PROVE  /\ y.cache[1] = y.key /\ (y.cache[2] = y.pc \/ y.turned = TRUE)
                     /\ \E d \in DOMAIN ops' : ReadUpTo(d, r, y.cache, y.offset)'
          BY <2>2, <3>1, <3>2, <3>3, <3>4, <4>1, <4>2
        <4> QED BY <2>2, <4>2 DEF KeptRight
      <3>6. AskedRight(c)'
        BY <2>2, <3>1 DEF AskedRight
      <3>7. GotRight(c)'
        BY <2>2, <3>3 DEF GotRight
      <3> QED BY <1>1, <2>0, <3>5, <3>6, <3>7, OneReadRight
    <2> QED BY <1>1, <2>0, <2>1, <2>4, <2>5, <2>6 DEF Reads
  <1>2. CASE Steady
    BY <1>2, SteadyReads
  <1> QED BY <1>1, <1>2, ReadStep DEF OneReads

-----------------------------------------------------------------------------
(* Blobs.                                                                  *)

\* What a step makes of blobs, if no piece is collected or sent.
BlobsStay ==
    /\ DOMAIN ops \subseteq DOMAIN ops' /\ \A c \in DOMAIN ops : SameBytes(ops'[c], ops[c])
    /\ \A c \in DOMAIN ops' \ DOMAIN ops : ops'[c].blob = <<>>
    /\ DOMAIN objs \subseteq DOMAIN objs' /\ \A r \in DOMAIN objs : SameBlob(objs'[r], objs[r])
    /\ \A r \in DOMAIN objs' \ DOMAIN objs : Blank(objs'[r])

\* A piece is collected, or the last one sent; x is the request before.
Counts(c, p, x, first, total) ==
    \/ x.parts = 0 /\ first = c /\ total = p.total
    \/ x.parts # 0 /\ first = x.first /\ total = x.total
Piece(c, y, p) ==
    /\ ObjsTo(ops[c].req, y) /\ OpsTo(c, p)
    /\ \/ p.blob = ops[c].blob /\ Counts(c, p, objs[ops[c].req], y.first, y.total)
       \/ y.parts = 0 /\ p.blob # <<>> /\ Counts(c, p, objs[ops[c].req], p.blob[2], p.blob[1])
Writing(t) ==
    /\ call[t].pc = "begun" /\ call'[t].pc # "begun"
    /\ \E y, p : Piece(call[t].op, y, p)

\* Nothing happens to any blob.
LEMMA BlobsStayNot ==
    ASSUME objs' = objs, ops' = ops
    PROVE  BlobsStay
  BY DEF BlobsStay, SameBytes, SameBlob

\* An operation goes on that writes nothing.
LEMMA BlobsStayTo ==
    ASSUME Typed, NEW c \in DOMAIN ops, NEW p, OpsTo(c, p), SameBytes(p, ops[c]),
           NEW y, ObjsTo(ops[c].req, y), SameBlob(y, objs[ops[c].req])
    PROVE  BlobsStay
  <1>1. ASSUME NEW d \in DOMAIN ops PROVE SameBytes(ops'[d], ops[d])
    <2>1. CASE d = c
      BY <2>1 DEF OpsTo
    <2>2. CASE d # c
      BY <2>2 DEF OpsTo, SameBytes
    <2> QED BY <2>1, <2>2
  <1>2. ASSUME NEW r \in DOMAIN objs PROVE SameBlob(objs'[r], objs[r])
    <2>1. CASE r = ops[c].req
      BY <2>1 DEF ObjsTo
    <2>2. CASE r # ops[c].req
      BY <2>2 DEF ObjsTo, SameBlob
    <2> QED BY <2>1, <2>2
  <1> QED BY <1>1, <1>2 DEF BlobsStay, OpsTo, ObjsTo

\* That is all a step does to blobs.
LEMMA BlobStep ==
    ASSUME Typed, Kind
    PROVE  BlobsStay \/ \E t \in Threads : Writing(t)
  <1>1. ASSUME Quiet PROVE BlobsStay
    <2>1. ASSUME NEW c \in DOMAIN ops PROVE SameBytes(ops'[c], ops[c])
      BY <1>1 DEF Quiet, OpsMild, MildOp
    <2>2. ASSUME NEW r \in DOMAIN objs PROVE SameBlob(objs'[r], objs[r])
      BY <1>1 DEF Quiet, ObjsMild, MildObj
    <2> QED BY <1>1, <2>1, <2>2 DEF Quiet, ObjsMild, OpsMild, BlobsStay
  <1>2. ASSUME NEW t \in Threads, Begins(t) PROVE BlobsStay
    <2>1. PICK r \in DOMAIN objs, y \in Objs : \E p, z : BegunAs(t, r, y, p, z)
      BY <1>2 DEF Begins
    <2>2. ObjsTo(r, y) /\ SameBlob(y, objs[r]) /\ ops'[Len(ops) + 1].blob = <<>>
      BY <2>1 DEF BegunAs
    <2>3. /\ \A c \in DOMAIN ops : ops'[c] = ops[c]
          /\ DOMAIN ops \subseteq DOMAIN ops'
          /\ \A c \in DOMAIN ops' : c \in DOMAIN ops \/ c = Len(ops) + 1
      <3>1. DOMAIN ops' = 1 .. Len(ops) + 1 /\ \A c \in DOMAIN ops : ops'[c] = ops[c]
        BY <1>2 DEF Begins
      <3>2. DOMAIN ops = 1 .. Len(ops) /\ Len(ops) \in Nat
        BY Kept DEF Typed
      <3> QED BY <3>1, <3>2
    <2>4. ASSUME NEW q \in DOMAIN objs PROVE SameBlob(objs'[q], objs[q])
      <3>1. CASE q = r
        BY <2>2, <3>1 DEF ObjsTo
      <3>2. CASE q # r
        BY <2>2, <3>2 DEF ObjsTo, SameBlob
      <3> QED BY <3>1, <3>2
    <2> QED BY <2>2, <2>3, <2>4 DEF BlobsStay, SameBytes, ObjsTo
  <1>w. ASSUME NEW t \in Threads, call[t].pc = "begun", call'[t].pc # "begun",
               NEW x, NEW o, Plain(t, x, o) \/ Hit(t, x, o) \/ Miss(t, x, o) \/ Part(t, x, o) \/ Whole(t, x, o),
               NEW y, NEW p, SameBlob(y, x), SameBytes(p, o),
               ObjsTo(call[t].req, y), OpsTo(call[t].op, p)
        PROVE  BlobsStay \/ Writing(t)
    <2>0. PICK c : c = call[t].op
      OBVIOUS
    <2>1. c \in DOMAIN ops /\ call[t].req = ops[c].req
      BY <1>w, <2>0, Senders DEF Sending
    <2>2. CASE Plain(t, x, o) \/ Hit(t, x, o) \/ Miss(t, x, o)
      <3>1. SameBlob(x, objs[ops[c].req]) /\ SameBytes(o, ops[c])
        BY <2>0, <2>1, <2>2 DEF Plain, Hit, Miss, SameBlob, SameBytes
      <3>2. SameBlob(y, objs[ops[c].req]) /\ SameBytes(p, ops[c])
        BY <1>w, <3>1 DEF SameBlob, SameBytes
      <3> QED BY <1>w, <2>0, <2>1, <3>2, BlobsStayTo
    <2>3. y.parts = x.parts /\ y.total = x.total /\ y.first = x.first /\ p.total = o.total /\ p.blob = o.blob
      BY <1>w DEF SameBlob, SameBytes
    <2>4. CASE Part(t, x, o)
      <3>1. p.blob = ops[c].blob /\ Counts(c, p, objs[ops[c].req], y.first, y.total)
        BY <2>0, <2>1, <2>3, <2>4 DEF Part, Announcer, Counts
      <3>2. Piece(c, y, p)
        BY <1>w, <2>0, <2>1, <3>1 DEF Piece
      <3> QED BY <1>w, <2>0, <3>2 DEF Writing
    <2>5. CASE Whole(t, x, o)
      <3>1. y.parts = 0 /\ p.blob # <<>> /\ Counts(c, p, objs[ops[c].req], p.blob[2], p.blob[1])
        BY <2>0, <2>1, <2>3, <2>5 DEF Whole, Announcer, Counts
      <3>2. Piece(c, y, p)
        BY <1>w, <2>0, <2>1, <3>1 DEF Piece
      <3> QED BY <1>w, <2>0, <3>2 DEF Writing
    <2> QED BY <1>w, <2>2, <2>4, <2>5
  <1>3. ASSUME NEW t \in Threads, Ended(t) PROVE BlobsStay \/ Writing(t)
    <2>0. call[t].op \in 1 .. MaxOps /\ call[t].pc = "begun" /\ call'[t].pc # "begun"
      BY <1>3, Senders, IdleIs DEF Ended, Sending, CallTo
    <2>1. PICK x, o, y, p :
              /\ Worked(t, x, o) /\ ObjsTo(call[t].req, y) /\ OpsTo(call[t].op, p) /\ p = Finished(o)
              /\ \E what \in {"ok", "failed", "not sent"} : y = SetResult(x, what, call[t].op)
              /\ Plain(t, x, o) \/ Hit(t, x, o) \/ Miss(t, x, o) \/ Part(t, x, o) \/ Whole(t, x, o)
      BY <1>3 DEF Ended
    <2>2. PICK c \in 1 .. MaxOps : c = call[t].op
      BY <2>0
    <2>3. PICK what \in Results : y = SetResult(x, what, c)
      BY <2>1, <2>2 DEF Results
    <2>4. Worked(t, x, o)
      BY <2>1
    <2>5. SameBlob(y, x)
      BY <2>3, <2>4, ResultKeeps
    <2>6. SameBytes(p, o)
      BY <2>1, <2>4, FinishedIs DEF Worked
    <2> QED BY <1>w, <2>0, <2>1, <2>5, <2>6
  <1>4. ASSUME NEW t \in Threads, Dispatched(t) PROVE BlobsStay \/ Writing(t)
    <2>1. PICK x, o, z : /\ ObjsTo(call[t].req, x) /\ OpsTo(call[t].op, o)
                         /\ Plain(t, x, o) \/ Miss(t, x, o) \/ Whole(t, x, o)
                         /\ CallTo(t, z) /\ z.pc = "submit"
      BY <1>4 DEF Dispatched
    <2>2. call[t].pc = "begun" /\ call'[t].pc # "begun"
      BY <1>4, <2>1 DEF Dispatched, CallTo
    <2>3. SameBlob(x, x) /\ SameBytes(o, o)
      BY DEF SameBlob, SameBytes
    <2> QED BY <1>w, <2>1, <2>2, <2>3
  <1>f. ASSUME NEW c \in DOMAIN ops, NEW p, OpsTo(c, p), SameBytes(p, ops[c]), objs' = objs
        PROVE  BlobsStay
    <2>1. ops[c].req \in DOMAIN objs /\ objs \in Seq(Objs)
      BY Kept DEF Typed
    <2>2. ObjsTo(ops[c].req, objs[ops[c].req])
      BY <1>f, <2>1 DEF ObjsTo
    <2> QED BY <1>f, <2>2, BlobsStayTo DEF SameBlob
  <1>g. ASSUME NEW c \in DOMAIN ops, Forgets(c) PROVE BlobsStay
    <2>1. PICK p : OpsTo(c, p) /\ SameBytes(p, ops[c])
      BY <1>g DEF Forgets
    <2>2. objs' = objs
      BY <1>g DEF Forgets
    <2> QED BY <1>f, <2>1, <2>2
  <1>5. ASSUME NEW t \in Threads, Dropped(t) PROVE BlobsStay
    <2>1. call[t].op \in DOMAIN ops /\ Forgets(call[t].op)
      BY <1>5, Senders DEF Dropped, Sending
    <2> QED BY <1>g, <2>1
  <1>6. ASSUME NEW t \in Threads, Registered(t) PROVE BlobsStay
    <2>1. call[t].op \in DOMAIN ops /\ (Forgets(call[t].op) \/ UNCHANGED <<objs, ops>>)
      BY <1>6, Senders DEF Registered, Entered, Sending
    <2> QED BY <1>g, <2>1, BlobsStayNot
  <1>7. ASSUME NEW p \in inFlight, Answered(p) PROVE BlobsStay
    <2>1. ASSUME NEW e \in pending, Taken(e), objs' = objs PROVE BlobsStay
      <3>1. e.op \in DOMAIN ops
        BY Known
      <3>2. PICK q : OpsTo(e.op, q) /\ SameBytes(q, ops[e.op])
        BY <2>1 DEF Taken
      <3>3. PICK c : c = e.op
        OBVIOUS
      <3> QED BY <1>f, <2>1, <3>1, <3>2, <3>3
    <2> QED BY <1>7, <2>1, BlobsStayNot DEF Answered
  <1>8. ASSUME Completed PROVE BlobsStay
    <2>0. PICK c : c = reader
      OBVIOUS
    <2>1. c \in DOMAIN ops
      BY <1>8, <2>0, Read DEF Completed
    <2>2. PICK y \in Objs, p \in OpRecs :
              ObjsTo(ops[c].req, y) /\ OpsTo(c, p) /\ Filled(objs[ops[c].req], ops[c], y, p)
      BY <1>8, <2>0 DEF Completed
    <2>3. SameBlob(y, objs[ops[c].req]) /\ SameBytes(p, ops[c])
      BY <2>2 DEF Filled
    <2> QED BY <2>1, <2>2, <2>3, BlobsStayTo
  <1>9. ASSUME Failed PROVE BlobsStay
    <2>1. /\ DOMAIN objs' = DOMAIN objs /\ \A r \in DOMAIN objs : FailsObj(r, objs'[r])
          /\ DOMAIN ops' = DOMAIN ops /\ \A c \in DOMAIN ops : FailsOp(c, ops'[c])
      BY <1>9 DEF Failed
    <2>2. ASSUME NEW c \in DOMAIN ops PROVE SameBytes(ops'[c], ops[c])
      BY <2>1 DEF FailsOp, SameBytes
    <2>3. ASSUME NEW r \in DOMAIN objs PROVE SameBlob(objs'[r], objs[r])
      BY <2>1 DEF FailsObj
    <2> QED BY <2>1, <2>2, <2>3 DEF BlobsStay
  <1>10. ASSUME SessionOnly PROVE BlobsStay
    BY <1>10, SessionAlone, BlobsStayNot
  <1>11. ASSUME NEW t \in Threads, Submitted(t) PROVE BlobsStay
    BY <1>11, BlobsStayNot DEF Submitted
  <1> QED BY <1>1, <1>2, <1>3, <1>4, <1>5, <1>6, <1>7, <1>8, <1>9, <1>10, <1>11 DEF Kind

\* What is settled stays so, and with it the total that was announced.
LEMMA SettledStays ==
    ASSUME Typed, Kind, NEW c, Settled(c)
    PROVE  Settled(c)' /\ ops'[c].total = ops[c].total
  <1>0. c \in DOMAIN ops /\ c \in DOMAIN ops'
    BY OpsStep DEF Settled, OpsGrow
  <1>1. \A t \in Threads : call'[t].pc = "begun" => call'[t].op # c
    BY <1>0, BegunSame DEF Settled
  <1>2. ops'[c].total = ops[c].total
    <2>1. CASE BlobsStay
      BY <1>0, <2>1 DEF BlobsStay, SameBytes
    <2>2. ASSUME NEW t \in Threads, Writing(t) PROVE ops'[c].total = ops[c].total
      <3>1. call[t].op # c
        BY <2>2 DEF Settled, Writing
      <3>2. PICK p : OpsTo(call[t].op, p)
        BY <2>2 DEF Writing, Piece
      <3> QED BY <1>0, <3>1, <3>2 DEF OpsTo
    <2> QED BY <2>1, <2>2, BlobStep
  <1> QED BY <1>0, <1>1, <1>2 DEF Settled

\* The total a step measures a blob against was announced by the first piece.
LEMMA CountsRight ==
    ASSUME Typed, Kind, OnePlace, Blobs, NEW t \in Threads, call[t].pc = "begun", call'[t].pc # "begun",
           NEW p, OpsTo(call[t].op, p), NEW f, NEW n, Counts(call[t].op, p, objs[ops[call[t].op].req], f, n)
    PROVE  Settled(f)' /\ n = ops'[f].total
  <1> DEFINE c == call[t].op
             x == objs[ops[c].req]
  <1>1. c \in DOMAIN ops /\ ops[c].req \in DOMAIN objs /\ c # 0
    BY Senders, Kept, Known DEF Sending, Typed
  <1>2. CASE x.parts = 0 /\ f = c /\ n = p.total
    <2>1. c \in DOMAIN ops' /\ DOMAIN ops' = DOMAIN ops /\ ops'[c] = p
      BY <1>1 DEF OpsTo
    <2>2. ASSUME NEW u \in Threads, call'[u].pc = "begun", call'[u].op = c PROVE FALSE
      <3>1. call'[u] = call[u]
        BY <1>1, <2>1, <2>2, BegunSame
      <3>2. u = t
        BY <1>1, <2>2, <3>1 DEF OnePlace
      <3> QED BY <2>2, <3>2
    <2> QED BY <1>2, <2>1, <2>2 DEF Settled
  <1>3. CASE x.parts # 0 /\ f = x.first /\ n = x.total
    <2>1. Settled(f) /\ n = ops[f].total
      BY <1>1, <1>3 DEF Blobs
    <2> QED BY <2>1, SettledStays
  <1> QED BY <1>2, <1>3 DEF Counts

\* Every step keeps blobs whole.
LEMMA BlobsRightStep ==
    ASSUME Typed, Kind, OnePlace, Blobs
    PROVE  Blobs'
  <1>r. ASSUME NEW r \in DOMAIN objs, NEW x, SameBlob(x, objs[r]), x.parts # 0
        PROVE  Settled(x.first)' /\ x.total = ops'[x.first].total
    <2>1. PICK d : d = x.first
      OBVIOUS
    <2>2. Settled(d) /\ x.total = ops[d].total
      BY <1>r, <2>1 DEF Blobs, SameBlob
    <2> QED BY <2>1, <2>2, SettledStays
  <1>c. ASSUME NEW c \in DOMAIN ops, NEW p, p.blob = ops[c].blob, p.blob # <<>>
        PROVE  Settled(p.blob[2])' /\ p.blob[1] = ops'[p.blob[2]].total
    <2>1. PICK d : d = p.blob[2]
      OBVIOUS
    <2>2. Settled(d) /\ p.blob[1] = ops[d].total
      BY <1>c, <2>1 DEF Blobs
    <2> QED BY <2>1, <2>2, SettledStays
  <1>1. CASE BlobsStay
    <2>1. ASSUME NEW r \in DOMAIN objs', NEW x, x = objs'[r], x.parts # 0
          PROVE  Settled(x.first)' /\ x.total = ops'[x.first].total
      <3>1. r \in DOMAIN objs /\ SameBlob(x, objs[r])
        BY <1>1, <2>1 DEF BlobsStay, Blank
      <3> QED BY <1>r, <2>1, <3>1
    <2>2. ASSUME NEW c \in DOMAIN ops', NEW p, p = ops'[c], p.blob # <<>>
          PROVE  Settled(p.blob[2])' /\ p.blob[1] = ops'[p.blob[2]].total
      <3>1. c \in DOMAIN ops /\ p.blob = ops[c].blob
        BY <1>1, <2>2 DEF BlobsStay, SameBytes
      <3> QED BY <1>c, <2>2, <3>1
    <2> QED BY <2>1, <2>2 DEF Blobs
  <1>2. ASSUME NEW t \in Threads, Writing(t) PROVE Blobs'
    <2>1. PICK c : c = call[t].op
      OBVIOUS
    <2>2. PICK y, p : Piece(c, y, p)
      BY <1>2, <2>1 DEF Writing
    <2>3. PICK x : x = objs[ops[c].req]
      OBVIOUS
    <2>4. /\ ObjsTo(ops[c].req, y) /\ OpsTo(c, p) /\ c \in DOMAIN ops /\ ops[c].req \in DOMAIN objs
          /\ \/ p.blob = ops[c].blob /\ Counts(c, p, x, y.first, y.total)
             \/ y.parts = 0 /\ p.blob # <<>> /\ Counts(c, p, x, p.blob[2], p.blob[1])
      BY <1>2, <2>1, <2>2, <2>3, Senders, Kept DEF Piece, Writing, Sending, Typed
    <2>5. call[t].pc = "begun" /\ call'[t].pc # "begun"
      BY <1>2 DEF Writing
    <2>c. ASSUME NEW first, NEW total, Counts(c, p, x, first, total)
          PROVE  Settled(first)' /\ total = ops'[first].total
      <3>1. OpsTo(call[t].op, p) /\ Counts(call[t].op, p, objs[ops[call[t].op].req], first, total)
        BY <2>1, <2>3, <2>4, <2>c
      <3> QED BY <2>5, <3>1, CountsRight
    <2>6. ASSUME y.parts # 0 PROVE Settled(y.first)' /\ y.total = ops'[y.first].total
      <3>1. PICK first, total : first = y.first /\ total = y.total
        OBVIOUS
      <3>2. Counts(c, p, x, first, total)
        BY <2>4, <2>6, <3>1
      <3> QED BY <2>c, <3>1, <3>2
    <2>7. ASSUME p.blob # <<>> PROVE Settled(p.blob[2])' /\ p.blob[1] = ops'[p.blob[2]].total
      <3>1. CASE p.blob = ops[c].blob
        BY <1>c, <2>4, <2>7, <3>1
      <3>2. ASSUME Counts(c, p, x, p.blob[2], p.blob[1])
            PROVE  Settled(p.blob[2])' /\ p.blob[1] = ops'[p.blob[2]].total
        <4>1. PICK first, total : first = p.blob[2] /\ total = p.blob[1]
          OBVIOUS
        <4> QED BY <2>c, <3>2, <4>1
      <3> QED BY <2>4, <3>1, <3>2
    <2>8. ASSUME NEW r \in DOMAIN objs', NEW z, z = objs'[r], z.parts # 0
          PROVE  Settled(z.first)' /\ z.total = ops'[z.first].total
      <3>1. CASE r = ops[c].req
        BY <2>4, <2>6, <2>8, <3>1 DEF ObjsTo
      <3>2. CASE r # ops[c].req
        <4>1. r \in DOMAIN objs /\ SameBlob(z, objs[r])
          BY <2>4, <2>8, <3>2 DEF ObjsTo, SameBlob
        <4> QED BY <1>r, <2>8, <4>1
      <3> QED BY <3>1, <3>2
    <2>9. ASSUME NEW d \in DOMAIN ops', NEW q, q = ops'[d], q.blob # <<>>
          PROVE  Settled(q.blob[2])' /\ q.blob[1] = ops'[q.blob[2]].total
      <3>1. CASE d = c
        BY <2>4, <2>7, <2>9, <3>1 DEF OpsTo
      <3>2. CASE d # c
        <4>1. d \in DOMAIN ops /\ q.blob = ops[d].blob
          BY <2>4, <2>9, <3>2 DEF OpsTo
        <4> QED BY <1>c, <2>9, <4>1
      <3> QED BY <3>1, <3>2
    <2> QED BY <2>8, <2>9 DEF Blobs
  <1> QED BY <1>1, <1>2, BlobStep

-----------------------------------------------------------------------------
(* Arrays that fit.                                                        *)

\* An operation goes on as it was asked.
LEMMA FitsTo ==
    ASSUME Fitting, NEW c \in DOMAIN ops, NEW p, OpsTo(c, p), p.fits = ops[c].fits
    PROVE  Fitting'
  BY DEF Fitting, OpsTo

\* Every operation that is begun has arrays that fit its reply, and no step takes them from it.
LEMMA FittingStep ==
    ASSUME Typed, Kind, Fitting
    PROVE  Fitting'
  <1>1. ASSUME Quiet PROVE Fitting'
    <2>1. DOMAIN ops' = DOMAIN ops /\ \A c \in DOMAIN ops : ops'[c].fits = ops[c].fits
      BY <1>1 DEF Quiet, OpsMild, MildOp, SameOrigin
    <2> QED BY <2>1 DEF Fitting
  <1>2. ASSUME NEW t \in Threads, Begins(t) PROVE Fitting'
    <2>1. PICK r \in DOMAIN objs, y \in Objs : \E p, z : BegunAs(t, r, y, p, z)
      BY <1>2 DEF Begins
    <2>2. ops'[Len(ops) + 1].fits = TRUE
      BY <2>1 DEF BegunAs
    <2>3. DOMAIN ops' = 1 .. Len(ops) + 1 /\ \A c \in DOMAIN ops : ops'[c] = ops[c]
      BY <1>2 DEF Begins
    <2>4. DOMAIN ops = 1 .. Len(ops) /\ Len(ops) \in Nat
      BY Kept DEF Typed
    <2>5. \A c \in DOMAIN ops' : c \in DOMAIN ops \/ c = Len(ops) + 1
      BY <2>3, <2>4
    <2> QED BY <2>2, <2>3, <2>5 DEF Fitting
  <1>3. ASSUME NEW t \in Threads, Ended(t) PROVE Fitting'
    <2>1. call[t].op \in DOMAIN ops
      BY <1>3, Senders DEF Ended, Sending
    <2>2. PICK x, o, p : Worked(t, x, o) /\ OpsTo(call[t].op, p) /\ p = Finished(o)
      BY <1>3 DEF Ended
    <2>3. p.fits = ops[call[t].op].fits
      BY <2>2, FinishedIs DEF Worked, SameOrigin
    <2> QED BY <2>1, <2>2, <2>3, FitsTo
  <1>4. ASSUME NEW t \in Threads, Dispatched(t) PROVE Fitting'
    <2>1. call[t].op \in DOMAIN ops
      BY <1>4, Senders DEF Dispatched, Sending
    <2>2. PICK x, o : Worked(t, x, o) /\ OpsTo(call[t].op, o)
      BY <1>4 DEF Dispatched
    <2>3. o.fits = ops[call[t].op].fits
      BY <2>2 DEF Worked, SameOrigin
    <2> QED BY <2>1, <2>2, <2>3, FitsTo
  <1>g. ASSUME NEW c \in DOMAIN ops, Forgets(c) PROVE Fitting'
    <2>1. PICK p : OpsTo(c, p) /\ p.fits = ops[c].fits
      BY <1>g DEF Forgets, SameOrigin
    <2> QED BY <2>1, FitsTo
  <1>5. ASSUME NEW t \in Threads, Dropped(t) PROVE Fitting'
    <2>1. call[t].op \in DOMAIN ops /\ Forgets(call[t].op)
      BY <1>5, Senders DEF Dropped, Sending
    <2> QED BY <1>g, <2>1
  <1>6. ASSUME NEW t \in Threads, Registered(t) PROVE Fitting'
    <2>1. call[t].op \in DOMAIN ops /\ (Forgets(call[t].op) \/ ops' = ops)
      BY <1>6, Senders DEF Registered, Entered, Sending
    <2> QED BY <1>g, <2>1 DEF Fitting
  <1>7. ASSUME NEW p \in inFlight, Answered(p) PROVE Fitting'
    <2>1. ASSUME NEW e \in pending, Taken(e) PROVE Fitting'
      <3>1. e.op \in DOMAIN ops
        BY Known
      <3>2. PICK q : OpsTo(e.op, q) /\ q.fits = ops[e.op].fits
        BY <2>1 DEF Taken, SameOrigin
      <3> QED BY <3>1, <3>2, FitsTo
    <2> QED BY <1>7, <2>1 DEF Answered, Fitting
  <1>8. ASSUME Completed PROVE Fitting'
    <2>1. reader \in DOMAIN ops
      BY <1>8, Read DEF Completed
    <2>2. PICK y \in Objs, p \in OpRecs :
              OpsTo(reader, p) /\ Filled(objs[ops[reader].req], ops[reader], y, p)
      BY <1>8 DEF Completed
    <2>3. p.fits = ops[reader].fits
      BY <2>2 DEF Filled, SameOrigin
    <2> QED BY <2>1, <2>2, <2>3, FitsTo
  <1>9. ASSUME Failed PROVE Fitting'
    <2>1. DOMAIN ops' = DOMAIN ops /\ \A c \in DOMAIN ops : FailsOp(c, ops'[c])
      BY <1>9 DEF Failed
    <2>2. \A c \in DOMAIN ops : ops'[c].fits = ops[c].fits
      BY <2>1 DEF FailsOp, SameOrigin
    <2> QED BY <2>1, <2>2 DEF Fitting
  <1>10. ASSUME SessionOnly PROVE Fitting'
    BY <1>10, SessionAlone DEF Fitting
  <1>11. ASSUME NEW t \in Threads, Submitted(t) PROVE Fitting'
    BY <1>11 DEF Submitted, Fitting
  <1> QED BY <1>1, <1>2, <1>3, <1>4, <1>5, <1>6, <1>7, <1>8, <1>9, <1>10, <1>11 DEF Kind

-----------------------------------------------------------------------------
(* The invariant, and what follows from it.                                *)

\* It holds at the start: nothing was begun.
LEMMA IInvInit == Init => IInv
  <1> SUFFICES ASSUME Init PROVE IInv
    OBVIOUS
  <1>1. Typed
    BY TypeInit
  <1>2. DOMAIN objs = {} /\ DOMAIN ops = {} /\ pending = {} /\ reader = 0
    BY DEF Init
  <1>3. \A t \in Threads : call[t].pc = "idle" /\ call[t].op = 0
    BY IdleIs DEF Init, Resting
  <1>4. OnePlace /\ Owed /\ Numbered /\ Expectable /\ Underway
    BY <1>2, <1>3 DEF OnePlace, Owed, Numbered, Expectable, Underway
  <1>5. Latest /\ Outcomes /\ Unread /\ ReadsRight /\ Blobs /\ Fitting
    BY <1>2, <1>3 DEF Latest, Outcomes, Unread, ReadsRight, Blobs, Fitting
  <1> QED BY <1>1, <1>4, <1>5 DEF IInv

\* Every step keeps it.
LEMMA IInvStep ==
    ASSUME IInv, [Next]_vars
    PROVE  IInv' /\ Kind
  <1>1. /\ Typed /\ OnePlace /\ Owed /\ Numbered /\ Expectable /\ Underway
        /\ Latest /\ Outcomes /\ Unread /\ ReadsRight /\ Blobs /\ Fitting
    BY DEF IInv
  <1>2. Kind /\ Typed'
    BY <1>1, EveryStep, TypeStep
  <1>3. OnePlace' /\ Owed'
    BY <1>1, <1>2, OnePlaceStep, OwedStep
  <1>4. Numbered' /\ Expectable' /\ Underway'
    BY <1>1, <1>2, NumberedStep, ExpectableStep, UnderwayStep
  <1>5. Latest' /\ Outcomes'
    BY <1>1, <1>2, LatestStep, OutcomesStep
  <1>6. Unread' /\ ReadsRight'
    BY <1>1, <1>2, <1>3, UnreadStep, ReadsRightStep
  <1>7. Blobs' /\ Fitting'
    BY <1>1, <1>2, BlobsRightStep, FittingStep
  <1> QED BY <1>2, <1>3, <1>4, <1>5, <1>6, <1>7 DEF IInv

\* It holds in every state.
LEMMA IInvHolds == Spec => []IInv
  <1>1. IInv /\ [Next]_vars => IInv'
    BY IInvStep
  <1> QED BY <1>1, IInvInit, PTL DEF Spec

\* ScoreRequestCtx's result is set for every operation, by the reply, by the call itself
\* or by a sign-out, except in the four cases that are named: at every other moment there is
\* a thread, an entry of m_pending_score that will still be answered or failed, or the
\* reader, to set it.
THEOREM UnansweredIsExplainedHolds == Spec => []UnansweredIsExplained
  <1>1. ASSUME IInv, NEW c \in DOMAIN ops
        PROVE  IF ops[c].done
               THEN objs[ops[c].req].op = c => objs[ops[c].req].result # "unset"
               ELSE \/ ops[c].lost # "no"
                    \/ reader = c
                    \/ \E t \in Threads : call[t].op = c
                    \/ \E e \in pending :
                         e.op = c /\ e.session = last /\ StillExpected(e.pkt)
    <2>1. ops[c] \in OpRecs
      BY <1>1, Kept DEF IInv, Typed
    <2>2. ops[c].done \in BOOLEAN
      BY <2>1 DEF OpRecs
    <2>3. CASE ops[c].done = TRUE
      <3>1. Finds(ops[c], c, objs[ops[c].req])
        BY <1>1 DEF IInv, Outcomes
      <3> QED BY <2>3, <3>1 DEF Finds
    <2>4. CASE ops[c].done = FALSE
      <3>1. ops[c].lost = "no" => ToCome(c)
        BY <1>1, <2>4 DEF IInv, Owed, OwedOne
      <3>2. ASSUME ops[c].lost = "no", NEW e \in pending, e.op = c
            PROVE  e.session = last /\ StillExpected(e.pkt)
        BY <1>1, <3>2 DEF IInv, Expectable
      <3> QED BY <2>4, <3>1, <3>2 DEF ToCome
    <2> QED BY <2>2, <2>3, <2>4
  <1>2. IInv => UnansweredIsExplained
    BY <1>1 DEF UnansweredIsExplained
  <1> QED BY <1>2, IInvHolds, PTL

\* The result a request has is of the operation begun last, no buffer is filled after the
\* game was told the outcome, and every reply fits the arrays it fills, but for what the
\* game does itself: it aborts the request, or begins an operation over another.
THEOREM RepliesAreOwnHolds == Spec => []RepliesAreOwn
  <1>1. ASSUME IInv PROVE AnswerIsOwn
    BY <1>1 DEF IInv, Outcomes, AnswerIsOwn
  <1>2. ASSUME IInv PROVE SpoiltIsExplained
    <2>1. ASSUME NEW c \in DOMAIN ops, ops[c].spoilt
          PROVE  objs[ops[c].req].result = "aborted" \/ objs[ops[c].req].mixed
      <3>1. ops[c] \in OpRecs
        BY <1>2, Kept DEF IInv, Typed
      <3>2. ops[c].spoilt = TRUE
        BY <2>1, <3>1 DEF OpRecs
      <3>3. Finds(ops[c], c, objs[ops[c].req])
        BY <1>2 DEF IInv, Outcomes
      <3> QED BY <3>2, <3>3 DEF Finds
    <2> QED BY <2>1 DEF SpoiltIsExplained
  <1>3. ASSUME IInv PROVE RepliesFit
    BY <1>3 DEF IInv, Fitting, RepliesFit
  <1>4. IInv => RepliesAreOwn
    BY <1>1, <1>2, <1>3 DEF IInv, Typed, RepliesAreOwn
  <1> QED BY <1>4, IInvHolds, PTL

\* What GetGameData reads in parts is one player's data, in order, and what RecordGameData
\* sends has the size that was announced, whichever way reads, writes, replies and
\* sign-outs follow on each other.
THEOREM GameDataIsWholeHolds == Spec => []GameDataIsWhole
  <1>1. ASSUME IInv PROVE ReadsGoOn
    <2>1. ASSUME NEW c \in DOMAIN ops, NEW x, x = objs[ops[c].req],
                 ops[c].got # <<>>, ~x.mixed
          PROVE  /\ ops[c].got[1] = GameData(ops[c].key, ops[c].pc) \/ (x.turned /\ ops[c].got[1][1] = ops[c].key)
                 /\ ops[c].got[2] # 0 =>
                      \E d \in 1 .. c - 1 :
                         /\ ops[d].req = ops[c].req /\ ops[d].got # <<>>
                         /\ ops[d].got[1] = ops[c].got[1]
                         /\ ops[d].got[2] + ops[d].got[3] = ops[c].got[2]
      <3>1. x \in Objs
        BY <1>1, <2>1, Kept DEF IInv, Typed, TypeOK
      <3>2. x.mixed = FALSE
        BY <2>1, <3>1 DEF Objs
      <3>3. GotRight(c)
        BY <1>1 DEF IInv, ReadsRight
      <3>4. /\ \/ ops[c].got[1] = GameData(ops[c].key, ops[c].pc)
               \/ x.turned = TRUE /\ ops[c].got[1][1] = ops[c].key
            /\ ops[c].got[2] # 0 =>
                 \E d \in 1 .. c - 1 : ReadUpTo(d, ops[c].req, ops[c].got[1], ops[c].got[2])
        BY <2>1, <3>2, <3>3 DEF GotRight
      <3> QED BY <3>4 DEF ReadUpTo
    <2> QED BY <2>1 DEF ReadsGoOn
  <1>2. ASSUME IInv PROVE BlobIsWhole
    BY <1>2 DEF IInv, Blobs, BlobIsWhole
  <1>3. IInv => GameDataIsWhole
    BY <1>1, <1>2 DEF GameDataIsWhole
  <1> QED BY <1>3, IInvHolds, PTL

\* BeginOp refuses a request that was aborted and SetResult keeps the first result: what an
\* abort left no step changes.
THEOREM AbortSticksHolds == Spec => AbortSticks
  <1>1. ASSUME IInv, [Next]_vars, NEW r \in DOMAIN objs, objs[r].result = "aborted"
        PROVE  objs'[r].result = "aborted" /\ objs'[r].op = objs[r].op
    <2>1. Typed /\ Kind /\ Owed
      BY <1>1, IInvStep DEF IInv
    <2>2. CASE Settles
      <3>1. ObjSettles(r)
        BY <2>2 DEF Settles
      <3> QED BY <1>1, <3>1 DEF ObjSettles, SameTurn, SameResult
    <2>3. ASSUME NEW t \in Threads, Begins(t) PROVE objs'[r] = objs[r]
      <3>1. PICK q \in DOMAIN objs, y \in Objs : \E p, z : BegunAs(t, q, y, p, z)
        BY <2>3 DEF Begins
      <3>2. ObjsTo(q, y) /\ objs[q].result # "aborted"
        BY <3>1 DEF BegunAs
      <3> QED BY <1>1, <3>2 DEF ObjsTo
    <2> QED BY <1>1, <2>1, <2>2, <2>3, SettleStep
  <1>2. IInv /\ [Next]_vars =>
          [\A r \in DOMAIN objs : objs[r].result = "aborted" =>
              objs'[r].result = "aborted" /\ objs'[r].op = objs[r].op]_vars
    BY <1>1
  <1> QED BY <1>2, IInvHolds, PTL DEF Spec, AbortSticks
=============================================================================
