------------------------------ MODULE Tus_Proofs ------------------------------
(***************************************************************************)
(* What the run of MCTus checks of Tus on two threads and one request is   *)
(* proved here for every number of threads, requests, sessions and chunks, *)
(* and every game.                                                         *)
(***************************************************************************)
EXTENDS Tus, TLAPS

-----------------------------------------------------------------------------
(* The inductive invariant, in parts.                                      *)

\* What a thread carries, by how far it has come
Stage(x) ==
    /\ x.pc \in {"submit", "register", "wait"} => x.ctx \in 1 .. Len(ctxs)
    /\ x.pc \in {"submit", "register"} => x.session \in 1 .. last
    /\ x.pc = "register" => x.pkt \in 1 .. counter[x.session]
    /\ x.pc # "start" => x.read = <<>> /\ x.blob = <<>>

\* What a session's end leaves, and that every entry is of a packet that was sent
SessionEnds ==
    /\ task # "none" => session = 0
    /\ session = 0 /\ task # "stop" => ~up /\ inFlight = {}
Sessioned ==
    /\ SessionEnds
    /\ \A e \in pending : e.session \in 1 .. last /\ e.pkt \in 1 .. counter[e.session]

Typed == TypeOK /\ Sessioned /\ \A t \in Threads : Stage(call[t])

-----------------------------------------------------------------------------
\* A thread is about to send operation c, or to register it.
Sending(x, c) == x.pc \in {"submit", "register"} /\ x.ctx = c

\* Who will complete an operation: a thread, an entry, or the reader, and one of them only
OnePlace ==
    /\ \A t, u \in Threads :
         Sending(call[t], call[t].ctx) /\ Sending(call[u], call[t].ctx) => t = u
    /\ \A e, f \in pending : e.ctx = f.ctx => e = f
    /\ \A t \in Threads, e \in pending : ~Sending(call[t], e.ctx)
    /\ \A t \in Threads : ~Sending(call[t], reader)
    /\ \A e \in pending : e.ctx # reader

ToCome(c) ==
    \/ reader = c
    \/ \E t \in Threads : Sending(call[t], c)
    \/ \E e \in pending : e.ctx = c

\* A number goes to one packet of a session.
Numbered ==
    /\ \A t, u \in Threads :
         call[t].pc = "register" /\ call[u].pc = "register" /\ call[t].session = call[u].session
           /\ call[t].pkt = call[u].pkt => t = u
    /\ \A t \in Threads, e \in pending :
         call[t].pc = "register" /\ call[t].session = e.session => call[t].pkt # e.pkt

\* An operation that is waiting and was not forgotten will be completed.
Answerable == \A c \in DOMAIN ctxs : ctxs[c].result = "unset" /\ ctxs[c].lost = "no" => ToCome(c)

\* An entry that was not forgotten is of the newest session, and expected.
Expectable == \A e \in pending : ctxs[e.ctx].lost = "no" => e.session = last /\ StillExpected(e.pkt)

\* What is being registered is on its way while the session lasts, or was overtaken.
Underway ==
    \A t \in Threads :
        call[t].pc = "register" /\ call[t].session = last /\ up => call[t].pkt \in inFlight \cup missed

\* What got another's reply was forgotten.
Misled == \A c \in DOMAIN ctxs : ctxs[c].wrong = TRUE => ctxs[c].lost # "no"

\* Before its reply is here, only an abort gives an operation its result; the game is told
\* no sooner than there is one.
Results ==
    \A c \in DOMAIN ctxs :
        /\ ToCome(c) => ctxs[c].result \in {"unset", "aborted"}
        /\ ctxs[c].owned = FALSE => ctxs[c].result # "unset"
        /\ ctxs[c].spoilt = TRUE => ctxs[c].result = "aborted"

-----------------------------------------------------------------------------
\* A transfer has a number of its own, and a chunk that was claimed lies before its offset.
Serials ==
    /\ \A r \in DOMAIN requests :
         /\ requests[r].xfer.serial <= begun
         /\ requests[r].xfer.active => requests[r].xfer.serial # 0
    /\ \A q, r \in DOMAIN requests :
         requests[q].xfer.active /\ requests[q].xfer.serial = requests[r].xfer.serial => q = r

Claimed(x) ==
    x # <<>> =>
        /\ x[1] <= begun
        /\ \A r \in DOMAIN requests :
             requests[r].xfer.active /\ requests[r].xfer.serial = x[1] => x[2] < requests[r].xfer.received

Claims ==
    /\ \A t \in Threads : Claimed(call[t].read)
    /\ \A c \in DOMAIN ctxs : Claimed(ctxs[c].read)
    /\ \A t, u \in Threads : t # u /\ call[t].read # <<>> => call[t].read # call[u].read
    /\ \A t \in Threads, c \in DOMAIN ctxs : call[t].read # <<>> => call[t].read # ctxs[c].read
    /\ EachChunkOnce

\* The chunks that are put together are for one target.
Uniform(b) == \A i, j \in DOMAIN b : b[i] = b[j]
AllFor(parts, owner) == \A i \in DOMAIN parts : parts[i] = owner
Blobs ==
    /\ \A r \in DOMAIN requests : AllFor(requests[r].xfer.parts, requests[r].xfer.owner)
    /\ \A t \in Threads : Uniform(call[t].blob)
    /\ \A c \in DOMAIN ctxs : Uniform(ctxs[c].blob)

\* Every operation asks for what it is owed, and keeps it.
Fitting == \A c \in DOMAIN ctxs : ctxs[c].fits = TRUE /\ ctxs[c].astray = FALSE

IInv == Typed /\ OnePlace /\ Numbered /\ Answerable /\ Expectable /\ Underway
          /\ Misled /\ Results /\ Serials /\ Claims /\ Blobs /\ Fitting

-----------------------------------------------------------------------------
(* The tables, and sequences.                                              *)

\* What every call of the library must have: an array that is filled is of the size its
\* length implies, and a virtual user has a name.
Checked(a) ==
    /\ a.command.fills => "size" \in a.checks
    /\ a.by = "virtual" => "vuser" \in a.checks
    /\ a.command.transfer \in {"none", "read", "write"}
    /\ a.command.transfer = "write" => a.by \in {"account", "user", "virtual"}
    /\ a.by \in {"account", "user", "virtual", "friends", "title"}

\* Every call of the library turns that down, or has it.
LEMMA AllChecked == \A a \in Apis : Checked(a)
  <1> USE DEF Checked, Call, Command, SlotArray, OneSlot, Array, Sized, Named, Compared, Chunk,
              Friends, Ranked, GetMultiSlotVariable, SetMultiSlotVariable, TssGetDataCommand, GetData,
              DeleteMultiSlotData, DeleteMultiSlotVariable, GetMultiUserDataStatus,
              GetMultiUserVariable, TryAndSetVariable, AddAndGetVariable, GetFriendsDataStatus,
              GetFriendsVariable, GetMultiSlotDataStatus, SetData
  <1>1. Checked(TusGetMultiSlotVariable) /\ Checked(TusSetMultiSlotVariable) /\
       Checked(TusGetMultiSlotVariableAVUser) /\ Checked(TusSetMultiSlotVariableVUser) /\
       Checked(TusSetMultiSlotVariableA) /\ Checked(TusGetMultiSlotVariableA) /\
       Checked(TusGetDataA) /\ Checked(TusSetDataA) /\ Checked(TusGetDataAVUser)
    BY DEF TusGetMultiSlotVariable, TusSetMultiSlotVariable, TusGetMultiSlotVariableAVUser,
           TusSetMultiSlotVariableVUser, TusSetMultiSlotVariableA, TusGetMultiSlotVariableA,
           TusGetDataA, TusSetDataA, TusGetDataAVUser
  <1>2. Checked(TusSetDataAVUser) /\ Checked(TusAddAndGetVariable) /\
       Checked(TusAddAndGetVariableVUser) /\ Checked(TusGetData) /\ Checked(TusGetDataVUser)
       /\ Checked(TusGetFriendsDataStatus) /\ Checked(TusGetFriendsVariable) /\
       Checked(TusGetMultiSlotDataStatus) /\ Checked(TusGetMultiSlotDataStatusVUser)
    BY DEF TusSetDataAVUser, TusAddAndGetVariable, TusAddAndGetVariableVUser, TusGetData,
           TusGetDataVUser, TusGetFriendsDataStatus, TusGetFriendsVariable,
           TusGetMultiSlotDataStatus, TusGetMultiSlotDataStatusVUser
  <1>3. Checked(TusSetData) /\ Checked(TusSetDataVUser) /\ Checked(TusTryAndSetVariable) /\
       Checked(TusTryAndSetVariableVUser) /\ Checked(TusAddAndGetVariableA) /\
       Checked(TusAddAndGetVariableAVUser) /\ Checked(TusDeleteMultiSlotData) /\
       Checked(TusDeleteMultiSlotDataVUser) /\ Checked(TusDeleteMultiSlotVariable)
    BY DEF TusSetData, TusSetDataVUser, TusTryAndSetVariable, TusTryAndSetVariableVUser,
           TusAddAndGetVariableA, TusAddAndGetVariableAVUser, TusDeleteMultiSlotData,
           TusDeleteMultiSlotDataVUser, TusDeleteMultiSlotVariable
  <1>4. Checked(TusDeleteMultiSlotVariableVUser) /\ Checked(TusGetMultiSlotDataStatusA) /\
       Checked(TusGetMultiSlotDataStatusAVUser) /\ Checked(TusGetMultiUserDataStatus) /\
       Checked(TusGetMultiUserDataStatusVUser) /\ Checked(TusGetMultiUserVariable) /\
       Checked(TusGetMultiUserVariableVUser) /\ Checked(TusTryAndSetVariableA) /\
       Checked(TusTryAndSetVariableAVUser)
    BY DEF TusDeleteMultiSlotVariableVUser, TusGetMultiSlotDataStatusA,
           TusGetMultiSlotDataStatusAVUser, TusGetMultiUserDataStatus,
           TusGetMultiUserDataStatusVUser, TusGetMultiUserVariable, TusGetMultiUserVariableVUser,
           TusTryAndSetVariableA, TusTryAndSetVariableAVUser
  <1>5. Checked(TusDeleteMultiSlotDataA) /\ Checked(TusDeleteMultiSlotVariableA) /\
       Checked(TusGetFriendsDataStatusA) /\ Checked(TusGetFriendsVariableA) /\
       Checked(TusGetMultiSlotVariableVUser) /\ Checked(TusGetMultiUserDataStatusA) /\
       Checked(TusGetMultiUserDataStatusAVUser) /\ Checked(TusGetMultiUserVariableA) /\
       Checked(TusGetMultiUserVariableAVUser)
    BY DEF TusDeleteMultiSlotDataA, TusDeleteMultiSlotVariableA, TusGetFriendsDataStatusA,
           TusGetFriendsVariableA, TusGetMultiSlotVariableVUser, TusGetMultiUserDataStatusA,
           TusGetMultiUserDataStatusAVUser, TusGetMultiUserVariableA,
           TusGetMultiUserVariableAVUser
  <1>6. Checked(TusAddAndGetVariableForCrossSave) /\
       Checked(TusAddAndGetVariableForCrossSaveVUser) /\ Checked(TusGetDataForCrossSave) /\
       Checked(TusGetDataForCrossSaveVUser) /\ Checked(TusGetFriendsDataStatusForCrossSave)
       /\ Checked(TusGetFriendsVariableForCrossSave) /\
       Checked(TusGetMultiSlotDataStatusForCrossSave) /\
       Checked(TusGetMultiSlotDataStatusForCrossSaveVUser) /\
       Checked(TusGetMultiSlotVariableForCrossSave)
    BY DEF TusAddAndGetVariableForCrossSave, TusAddAndGetVariableForCrossSaveVUser,
           TusGetDataForCrossSave, TusGetDataForCrossSaveVUser,
           TusGetFriendsDataStatusForCrossSave, TusGetFriendsVariableForCrossSave,
           TusGetMultiSlotDataStatusForCrossSave, TusGetMultiSlotDataStatusForCrossSaveVUser,
           TusGetMultiSlotVariableForCrossSave
  <1>7. Checked(TusGetMultiSlotVariableForCrossSaveVUser) /\
       Checked(TusGetMultiUserDataStatusForCrossSave) /\
       Checked(TusGetMultiUserDataStatusForCrossSaveVUser) /\
       Checked(TusGetMultiUserVariableForCrossSave) /\
       Checked(TusGetMultiUserVariableForCrossSaveVUser) /\
       Checked(TusTryAndSetVariableForCrossSave) /\
       Checked(TusTryAndSetVariableForCrossSaveVUser) /\ Checked(TssGetData) /\
       Checked(TssGetSmallStorage)
    BY DEF TusGetMultiSlotVariableForCrossSaveVUser, TusGetMultiUserDataStatusForCrossSave,
           TusGetMultiUserDataStatusForCrossSaveVUser, TusGetMultiUserVariableForCrossSave,
           TusGetMultiUserVariableForCrossSaveVUser, TusTryAndSetVariableForCrossSave,
           TusTryAndSetVariableForCrossSaveVUser, TssGetData, TssGetSmallStorage
  <1>8. ASSUME NEW a \in Apis PROVE Checked(a)
    <2> HIDE DEF Checked
    <2> QED BY ZenonT(60), <1>1, <1>2, <1>3, <1>4, <1>5, <1>6, <1>7 DEF Apis
  <1> QED BY <1>8

\* A sequence of which one element is replaced
LEMMA Replaced ==
    ASSUME NEW S, NEW s \in Seq(S), NEW c \in 1 .. Len(s), NEW x \in S
    PROVE  /\ [s EXCEPT ![c] = x] \in Seq(S)
           /\ Len([s EXCEPT ![c] = x]) = Len(s)
  OBVIOUS

\* A sequence of which every element is changed
LEMMA Mapped ==
    ASSUME NEW S, NEW s \in Seq(S), NEW f \in [DOMAIN s -> S]
    PROVE  f \in Seq(S) /\ Len(f) = Len(s)
  OBVIOUS

\* A call that got past its checks
Right(op) ==
    /\ op.fits = TRUE /\ op.astray = FALSE
    /\ op.owner \in {"", "account", Name}
    /\ op.transfer \in {"none", "read", "write"}
    /\ op.transfer = "write" => op.owner \in {"account", Name}

\* Every call that gets past its checks asks for what the reply will fill, and for whom.
LEMMA OpsRight == \A op \in Ops : Right(op)
  <1>1. ASSUME NEW a \in Apis, NEW faults, faults \cap a.checks = {}
        PROVE  Right(Op(a, faults))
    <2>1. Checked(a)
      BY AllChecked
    <2>2. a.command.fills => "size" \notin faults
      BY <1>1, <2>1 DEF Checked
    <2>3. a.by = "virtual" => "vuser" \notin faults
      BY <1>1, <2>1 DEF Checked
    <2>4. Addressee(a.command, a.by, faults) = a.by
      BY <2>3 DEF Addressee
    <2>5. Op(a, faults).fits = TRUE
      BY <2>2 DEF Op
    <2>6. Op(a, faults).astray = FALSE
      BY <2>3, <2>4 DEF Op
    <2>7. Op(a, faults).transfer = a.command.transfer
      BY DEF Op
    <2>8. Op(a, faults).owner = IF a.command.transfer = "none" THEN "" ELSE Owner(a.by)
      BY DEF Op
    <2>9. Owner(a.by) \in {"", "account", Name} /\ (a.by \in {"account", "user", "virtual"} => Owner(a.by) \in {"account", Name})
      BY <2>1 DEF Owner, Checked
    <2> QED BY <2>1, <2>5, <2>6, <2>7, <2>8, <2>9 DEF Right, Checked
  <1>2. ASSUME NEW p \in {q \in Apis \X Faults : q[2] \notin q[1].checks}
        PROVE  Right(Op(p[1], {p[2]}))
    <2>1. p[1] \in Apis /\ p[2] \notin p[1].checks
      OBVIOUS
    <2> QED BY <1>1, <2>1
  <1>3. ASSUME NEW a \in Apis PROVE Right(Op(a, {}))
    BY <1>1
  <1> QED BY <1>2, <1>3 DEF Ops

\* The small storage is one of them.
LEMMA SmallStorageOp == SmallStorage \in Ops
  <1>1. TssGetSmallStorage \in Apis
    BY DEF Apis
  <1> QED BY <1>1 DEF SmallStorage, Ops

-----------------------------------------------------------------------------
(* Types.                                                                  *)

\* An operation keeps what it is about.
Alike(y, x) ==
    /\ y \in Ctxs
    /\ y.read = x.read /\ y.blob = x.blob /\ y.fits = x.fits /\ y.astray = x.astray

\* It is changed in its result, in what the game was told, and in the history of both.
LEMMA Altered ==
    ASSUME NEW x \in Ctxs
    PROVE  /\ \A r \in {"ok", "failed", "aborted", "signed out"} : Alike(SetResult(x, r), x)
           /\ \A l \in {"no", "not sent", "number taken", "overtaken", "session over"} :
                Alike([x EXCEPT !.lost = l], x)
           /\ Alike([x EXCEPT !.owned = FALSE], x) /\ Alike([x EXCEPT !.spoilt = TRUE], x)
  <1>1. \A r \in {"ok", "failed", "aborted", "signed out"} : Alike(SetResult(x, r), x)
    BY DEF SetResult, Ctxs, Alike
  <1>2. \A l \in {"no", "not sent", "number taken", "overtaken", "session over"} :
          Alike([x EXCEPT !.lost = l], x)
    BY DEF Ctxs, Alike
  <1>3. Alike([x EXCEPT !.owned = FALSE], x) /\ Alike([x EXCEPT !.spoilt = TRUE], x)
    BY DEF Ctxs, Alike
  <1> QED BY <1>1, <1>2, <1>3

\* Whose reply it got is known to history.
LEMMA Judged ==
    ASSUME NEW x \in Ctxs, NEW m, NEW n
    PROVE  Alike([x EXCEPT !.wrong = m # n], x)
  <1>1. (m # n) \in BOOLEAN
    OBVIOUS
  <1>2. \A w \in BOOLEAN : Alike([x EXCEPT !.wrong = w], x)
    BY DEF Ctxs, Alike
  <1> QED BY <1>1, <1>2

\* A new operation
LEMMA NewCtxType ==
    ASSUME NEW op \in Ops, NEW read \in Reads, NEW blob \in Parts
    PROVE  /\ NewCtx(op, read, blob) \in Ctxs
           /\ NewCtx(op, read, blob).fits /\ ~NewCtx(op, read, blob).astray
  <1>1. op.fits = TRUE /\ op.astray = FALSE
    BY OpsRight DEF Right
  <1> QED BY <1>1 DEF NewCtx, Ctxs

\* What an operation keeps from the beginning
Kept(c) ==
    /\ ctxs'[c].read = ctxs[c].read
    /\ ctxs'[c].blob = ctxs[c].blob
    /\ ctxs'[c].fits = ctxs[c].fits
    /\ ctxs'[c].astray = ctxs[c].astray

OldKept == Len(ctxs) <= Len(ctxs') /\ \A c \in DOMAIN ctxs : Kept(c)

\* One operation is changed.
LEMMA OneChanged ==
    ASSUME TypeOK, NEW c \in DOMAIN ctxs, NEW x, Alike(x, ctxs[c]), ctxs' = [ctxs EXCEPT ![c] = x]
    PROVE  ctxs' \in Seq(Ctxs) /\ OldKept
  <1>1. ctxs \in Seq(Ctxs) /\ x \in Ctxs
    BY DEF TypeOK, Alike
  <1>2. ctxs' \in Seq(Ctxs) /\ Len(ctxs') = Len(ctxs) /\ DOMAIN ctxs' = DOMAIN ctxs
    BY <1>1, Replaced
  <1>3. ctxs'[c] = x /\ \A b \in DOMAIN ctxs : b # c => ctxs'[b] = ctxs[b]
    BY <1>1
  <1> QED BY <1>1, <1>2, <1>3 DEF OldKept, Kept, Alike

\* One is added.
LEMMA OneAdded ==
    ASSUME TypeOK, NEW x \in Ctxs, ctxs' = Append(ctxs, x)
    PROVE  /\ ctxs' \in Seq(Ctxs) /\ OldKept
           /\ Len(ctxs') = Len(ctxs) + 1 /\ ctxs'[Len(ctxs) + 1] = x
           /\ \A c \in DOMAIN ctxs : ctxs'[c] = ctxs[c]
  <1>1. ctxs \in Seq(Ctxs)
    BY DEF TypeOK
  <1> QED BY <1>1 DEF OldKept, Kept

\* What a result is set to, by the game or a sign-out
SetTo(x, r) == {x, SetResult(x, r), [SetResult(x, r) EXCEPT !.owned = FALSE]}

\* Which changes nothing else.
LEMMA SetToAlike ==
    ASSUME NEW x \in Ctxs, NEW r \in {"aborted", "signed out"}, NEW y \in SetTo(x, r)
    PROVE  Alike(y, x)
  <1>1. Alike(x, x)
    BY DEF Alike
  <1>2. Alike(SetResult(x, r), x)
    BY Altered
  <1>3. Alike([SetResult(x, r) EXCEPT !.owned = FALSE], SetResult(x, r))
    BY <1>2, Altered DEF Alike
  <1> QED BY <1>1, <1>2, <1>3 DEF SetTo, Alike

\* An abort sets the results of the operations of some requests.
LEMMA AbortSets ==
    ASSUME TypeOK, NEW rs, AbortOps(rs)
    PROVE  /\ ctxs' \in Seq(Ctxs) /\ OldKept /\ Len(ctxs') = Len(ctxs)
           /\ \A c \in DOMAIN ctxs : ctxs'[c] = IF \E r \in rs : requests[r].ctx = c
                THEN [SetResult(ctxs[c], "aborted") EXCEPT !.owned = FALSE] ELSE ctxs[c]
  <1>1. \A c \in DOMAIN ctxs : ctxs'[c] = IF \E r \in rs : requests[r].ctx = c
                THEN [SetResult(ctxs[c], "aborted") EXCEPT !.owned = FALSE] ELSE ctxs[c]
    BY DEF AbortOps
  <1>2. ASSUME NEW c \in DOMAIN ctxs PROVE ctxs'[c] \in Ctxs /\ Kept(c)
    <2>1. ctxs[c] \in Ctxs
      BY DEF TypeOK
    <2>2. ctxs'[c] \in SetTo(ctxs[c], "aborted")
      BY <1>1 DEF SetTo
    <2> QED BY <2>1, <2>2, SetToAlike DEF Kept, Alike
  <1>3. ctxs' \in [DOMAIN ctxs -> Ctxs]
    <2>1. ctxs' = [c \in DOMAIN ctxs |-> ctxs'[c]]
      BY DEF AbortOps
    <2> QED BY <1>2, <2>1
  <1>4. ctxs' \in Seq(Ctxs) /\ Len(ctxs') = Len(ctxs)
    BY <1>3, Mapped DEF TypeOK
  <1>5. OldKept
    BY <1>2, <1>4 DEF OldKept
  <1> QED BY <1>1, <1>4, <1>5

\* A sign-out sets the results of what is pending.
LEMMA FailSets ==
    ASSUME TypeOK, FailEntries
    PROVE  /\ ctxs' \in Seq(Ctxs) /\ OldKept /\ Len(ctxs') = Len(ctxs)
           /\ \A c \in DOMAIN ctxs : ctxs'[c] = IF \E e \in pending : e.ctx = c
                THEN SetResult(ctxs[c], "signed out") ELSE ctxs[c]
  <1>1. \A c \in DOMAIN ctxs : ctxs'[c] = IF \E e \in pending : e.ctx = c
                THEN SetResult(ctxs[c], "signed out") ELSE ctxs[c]
    BY DEF FailEntries
  <1>2. ASSUME NEW c \in DOMAIN ctxs PROVE ctxs'[c] \in Ctxs /\ Kept(c)
    <2>1. ctxs[c] \in Ctxs
      BY DEF TypeOK
    <2>2. ctxs'[c] \in SetTo(ctxs[c], "signed out")
      BY <1>1 DEF SetTo
    <2> QED BY <2>1, <2>2, SetToAlike DEF Kept, Alike
  <1>3. ctxs' \in [DOMAIN ctxs -> Ctxs]
    <2>1. ctxs' = [c \in DOMAIN ctxs |-> ctxs'[c]]
      BY DEF FailEntries
    <2> QED BY <1>2, <2>1
  <1>4. ctxs' \in Seq(Ctxs) /\ Len(ctxs') = Len(ctxs)
    BY <1>3, Mapped DEF TypeOK
  <1>5. OldKept
    BY <1>2, <1>4 DEF OldKept
  <1> QED BY <1>1, <1>4, <1>5

\* None is changed.
LEMMA NoneChanged ==
    ASSUME TypeOK, UNCHANGED ctxs
    PROVE  ctxs' \in Seq(Ctxs) /\ OldKept
  BY DEF TypeOK, OldKept, Kept

\* An operation has its type.
LEMMA OpType ==
    ASSUME TypeOK, NEW c \in DOMAIN ctxs
    PROVE  ctxs[c] \in Ctxs
  BY DEF TypeOK

\* A thread that sends, registers or waits has an operation.
LEMMA CallCtx ==
    ASSUME Typed, NEW t \in Threads, call[t].pc \in {"submit", "register", "wait"}
    PROVE  call[t].ctx \in DOMAIN ctxs
  <1>1. Stage(call[t])
    BY DEF Typed
  <1>2. call[t].ctx \in 1 .. Len(ctxs)
    BY <1>1 DEF Stage
  <1> QED BY <1>2 DEF Typed, TypeOK

\* Operations keep their type, and what they are about.
LEMMA CtxsStep ==
    ASSUME Typed, [Next]_vars
    PROVE  ctxs' \in Seq(Ctxs) /\ OldKept
  <1>1. ASSUME NEW t \in Threads, CreateNpTitleCtx(t)
       PROVE  ctxs' \in Seq(Ctxs) /\ OldKept
    <2>1. UNCHANGED ctxs
      BY <1>1 DEF CreateNpTitleCtx
    <2> QED BY <2>1, NoneChanged DEF Typed
  <1>2. ASSUME NEW t \in Threads, NEW i \in titles, DeleteNpTitleCtx(t, i)
       PROVE  ctxs' \in Seq(Ctxs) /\ OldKept
    BY <1>2, AbortSets DEF DeleteNpTitleCtx, Typed
  <1>3. ASSUME NEW t \in Threads, NEW i \in titles, CreateRequest(t, i)
       PROVE  ctxs' \in Seq(Ctxs) /\ OldKept
    <2>1. UNCHANGED ctxs
      BY <1>3 DEF CreateRequest
    <2> QED BY <2>1, NoneChanged DEF Typed
  <1>4. ASSUME NEW t \in Threads, NEW r \in DOMAIN requests, DeleteRequest(t, r)
       PROVE  ctxs' \in Seq(Ctxs) /\ OldKept
    BY <1>4, AbortSets DEF DeleteRequest, Typed
  <1>5. ASSUME NEW t \in Threads, NEW r \in DOMAIN requests, AbortRequest(t, r)
       PROVE  ctxs' \in Seq(Ctxs) /\ OldKept
    BY <1>5, AbortSets DEF AbortRequest, Typed
  <1>6. ASSUME NEW t \in Threads, NEW r \in DOMAIN requests, NEW op \in KindOps, NEW sync \in game.syncs, ResolveTus(t, r, op, sync)
       PROVE  ctxs' \in Seq(Ctxs) /\ OldKept
    <2>1. UNCHANGED ctxs
      BY <1>6 DEF ResolveTus
    <2> QED BY <2>1, NoneChanged DEF Typed
  <1>7. ASSUME NEW t \in Threads, NEW r \in DOMAIN requests, FakeAsyncComplete(t, r)
       PROVE  ctxs' \in Seq(Ctxs) /\ OldKept
    <2>1. PICK x : x = SetResult(NewCtx(SmallStorage, <<>>, <<>>), "ok")
      OBVIOUS
    <2>2. ctxs' = Append(ctxs, x)
      BY <1>7, <2>1 DEF FakeAsyncComplete
    <2>3. <<>> \in Reads /\ <<>> \in Parts
      BY DEF Reads, Parts
    <2>4. x \in Ctxs
      BY <2>1, <2>3, NewCtxType, Altered, SmallStorageOp DEF Alike
    <2> QED BY <2>2, <2>4, OneAdded DEF Typed
  <1>8. ASSUME NEW t \in Threads, NEW r \in DOMAIN requests, WaitAsync(t, r)
       PROVE  ctxs' \in Seq(Ctxs) /\ OldKept
    <2>1. UNCHANGED ctxs
      BY <1>8 DEF WaitAsync
    <2> QED BY <2>1, NoneChanged DEF Typed
  <1>9. ASSUME NEW t \in Threads, NEW r \in DOMAIN requests, PollAsync(t, r)
       PROVE  ctxs' \in Seq(Ctxs) /\ OldKept
    <2>1. requests[r].ctx \in DOMAIN ctxs
      BY <1>9 DEF PollAsync, Typed, TypeOK, Requests
    <2>2. ctxs[requests[r].ctx] \in Ctxs
      BY <2>1 DEF Typed, TypeOK
    <2>3. PICK x : x = [ctxs[requests[r].ctx] EXCEPT !.owned = FALSE]
      OBVIOUS
    <2>4. ctxs' = [ctxs EXCEPT ![requests[r].ctx] = x]
      BY <1>9, <2>3 DEF PollAsync, Reported
    <2>5. Alike(x, ctxs[requests[r].ctx])
      BY <2>2, <2>3, Altered
    <2> QED BY <2>1, <2>4, <2>5, OneChanged DEF Typed
  <1>10. ASSUME NEW t \in Threads, NEW data \in BOOLEAN, ReadData(t, data)
       PROVE  ctxs' \in Seq(Ctxs) /\ OldKept
    <2>1. UNCHANGED ctxs
      BY <1>10 DEF ReadData, Transfer
    <2> QED BY <2>1, NoneChanged DEF Typed
  <1>11. ASSUME NEW t \in Threads, ReadDataAt(t)
       PROVE  ctxs' \in Seq(Ctxs) /\ OldKept
    <2>1. UNCHANGED ctxs
      BY <1>11 DEF ReadDataAt, Transfer
    <2> QED BY <2>1, NoneChanged DEF Typed
  <1>12. ASSUME NEW t \in Threads, NEW total \in 1 .. MaxParts, WriteData(t, total)
       PROVE  ctxs' \in Seq(Ctxs) /\ OldKept
    <2>1. UNCHANGED ctxs
      BY <1>12 DEF WriteData, Transfer
    <2> QED BY <2>1, NoneChanged DEF Typed
  <1>13. ASSUME NEW t \in Threads, Stray(t)
       PROVE  ctxs' \in Seq(Ctxs) /\ OldKept
    <2>1. UNCHANGED ctxs
      BY <1>13 DEF Stray
    <2> QED BY <2>1, NoneChanged DEF Typed
  <1>14. ASSUME NEW t \in Threads, NEW valid \in BOOLEAN, StartOp(t, valid)
       PROVE  ctxs' \in Seq(Ctxs) /\ OldKept
    <2>1. PICK new : new = NewCtx(call[t].op, call[t].read, call[t].blob)
      OBVIOUS
    <2>2. call[t] \in Calls
      BY DEF Typed, TypeOK
    <2>3. new \in Ctxs
      BY <2>1, <2>2, NewCtxType DEF Calls
    <2>4. PICK x \in {new, SetResult(new, "ok"), [new EXCEPT !.lost = "not sent"]} : ctxs' = Append(ctxs, x)
      BY <1>14, <2>1 DEF StartOp
    <2>5. x \in Ctxs
      BY <2>3, Altered DEF Alike
    <2> QED BY <2>4, <2>5, OneAdded DEF Typed
  <1>15. ASSUME NEW t \in Threads, SubmitRequest(t)
       PROVE  ctxs' \in Seq(Ctxs) /\ OldKept
    <2>1. UNCHANGED ctxs
      BY <1>15 DEF SubmitRequest
    <2> QED BY <2>1, NoneChanged DEF Typed
  <1>16. ASSUME NEW t \in Threads, Register(t)
       PROVE  ctxs' \in Seq(Ctxs) /\ OldKept
    <2>1. call[t].ctx \in DOMAIN ctxs
      BY <1>16, CallCtx DEF Register
    <2>2. CASE UNCHANGED ctxs
      BY <2>2, NoneChanged DEF Typed
    <2>3. ASSUME NEW l \in {"number taken", "overtaken", "session over"}, Lose(call[t].ctx, l)
          PROVE  ctxs' \in Seq(Ctxs) /\ OldKept
      <3>1. ctxs[call[t].ctx] \in Ctxs
        BY <2>1, OpType DEF Typed
      <3>2. PICK x : x = [ctxs[call[t].ctx] EXCEPT !.lost = l]
        OBVIOUS
      <3>3. ctxs' = [ctxs EXCEPT ![call[t].ctx] = x]
        BY <2>3, <3>2 DEF Lose
      <3>4. Alike(x, ctxs[call[t].ctx])
        BY <3>1, <3>2, Altered
      <3> QED BY <2>1, <3>3, <3>4, OneChanged DEF Typed
    <2> QED BY <1>16, <2>2, <2>3 DEF Register
  <1>17. ASSUME NEW t \in Threads, WaitAgain(t)
       PROVE  ctxs' \in Seq(Ctxs) /\ OldKept
    <2>1. UNCHANGED ctxs
      BY <1>17 DEF WaitAgain
    <2> QED BY <2>1, NoneChanged DEF Typed
  <1>18. ASSUME NEW t \in Threads, WaitReturns(t)
       PROVE  ctxs' \in Seq(Ctxs) /\ OldKept
    <2>1. call[t].ctx \in DOMAIN ctxs
      BY <1>18, CallCtx DEF WaitReturns
    <2>2. ctxs[call[t].ctx] \in Ctxs
      BY <2>1 DEF Typed, TypeOK
    <2>3. PICK x : x = [ctxs[call[t].ctx] EXCEPT !.owned = FALSE]
      OBVIOUS
    <2>4. ctxs' = [ctxs EXCEPT ![call[t].ctx] = x]
      BY <1>18, <2>3 DEF WaitReturns, Reported
    <2>5. Alike(x, ctxs[call[t].ctx])
      BY <2>2, <2>3, Altered
    <2> QED BY <2>1, <2>4, <2>5, OneChanged DEF Typed
  <1>19. ASSUME NEW p \in inFlight, TakeReply(p)
       PROVE  ctxs' \in Seq(Ctxs) /\ OldKept
    <2>1. CASE UNCHANGED ctxs
      BY <2>1, NoneChanged DEF Typed
    <2>2. ASSUME NEW e \in pending, ctxs' = [ctxs EXCEPT ![e.ctx].wrong = e.session # last]
          PROVE  ctxs' \in Seq(Ctxs) /\ OldKept
      <3>1. e.ctx \in DOMAIN ctxs
        BY DEF Typed, TypeOK, Entries
      <3>2. ctxs[e.ctx] \in Ctxs
        BY <3>1 DEF Typed, TypeOK
      <3>3. PICK x : x = [ctxs[e.ctx] EXCEPT !.wrong = e.session # last]
        OBVIOUS
      <3>4. ctxs' = [ctxs EXCEPT ![e.ctx] = x]
        BY <2>2, <3>3
      <3>5. Alike(x, ctxs[e.ctx])
        BY <3>2, <3>3, Judged
      <3> QED BY <3>1, <3>4, <3>5, OneChanged DEF Typed
    <2> QED BY <1>19, <2>1, <2>2 DEF TakeReply
  <1>20. ASSUME NEW good \in BOOLEAN, CompleteOp(good)
       PROVE  ctxs' \in Seq(Ctxs) /\ OldKept
    <2>1. reader \in DOMAIN ctxs
      BY <1>20 DEF CompleteOp, Typed, TypeOK
    <2>2. ctxs[reader] \in Ctxs
      BY <2>1 DEF Typed, TypeOK
    <2>3. PICK y : y = SetResult(ctxs[reader], IF good THEN "ok" ELSE "failed")
      OBVIOUS
    <2>4. Alike(y, ctxs[reader])
      BY <2>2, <2>3, Altered
    <2>5. PICK x \in {y, [y EXCEPT !.spoilt = TRUE]} : ctxs' = [ctxs EXCEPT ![reader] = x]
      BY <1>20, <2>3 DEF CompleteOp
    <2>6. Alike(x, ctxs[reader])
      <3>1. y \in Ctxs
        BY <2>4 DEF Alike
      <3>2. Alike([y EXCEPT !.spoilt = TRUE], y)
        BY <3>1, Altered
      <3> QED BY <2>4, <3>2 DEF Alike
    <2> QED BY <2>1, <2>5, <2>6, OneChanged DEF Typed
  <1>21. ASSUME SignIn
       PROVE  ctxs' \in Seq(Ctxs) /\ OldKept
    <2>1. UNCHANGED ctxs
      BY <1>21 DEF SignIn
    <2> QED BY <2>1, NoneChanged DEF Typed
  <1>22. ASSUME LoseConnection
       PROVE  ctxs' \in Seq(Ctxs) /\ OldKept
    <2>1. UNCHANGED ctxs
      BY <1>22 DEF LoseConnection
    <2> QED BY <2>1, NoneChanged DEF Typed
  <1>23. ASSUME Disconnect
       PROVE  ctxs' \in Seq(Ctxs) /\ OldKept
    <2>1. UNCHANGED ctxs
      BY <1>23 DEF Disconnect
    <2> QED BY <2>1, NoneChanged DEF Typed
  <1>24. ASSUME StopClient
       PROVE  ctxs' \in Seq(Ctxs) /\ OldKept
    <2>1. UNCHANGED ctxs
      BY <1>24 DEF StopClient
    <2> QED BY <2>1, NoneChanged DEF Typed
  <1>25. ASSUME FailPendingRequests
       PROVE  ctxs' \in Seq(Ctxs) /\ OldKept
    BY <1>25, FailSets DEF FailPendingRequests, Typed
  <1>26. CASE UNCHANGED vars
    BY <1>26, NoneChanged DEF vars, Typed
  <1> QED
    BY <1>1, <1>2, <1>3, <1>4, <1>5, <1>6, <1>7, <1>8, <1>9, <1>10, <1>11, <1>12, <1>13, <1>14, <1>15, <1>16, <1>17, <1>18, <1>19, <1>20, <1>21, <1>22, <1>23, <1>24, <1>25, <1>26 DEF Next, GameCalls, CallStep, ReplyStep, CompleteStep, DisconnectStep

\* The newest session and the packets of each only grow in number.
SessionsGrow == last <= last' /\ \A s \in Sessions : counter[s] <= counter'[s]

\* Where no session begins or ends
LEMMA SessionsStay ==
    ASSUME Typed, UNCHANGED sessionVars
    PROVE  SessionTypeOK' /\ SessionsGrow /\ SessionEnds'
  <1>1. SessionTypeOK /\ SessionEnds
    BY DEF Typed, TypeOK, Sessioned
  <1> QED BY <1>1 DEF sessionVars, SessionTypeOK, SessionsGrow, SessionEnds

\* Sessions keep their type.
LEMMA SessionStep ==
    ASSUME Typed, [Next]_vars
    PROVE  SessionTypeOK' /\ SessionsGrow /\ SessionEnds'
  <1>t. SessionTypeOK /\ SessionEnds
    BY DEF Typed, TypeOK, Sessioned
  <1>1. ASSUME NEW t \in Threads, CreateNpTitleCtx(t)
       PROVE  SessionTypeOK' /\ SessionsGrow /\ SessionEnds'
    <2>1. UNCHANGED sessionVars
      BY <1>1 DEF CreateNpTitleCtx
    <2> QED BY <2>1, SessionsStay
  <1>2. ASSUME NEW t \in Threads, NEW i \in titles, DeleteNpTitleCtx(t, i)
       PROVE  SessionTypeOK' /\ SessionsGrow /\ SessionEnds'
    <2>1. UNCHANGED sessionVars
      BY <1>2 DEF DeleteNpTitleCtx
    <2> QED BY <2>1, SessionsStay
  <1>3. ASSUME NEW t \in Threads, NEW i \in titles, CreateRequest(t, i)
       PROVE  SessionTypeOK' /\ SessionsGrow /\ SessionEnds'
    <2>1. UNCHANGED sessionVars
      BY <1>3 DEF CreateRequest
    <2> QED BY <2>1, SessionsStay
  <1>4. ASSUME NEW t \in Threads, NEW r \in DOMAIN requests, DeleteRequest(t, r)
       PROVE  SessionTypeOK' /\ SessionsGrow /\ SessionEnds'
    <2>1. UNCHANGED sessionVars
      BY <1>4 DEF DeleteRequest
    <2> QED BY <2>1, SessionsStay
  <1>5. ASSUME NEW t \in Threads, NEW r \in DOMAIN requests, AbortRequest(t, r)
       PROVE  SessionTypeOK' /\ SessionsGrow /\ SessionEnds'
    <2>1. UNCHANGED sessionVars
      BY <1>5 DEF AbortRequest
    <2> QED BY <2>1, SessionsStay
  <1>6. ASSUME NEW t \in Threads, NEW r \in DOMAIN requests, NEW op \in KindOps, NEW sync \in game.syncs, ResolveTus(t, r, op, sync)
       PROVE  SessionTypeOK' /\ SessionsGrow /\ SessionEnds'
    <2>1. UNCHANGED sessionVars
      BY <1>6 DEF ResolveTus
    <2> QED BY <2>1, SessionsStay
  <1>7. ASSUME NEW t \in Threads, NEW r \in DOMAIN requests, FakeAsyncComplete(t, r)
       PROVE  SessionTypeOK' /\ SessionsGrow /\ SessionEnds'
    <2>1. UNCHANGED sessionVars
      BY <1>7 DEF FakeAsyncComplete
    <2> QED BY <2>1, SessionsStay
  <1>8. ASSUME NEW t \in Threads, NEW r \in DOMAIN requests, WaitAsync(t, r)
       PROVE  SessionTypeOK' /\ SessionsGrow /\ SessionEnds'
    <2>1. UNCHANGED sessionVars
      BY <1>8 DEF WaitAsync
    <2> QED BY <2>1, SessionsStay
  <1>9. ASSUME NEW t \in Threads, NEW r \in DOMAIN requests, PollAsync(t, r)
       PROVE  SessionTypeOK' /\ SessionsGrow /\ SessionEnds'
    <2>1. UNCHANGED sessionVars
      BY <1>9 DEF PollAsync
    <2> QED BY <2>1, SessionsStay
  <1>10. ASSUME NEW t \in Threads, NEW data \in BOOLEAN, ReadData(t, data)
       PROVE  SessionTypeOK' /\ SessionsGrow /\ SessionEnds'
    <2>1. UNCHANGED sessionVars
      BY <1>10 DEF ReadData, Transfer
    <2> QED BY <2>1, SessionsStay
  <1>11. ASSUME NEW t \in Threads, ReadDataAt(t)
       PROVE  SessionTypeOK' /\ SessionsGrow /\ SessionEnds'
    <2>1. UNCHANGED sessionVars
      BY <1>11 DEF ReadDataAt, Transfer
    <2> QED BY <2>1, SessionsStay
  <1>12. ASSUME NEW t \in Threads, NEW total \in 1 .. MaxParts, WriteData(t, total)
       PROVE  SessionTypeOK' /\ SessionsGrow /\ SessionEnds'
    <2>1. UNCHANGED sessionVars
      BY <1>12 DEF WriteData, Transfer
    <2> QED BY <2>1, SessionsStay
  <1>13. ASSUME NEW t \in Threads, Stray(t)
       PROVE  SessionTypeOK' /\ SessionsGrow /\ SessionEnds'
    <2>1. UNCHANGED sessionVars
      BY <1>13 DEF Stray
    <2> QED BY <2>1, SessionsStay
  <1>14. ASSUME NEW t \in Threads, NEW valid \in BOOLEAN, StartOp(t, valid)
       PROVE  SessionTypeOK' /\ SessionsGrow /\ SessionEnds'
    <2>1. UNCHANGED sessionVars
      BY <1>14 DEF StartOp
    <2> QED BY <2>1, SessionsStay
  <1>15. ASSUME NEW t \in Threads, SubmitRequest(t)
       PROVE  SessionTypeOK' /\ SessionsGrow /\ SessionEnds'
    <2>1. call[t].session \in Sessions
      BY <1>15, <1>t, SessionAssumption DEF SubmitRequest, Typed, Stage, Sessions, SessionTypeOK
    <2>2. counter' = [counter EXCEPT ![call[t].session] = @ + 1]
            /\ UNCHANGED <<session, last, up, task, missed>>
      BY <1>15 DEF SubmitRequest, PacketSubmitted
    <2>3. counter' \in [Sessions -> Nat] /\ SessionsGrow
      BY <1>t, <2>1, <2>2 DEF SessionTypeOK, SessionsGrow
    <2>4. inFlight' \subseteq Nat /\ (~up => inFlight' = inFlight)
      <3>1. NextPacket(call[t].session) \in Nat
        BY <1>t, <2>1 DEF NextPacket, SessionTypeOK
      <3> QED BY <1>15, <1>t, <3>1 DEF SubmitRequest, PacketSubmitted, SessionTypeOK
    <2> QED BY <1>t, <2>2, <2>3, <2>4 DEF SessionTypeOK, SessionEnds
  <1>16. ASSUME NEW t \in Threads, Register(t)
       PROVE  SessionTypeOK' /\ SessionsGrow /\ SessionEnds'
    <2>1. UNCHANGED sessionVars
      BY <1>16 DEF Register
    <2> QED BY <2>1, SessionsStay
  <1>17. ASSUME NEW t \in Threads, WaitAgain(t)
       PROVE  SessionTypeOK' /\ SessionsGrow /\ SessionEnds'
    <2>1. UNCHANGED sessionVars
      BY <1>17 DEF WaitAgain
    <2> QED BY <2>1, SessionsStay
  <1>18. ASSUME NEW t \in Threads, WaitReturns(t)
       PROVE  SessionTypeOK' /\ SessionsGrow /\ SessionEnds'
    <2>1. UNCHANGED sessionVars
      BY <1>18 DEF WaitReturns
    <2> QED BY <2>1, SessionsStay
  <1>19. ASSUME NEW p \in inFlight, TakeReply(p)
       PROVE  SessionTypeOK' /\ SessionsGrow /\ SessionEnds'
    <2>1. inFlight' = inFlight \ {p} /\ missed' \in {missed, missed \cup {p}}
            /\ UNCHANGED <<session, last, up, counter, task>>
      BY <1>19 DEF TakeReply, PacketAnswered
    <2> QED BY <1>t, <2>1 DEF SessionTypeOK, SessionsGrow, SessionEnds
  <1>20. ASSUME NEW good \in BOOLEAN, CompleteOp(good)
       PROVE  SessionTypeOK' /\ SessionsGrow /\ SessionEnds'
    <2>1. UNCHANGED sessionVars
      BY <1>20 DEF CompleteOp
    <2> QED BY <2>1, SessionsStay
  <1>21. ASSUME SignIn
       PROVE  SessionTypeOK' /\ SessionsGrow /\ SessionEnds'
    BY <1>21, <1>t, SessionAssumption DEF SignIn, ConnectUser, SessionTypeOK, SessionsGrow, SessionEnds, Sessions
  <1>22. ASSUME LoseConnection
       PROVE  SessionTypeOK' /\ SessionsGrow /\ SessionEnds'
    <2>1. UNCHANGED <<session, last, counter, task, missed>>
      BY <1>22 DEF LoseConnection, ConnectionLost
    <2>2. ~up' /\ up' \in BOOLEAN /\ inFlight' = {}
      BY <1>22 DEF LoseConnection, ConnectionLost
    <2>3. SessionTypeOK'
      BY <1>t, <2>1, <2>2 DEF SessionTypeOK
    <2>4. SessionEnds'
      BY <1>t, <2>1, <2>2 DEF SessionEnds
    <2>5. SessionsGrow
      BY <1>t, <2>1 DEF SessionTypeOK, SessionsGrow
    <2> QED BY <2>3, <2>4, <2>5
  <1>23. ASSUME Disconnect
       PROVE  SessionTypeOK' /\ SessionsGrow /\ SessionEnds'
    BY <1>23, <1>t, SessionAssumption DEF Disconnect, ClientRemoved, SessionTypeOK, SessionsGrow, SessionEnds, Sessions
  <1>24. ASSUME StopClient
       PROVE  SessionTypeOK' /\ SessionsGrow /\ SessionEnds'
    <2>1. UNCHANGED <<session, last, counter, missed>> /\ task = "stop" /\ task' = "fail"
      BY <1>24 DEF StopClient, ClientStopped
    <2>2. ~up' /\ up' \in BOOLEAN /\ inFlight' = {}
      BY <1>24 DEF StopClient, ClientStopped
    <2>3. SessionTypeOK'
      BY <1>t, <2>1, <2>2 DEF SessionTypeOK
    <2>4. SessionEnds'
      BY <1>t, <2>1, <2>2 DEF SessionEnds
    <2>5. SessionsGrow
      BY <1>t, <2>1 DEF SessionTypeOK, SessionsGrow
    <2> QED BY <2>3, <2>4, <2>5
  <1>25. ASSUME FailPendingRequests
       PROVE  SessionTypeOK' /\ SessionsGrow /\ SessionEnds'
    BY <1>25, <1>t, SessionAssumption DEF FailPendingRequests, PendingFailed, SessionTypeOK, SessionsGrow, SessionEnds, Sessions
  <1>26. CASE UNCHANGED vars
    BY <1>26, SessionsStay DEF vars
  <1> QED
    BY <1>1, <1>2, <1>3, <1>4, <1>5, <1>6, <1>7, <1>8, <1>9, <1>10, <1>11, <1>12, <1>13, <1>14, <1>15, <1>16, <1>17, <1>18, <1>19, <1>20, <1>21, <1>22, <1>23, <1>24, <1>25, <1>26 DEF Next, GameCalls, CallStep, ReplyStep, CompleteStep, DisconnectStep

\* What a thread carries stays right as operations are added and sessions go on.
LEMMA StageStays ==
    ASSUME Typed, [Next]_vars, NEW x \in Calls, Stage(x)
    PROVE  x \in Calls' /\ Stage(x)'
  <1>1. ctxs' \in Seq(Ctxs) /\ Len(ctxs) <= Len(ctxs') /\ ctxs \in Seq(Ctxs)
    BY CtxsStep DEF OldKept, Typed, TypeOK
  <1>2. Len(ctxs) \in Nat /\ Len(ctxs') \in Nat
    BY <1>1
  <1>3. x \in Calls'
    BY <1>1, <1>2 DEF Calls
  <1>4. last <= last' /\ last \in Nat /\ last' \in Nat /\ last <= MaxSessions /\ counter' \in [Sessions -> Nat]
          /\ counter \in [Sessions -> Nat] /\ \A s \in Sessions : counter[s] <= counter'[s]
    BY SessionStep, SessionAssumption DEF SessionsGrow, Typed, TypeOK, SessionTypeOK
  <1>5. x.ctx \in 1 .. Len(ctxs) => x.ctx \in 1 .. Len(ctxs')
    BY <1>1, <1>2
  <1>6. x.session \in 1 .. last => x.session \in 1 .. last' /\ x.session \in Sessions
    BY <1>4, SessionAssumption DEF Sessions
  <1>7. x.session \in 1 .. last /\ x.pkt \in 1 .. counter[x.session] => x.pkt \in 1 .. counter'[x.session]
    <2>1. SUFFICES ASSUME x.session \in 1 .. last, x.pkt \in 1 .. counter[x.session]
                   PROVE  x.pkt \in 1 .. counter'[x.session]
      OBVIOUS
    <2>2. counter[x.session] \in Nat /\ counter'[x.session] \in Nat /\ counter[x.session] <= counter'[x.session]
      BY <1>4, <1>6, <2>1
    <2> QED BY <2>1, <2>2
  <1> QED BY <1>3, <1>5, <1>6, <1>7 DEF Stage

\* One thread goes on, the others stay.
LEMMA OneCall ==
    ASSUME Typed, [Next]_vars, NEW t \in Threads, NEW x, Goto(t, x), x \in Calls', Stage(x)'
    PROVE  /\ call' \in [Threads -> Calls'] /\ \A u \in Threads : Stage(call[u])'
           /\ call'[t] = x /\ \A u \in Threads \ {t} : call'[u] = call[u]
  <1>1. call \in [Threads -> Calls]
    BY DEF Typed, TypeOK
  <1>2. call'[t] = x /\ (\A u \in Threads \ {t} : call'[u] = call[u]) /\ DOMAIN call' = Threads
    BY <1>1 DEF Goto
  <1>3. ASSUME NEW u \in Threads PROVE call'[u] \in Calls' /\ Stage(call[u])'
    <2>1. CASE u = t
      BY <1>2, <2>1 DEF Stage
    <2>2. CASE u # t
      <3>1. PICK y : y = call[u]
        OBVIOUS
      <3>2. y \in Calls /\ Stage(y)
        BY <1>1, <3>1 DEF Typed
      <3>3. y \in Calls' /\ Stage(y)'
        BY <3>2, StageStays
      <3> QED BY <1>2, <2>2, <3>1, <3>3 DEF Stage
    <2> QED BY <2>1, <2>2
  <1>4. call' = [u \in Threads |-> call'[u]]
    BY <1>1 DEF Goto
  <1> QED BY <1>2, <1>3, <1>4

\* All stay.
LEMMA CallsStay ==
    ASSUME Typed, [Next]_vars, UNCHANGED call
    PROVE  call' \in [Threads -> Calls'] /\ \A u \in Threads : Stage(call[u])'
  <1>1. ASSUME NEW u \in Threads PROVE call'[u] \in Calls' /\ Stage(call[u])'
    <2>1. PICK y : y = call[u]
      OBVIOUS
    <2>2. y \in Calls /\ Stage(y)
      BY <2>1 DEF Typed, TypeOK
    <2>3. y \in Calls' /\ Stage(y)'
      BY <2>2, StageStays
    <2> QED BY <2>1, <2>3 DEF Stage
  <1> QED BY <1>1 DEF Typed, TypeOK

\* A thread that is done.
LEMMA DoneType ==
    ASSUME Typed, [Next]_vars, NEW t \in Threads, NEW r \in Nat
    PROVE  /\ Idle \in Calls' /\ Stage(Idle)'
           /\ [Idle EXCEPT !.pc = "again", !.req = r] \in Calls'
           /\ Stage([Idle EXCEPT !.pc = "again", !.req = r])'
  <1>1. Len(ctxs') \in Nat
    BY CtxsStep
  <1>2. Idle \in Calls'
    BY <1>1, SmallStorageOp, SessionAssumption, TusAssumption DEF Idle, Calls, Reads, Parts
  <1>3. Stage(Idle)'
    BY DEF Stage, Idle
  <1>4. PICK x : x = [Idle EXCEPT !.pc = "again", !.req = r]
    OBVIOUS
  <1>5. x \in Calls' /\ x.pc = "again" /\ x.read = <<>> /\ x.blob = <<>>
    BY <1>2, <1>4 DEF Calls, Idle
  <1>6. Stage(x)'
    BY <1>5 DEF Stage
  <1> QED BY <1>2, <1>3, <1>4, <1>5, <1>6

\* The transfer a call continues or begins
LEMMA XferType ==
    ASSUME Typed, NEW t \in Threads, NEW n \in 0 .. MaxParts, NEW x \in XferOf(t, n)
    PROVE  /\ x \in Xfers /\ call[t].req \in DOMAIN requests
           /\ \/ SameTarget(requests[call[t].req].xfer, call[t].op.owner)
                   /\ x = requests[call[t].req].xfer
              \/ x = BeginXfer(call[t].op.owner, n, begun + 1)
  <1>1. PICK r \in {call[t].req} \cap DOMAIN requests :
          x = IF SameTarget(requests[r].xfer, call[t].op.owner) THEN requests[r].xfer
              ELSE BeginXfer(call[t].op.owner, n, begun + 1)
    BY DEF XferOf
  <1>2. requests[r].xfer \in Xfers
    BY DEF Typed, TypeOK, Requests
  <1>3. call[t].op.owner \in {"", "account", Name}
    BY OpsRight DEF Typed, TypeOK, Calls, Right
  <1>4. BeginXfer(call[t].op.owner, n, begun + 1) \in Xfers
    <2>1. begun + 1 \in Nat /\ MaxParts \in Nat
      BY TusAssumption DEF Typed, TypeOK
    <2>2. <<>> \in Parts
      BY DEF Parts
    <2>3. PICK o : o = call[t].op.owner
      OBVIOUS
    <2>4. PICK m : m = begun + 1
      OBVIOUS
    <2>5. NoXfer \in Xfers
      BY <2>1, <2>2 DEF NoXfer, Xfers
    <2>6. [NoXfer EXCEPT !.active = TRUE, !.owner = o, !.total = n, !.serial = m] \in Xfers
      BY <1>3, <2>1, <2>3, <2>4, <2>5 DEF Xfers
    <2> QED BY <2>3, <2>4, <2>6 DEF BeginXfer
  <1> QED BY <1>1, <1>2, <1>4

\* Calls keep their type, and what they have at each stage.
LEMMA CallsStep ==
    ASSUME Typed, [Next]_vars
    PROVE  call' \in [Threads -> Calls'] /\ \A u \in Threads : Stage(call[u])'
  <1>h. [Next]_vars
    OBVIOUS
  <1>1. ASSUME NEW t \in Threads, CreateNpTitleCtx(t)
       PROVE  call' \in [Threads -> Calls'] /\ \A u \in Threads : Stage(call[u])'
    <2>1. UNCHANGED call
      BY <1>1 DEF CreateNpTitleCtx
    <2> QED BY <2>1, <1>h, CallsStay
  <1>2. ASSUME NEW t \in Threads, NEW i \in titles, DeleteNpTitleCtx(t, i)
       PROVE  call' \in [Threads -> Calls'] /\ \A u \in Threads : Stage(call[u])'
    <2>1. UNCHANGED call
      BY <1>2 DEF DeleteNpTitleCtx
    <2> QED BY <2>1, <1>h, CallsStay
  <1>3. ASSUME NEW t \in Threads, NEW i \in titles, CreateRequest(t, i)
       PROVE  call' \in [Threads -> Calls'] /\ \A u \in Threads : Stage(call[u])'
    <2>1. UNCHANGED call
      BY <1>3 DEF CreateRequest
    <2> QED BY <2>1, <1>h, CallsStay
  <1>4. ASSUME NEW t \in Threads, NEW r \in DOMAIN requests, DeleteRequest(t, r)
       PROVE  call' \in [Threads -> Calls'] /\ \A u \in Threads : Stage(call[u])'
    <2>1. UNCHANGED call
      BY <1>4 DEF DeleteRequest
    <2> QED BY <2>1, <1>h, CallsStay
  <1>5. ASSUME NEW t \in Threads, NEW r \in DOMAIN requests, AbortRequest(t, r)
       PROVE  call' \in [Threads -> Calls'] /\ \A u \in Threads : Stage(call[u])'
    <2>1. UNCHANGED call
      BY <1>5 DEF AbortRequest
    <2> QED BY <2>1, <1>h, CallsStay
  <1>6. ASSUME NEW t \in Threads, NEW r \in DOMAIN requests, NEW op \in KindOps, NEW sync \in game.syncs, ResolveTus(t, r, op, sync)
       PROVE  call' \in [Threads -> Calls'] /\ \A u \in Threads : Stage(call[u])'
    <2>1. r \in Nat /\ op \in Ops /\ sync \in BOOLEAN
      BY TusAssumption DEF Typed, TypeOK, KindOps
    <2>2. PICK x : x = [Idle EXCEPT !.pc = IF op.transfer = "none" THEN "start" ELSE "xfer",
                                    !.req = r, !.op = op, !.sync = sync]
      OBVIOUS
    <2>3. x \in Calls' /\ x.pc \in {"start", "xfer"} /\ x.read = <<>> /\ x.blob = <<>>
      BY <1>h, <2>1, <2>2, DoneType DEF Calls, Idle
    <2>4. Stage(x)'
      BY <2>3 DEF Stage
    <2> QED BY <1>6, <1>h, <2>2, <2>3, <2>4, OneCall DEF ResolveTus
  <1>7. ASSUME NEW t \in Threads, NEW r \in DOMAIN requests, FakeAsyncComplete(t, r)
       PROVE  call' \in [Threads -> Calls'] /\ \A u \in Threads : Stage(call[u])'
    <2>1. UNCHANGED call
      BY <1>7 DEF FakeAsyncComplete
    <2> QED BY <2>1, <1>h, CallsStay
  <1>8. ASSUME NEW t \in Threads, NEW r \in DOMAIN requests, WaitAsync(t, r)
       PROVE  call' \in [Threads -> Calls'] /\ \A u \in Threads : Stage(call[u])'
    <2>1. requests[r].ctx \in 1 .. Len(ctxs') /\ requests[r].ctx \in 0 .. Len(ctxs')
      BY <1>8 DEF WaitAsync, Typed, TypeOK, Requests
    <2>2. PICK x : x = [Idle EXCEPT !.pc = "wait", !.ctx = requests[r].ctx]
      OBVIOUS
    <2>3. x \in Calls' /\ x.pc = "wait" /\ x.ctx = requests[r].ctx /\ x.read = <<>> /\ x.blob = <<>>
      BY <1>h, <2>1, <2>2, DoneType DEF Calls, Idle
    <2>4. Stage(x)'
      BY <2>1, <2>3 DEF Stage
    <2> QED BY <1>8, <1>h, <2>2, <2>3, <2>4, OneCall DEF WaitAsync
  <1>9. ASSUME NEW t \in Threads, NEW r \in DOMAIN requests, PollAsync(t, r)
       PROVE  call' \in [Threads -> Calls'] /\ \A u \in Threads : Stage(call[u])'
    <2>1. UNCHANGED call
      BY <1>9 DEF PollAsync
    <2> QED BY <2>1, <1>h, CallsStay
  <1>10. ASSUME NEW t \in Threads, NEW data \in BOOLEAN, ReadData(t, data)
       PROVE  call' \in [Threads -> Calls'] /\ \A u \in Threads : Stage(call[u])'
    <2>0. PICK y : y = call[t]
      OBVIOUS
    <2>1. y \in Calls /\ Stage(y)
      BY <2>0 DEF Typed, TypeOK
    <2>2. y \in Calls'
      BY <1>h, <2>1, StageStays
    <2>3. PICK z \in XferOf(t, 0) :
            Goto(t, [y EXCEPT !.pc = "start",
                       !.read = IF data THEN <<z.serial, z.received>> ELSE <<>>])
      BY <1>10, <2>0 DEF ReadData
    <2>4. z \in Xfers
      BY <2>3, XferType, TusAssumption
    <2>5. PICK d : d = IF data THEN <<z.serial, z.received>> ELSE <<>>
      OBVIOUS
    <2>6. d \in Reads
      BY <2>4, <2>5 DEF Reads, Xfers
    <2>7. PICK x : x = [y EXCEPT !.pc = "start", !.read = d]
      OBVIOUS
    <2>8. x \in Calls' /\ x.pc = "start"
      BY <2>2, <2>6, <2>7 DEF Calls
    <2>9. Stage(x)'
      BY <2>8 DEF Stage
    <2> QED BY <1>h, <2>0, <2>3, <2>5, <2>7, <2>8, <2>9, OneCall
  <1>11. ASSUME NEW t \in Threads, ReadDataAt(t)
       PROVE  call' \in [Threads -> Calls'] /\ \A u \in Threads : Stage(call[u])'
    <2>0. PICK y : y = call[t]
      OBVIOUS
    <2>1. y \in Calls /\ Stage(y)
      BY <2>0 DEF Typed, TypeOK
    <2>2. y \in Calls'
      BY <1>h, <2>1, StageStays
    <2>3. PICK x : x = [y EXCEPT !.pc = "start"]
      OBVIOUS
    <2>4. x \in Calls' /\ x.pc = "start"
      BY <2>2, <2>3 DEF Calls
    <2>5. Stage(x)'
      BY <2>4 DEF Stage
    <2> QED BY <1>11, <2>0, <1>h, <2>3, <2>4, <2>5, OneCall DEF ReadDataAt
  <1>12. ASSUME NEW t \in Threads, NEW total \in 1 .. MaxParts, WriteData(t, total)
       PROVE  call' \in [Threads -> Calls'] /\ \A u \in Threads : Stage(call[u])'
    <2>0. PICK y : y = call[t]
      OBVIOUS
    <2>1. y \in Calls /\ Stage(y)
      BY <2>0 DEF Typed, TypeOK
    <2>2. y \in Calls'
      BY <1>h, <2>1, StageStays
    <2>3. PICK z \in XferOf(t, total), whole \in BOOLEAN :
            Goto(t, [y EXCEPT !.pc = "start", !.partial = ~whole,
                       !.blob = IF whole THEN Append(z.parts, y.op.owner) ELSE <<>>])
      BY <1>12, <2>0 DEF WriteData
    <2>4. z \in Xfers
      BY <2>3, XferType
    <2>5. y.op.owner \in {"account", Name}
      BY <1>12, <2>0, <2>1, OpsRight DEF WriteData, Calls, Right
    <2>6. PICK d : d = IF whole THEN Append(z.parts, y.op.owner) ELSE <<>>
      OBVIOUS
    <2>7. d \in Parts
      <3>1. PICK s : s = z.parts
        OBVIOUS
      <3>2. PICK o : o = y.op.owner
        OBVIOUS
      <3>3. s \in Parts /\ o \in {"account", Name}
        BY <2>4, <2>5, <3>1, <3>2 DEF Xfers
      <3>4. Append(s, o) \in Parts /\ <<>> \in Parts
        BY <3>3 DEF Parts
      <3> QED BY <2>6, <3>1, <3>2, <3>4
    <2>8. PICK x : x = [y EXCEPT !.pc = "start", !.partial = ~whole, !.blob = d]
      OBVIOUS
    <2>9. x \in Calls' /\ x.pc = "start"
      BY <2>2, <2>7, <2>8 DEF Calls
    <2>10. Stage(x)'
      BY <2>9 DEF Stage
    <2> QED BY <1>h, <2>0, <2>3, <2>6, <2>8, <2>9, <2>10, OneCall
  <1>13. ASSUME NEW t \in Threads, Stray(t)
       PROVE  call' \in [Threads -> Calls'] /\ \A u \in Threads : Stage(call[u])'
    <2>0. PICK y : y = call[t]
      OBVIOUS
    <2>1. y \in Calls /\ Stage(y)
      BY <2>0 DEF Typed, TypeOK
    <2>2. y \in Calls'
      BY <1>h, <2>1, StageStays
    <2>3. PICK w \in {FALSE, y.op.transfer = "write"} :
            Goto(t, [y EXCEPT !.pc = "start", !.partial = w])
      BY <1>13, <2>0 DEF Stray
    <2>4. w \in BOOLEAN
      BY <2>3
    <2>5. PICK x : x = [y EXCEPT !.pc = "start", !.partial = w]
      OBVIOUS
    <2>6. x \in Calls' /\ x.pc = "start"
      BY <2>2, <2>4, <2>5 DEF Calls
    <2>7. Stage(x)'
      BY <2>6 DEF Stage
    <2> QED BY <1>h, <2>0, <2>3, <2>5, <2>6, <2>7, OneCall
  <1>14. ASSUME NEW t \in Threads, NEW valid \in BOOLEAN, StartOp(t, valid)
       PROVE  call' \in [Threads -> Calls'] /\ \A u \in Threads : Stage(call[u])'
    <2>0. PICK y : y = call[t]
      OBVIOUS
    <2>1. y \in Calls /\ Stage(y)
      BY <2>0 DEF Typed, TypeOK
    <2>2. y \in Calls'
      BY <1>h, <2>1, StageStays
    <2>3. y.req \in Nat /\ y.sync \in BOOLEAN
      BY <2>1 DEF Calls
    <2>4. PICK w : w = [Idle EXCEPT !.pc = "submit", !.ctx = Len(ctxs) + 1, !.session = session,
                                    !.sync = y.sync, !.req = y.req]
      OBVIOUS
    <2>5. PICK x \in {w, Idle, [Idle EXCEPT !.pc = "again", !.req = y.req]} :
            Goto(t, x) /\ (x = w => session # 0)
      <3>1. PICK b \in BOOLEAN : b = (~call[t].partial /\ session # 0 /\ valid)
        OBVIOUS
      <3>2. CASE b
        <4>1. session # 0
          BY <3>1, <3>2
        <4>2. Goto(t, w)
          BY <1>14, <2>0, <2>4, <3>1, <3>2 DEF StartOp
        <4> QED BY <4>1, <4>2
      <3>3. CASE ~b
        <4>1. Goto(t, Idle) \/ Done(t)
          BY <1>14, <3>1, <3>3 DEF StartOp
        <4>2. PICK x \in {Idle, [Idle EXCEPT !.pc = "again", !.req = y.req]} : Goto(t, x)
          BY <2>0, <4>1 DEF Done
        <4>3. w.pc = "submit"
          BY <2>4 DEF Idle
        <4>4. x.pc \in {"idle", "again"}
          <5>1. CASE x = Idle
            BY <5>1 DEF Idle
          <5>2. CASE x = [Idle EXCEPT !.pc = "again", !.req = y.req]
            BY <5>2 DEF Idle
          <5> QED BY <4>2, <5>1, <5>2
        <4> QED BY <4>2, <4>3, <4>4
      <3> QED BY <3>2, <3>3
    <2>6. CASE x = w
      <3>1. session \in 1 .. last /\ session \in 0 .. MaxSessions /\ last' = last
        <4>1. session # 0 /\ last' = last
          BY <1>14, <2>5, <2>6 DEF StartOp, sessionVars
        <4>2. session \in {0, last} /\ last \in 0 .. MaxSessions
          BY DEF Typed, TypeOK, SessionTypeOK
        <4> QED BY <4>1, <4>2, SessionAssumption
      <3>2. Len(ctxs) + 1 \in 1 .. Len(ctxs') /\ Len(ctxs) + 1 \in 0 .. Len(ctxs')
        <4>1. ctxs \in Seq(Ctxs) /\ \E z : ctxs' = Append(ctxs, z)
          BY <1>14, <2>0 DEF StartOp, Typed, TypeOK
        <4> QED BY <4>1
      <3>3. x \in Calls' /\ x.pc = "submit" /\ x.ctx = Len(ctxs) + 1 /\ x.session = session
              /\ x.read = <<>> /\ x.blob = <<>>
        BY <1>h, <2>3, <2>4, <2>6, <3>1, <3>2, DoneType DEF Calls, Idle
      <3>4. Stage(x)'
        BY <3>1, <3>2, <3>3 DEF Stage
      <3> QED BY <1>h, <2>0, <2>5, <3>3, <3>4, OneCall
    <2>7. CASE x # w
      <3>1. x \in Calls' /\ Stage(x)'
        BY <1>h, <2>3, <2>5, <2>7, DoneType
      <3> QED BY <1>h, <2>0, <2>5, <3>1, OneCall
    <2> QED BY <2>6, <2>7
  <1>15. ASSUME NEW t \in Threads, SubmitRequest(t)
       PROVE  call' \in [Threads -> Calls'] /\ \A u \in Threads : Stage(call[u])'
    <2>0. PICK y : y = call[t]
      OBVIOUS
    <2>1. y \in Calls /\ Stage(y)
      BY <2>0 DEF Typed, TypeOK
    <2>2. y \in Calls'
      BY <1>h, <2>1, StageStays
    <2>3. y.session \in 1 .. last /\ y.ctx \in 1 .. Len(ctxs) /\ y.read = <<>>
            /\ y.blob = <<>>
      BY <1>15, <2>0, <2>1 DEF SubmitRequest, Stage
    <2>4. y.session \in Sessions /\ counter[y.session] \in Nat
      BY <2>3, SessionAssumption DEF Sessions, Typed, TypeOK, SessionTypeOK
    <2>5. PICK x : x = [y EXCEPT !.pc = "register", !.pkt = counter[y.session] + 1]
      OBVIOUS
    <2>6. x \in Calls' /\ x.pc = "register" /\ x.pkt = counter[y.session] + 1
            /\ x.session = y.session /\ x.ctx = y.ctx /\ x.read = <<>> /\ x.blob = <<>>
      <3>1. PICK n : n = counter[y.session] + 1
        OBVIOUS
      <3>2. n \in Nat
        BY <2>4, <3>1
      <3>3. x = [y EXCEPT !.pc = "register", !.pkt = n]
        BY <2>5, <3>1
      <3> QED BY <2>2, <2>3, <3>1, <3>2, <3>3 DEF Calls
    <2>7. counter'[y.session] = counter[y.session] + 1 /\ last' = last /\ ctxs' = ctxs
      BY <1>15, <2>0, <2>4 DEF SubmitRequest, PacketSubmitted, Typed, TypeOK, SessionTypeOK
    <2>8. Stage(x)'
      BY <2>3, <2>4, <2>6, <2>7 DEF Stage
    <2>9. Goto(t, x)
      BY <1>15, <2>0, <2>5 DEF SubmitRequest, NextPacket
    <2> QED BY <1>h, <2>0, <2>6, <2>8, <2>9, OneCall
  <1>16. ASSUME NEW t \in Threads, Register(t)
       PROVE  call' \in [Threads -> Calls'] /\ \A u \in Threads : Stage(call[u])'
    <2>0. PICK y : y = call[t]
      OBVIOUS
    <2>1. y \in Calls /\ Stage(y)
      BY <2>0 DEF Typed, TypeOK
    <2>2. y \in Calls'
      BY <1>h, <2>1, StageStays
    <2>3. y.req \in Nat
      BY <2>1 DEF Calls
    <2>4. PICK x \in {Idle, [Idle EXCEPT !.pc = "again", !.req = y.req]} : Goto(t, x)
      BY <1>16, <2>0 DEF Register, Done
    <2>5. x \in Calls' /\ Stage(x)'
      BY <1>h, <2>3, DoneType
    <2> QED BY <1>h, <2>0, <2>4, <2>5, OneCall
  <1>17. ASSUME NEW t \in Threads, WaitAgain(t)
       PROVE  call' \in [Threads -> Calls'] /\ \A u \in Threads : Stage(call[u])'
    <2>1. call[t].req \in DOMAIN requests /\ requests[call[t].req].ctx # 0 =>
            /\ requests[call[t].req].ctx \in 1 .. Len(ctxs')
            /\ requests[call[t].req].ctx \in 0 .. Len(ctxs')
      BY <1>17 DEF WaitAgain, Typed, TypeOK, Requests
    <2>2. PICK x : x = IF call[t].req \in DOMAIN requests /\ requests[call[t].req].ctx # 0
                       THEN [Idle EXCEPT !.pc = "wait", !.ctx = requests[call[t].req].ctx] ELSE Idle
      OBVIOUS
    <2>3. x \in Calls' /\ Stage(x)'
      <3>1. CASE x = Idle
        BY <1>h, <3>1, DoneType
      <3>2. CASE x # Idle
        <4>1. x = [Idle EXCEPT !.pc = "wait", !.ctx = requests[call[t].req].ctx]
                /\ requests[call[t].req].ctx \in 1 .. Len(ctxs')
                /\ requests[call[t].req].ctx \in 0 .. Len(ctxs')
          BY <2>1, <2>2, <3>2
        <4>2. x \in Calls' /\ x.pc = "wait" /\ x.ctx = requests[call[t].req].ctx
                /\ x.read = <<>> /\ x.blob = <<>>
          BY <1>h, <4>1, DoneType DEF Calls, Idle
        <4> QED BY <4>1, <4>2 DEF Stage
      <3> QED BY <3>1, <3>2
    <2> QED BY <1>17, <1>h, <2>2, <2>3, OneCall DEF WaitAgain
  <1>18. ASSUME NEW t \in Threads, WaitReturns(t)
       PROVE  call' \in [Threads -> Calls'] /\ \A u \in Threads : Stage(call[u])'
    <2>8. PICK x : x = Idle
      OBVIOUS
    <2>9. x \in Calls' /\ Stage(x)'
      BY <2>8, DoneType, <1>h
    <2> QED BY <1>18, <1>h, <2>8, <2>9, OneCall DEF WaitReturns
  <1>19. ASSUME NEW p \in inFlight, TakeReply(p)
       PROVE  call' \in [Threads -> Calls'] /\ \A u \in Threads : Stage(call[u])'
    <2>1. UNCHANGED call
      BY <1>19 DEF TakeReply
    <2> QED BY <2>1, <1>h, CallsStay
  <1>20. ASSUME NEW good \in BOOLEAN, CompleteOp(good)
       PROVE  call' \in [Threads -> Calls'] /\ \A u \in Threads : Stage(call[u])'
    <2>1. UNCHANGED call
      BY <1>20 DEF CompleteOp
    <2> QED BY <2>1, <1>h, CallsStay
  <1>21. ASSUME SignIn
       PROVE  call' \in [Threads -> Calls'] /\ \A u \in Threads : Stage(call[u])'
    <2>1. UNCHANGED call
      BY <1>21 DEF SignIn
    <2> QED BY <2>1, <1>h, CallsStay
  <1>22. ASSUME LoseConnection
       PROVE  call' \in [Threads -> Calls'] /\ \A u \in Threads : Stage(call[u])'
    <2>1. UNCHANGED call
      BY <1>22 DEF LoseConnection
    <2> QED BY <2>1, <1>h, CallsStay
  <1>23. ASSUME Disconnect
       PROVE  call' \in [Threads -> Calls'] /\ \A u \in Threads : Stage(call[u])'
    <2>1. UNCHANGED call
      BY <1>23 DEF Disconnect
    <2> QED BY <2>1, <1>h, CallsStay
  <1>24. ASSUME StopClient
       PROVE  call' \in [Threads -> Calls'] /\ \A u \in Threads : Stage(call[u])'
    <2>1. UNCHANGED call
      BY <1>24 DEF StopClient
    <2> QED BY <2>1, <1>h, CallsStay
  <1>25. ASSUME FailPendingRequests
       PROVE  call' \in [Threads -> Calls'] /\ \A u \in Threads : Stage(call[u])'
    <2>1. UNCHANGED call
      BY <1>25 DEF FailPendingRequests
    <2> QED BY <2>1, <1>h, CallsStay
  <1>26. CASE UNCHANGED vars
    BY <1>26, <1>h, CallsStay DEF vars
  <1> QED
    BY <1>1, <1>2, <1>3, <1>4, <1>5, <1>6, <1>7, <1>8, <1>9, <1>10, <1>11, <1>12, <1>13, <1>14, <1>15, <1>16, <1>17, <1>18, <1>19, <1>20, <1>21, <1>22, <1>23, <1>24, <1>25, <1>26 DEF Next, GameCalls, CallStep, ReplyStep, CompleteStep, DisconnectStep

\* Title contexts, requests and what numbers them
RequestsRight ==
    /\ begun \in Nat /\ made \in [title : 0 .. MaxTitles, req : 0 .. MaxRequests]
    /\ titles \subseteq 1 .. MaxTitles /\ DOMAIN requests \subseteq 1 .. MaxRequests
    /\ \A r \in DOMAIN requests : requests[r] \in Requests

\* A request stays right as operations are added, while its title context is there.
LEMMA RequestStays ==
    ASSUME Typed, [Next]_vars, NEW x \in Requests, x.title \in titles'
    PROVE  x \in Requests'
  <1>1. ctxs' \in Seq(Ctxs) /\ Len(ctxs) <= Len(ctxs') /\ ctxs \in Seq(Ctxs)
    BY CtxsStep DEF OldKept, Typed, TypeOK
  <1>2. Len(ctxs) \in Nat /\ Len(ctxs') \in Nat
    BY <1>1
  <1>3. x.ctx \in 0 .. Len(ctxs')
    BY <1>1, <1>2 DEF Requests
  <1> QED BY <1>3 DEF Requests

\* They all do when none is changed.
LEMMA RequestsStay ==
    ASSUME Typed, [Next]_vars, UNCHANGED requestVars
    PROVE  RequestsRight'
  <1>1. RequestsRight /\ UNCHANGED <<titles, requests, made, begun>>
    BY DEF Typed, TypeOK, RequestsRight, requestVars
  <1>2. ASSUME NEW r \in DOMAIN requests PROVE requests'[r] \in Requests'
    <2>1. PICK x : x = requests[r]
      OBVIOUS
    <2>2. x \in Requests /\ x.title \in titles'
      BY <1>1, <2>1 DEF RequestsRight, Requests
    <2> QED BY <1>1, <2>1, <2>2, RequestStays
  <1> QED BY <1>1, <1>2 DEF RequestsRight

\* One is changed or added.
LEMMA OneRequest ==
    ASSUME Typed, [Next]_vars, NEW r \in 1 .. MaxRequests, UNCHANGED titles,
           DOMAIN requests' = DOMAIN requests \cup {r}, requests'[r] \in Requests',
           \A q \in DOMAIN requests : q # r => requests'[q] = requests[q]
    PROVE  DOMAIN requests' \subseteq 1 .. MaxRequests
           /\ \A q \in DOMAIN requests' : requests'[q] \in Requests'
  <1>1. DOMAIN requests \subseteq 1 .. MaxRequests
    BY DEF Typed, TypeOK
  <1>2. ASSUME NEW q \in DOMAIN requests, q # r PROVE requests'[q] \in Requests'
    <2>1. PICK x : x = requests[q]
      OBVIOUS
    <2>2. x \in Requests /\ x.title \in titles'
      BY <2>1 DEF Typed, TypeOK, Requests
    <2> QED BY <1>2, <2>1, <2>2, RequestStays
  <1> QED BY <1>1, <1>2

\* The context of a request
LEMMA SetCtx ==
    ASSUME Typed, [Next]_vars, NEW r \in DOMAIN requests, UNCHANGED <<titles, made, begun>>,
           Len(ctxs') = Len(ctxs) + 1, requests' = [requests EXCEPT ![r].ctx = Len(ctxs) + 1]
    PROVE  RequestsRight'
  <1>1. RequestsRight /\ r \in 1 .. MaxRequests
    BY DEF Typed, TypeOK, RequestsRight
  <1>2. PICK x : x = requests[r]
    OBVIOUS
  <1>3. PICK n : n = Len(ctxs) + 1
    OBVIOUS
  <1>4. n \in 0 .. Len(ctxs')
    <2>1. Len(ctxs) \in Nat
      BY DEF Typed, TypeOK
    <2> QED BY <1>3, <2>1
  <1>5. PICK y : y = [x EXCEPT !.ctx = n]
    OBVIOUS
  <1>6. y \in Requests'
    BY <1>1, <1>2, <1>4, <1>5 DEF RequestsRight, Requests
  <1>7. requests' = [requests EXCEPT ![r] = y]
    BY <1>2, <1>3, <1>5
  <1>8. DOMAIN requests' = DOMAIN requests \cup {r} /\ requests'[r] = y
          /\ \A q \in DOMAIN requests : q # r => requests'[q] = requests[q]
    BY <1>7
  <1>9. DOMAIN requests' \subseteq 1 .. MaxRequests /\ \A q \in DOMAIN requests' : requests'[q] \in Requests'
    BY <1>1, <1>6, <1>8, OneRequest
  <1> QED BY <1>1, <1>9 DEF RequestsRight

\* The transfer of a request
LEMMA SetXfer ==
    ASSUME Typed, [Next]_vars, NEW t \in Threads, call[t].req \in DOMAIN requests, NEW x \in Xfers, Transfer(t, x)
    PROVE  RequestsRight'
  <1>1. RequestsRight /\ call[t].req \in 1 .. MaxRequests /\ UNCHANGED <<titles, made>>
    BY DEF Typed, TypeOK, RequestsRight, Transfer
  <1>2. begun' \in Nat
    BY <1>1 DEF Transfer, RequestsRight, Xfers
  <1>3. PICK r : r = call[t].req
    OBVIOUS
  <1>4. PICK z : z = requests[r]
    OBVIOUS
  <1>5. PICK y : y = [z EXCEPT !.xfer = x]
    OBVIOUS
  <1>6. y \in Requests
    BY <1>1, <1>3, <1>4, <1>5 DEF RequestsRight, Requests
  <1>7. y \in Requests'
    BY <1>1, <1>6, RequestStays DEF Requests
  <1>8. requests' = [requests EXCEPT ![r] = y]
    BY <1>3, <1>4, <1>5 DEF Transfer
  <1>9. DOMAIN requests' = DOMAIN requests \cup {r} /\ requests'[r] = y
          /\ \A q \in DOMAIN requests : q # r => requests'[q] = requests[q]
    BY <1>3, <1>8
  <1>10. DOMAIN requests' \subseteq 1 .. MaxRequests /\ \A q \in DOMAIN requests' : requests'[q] \in Requests'
    BY <1>1, <1>3, <1>7, <1>9, OneRequest
  <1> QED BY <1>1, <1>2, <1>10 DEF RequestsRight

\* Some are taken out.
LEMMA SomeGone ==
    ASSUME Typed, [Next]_vars, NEW S, requests' = Restrict(requests, DOMAIN requests \ S),
           UNCHANGED <<made, begun>>, titles' \subseteq titles,
           \A r \in DOMAIN requests \ S : requests[r].title \in titles'
    PROVE  RequestsRight'
  <1>1. RequestsRight
    BY DEF Typed, TypeOK, RequestsRight
  <1>2. DOMAIN requests' = DOMAIN requests \ S /\ \A r \in DOMAIN requests' : requests'[r] = requests[r]
    BY DEF Restrict
  <1>3. ASSUME NEW r \in DOMAIN requests' PROVE requests'[r] \in Requests'
    <2>1. PICK x : x = requests[r]
      OBVIOUS
    <2>2. x \in Requests /\ x.title \in titles'
      BY <1>1, <1>2, <2>1 DEF RequestsRight
    <2> QED BY <1>2, <2>1, <2>2, RequestStays
  <1> QED BY <1>1, <1>2, <1>3 DEF RequestsRight

\* A chunk is claimed.
LEMMA ReceivedType ==
    ASSUME NEW x \in Xfers, x.received < MaxParts, NEW data \in BOOLEAN
    PROVE  /\ Received(x, data) \in Xfers
           /\ Received(x, data).active = x.active /\ Received(x, data).owner = x.owner
           /\ Received(x, data).serial = x.serial /\ Received(x, data).parts = x.parts
           /\ Received(x, data).received = IF data THEN x.received + 1 ELSE x.received
  <1>1. x.received + 1 \in 0 .. MaxParts
    <2>1. x.received \in 0 .. MaxParts
      BY DEF Xfers
    <2>2. MaxParts \in Nat
      BY TusAssumption
    <2> QED BY <2>1, <2>2
  <1>2. PICK n : n = x.received + 1
    OBVIOUS
  <1>3. PICK y : y = Received(x, data)
    OBVIOUS
  <1>4. CASE data
    <2>1. y = [x EXCEPT !.received = n]
      BY <1>2, <1>3, <1>4 DEF Received
    <2> QED BY <1>1, <1>2, <1>3, <1>4, <2>1 DEF Xfers
  <1>5. CASE ~data
    BY <1>5 DEF Received
  <1> QED BY <1>4, <1>5

\* Title contexts and requests keep their type.
LEMMA RequestsStep ==
    ASSUME Typed, [Next]_vars
    PROVE  RequestsRight'
  <1>h. [Next]_vars
    OBVIOUS
  <1>t. RequestsRight
    BY DEF Typed, TypeOK, RequestsRight
  <1>1. ASSUME NEW t \in Threads, CreateNpTitleCtx(t)
       PROVE  RequestsRight'
    <2>1. made' \in [title : 0 .. MaxTitles, req : 0 .. MaxRequests] /\ titles' \subseteq 1 .. MaxTitles
      <3>1. made.title + 1 \in 1 .. MaxTitles
        BY <1>1, <1>t, TusAssumption DEF CreateNpTitleCtx, RequestsRight
      <3>2. PICK n : n = made.title + 1
        OBVIOUS
      <3>3. made' = [made EXCEPT !.title = n] /\ titles' = titles \cup {n}
        BY <1>1, <3>2 DEF CreateNpTitleCtx
      <3> QED BY <1>t, <3>1, <3>2, <3>3 DEF RequestsRight
    <2>2. UNCHANGED <<requests, begun>> /\ titles \subseteq titles'
      BY <1>1 DEF CreateNpTitleCtx
    <2>3. ASSUME NEW r \in DOMAIN requests PROVE requests[r] \in Requests'
      <3>1. PICK x : x = requests[r]
        OBVIOUS
      <3>2. x \in Requests /\ x.title \in titles'
        BY <1>t, <2>2, <3>1 DEF RequestsRight, Requests
      <3> QED BY <1>h, <3>1, <3>2, RequestStays
    <2> QED BY <1>t, <2>1, <2>2, <2>3 DEF RequestsRight
  <1>2. ASSUME NEW t \in Threads, NEW i \in titles, DeleteNpTitleCtx(t, i)
       PROVE  RequestsRight'
    <2>1. PICK S : S = {r \in DOMAIN requests : requests[r].title = i}
      OBVIOUS
    <2>2. /\ requests' = Restrict(requests, DOMAIN requests \ S) /\ titles' = titles \ {i}
          /\ UNCHANGED <<made, begun>>
      BY <1>2, <2>1 DEF DeleteNpTitleCtx
    <2>3. \A r \in DOMAIN requests \ S : requests[r].title \in titles'
      BY <1>t, <2>1, <2>2 DEF RequestsRight, Requests
    <2> QED BY <1>h, <2>2, <2>3, SomeGone
  <1>3. ASSUME NEW t \in Threads, NEW i \in titles, CreateRequest(t, i)
       PROVE  RequestsRight'
    <2>1. PICK n : n = made.req + 1
      OBVIOUS
    <2>2. n \in 1 .. MaxRequests /\ made' \in [title : 0 .. MaxTitles, req : 0 .. MaxRequests]
      <3>1. n \in 1 .. MaxRequests
        BY <1>3, <1>t, <2>1, TusAssumption DEF CreateRequest, RequestsRight
      <3>2. made' = [made EXCEPT !.req = n]
        BY <1>3, <2>1 DEF CreateRequest
      <3> QED BY <1>t, <3>1, <3>2 DEF RequestsRight
    <2>3. PICK x : x = [title |-> i, ctx |-> 0, xfer |-> NoXfer]
      OBVIOUS
    <2>4. UNCHANGED <<titles, begun>> /\ DOMAIN requests' = DOMAIN requests \cup {n} /\ requests'[n] = x
            /\ \A q \in DOMAIN requests : q # n => requests'[q] = requests[q]
      BY <1>3, <2>1, <2>3 DEF CreateRequest
    <2>5. x \in Requests'
      <3>1. NoXfer \in Xfers
        BY TusAssumption DEF NoXfer, Xfers, Parts
      <3>2. 0 \in 0 .. Len(ctxs')
        BY <1>h, CtxsStep
      <3>3. i \in titles'
        BY <2>4
      <3> QED BY <2>3, <3>1, <3>2, <3>3 DEF Requests
    <2>6. DOMAIN requests' \subseteq 1 .. MaxRequests /\ \A q \in DOMAIN requests' : requests'[q] \in Requests'
      BY <1>h, <2>2, <2>4, <2>5, OneRequest
    <2> QED BY <1>t, <2>2, <2>4, <2>6 DEF RequestsRight
  <1>4. ASSUME NEW t \in Threads, NEW r \in DOMAIN requests, DeleteRequest(t, r)
       PROVE  RequestsRight'
    <2>1. requests' = Restrict(requests, DOMAIN requests \ {r}) /\ UNCHANGED <<titles, made, begun>>
      BY <1>4 DEF DeleteRequest
    <2>2. \A q \in DOMAIN requests \ {r} : requests[q].title \in titles'
      BY <1>t, <2>1 DEF RequestsRight, Requests
    <2> QED BY <1>h, <2>1, <2>2, SomeGone
  <1>5. ASSUME NEW t \in Threads, NEW r \in DOMAIN requests, AbortRequest(t, r)
       PROVE  RequestsRight'
    <2>1. UNCHANGED requestVars
      BY <1>5 DEF AbortRequest, requestVars
    <2> QED BY <2>1, <1>h, RequestsStay
  <1>6. ASSUME NEW t \in Threads, NEW r \in DOMAIN requests, NEW op \in KindOps, NEW sync \in game.syncs, ResolveTus(t, r, op, sync)
       PROVE  RequestsRight'
    <2>1. UNCHANGED requestVars
      BY <1>6 DEF ResolveTus, requestVars
    <2> QED BY <2>1, <1>h, RequestsStay
  <1>7. ASSUME NEW t \in Threads, NEW r \in DOMAIN requests, FakeAsyncComplete(t, r)
       PROVE  RequestsRight'
    <2>1. ctxs \in Seq(Ctxs) /\ \E z : ctxs' = Append(ctxs, z)
      BY <1>7 DEF FakeAsyncComplete, Typed, TypeOK
    <2>2. Len(ctxs') = Len(ctxs) + 1
      BY <2>1
    <2>3. UNCHANGED <<titles, made, begun>> /\ requests' = [requests EXCEPT ![r].ctx = Len(ctxs) + 1]
      BY <1>7 DEF FakeAsyncComplete
    <2> QED BY <1>h, <2>2, <2>3, SetCtx
  <1>8. ASSUME NEW t \in Threads, NEW r \in DOMAIN requests, WaitAsync(t, r)
       PROVE  RequestsRight'
    <2>1. UNCHANGED requestVars
      BY <1>8 DEF WaitAsync, requestVars
    <2> QED BY <2>1, <1>h, RequestsStay
  <1>9. ASSUME NEW t \in Threads, NEW r \in DOMAIN requests, PollAsync(t, r)
       PROVE  RequestsRight'
    <2>1. UNCHANGED requestVars
      BY <1>9 DEF PollAsync, requestVars
    <2> QED BY <2>1, <1>h, RequestsStay
  <1>10. ASSUME NEW t \in Threads, NEW data \in BOOLEAN, ReadData(t, data)
       PROVE  RequestsRight'
    <2>1. PICK x \in XferOf(t, 0) : x.received < MaxParts /\ Transfer(t, Received(x, data))
      BY <1>10 DEF ReadData
    <2>2. x \in Xfers /\ call[t].req \in DOMAIN requests
      <3>1. 0 \in 0 .. MaxParts
        BY TusAssumption
      <3> QED BY <2>1, <3>1, XferType
    <2>3. Received(x, data) \in Xfers
      BY <2>1, <2>2, ReceivedType
    <2> QED BY <1>h, <2>1, <2>2, <2>3, SetXfer
  <1>11. ASSUME NEW t \in Threads, ReadDataAt(t)
       PROVE  RequestsRight'
    <2>1. PICK x \in XferOf(t, 0) : x.received < MaxParts /\ Transfer(t, Received(x, TRUE))
      BY <1>11 DEF ReadDataAt
    <2>2. x \in Xfers /\ call[t].req \in DOMAIN requests
      <3>1. 0 \in 0 .. MaxParts
        BY TusAssumption
      <3> QED BY <2>1, <3>1, XferType
    <2>3. Received(x, TRUE) \in Xfers
      BY <2>1, <2>2, ReceivedType
    <2> QED BY <1>h, <2>1, <2>2, <2>3, SetXfer
  <1>12. ASSUME NEW t \in Threads, NEW total \in 1 .. MaxParts, WriteData(t, total)
       PROVE  RequestsRight'
    <2>1. PICK x \in XferOf(t, total) : \E y :
            /\ Transfer(t, y)
            /\ y \in {[NoXfer EXCEPT !.serial = x.serial],
                      [x EXCEPT !.parts = Append(x.parts, call[t].op.owner)]}
      BY <1>12 DEF WriteData
    <2>5. PICK y :
            /\ Transfer(t, y)
            /\ y \in {[NoXfer EXCEPT !.serial = x.serial],
                      [x EXCEPT !.parts = Append(x.parts, call[t].op.owner)]}
      BY <2>1
    <2>2. x \in Xfers /\ call[t].req \in DOMAIN requests
      <3>1. total \in 0 .. MaxParts
        OBVIOUS
      <3> QED BY <2>1, <3>1, XferType
    <2>3. y \in Xfers
      <3>1. Append(x.parts, call[t].op.owner) \in Parts
        <4>1. PICK o : o = call[t].op.owner
          OBVIOUS
        <4>2. o \in {"account", Name}
          BY <1>12, <4>1, OpsRight DEF WriteData, Typed, TypeOK, Calls, Right
        <4>3. x.parts \in Seq({"account", Name})
          BY <2>2 DEF Xfers, Parts
        <4> QED BY <4>1, <4>2, <4>3 DEF Parts
      <3>2. PICK s \in Parts : s = Append(x.parts, call[t].op.owner)
        BY <3>1
      <3>3. [x EXCEPT !.parts = s] \in Xfers
        BY <2>2 DEF Xfers
      <3>4. NoXfer \in Xfers
        BY TusAssumption DEF NoXfer, Xfers, Parts
      <3>5. PICK n \in Nat : n = x.serial
        BY <2>2 DEF Xfers
      <3>6. [NoXfer EXCEPT !.serial = n] \in Xfers
        BY <3>4 DEF Xfers
      <3> QED BY <2>5, <3>2, <3>3, <3>5, <3>6
    <2> QED BY <1>h, <2>2, <2>3, <2>5, SetXfer
  <1>13. ASSUME NEW t \in Threads, Stray(t)
       PROVE  RequestsRight'
    <2>1. UNCHANGED requestVars
      BY <1>13 DEF Stray, requestVars
    <2> QED BY <2>1, <1>h, RequestsStay
  <1>14. ASSUME NEW t \in Threads, NEW valid \in BOOLEAN, StartOp(t, valid)
       PROVE  RequestsRight'
    <2>1. ctxs \in Seq(Ctxs) /\ \E z : ctxs' = Append(ctxs, z)
      BY <1>14 DEF StartOp, Typed, TypeOK
    <2>2. Len(ctxs') = Len(ctxs) + 1
      BY <2>1
    <2>3. UNCHANGED <<titles, made, begun>>
      BY <1>14 DEF StartOp
    <2>4. CASE call[t].req \in DOMAIN requests
      <3>1. PICK r \in DOMAIN requests : r = call[t].req
        BY <2>4
      <3>2. requests' = [requests EXCEPT ![r].ctx = Len(ctxs) + 1]
        BY <1>14, <3>1 DEF StartOp
      <3> QED BY <1>h, <2>2, <2>3, <3>2, SetCtx
    <2>5. CASE call[t].req \notin DOMAIN requests
      <3>1. UNCHANGED requestVars
        BY <1>14, <2>3, <2>5 DEF StartOp, requestVars
      <3> QED BY <1>h, <3>1, RequestsStay
    <2> QED BY <2>4, <2>5
  <1>15. ASSUME NEW t \in Threads, SubmitRequest(t)
       PROVE  RequestsRight'
    <2>1. UNCHANGED requestVars
      BY <1>15 DEF SubmitRequest, requestVars
    <2> QED BY <2>1, <1>h, RequestsStay
  <1>16. ASSUME NEW t \in Threads, Register(t)
       PROVE  RequestsRight'
    <2>1. UNCHANGED requestVars
      BY <1>16 DEF Register, requestVars
    <2> QED BY <2>1, <1>h, RequestsStay
  <1>17. ASSUME NEW t \in Threads, WaitAgain(t)
       PROVE  RequestsRight'
    <2>1. UNCHANGED requestVars
      BY <1>17 DEF WaitAgain, requestVars
    <2> QED BY <2>1, <1>h, RequestsStay
  <1>18. ASSUME NEW t \in Threads, WaitReturns(t)
       PROVE  RequestsRight'
    <2>1. UNCHANGED requestVars
      BY <1>18 DEF WaitReturns, requestVars
    <2> QED BY <2>1, <1>h, RequestsStay
  <1>19. ASSUME NEW p \in inFlight, TakeReply(p)
       PROVE  RequestsRight'
    <2>1. UNCHANGED requestVars
      BY <1>19 DEF TakeReply, requestVars
    <2> QED BY <2>1, <1>h, RequestsStay
  <1>20. ASSUME NEW good \in BOOLEAN, CompleteOp(good)
       PROVE  RequestsRight'
    <2>1. UNCHANGED requestVars
      BY <1>20 DEF CompleteOp, requestVars
    <2> QED BY <2>1, <1>h, RequestsStay
  <1>21. ASSUME SignIn
       PROVE  RequestsRight'
    <2>1. UNCHANGED requestVars
      BY <1>21 DEF SignIn, requestVars
    <2> QED BY <2>1, <1>h, RequestsStay
  <1>22. ASSUME LoseConnection
       PROVE  RequestsRight'
    <2>1. UNCHANGED requestVars
      BY <1>22 DEF LoseConnection, requestVars
    <2> QED BY <2>1, <1>h, RequestsStay
  <1>23. ASSUME Disconnect
       PROVE  RequestsRight'
    <2>1. UNCHANGED requestVars
      BY <1>23 DEF Disconnect, requestVars
    <2> QED BY <2>1, <1>h, RequestsStay
  <1>24. ASSUME StopClient
       PROVE  RequestsRight'
    <2>1. UNCHANGED requestVars
      BY <1>24 DEF StopClient, requestVars
    <2> QED BY <2>1, <1>h, RequestsStay
  <1>25. ASSUME FailPendingRequests
       PROVE  RequestsRight'
    <2>1. UNCHANGED requestVars
      BY <1>25 DEF FailPendingRequests, requestVars
    <2> QED BY <2>1, <1>h, RequestsStay
  <1>26. CASE UNCHANGED vars
    BY <1>26, <1>h, RequestsStay DEF vars
  <1> QED
    BY <1>1, <1>2, <1>3, <1>4, <1>5, <1>6, <1>7, <1>8, <1>9, <1>10, <1>11, <1>12, <1>13, <1>14, <1>15, <1>16, <1>17, <1>18, <1>19, <1>20, <1>21, <1>22, <1>23, <1>24, <1>25, <1>26 DEF Next, GameCalls, CallStep, ReplyStep, CompleteStep, DisconnectStep

\* An entry is of an operation, and of a packet that was sent.
Entry(e) == e \in Entries /\ e.session \in 1 .. last /\ e.pkt \in 1 .. counter[e.session]

\* What waits for a reply, and who has one
PendingRight ==
    /\ \A e \in pending : Entry(e)
    /\ \A e, f \in pending : e.pkt = f.pkt => e = f
    /\ reader \in 0 .. Len(ctxs)

\* An entry stays right.
LEMMA EntryStays ==
    ASSUME Typed, [Next]_vars, NEW e, Entry(e)
    PROVE  Entry(e)'
  <1>1. ctxs' \in Seq(Ctxs) /\ Len(ctxs) <= Len(ctxs') /\ ctxs \in Seq(Ctxs)
    BY CtxsStep DEF OldKept, Typed, TypeOK
  <1>2. Len(ctxs) \in Nat /\ Len(ctxs') \in Nat
    BY <1>1
  <1>3. e.ctx \in 1 .. Len(ctxs')
    BY <1>1, <1>2 DEF Entry, Entries
  <1>4. e \in Entries'
    BY <1>3 DEF Entry, Entries
  <1>5. last <= last' /\ last \in Nat /\ last' \in Nat /\ e.session \in 1 .. last'
    BY SessionStep, SessionAssumption DEF SessionsGrow, Typed, TypeOK, SessionTypeOK, Entry
  <1>6. e.session \in Sessions
    BY DEF Entry, Entries
  <1>7. counter[e.session] \in Nat /\ counter'[e.session] \in Nat /\ counter[e.session] <= counter'[e.session]
    BY <1>6, SessionStep DEF SessionsGrow, Typed, TypeOK, SessionTypeOK
  <1>8. e.pkt \in 1 .. counter'[e.session]
    BY <1>7 DEF Entry
  <1> QED BY <1>4, <1>5, <1>8 DEF Entry

\* Entries stay when none is added.
LEMMA PendingShrinks ==
    ASSUME Typed, [Next]_vars, pending' \subseteq pending, reader' \in 0 .. Len(ctxs')
    PROVE  PendingRight'
  <1>1. PendingRight
    BY DEF Typed, TypeOK, Sessioned, PendingRight, Entry
  <1>2. ASSUME NEW e \in pending' PROVE Entry(e)'
    BY <1>1, EntryStays DEF PendingRight
  <1> QED BY <1>1, <1>2 DEF PendingRight

\* And when all stay.
LEMMA PendingStays ==
    ASSUME Typed, [Next]_vars, UNCHANGED replyVars
    PROVE  PendingRight'
  <1>1. ctxs' \in Seq(Ctxs) /\ Len(ctxs) <= Len(ctxs') /\ ctxs \in Seq(Ctxs)
    BY CtxsStep DEF OldKept, Typed, TypeOK
  <1>2. Len(ctxs) \in Nat /\ Len(ctxs') \in Nat
    BY <1>1
  <1>3. reader \in 0 .. Len(ctxs) /\ reader' = reader /\ pending' = pending
    BY DEF Typed, TypeOK, replyVars
  <1>4. reader' \in 0 .. Len(ctxs')
    BY <1>1, <1>2, <1>3
  <1> QED BY <1>3, <1>4, PendingShrinks

\* What waits for a reply keeps its type.
LEMMA PendingStep ==
    ASSUME Typed, [Next]_vars
    PROVE  PendingRight'
  <1>h. [Next]_vars
    OBVIOUS
  <1>1. ASSUME NEW t \in Threads, CreateNpTitleCtx(t)
       PROVE  PendingRight'
    <2>1. UNCHANGED replyVars
      BY <1>1 DEF CreateNpTitleCtx, replyVars
    <2> QED BY <2>1, <1>h, PendingStays
  <1>2. ASSUME NEW t \in Threads, NEW i \in titles, DeleteNpTitleCtx(t, i)
       PROVE  PendingRight'
    <2>1. UNCHANGED replyVars
      BY <1>2 DEF DeleteNpTitleCtx, replyVars
    <2> QED BY <2>1, <1>h, PendingStays
  <1>3. ASSUME NEW t \in Threads, NEW i \in titles, CreateRequest(t, i)
       PROVE  PendingRight'
    <2>1. UNCHANGED replyVars
      BY <1>3 DEF CreateRequest, replyVars
    <2> QED BY <2>1, <1>h, PendingStays
  <1>4. ASSUME NEW t \in Threads, NEW r \in DOMAIN requests, DeleteRequest(t, r)
       PROVE  PendingRight'
    <2>1. UNCHANGED replyVars
      BY <1>4 DEF DeleteRequest, replyVars
    <2> QED BY <2>1, <1>h, PendingStays
  <1>5. ASSUME NEW t \in Threads, NEW r \in DOMAIN requests, AbortRequest(t, r)
       PROVE  PendingRight'
    <2>1. UNCHANGED replyVars
      BY <1>5 DEF AbortRequest, replyVars
    <2> QED BY <2>1, <1>h, PendingStays
  <1>6. ASSUME NEW t \in Threads, NEW r \in DOMAIN requests, NEW op \in KindOps, NEW sync \in game.syncs, ResolveTus(t, r, op, sync)
       PROVE  PendingRight'
    <2>1. UNCHANGED replyVars
      BY <1>6 DEF ResolveTus, replyVars
    <2> QED BY <2>1, <1>h, PendingStays
  <1>7. ASSUME NEW t \in Threads, NEW r \in DOMAIN requests, FakeAsyncComplete(t, r)
       PROVE  PendingRight'
    <2>1. UNCHANGED replyVars
      BY <1>7 DEF FakeAsyncComplete, replyVars
    <2> QED BY <2>1, <1>h, PendingStays
  <1>8. ASSUME NEW t \in Threads, NEW r \in DOMAIN requests, WaitAsync(t, r)
       PROVE  PendingRight'
    <2>1. UNCHANGED replyVars
      BY <1>8 DEF WaitAsync, replyVars
    <2> QED BY <2>1, <1>h, PendingStays
  <1>9. ASSUME NEW t \in Threads, NEW r \in DOMAIN requests, PollAsync(t, r)
       PROVE  PendingRight'
    <2>1. UNCHANGED replyVars
      BY <1>9 DEF PollAsync, replyVars
    <2> QED BY <2>1, <1>h, PendingStays
  <1>10. ASSUME NEW t \in Threads, NEW data \in BOOLEAN, ReadData(t, data)
       PROVE  PendingRight'
    <2>1. UNCHANGED replyVars
      BY <1>10 DEF ReadData, replyVars, Transfer
    <2> QED BY <2>1, <1>h, PendingStays
  <1>11. ASSUME NEW t \in Threads, ReadDataAt(t)
       PROVE  PendingRight'
    <2>1. UNCHANGED replyVars
      BY <1>11 DEF ReadDataAt, replyVars, Transfer
    <2> QED BY <2>1, <1>h, PendingStays
  <1>12. ASSUME NEW t \in Threads, NEW total \in 1 .. MaxParts, WriteData(t, total)
       PROVE  PendingRight'
    <2>1. UNCHANGED replyVars
      BY <1>12 DEF WriteData, replyVars, Transfer
    <2> QED BY <2>1, <1>h, PendingStays
  <1>13. ASSUME NEW t \in Threads, Stray(t)
       PROVE  PendingRight'
    <2>1. UNCHANGED replyVars
      BY <1>13 DEF Stray, replyVars
    <2> QED BY <2>1, <1>h, PendingStays
  <1>14. ASSUME NEW t \in Threads, NEW valid \in BOOLEAN, StartOp(t, valid)
       PROVE  PendingRight'
    <2>1. UNCHANGED replyVars
      BY <1>14 DEF StartOp, replyVars
    <2> QED BY <2>1, <1>h, PendingStays
  <1>15. ASSUME NEW t \in Threads, SubmitRequest(t)
       PROVE  PendingRight'
    <2>1. UNCHANGED replyVars
      BY <1>15 DEF SubmitRequest, replyVars
    <2> QED BY <2>1, <1>h, PendingStays
  <1>16. ASSUME NEW t \in Threads, Register(t)
       PROVE  PendingRight'
    <2>1. PICK x : x = call[t]
      OBVIOUS
    <2>2. x \in Calls /\ Stage(x) /\ x.pc = "register"
      BY <1>16, <2>1 DEF Register, Typed, TypeOK
    <2>3. reader' \in 0 .. Len(ctxs')
      <3>1. ctxs' \in Seq(Ctxs) /\ Len(ctxs) <= Len(ctxs') /\ ctxs \in Seq(Ctxs)
        BY <1>h, CtxsStep DEF OldKept, Typed, TypeOK
      <3>2. Len(ctxs) \in Nat /\ Len(ctxs') \in Nat
        BY <3>1
      <3>3. reader \in 0 .. Len(ctxs) /\ reader' = reader
        BY <1>16 DEF Register, Typed, TypeOK
      <3> QED BY <3>1, <3>2, <3>3
    <2>4. CASE \E e \in pending : e.pkt = x.pkt
      <3>1. pending' = pending
        BY <1>16, <2>1, <2>4 DEF Register
      <3> QED BY <1>h, <2>3, <3>1, PendingShrinks
    <2>5. CASE ~ \E e \in pending : e.pkt = x.pkt
      <3>1. PICK e : e = [pkt |-> x.pkt, ctx |-> x.ctx, session |-> x.session]
        OBVIOUS
      <3>2. pending' = pending \cup {e}
        BY <1>16, <2>1, <2>5, <3>1 DEF Register
      <3>3. Entry(e)
        <4>1. x.session \in Sessions /\ x.session \in 1 .. last
          BY <2>2, SessionAssumption DEF Stage, Sessions, Typed, TypeOK, SessionTypeOK
        <4>2. x.pkt \in 1 .. counter[x.session]
          BY <2>2 DEF Stage
        <4>3. x.pkt \in Nat \ {0}
          BY <4>2
        <4>4. x.ctx \in 1 .. Len(ctxs)
          BY <2>2 DEF Stage
        <4> QED BY <3>1, <4>1, <4>2, <4>3, <4>4 DEF Entry, Entries
      <3>4. PendingRight
        BY DEF Typed, TypeOK, Sessioned, PendingRight, Entry
      <3>5. ASSUME NEW f \in pending' PROVE Entry(f)'
        <4>1. Entry(f)
          BY <3>2, <3>3, <3>4 DEF PendingRight
        <4> QED BY <1>h, <4>1, EntryStays
      <3>6. ASSUME NEW f \in pending', NEW g \in pending', f.pkt = g.pkt PROVE f = g
        <4>1. e.pkt = x.pkt
          BY <3>1
        <4> QED BY <2>5, <3>2, <3>4, <3>6, <4>1 DEF PendingRight
      <3> QED BY <2>3, <3>5, <3>6 DEF PendingRight
    <2> QED BY <2>4, <2>5
  <1>17. ASSUME NEW t \in Threads, WaitAgain(t)
       PROVE  PendingRight'
    <2>1. UNCHANGED replyVars
      BY <1>17 DEF WaitAgain, replyVars
    <2> QED BY <2>1, <1>h, PendingStays
  <1>18. ASSUME NEW t \in Threads, WaitReturns(t)
       PROVE  PendingRight'
    <2>1. UNCHANGED replyVars
      BY <1>18 DEF WaitReturns, replyVars
    <2> QED BY <2>1, <1>h, PendingStays
  <1>19. ASSUME NEW p \in inFlight, TakeReply(p)
       PROVE  PendingRight'
    <2>1. pending' \subseteq pending
      BY <1>19 DEF TakeReply
    <2>2. reader' \in 0 .. Len(ctxs')
      <3>1. CASE \E e \in pending : e.pkt = p
        <4>1. PICK e \in pending : reader' = e.ctx
          BY <1>19, <3>1 DEF TakeReply
        <4>2. Entry(e)'
          BY <1>h, EntryStays DEF Typed, TypeOK, Sessioned, Entry
        <4> QED BY <4>1, <4>2 DEF Entry, Entries
      <3>2. CASE ~ \E e \in pending : e.pkt = p
        BY <1>19, <3>2 DEF TakeReply, Typed, TypeOK
      <3> QED BY <3>1, <3>2
    <2> QED BY <1>h, <2>1, <2>2, PendingShrinks
  <1>20. ASSUME NEW good \in BOOLEAN, CompleteOp(good)
       PROVE  PendingRight'
    <2>1. pending' = pending /\ reader' = 0
      BY <1>20 DEF CompleteOp, FailEntries
    <2>2. reader' \in 0 .. Len(ctxs')
      <3>1. ctxs' \in Seq(Ctxs) /\ Len(ctxs) <= Len(ctxs') /\ ctxs \in Seq(Ctxs)
        BY <1>h, CtxsStep DEF OldKept, Typed, TypeOK
      <3>2. Len(ctxs) \in Nat /\ Len(ctxs') \in Nat
        BY <3>1
      <3>3. reader \in 0 .. Len(ctxs)
        BY DEF Typed, TypeOK
      <3> QED BY <2>1, <3>1, <3>2, <3>3
    <2> QED BY <1>h, <2>1, <2>2, PendingShrinks
  <1>21. ASSUME SignIn
       PROVE  PendingRight'
    <2>1. UNCHANGED replyVars
      BY <1>21 DEF SignIn, replyVars
    <2> QED BY <2>1, <1>h, PendingStays
  <1>22. ASSUME LoseConnection
       PROVE  PendingRight'
    <2>1. UNCHANGED replyVars
      BY <1>22 DEF LoseConnection, replyVars
    <2> QED BY <2>1, <1>h, PendingStays
  <1>23. ASSUME Disconnect
       PROVE  PendingRight'
    <2>1. UNCHANGED replyVars
      BY <1>23 DEF Disconnect, replyVars
    <2> QED BY <2>1, <1>h, PendingStays
  <1>24. ASSUME StopClient
       PROVE  PendingRight'
    <2>1. UNCHANGED replyVars
      BY <1>24 DEF StopClient, replyVars
    <2> QED BY <2>1, <1>h, PendingStays
  <1>25. ASSUME FailPendingRequests
       PROVE  PendingRight'
    <2>1. pending' = {} /\ reader' = reader
      BY <1>25 DEF FailPendingRequests, FailEntries
    <2>2. reader' \in 0 .. Len(ctxs')
      <3>1. ctxs' \in Seq(Ctxs) /\ Len(ctxs) <= Len(ctxs') /\ ctxs \in Seq(Ctxs)
        BY <1>h, CtxsStep DEF OldKept, Typed, TypeOK
      <3>2. Len(ctxs) \in Nat /\ Len(ctxs') \in Nat
        BY <3>1
      <3>3. reader \in 0 .. Len(ctxs)
        BY DEF Typed, TypeOK
      <3> QED BY <2>1, <3>1, <3>2, <3>3
    <2> QED BY <1>h, <2>1, <2>2, PendingShrinks
  <1>26. CASE UNCHANGED vars
    BY <1>26, <1>h, PendingStays DEF vars
  <1> QED
    BY <1>1, <1>2, <1>3, <1>4, <1>5, <1>6, <1>7, <1>8, <1>9, <1>10, <1>11, <1>12, <1>13, <1>14, <1>15, <1>16, <1>17, <1>18, <1>19, <1>20, <1>21, <1>22, <1>23, <1>24, <1>25, <1>26 DEF Next, GameCalls, CallStep, ReplyStep, CompleteStep, DisconnectStep

\* Every step keeps the types.
LEMMA TypeStep ==
    ASSUME Typed, [Next]_vars
    PROVE  Typed'
  <1>1. (ctxs \in Seq(Ctxs))'
    BY CtxsStep DEF OldKept, Ctxs, Reads, Parts
  <1>2. call' \in [Threads -> Calls'] /\ \A u \in Threads : Stage(call[u])'
    BY CallsStep
  <1>3. SessionTypeOK' /\ SessionEnds'
    BY SessionStep
  <1>4. RequestsRight' /\ PendingRight'
    BY RequestsStep, PendingStep
  <1>5. game' \in Games
    BY DEF Typed, TypeOK, Next, vars
  <1>6. (\A e \in pending : e \in Entries /\ e.session \in 1 .. last /\ e.pkt \in 1 .. counter[e.session])'
    BY <1>4 DEF PendingRight, Entry
  <1>7. (\A e, f \in pending : e.pkt = f.pkt => e = f)' /\ (reader \in 0 .. Len(ctxs))'
    BY <1>4 DEF PendingRight
  <1>8. Sessioned'
    BY <1>3, <1>6 DEF Sessioned
  <1>9. TypeOK'
    BY <1>1, <1>2, <1>3, <1>4, <1>5, <1>6, <1>7 DEF TypeOK, RequestsRight
  <1> QED BY <1>2, <1>8, <1>9 DEF Typed

\* The types hold at the start.
LEMMA TypeInit == Init => Typed
  <1> SUFFICES ASSUME Init PROVE Typed
    OBVIOUS
  <1>1. ctxs = <<>> /\ Len(ctxs) = 0
    BY DEF Init
  <1>2. Idle \in Calls /\ Stage(Idle)
    BY <1>1, SmallStorageOp, SessionAssumption, TusAssumption DEF Idle, Calls, Reads, Parts, Stage
  <1>3. call \in [Threads -> Calls] /\ \A u \in Threads : call[u] = Idle
    BY <1>2 DEF Init
  <1>4. \A u \in Threads : Stage(call[u])
    BY <1>2, <1>3
  <1>5. SessionTypeOK
    <2>1. counter \in [Sessions -> Nat]
      BY DEF Init, SessionInit
    <2>2. session = 0 /\ last = 0 /\ up = FALSE /\ task = "none" /\ inFlight = {} /\ missed = {}
      BY DEF Init, SessionInit
    <2>3. 0 \in 0 .. MaxSessions
      BY SessionAssumption
    <2> QED BY <2>1, <2>2, <2>3 DEF SessionTypeOK
  <1>6. Sessioned
    BY DEF Init, SessionInit, Sessioned, SessionEnds
  <1>8. made \in [title : 0 .. MaxTitles, req : 0 .. MaxRequests]
    BY TusAssumption DEF Init
  <1>9. DOMAIN requests = {}
    BY DEF Init, Restrict
  <1>10. game \in Games /\ begun \in Nat /\ titles = {} /\ pending = {} /\ reader = 0
    BY DEF Init
  <1>11. TypeOK
    BY <1>1, <1>3, <1>5, <1>8, <1>9, <1>10 DEF TypeOK
  <1> QED BY <1>4, <1>6, <1>11 DEF Typed

\* Every variable keeps its type, whichever way the game's threads, the replies of the
\* server and the sign-outs interleave: an entry of the map is of an operation there is
\* and of a packet that was sent, and a request is of a title context that is there.
THEOREM TypeCorrect == Spec => []TypeOK
  <1>1. Typed /\ [Next]_vars => Typed'
    BY TypeStep
  <1>2. Typed => TypeOK
    BY DEF Typed
  <1> QED BY <1>1, <1>2, TypeInit, PTL DEF Spec

-----------------------------------------------------------------------------
(* The steps, by what they are to an operation that waits for its reply.   *)

Quiet == {"idle", "xfer", "start", "again", "wait"}

\* No thread begins or ends sending.
Steady == \A u \in Threads : call'[u] = call[u] \/ {call[u].pc, call'[u].pc} \subseteq Quiet

\* The game aborts an operation, or is told its outcome.
Mild(c) ==
    /\ \/ ctxs'[c].result = ctxs[c].result
       \/ ctxs[c].result = "unset" /\ ctxs'[c].result = "aborted"
    /\ ctxs'[c].owned = ctxs[c].owned \/ ctxs'[c].result # "unset"
    /\ ctxs'[c].lost = ctxs[c].lost
    /\ ctxs'[c].spoilt = ctxs[c].spoilt
    /\ ctxs'[c].wrong = ctxs[c].wrong

\* A new operation
Fresh(c) == ctxs'[c].owned = TRUE /\ ctxs'[c].spoilt = FALSE /\ ctxs'[c].wrong = FALSE

\* What the game's calls do, but for sending
CtxsMild ==
    /\ DOMAIN ctxs \subseteq DOMAIN ctxs'
    /\ \A c \in DOMAIN ctxs : Mild(c)
    /\ \A c \in DOMAIN ctxs' \ DOMAIN ctxs :
         Fresh(c) /\ (ctxs'[c].result # "unset" \/ ctxs'[c].lost # "no")
GameStep == Steady /\ CtxsMild /\ UNCHANGED <<replyVars, sessionVars>>

\* An operation is begun that is to be sent.
Sent(t) ==
    /\ call[t].pc = "start" /\ call'[t].pc = "submit" /\ call'[t].ctx = Len(ctxs) + 1
    /\ \A u \in Threads \ {t} : call'[u] = call[u]
    /\ Len(ctxs') = Len(ctxs) + 1 /\ \A c \in DOMAIN ctxs : ctxs'[c] = ctxs[c]
    /\ Fresh(Len(ctxs) + 1) /\ ctxs'[Len(ctxs) + 1].result = "unset" /\ ctxs'[Len(ctxs) + 1].lost = "no"
    /\ UNCHANGED <<replyVars, sessionVars>>

Kind ==
    \/ GameStep
    \/ \E t \in Threads : Sent(t) \/ SubmitRequest(t) \/ Register(t)
    \/ ReplyStep \/ CompleteStep
    \/ SignIn \/ LoseConnection \/ Disconnect \/ StopClient \/ FailPendingRequests

\* One thread goes on, not sending.
LEMMA SteadyGoto ==
    ASSUME Typed, NEW t \in Threads, NEW x, x.pc \in Quiet, call[t].pc \in Quiet, Goto(t, x)
    PROVE  Steady
  <1>1. call \in [Threads -> Calls]
    BY DEF Typed, TypeOK
  <1>2. call'[t] = x /\ (\A u \in Threads \ {t} : call'[u] = call[u])
    BY <1>1 DEF Goto
  <1> QED BY <1>2 DEF Steady

\* A call is done.
LEMMA DonePc ==
    ASSUME NEW t \in Threads, Done(t)
    PROVE  \E x : x.pc \in {"idle", "again"} /\ Goto(t, x)
  <1>1. PICK x : x = IF call[t].sync THEN [Idle EXCEPT !.pc = "again", !.req = call[t].req] ELSE Idle
    OBVIOUS
  <1>2. x.pc \in {"idle", "again"}
    <2>1. CASE x = Idle
      BY <2>1 DEF Idle
    <2>2. CASE x = [Idle EXCEPT !.pc = "again", !.req = call[t].req]
      BY <2>2 DEF Idle
    <2> QED BY <1>1, <2>1, <2>2
  <1>3. Goto(t, x)
    BY <1>1 DEF Done
  <1> QED BY <1>2, <1>3

\* What SetResult does
LEMMA SetResultIs ==
    ASSUME NEW x \in Ctxs, NEW r \in {"ok", "failed", "aborted", "signed out"}
    PROVE  /\ SetResult(x, r).result = IF x.result = "unset" THEN r ELSE x.result
           /\ SetResult(x, r).owned = x.owned /\ SetResult(x, r).spoilt = x.spoilt
           /\ SetResult(x, r).wrong = x.wrong /\ SetResult(x, r).lost = x.lost
  BY DEF SetResult, Ctxs

\* No operation is changed.
LEMMA NoneMild ==
    ASSUME UNCHANGED ctxs
    PROVE  CtxsMild
  BY DEF CtxsMild, Mild

\* Some are aborted.
LEMMA AbortMild ==
    ASSUME TypeOK, NEW rs, AbortOps(rs)
    PROVE  CtxsMild
  <1>1. ctxs' \in Seq(Ctxs) /\ Len(ctxs') = Len(ctxs) /\ ctxs \in Seq(Ctxs)
          /\ \A c \in DOMAIN ctxs : ctxs'[c] = IF \E r \in rs : requests[r].ctx = c
                THEN [SetResult(ctxs[c], "aborted") EXCEPT !.owned = FALSE] ELSE ctxs[c]
    BY AbortSets DEF TypeOK
  <1>2. DOMAIN ctxs' = DOMAIN ctxs
    BY <1>1
  <1>3. ASSUME NEW c \in DOMAIN ctxs PROVE Mild(c)
    <2>1. PICK x : x = ctxs[c]
      OBVIOUS
    <2>2. x \in Ctxs
      BY <2>1, OpType
    <2>3. PICK y : y = SetResult(x, "aborted")
      OBVIOUS
    <2>4. y \in Ctxs /\ y.result # "unset"
            /\ (y.result = x.result \/ (x.result = "unset" /\ y.result = "aborted"))
            /\ y.spoilt = x.spoilt /\ y.wrong = x.wrong /\ y.lost = x.lost
      <3>1. Alike(SetResult(x, "aborted"), x)
        BY <2>2, Altered
      <3>2. y.result = IF x.result = "unset" THEN "aborted" ELSE x.result
        BY <2>2, <2>3, SetResultIs
      <3>3. y.spoilt = x.spoilt /\ y.wrong = x.wrong /\ y.lost = x.lost
        BY <2>2, <2>3, SetResultIs
      <3> QED BY <2>3, <3>1, <3>2, <3>3 DEF Alike
    <2>5. PICK z : z = [y EXCEPT !.owned = FALSE]
      OBVIOUS
    <2>6. z.result = y.result /\ z.spoilt = y.spoilt /\ z.wrong = y.wrong /\ z.lost = y.lost
      BY <2>4, <2>5 DEF Ctxs
    <2>7. ctxs'[c] \in {x, z}
      BY <1>1, <2>1, <2>3, <2>5
    <2> QED BY <2>1, <2>4, <2>6, <2>7 DEF Mild
  <1> QED BY <1>2, <1>3 DEF CtxsMild

\* The game is told.
LEMMA ReportMild ==
    ASSUME TypeOK, NEW c \in DOMAIN ctxs, ctxs[c].result # "unset", Reported(c)
    PROVE  CtxsMild
  <1>1. PICK x : x = ctxs[c]
    OBVIOUS
  <1>2. x \in Ctxs
    BY <1>1, OpType
  <1>3. PICK y : y = [x EXCEPT !.owned = FALSE]
    OBVIOUS
  <1>4. y.result = x.result /\ y.spoilt = x.spoilt /\ y.wrong = x.wrong /\ y.lost = x.lost
    BY <1>2, <1>3 DEF Ctxs
  <1>5. ctxs' = [ctxs EXCEPT ![c] = y]
    BY <1>1, <1>3 DEF Reported
  <1>6. DOMAIN ctxs' = DOMAIN ctxs /\ ctxs'[c] = y /\ \A b \in DOMAIN ctxs : b # c => ctxs'[b] = ctxs[b]
    BY <1>5
  <1> QED BY <1>1, <1>4, <1>6 DEF CtxsMild, Mild

\* One is added that is not to be sent.
LEMMA AddedMild ==
    ASSUME TypeOK, NEW x \in Ctxs, ctxs' = Append(ctxs, x), x.result # "unset" \/ x.lost # "no",
           x.owned = TRUE, x.spoilt = FALSE, x.wrong = FALSE
    PROVE  CtxsMild
  <1>1. Len(ctxs') = Len(ctxs) + 1 /\ ctxs'[Len(ctxs) + 1] = x /\ \A c \in DOMAIN ctxs : ctxs'[c] = ctxs[c]
    BY OneAdded
  <1>2. Len(ctxs) \in Nat /\ DOMAIN ctxs = 1 .. Len(ctxs) /\ DOMAIN ctxs' = 1 .. Len(ctxs')
    BY OneAdded DEF TypeOK
  <1>3. DOMAIN ctxs' \ DOMAIN ctxs = {Len(ctxs) + 1} /\ DOMAIN ctxs \subseteq DOMAIN ctxs'
    BY <1>1, <1>2
  <1> QED BY <1>1, <1>3 DEF CtxsMild, Mild, Fresh

\* Every step is one of these.
LEMMA Kinds ==
    ASSUME Typed, [Next]_vars
    PROVE  Kind
  <1>1. ASSUME NEW t \in Threads, CreateNpTitleCtx(t)
       PROVE  Kind
    <2>1. Steady /\ UNCHANGED <<replyVars, sessionVars>>
      BY <1>1 DEF CreateNpTitleCtx, Steady
    <2>9. CtxsMild
      BY <1>1, NoneMild DEF CreateNpTitleCtx
    <2> QED BY <2>1, <2>9 DEF Kind, GameStep
  <1>2. ASSUME NEW t \in Threads, NEW i \in titles, DeleteNpTitleCtx(t, i)
       PROVE  Kind
    <2>1. Steady /\ UNCHANGED <<replyVars, sessionVars>>
      BY <1>2 DEF DeleteNpTitleCtx, Steady
    <2>9. CtxsMild
      BY <1>2, AbortMild DEF DeleteNpTitleCtx, Typed
    <2> QED BY <2>1, <2>9 DEF Kind, GameStep
  <1>3. ASSUME NEW t \in Threads, NEW i \in titles, CreateRequest(t, i)
       PROVE  Kind
    <2>1. Steady /\ UNCHANGED <<replyVars, sessionVars>>
      BY <1>3 DEF CreateRequest, Steady
    <2>9. CtxsMild
      BY <1>3, NoneMild DEF CreateRequest
    <2> QED BY <2>1, <2>9 DEF Kind, GameStep
  <1>4. ASSUME NEW t \in Threads, NEW r \in DOMAIN requests, DeleteRequest(t, r)
       PROVE  Kind
    <2>1. Steady /\ UNCHANGED <<replyVars, sessionVars>>
      BY <1>4 DEF DeleteRequest, Steady
    <2>9. CtxsMild
      BY <1>4, AbortMild DEF DeleteRequest, Typed
    <2> QED BY <2>1, <2>9 DEF Kind, GameStep
  <1>5. ASSUME NEW t \in Threads, NEW r \in DOMAIN requests, AbortRequest(t, r)
       PROVE  Kind
    <2>1. Steady /\ UNCHANGED <<replyVars, sessionVars>>
      BY <1>5 DEF AbortRequest, Steady
    <2>9. CtxsMild
      BY <1>5, AbortMild DEF AbortRequest, Typed
    <2> QED BY <2>1, <2>9 DEF Kind, GameStep
  <1>6. ASSUME NEW t \in Threads, NEW r \in DOMAIN requests, NEW op \in KindOps, NEW sync \in game.syncs, ResolveTus(t, r, op, sync)
       PROVE  Kind
    <2>2. call[t].pc \in Quiet /\ UNCHANGED <<replyVars, sessionVars>>
      BY <1>6 DEF ResolveTus, Quiet
    <2>3. PICK x : x.pc \in {"start", "xfer"} /\ Goto(t, x)
      <3>1. PICK x : x = [Idle EXCEPT !.pc = IF op.transfer = "none" THEN "start" ELSE "xfer",
                                    !.req = r, !.op = op, !.sync = sync] /\ Goto(t, x)
        BY <1>6 DEF ResolveTus
      <3>2. x.pc \in {"start", "xfer"}
        BY <3>1 DEF Idle
      <3>3. Goto(t, x)
        BY <3>1
      <3> QED BY <3>2, <3>3
    <2>1. Steady
      BY <2>2, <2>3, SteadyGoto DEF Quiet
    <2>9. CtxsMild
      BY <1>6, NoneMild DEF ResolveTus
    <2> QED BY <2>1, <2>2, <2>9 DEF Kind, GameStep
  <1>7. ASSUME NEW t \in Threads, NEW r \in DOMAIN requests, FakeAsyncComplete(t, r)
       PROVE  Kind
    <2>1. Steady /\ UNCHANGED <<replyVars, sessionVars>>
      BY <1>7 DEF FakeAsyncComplete, Steady
    <2>2. PICK x : x = NewCtx(SmallStorage, <<>>, <<>>)
      OBVIOUS
    <2>3. <<>> \in Reads /\ <<>> \in Parts
      BY DEF Reads, Parts
    <2>4. x \in Ctxs
      BY <2>2, <2>3, NewCtxType, SmallStorageOp
    <2>5. x.result = "unset" /\ x.lost = "no" /\ x.owned = TRUE /\ x.spoilt = FALSE /\ x.wrong = FALSE
      BY <2>2 DEF NewCtx
    <2>6. PICK y : y = SetResult(x, "ok")
      OBVIOUS
    <2>7. y \in Ctxs /\ y.result = "ok" /\ y.owned = TRUE /\ y.spoilt = FALSE /\ y.wrong = FALSE
      BY <2>4, <2>5, <2>6, SetResultIs, Altered DEF Alike
    <2>8. ctxs' = Append(ctxs, y)
      BY <1>7, <2>2, <2>6 DEF FakeAsyncComplete
    <2>9. CtxsMild
      BY <2>7, <2>8, AddedMild DEF Typed
    <2> QED BY <2>1, <2>9 DEF Kind, GameStep
  <1>8. ASSUME NEW t \in Threads, NEW r \in DOMAIN requests, WaitAsync(t, r)
       PROVE  Kind
    <2>2. call[t].pc \in Quiet /\ UNCHANGED <<replyVars, sessionVars>>
      BY <1>8 DEF WaitAsync, Quiet
    <2>3. PICK x : x.pc \in {"wait"} /\ Goto(t, x)
      <3>1. PICK x : x = [Idle EXCEPT !.pc = "wait", !.ctx = requests[r].ctx] /\ Goto(t, x)
        BY <1>8 DEF WaitAsync
      <3>2. x.pc \in {"wait"}
        BY <3>1 DEF Idle
      <3>3. Goto(t, x)
        BY <3>1
      <3> QED BY <3>2, <3>3
    <2>1. Steady
      BY <2>2, <2>3, SteadyGoto DEF Quiet
    <2>9. CtxsMild
      BY <1>8, NoneMild DEF WaitAsync
    <2> QED BY <2>1, <2>2, <2>9 DEF Kind, GameStep
  <1>9. ASSUME NEW t \in Threads, NEW r \in DOMAIN requests, PollAsync(t, r)
       PROVE  Kind
    <2>1. Steady /\ UNCHANGED <<replyVars, sessionVars>>
      BY <1>9 DEF PollAsync, Steady
    <2>9. CtxsMild
      <3>1. requests[r].ctx \in DOMAIN ctxs
        BY <1>9 DEF PollAsync, Typed, TypeOK, Requests
      <3> QED BY <1>9, <3>1, ReportMild DEF PollAsync, Typed
    <2> QED BY <2>1, <2>9 DEF Kind, GameStep
  <1>10. ASSUME NEW t \in Threads, NEW data \in BOOLEAN, ReadData(t, data)
       PROVE  Kind
    <2>2. call[t].pc \in Quiet /\ UNCHANGED <<replyVars, sessionVars>>
      BY <1>10 DEF ReadData, Quiet, Transfer
    <2>3. PICK x : x.pc = "start" /\ Goto(t, x)
      <3>1. PICK y : y = call[t]
        OBVIOUS
      <3>2. y \in Calls
        BY <3>1 DEF Typed, TypeOK
      <3>3. PICK d : Goto(t, [y EXCEPT !.pc = "start", !.read = d])
        BY <1>10, <3>1 DEF ReadData
      <3>4. PICK x : x = [y EXCEPT !.pc = "start", !.read = d]
        OBVIOUS
      <3>5. x.pc = "start"
        BY <3>2, <3>4 DEF Calls
      <3> QED BY <3>3, <3>4, <3>5
    <2>1. Steady
      BY <2>2, <2>3, SteadyGoto DEF Quiet
    <2>9. CtxsMild
      BY <1>10, NoneMild DEF ReadData, Transfer
    <2> QED BY <2>1, <2>2, <2>9 DEF Kind, GameStep
  <1>11. ASSUME NEW t \in Threads, ReadDataAt(t)
       PROVE  Kind
    <2>2. call[t].pc \in Quiet /\ UNCHANGED <<replyVars, sessionVars>>
      BY <1>11 DEF ReadDataAt, Quiet, Transfer
    <2>3. PICK x : x.pc = "start" /\ Goto(t, x)
      <3>1. PICK y : y = call[t]
        OBVIOUS
      <3>2. y \in Calls
        BY <3>1 DEF Typed, TypeOK
      <3>3. PICK d : Goto(t, [y EXCEPT !.pc = "start"])
        BY <1>11, <3>1 DEF ReadDataAt
      <3>4. PICK x : x = [y EXCEPT !.pc = "start"]
        OBVIOUS
      <3>5. x.pc = "start"
        BY <3>2, <3>4 DEF Calls
      <3> QED BY <3>3, <3>4, <3>5
    <2>1. Steady
      BY <2>2, <2>3, SteadyGoto DEF Quiet
    <2>9. CtxsMild
      BY <1>11, NoneMild DEF ReadDataAt, Transfer
    <2> QED BY <2>1, <2>2, <2>9 DEF Kind, GameStep
  <1>12. ASSUME NEW t \in Threads, NEW total \in 1 .. MaxParts, WriteData(t, total)
       PROVE  Kind
    <2>2. call[t].pc \in Quiet /\ UNCHANGED <<replyVars, sessionVars>>
      BY <1>12 DEF WriteData, Quiet, Transfer
    <2>3. PICK x : x.pc = "start" /\ Goto(t, x)
      <3>1. PICK y : y = call[t]
        OBVIOUS
      <3>2. y \in Calls
        BY <3>1 DEF Typed, TypeOK
      <3>3. PICK d, f : Goto(t, [y EXCEPT !.pc = "start", !.partial = d, !.blob = f])
        BY <1>12, <3>1 DEF WriteData
      <3>4. PICK x : x = [y EXCEPT !.pc = "start", !.partial = d, !.blob = f]
        OBVIOUS
      <3>5. x.pc = "start"
        BY <3>2, <3>4 DEF Calls
      <3> QED BY <3>3, <3>4, <3>5
    <2>1. Steady
      BY <2>2, <2>3, SteadyGoto DEF Quiet
    <2>9. CtxsMild
      BY <1>12, NoneMild DEF WriteData, Transfer
    <2> QED BY <2>1, <2>2, <2>9 DEF Kind, GameStep
  <1>13. ASSUME NEW t \in Threads, Stray(t)
       PROVE  Kind
    <2>2. call[t].pc \in Quiet /\ UNCHANGED <<replyVars, sessionVars>>
      BY <1>13 DEF Stray, Quiet
    <2>3. PICK x : x.pc = "start" /\ Goto(t, x)
      <3>1. PICK y : y = call[t]
        OBVIOUS
      <3>2. y \in Calls
        BY <3>1 DEF Typed, TypeOK
      <3>3. PICK d : Goto(t, [y EXCEPT !.pc = "start", !.partial = d])
        BY <1>13, <3>1 DEF Stray
      <3>4. PICK x : x = [y EXCEPT !.pc = "start", !.partial = d]
        OBVIOUS
      <3>5. x.pc = "start"
        BY <3>2, <3>4 DEF Calls
      <3> QED BY <3>3, <3>4, <3>5
    <2>1. Steady
      BY <2>2, <2>3, SteadyGoto DEF Quiet
    <2>9. CtxsMild
      BY <1>13, NoneMild DEF Stray
    <2> QED BY <2>1, <2>2, <2>9 DEF Kind, GameStep
  <1>14. ASSUME NEW t \in Threads, NEW valid \in BOOLEAN, StartOp(t, valid)
       PROVE  Kind
    <2>1. PICK y : y = call[t]
      OBVIOUS
    <2>2. y \in Calls /\ y.pc = "start" /\ UNCHANGED <<replyVars, sessionVars>>
      BY <1>14, <2>1 DEF StartOp, Typed, TypeOK
    <2>3. PICK x : x = NewCtx(y.op, y.read, y.blob)
      OBVIOUS
    <2>4. y.op \in Ops /\ y.read \in Reads /\ y.blob \in Parts
      BY <2>2 DEF Calls
    <2>5. x \in Ctxs
      BY <2>3, <2>4, NewCtxType
    <2>6. x.result = "unset" /\ x.lost = "no" /\ x.owned = TRUE /\ x.spoilt = FALSE /\ x.wrong = FALSE
      BY <2>3 DEF NewCtx
    <2>7. CASE call[t].partial
      <3>1. ctxs' = Append(ctxs, SetResult(x, "ok")) /\ Done(t)
        BY <1>14, <2>1, <2>3, <2>7 DEF StartOp
      <3>2. PICK z : z = SetResult(x, "ok")
        OBVIOUS
      <3>3. z \in Ctxs /\ z.result = "ok" /\ z.owned = TRUE /\ z.spoilt = FALSE /\ z.wrong = FALSE
        BY <2>5, <2>6, <3>2, SetResultIs, Altered DEF Alike
      <3>4. CtxsMild
        BY <3>1, <3>2, <3>3, AddedMild DEF Typed
      <3>5. PICK w : w.pc \in {"idle", "again"} /\ Goto(t, w)
        BY <3>1, DonePc
      <3>6. Steady
        BY <2>1, <2>2, <3>5, SteadyGoto DEF Quiet
      <3> QED BY <2>2, <3>4, <3>6 DEF Kind, GameStep
    <2>8. CASE ~call[t].partial /\ (session = 0 \/ ~valid)
      <3>1. ctxs' = Append(ctxs, [x EXCEPT !.lost = "not sent"]) /\ Goto(t, Idle)
        BY <1>14, <2>1, <2>3, <2>8 DEF StartOp
      <3>2. PICK z : z = [x EXCEPT !.lost = "not sent"]
        OBVIOUS
      <3>3. z \in Ctxs /\ z.lost = "not sent" /\ z.owned = TRUE /\ z.spoilt = FALSE /\ z.wrong = FALSE
        BY <2>5, <2>6, <3>2 DEF Ctxs
      <3>4. CtxsMild
        BY <3>1, <3>2, <3>3, AddedMild DEF Typed
      <3>5. Idle.pc = "idle"
        BY DEF Idle
      <3>6. Steady
        <4>1. Goto(t, Idle) /\ call[t].pc = "start"
          BY <2>1, <2>2, <3>1
        <4>2. Idle.pc \in Quiet /\ call[t].pc \in Quiet
          BY <3>5, <4>1 DEF Quiet
        <4> QED BY <4>1, <4>2, SteadyGoto
      <3> QED BY <2>2, <3>4, <3>6 DEF Kind, GameStep
    <2>9. CASE ~call[t].partial /\ session # 0 /\ valid
      <3>1. ctxs' = Append(ctxs, x)
        BY <1>14, <2>1, <2>3, <2>9 DEF StartOp
      <3>2. PICK w : /\ w = [Idle EXCEPT !.pc = "submit", !.ctx = Len(ctxs) + 1, !.session = session,
                                       !.sync = call[t].sync, !.req = call[t].req]
                    /\ Goto(t, w)
        BY <1>14, <2>9 DEF StartOp
      <3>3. w.pc = "submit" /\ w.ctx = Len(ctxs) + 1
        BY <3>2 DEF Idle
      <3>4. call'[t] = w /\ \A u \in Threads \ {t} : call'[u] = call[u]
        BY <3>2 DEF Goto, Typed, TypeOK
      <3>5. /\ Len(ctxs') = Len(ctxs) + 1 /\ ctxs'[Len(ctxs) + 1] = x
            /\ \A c \in DOMAIN ctxs : ctxs'[c] = ctxs[c]
        BY <2>5, <3>1, OneAdded DEF Typed
      <3>6. Sent(t)
        BY <2>1, <2>2, <2>6, <3>3, <3>4, <3>5 DEF Sent, Fresh
      <3> QED BY <3>6 DEF Kind
    <2> QED BY <2>7, <2>8, <2>9
  <1>15. ASSUME NEW t \in Threads, SubmitRequest(t)
       PROVE  Kind
    BY <1>15 DEF Kind, ReplyStep, CompleteStep
  <1>16. ASSUME NEW t \in Threads, Register(t)
       PROVE  Kind
    BY <1>16 DEF Kind, ReplyStep, CompleteStep
  <1>17. ASSUME NEW t \in Threads, WaitAgain(t)
       PROVE  Kind
    <2>2. call[t].pc \in Quiet /\ UNCHANGED <<replyVars, sessionVars>>
      BY <1>17 DEF WaitAgain, Quiet
    <2>3. PICK x : x.pc \in {"wait", "idle"} /\ Goto(t, x)
      <3>1. PICK x \in {Idle, [Idle EXCEPT !.pc = "wait", !.ctx = requests[call[t].req].ctx]} : Goto(t, x)
        BY <1>17 DEF WaitAgain
      <3>2. x.pc \in {"wait", "idle"}
        <4>1. CASE x = Idle
          BY <4>1 DEF Idle
        <4>2. CASE x = [Idle EXCEPT !.pc = "wait", !.ctx = requests[call[t].req].ctx]
          BY <4>2 DEF Idle
        <4> QED BY <3>1, <4>1, <4>2
      <3> QED BY <3>1, <3>2
    <2>1. Steady
      BY <2>2, <2>3, SteadyGoto DEF Quiet
    <2>9. CtxsMild
      BY <1>17, NoneMild DEF WaitAgain
    <2> QED BY <2>1, <2>2, <2>9 DEF Kind, GameStep
  <1>18. ASSUME NEW t \in Threads, WaitReturns(t)
       PROVE  Kind
    <2>2. call[t].pc \in Quiet /\ UNCHANGED <<replyVars, sessionVars>>
      BY <1>18 DEF WaitReturns, Quiet
    <2>3. PICK x : x.pc \in {"idle"} /\ Goto(t, x)
      <3>1. PICK x : x = Idle /\ Goto(t, x)
        BY <1>18 DEF WaitReturns
      <3>2. x.pc \in {"idle"}
        BY <3>1 DEF Idle
      <3>3. Goto(t, x)
        BY <3>1
      <3> QED BY <3>2, <3>3
    <2>1. Steady
      BY <2>2, <2>3, SteadyGoto DEF Quiet
    <2>9. CtxsMild
      <3>1. call[t].ctx \in DOMAIN ctxs
        BY <1>18, CallCtx DEF WaitReturns
      <3> QED BY <1>18, <3>1, ReportMild DEF WaitReturns, Typed
    <2> QED BY <2>1, <2>2, <2>9 DEF Kind, GameStep
  <1>19. ASSUME NEW p \in inFlight, TakeReply(p)
       PROVE  Kind
    BY <1>19 DEF Kind, ReplyStep, CompleteStep
  <1>20. ASSUME NEW good \in BOOLEAN, CompleteOp(good)
       PROVE  Kind
    BY <1>20 DEF Kind, ReplyStep, CompleteStep
  <1>21. ASSUME SignIn
       PROVE  Kind
    BY <1>21 DEF Kind, ReplyStep, CompleteStep
  <1>22. ASSUME LoseConnection
       PROVE  Kind
    BY <1>22 DEF Kind, ReplyStep, CompleteStep
  <1>23. ASSUME Disconnect
       PROVE  Kind
    BY <1>23 DEF Kind, ReplyStep, CompleteStep
  <1>24. ASSUME StopClient
       PROVE  Kind
    BY <1>24 DEF Kind, ReplyStep, CompleteStep
  <1>25. ASSUME FailPendingRequests
       PROVE  Kind
    BY <1>25 DEF Kind, ReplyStep, CompleteStep
  <1>26. CASE UNCHANGED vars
    <2>1. Steady /\ UNCHANGED <<replyVars, sessionVars, ctxs>>
      BY <1>26 DEF vars, Steady
    <2> QED BY <2>1, NoneMild DEF Kind, GameStep
  <1> QED
    BY <1>1, <1>2, <1>3, <1>4, <1>5, <1>6, <1>7, <1>8, <1>9, <1>10, <1>11, <1>12, <1>13, <1>14, <1>15, <1>16, <1>17, <1>18, <1>19, <1>20, <1>21, <1>22, <1>23, <1>24, <1>25, <1>26 DEF Next, GameCalls, CallStep, ReplyStep, CompleteStep, DisconnectStep

\* All that an operation had but its result, or but that it was forgotten
SameOwner(c) ==
    ctxs'[c].owned = ctxs[c].owned /\ ctxs'[c].spoilt = ctxs[c].spoilt /\ ctxs'[c].wrong = ctxs[c].wrong
OthersStay(t) == \A u \in Threads \ {t} : call'[u] = call[u]

\* ShadNetClient::SubmitRequest numbers the packet.
Submitted(t) ==
    /\ call[t].pc = "submit" /\ call'[t].pc = "register"
    /\ call'[t].ctx = call[t].ctx /\ call'[t].session = call[t].session
    /\ call'[t].pkt = counter[call[t].session] + 1 /\ OthersStay(t)
    /\ inFlight \subseteq inFlight'
    /\ up /\ call[t].session = last => call'[t].pkt \in inFlight'
    /\ UNCHANGED <<ctxs, replyVars, session, last, up, task, missed>>

\* A submission does that.
LEMMA SubmitIs ==
    ASSUME Typed, NEW t \in Threads, SubmitRequest(t)
    PROVE  Submitted(t)
  <1>1. PICK y : y = call[t]
    OBVIOUS
  <1>2. y \in Calls /\ y.pc = "submit"
    BY <1>1 DEF Typed, TypeOK, SubmitRequest
  <1>3. PICK n : n = counter[y.session] + 1
    OBVIOUS
  <1>4. PICK x : x = [y EXCEPT !.pc = "register", !.pkt = n]
    OBVIOUS
  <1>5. x.pc = "register" /\ x.pkt = n /\ x.ctx = y.ctx /\ x.session = y.session
    BY <1>2, <1>4 DEF Calls
  <1>6. Goto(t, x)
    BY <1>1, <1>3, <1>4 DEF SubmitRequest, NextPacket
  <1>7. call'[t] = x /\ OthersStay(t)
    BY <1>6 DEF Goto, OthersStay, Typed, TypeOK
  <1>8. inFlight \subseteq inFlight' /\ (up /\ y.session = last => n \in inFlight')
    BY <1>1, <1>3 DEF SubmitRequest, PacketSubmitted, NextPacket
  <1>9. UNCHANGED <<ctxs, replyVars, session, last, up, task, missed>>
    BY DEF SubmitRequest, PacketSubmitted
  <1> QED BY <1>1, <1>2, <1>3, <1>5, <1>7, <1>8, <1>9 DEF Submitted

\* m_pending_tus.emplace puts the entry there, if its number is not taken.
Entered(t, e) ==
    /\ pending' = pending \cup {e}
    /\ e.pkt = call[t].pkt /\ e.ctx = call[t].ctx /\ e.session = call[t].session
    /\ Over(call[t].session) \/ call[t].pkt \in missed => ctxs'[call[t].ctx].lost # "no"
Registered(t) ==
    /\ call[t].pc = "register" /\ call'[t].pc \in {"idle", "again"} /\ OthersStay(t)
    /\ DOMAIN ctxs' = DOMAIN ctxs
    /\ \A c \in DOMAIN ctxs :
         SameOwner(c) /\ ctxs'[c].result = ctxs[c].result
           /\ (ctxs'[c].lost = ctxs[c].lost \/ ctxs'[c].lost # "no")
    /\ UNCHANGED <<sessionVars, reader>>
    /\ \/ pending' = pending /\ ctxs'[call[t].ctx].lost # "no"
       \/ \E e : Entered(t, e)

\* An operation is forgotten.
LEMMA Forgotten ==
    ASSUME TypeOK, NEW c \in DOMAIN ctxs, NEW l \in {"number taken", "overtaken", "session over"}, Lose(c, l)
    PROVE  /\ DOMAIN ctxs' = DOMAIN ctxs /\ ctxs'[c].lost # "no"
           /\ \A b \in DOMAIN ctxs :
                SameOwner(b) /\ ctxs'[b].result = ctxs[b].result
                  /\ (ctxs'[b].lost = ctxs[b].lost \/ ctxs'[b].lost # "no")
  <1>1. PICK x : x = ctxs[c]
    OBVIOUS
  <1>2. x \in Ctxs
    BY <1>1, OpType
  <1>3. PICK y : y = [x EXCEPT !.lost = l]
    OBVIOUS
  <1>4. y.lost # "no" /\ y.result = x.result /\ y.owned = x.owned /\ y.spoilt = x.spoilt /\ y.wrong = x.wrong
    BY <1>2, <1>3 DEF Ctxs
  <1>5. ctxs' = [ctxs EXCEPT ![c] = y]
    BY <1>1, <1>3 DEF Lose
  <1>6. DOMAIN ctxs' = DOMAIN ctxs /\ ctxs'[c] = y /\ \A b \in DOMAIN ctxs : b # c => ctxs'[b] = ctxs[b]
    BY <1>5
  <1> QED BY <1>1, <1>4, <1>6 DEF SameOwner

\* A registration does that, and tells when it came too late.
LEMMA RegisterIs ==
    ASSUME Typed, NEW t \in Threads, Register(t)
    PROVE  Registered(t)
  <1>1. PICK x : x.pc \in {"idle", "again"} /\ Goto(t, x)
    <2>1. Done(t)
      BY DEF Register
    <2> QED BY <2>1, DonePc
  <1>2. call[t].pc = "register" /\ call'[t].pc \in {"idle", "again"} /\ OthersStay(t)
    BY <1>1 DEF Register, Goto, OthersStay, Typed, TypeOK
  <1>3. PICK c : c = call[t].ctx
    OBVIOUS
  <1>4. PICK p : p = call[t].pkt
    OBVIOUS
  <1>5. PICK s : s = call[t].session
    OBVIOUS
  <1>6. c \in DOMAIN ctxs
    BY <1>2, <1>3, CallCtx
  <1>7. UNCHANGED <<sessionVars, reader>>
    BY DEF Register
  <1>8. CASE \E e \in pending : e.pkt = p
    <2>1. Lose(c, "number taken") /\ pending' = pending
      BY <1>3, <1>4, <1>8 DEF Register
    <2>2. /\ DOMAIN ctxs' = DOMAIN ctxs /\ ctxs'[c].lost # "no"
          /\ \A b \in DOMAIN ctxs :
                SameOwner(b) /\ ctxs'[b].result = ctxs[b].result
                  /\ (ctxs'[b].lost = ctxs[b].lost \/ ctxs'[b].lost # "no")
      BY <1>6, <2>1, Forgotten DEF Typed
    <2> QED BY <1>2, <1>3, <1>7, <2>1, <2>2 DEF Registered
  <1>9. CASE ~ \E e \in pending : e.pkt = p
    <2>1. PICK e : e = [pkt |-> p, ctx |-> c, session |-> s]
      OBVIOUS
    <2>2. pending' = pending \cup {e}
      BY <1>3, <1>4, <1>5, <1>9, <2>1 DEF Register
    <2>3. e.pkt = p /\ e.ctx = c /\ e.session = s
      BY <2>1
    <2>4. /\ DOMAIN ctxs' = DOMAIN ctxs /\ (Over(s) \/ p \in missed => ctxs'[c].lost # "no")
          /\ \A b \in DOMAIN ctxs :
                SameOwner(b) /\ ctxs'[b].result = ctxs[b].result
                  /\ (ctxs'[b].lost = ctxs[b].lost \/ ctxs'[b].lost # "no")
      <3>1. CASE Over(s)
        <4>1. Lose(c, "session over")
          BY <1>3, <1>4, <1>5, <1>9, <3>1 DEF Register
        <4> QED BY <1>6, <4>1, Forgotten DEF Typed
      <3>2. CASE ~Over(s) /\ p \in missed
        <4>1. Lose(c, "overtaken")
          BY <1>3, <1>4, <1>5, <1>9, <3>2 DEF Register
        <4> QED BY <1>6, <4>1, Forgotten DEF Typed
      <3>3. CASE ~Over(s) /\ p \notin missed
        <4>1. ctxs' = ctxs
          BY <1>3, <1>4, <1>5, <1>9, <3>3 DEF Register
        <4> QED BY <3>3, <4>1 DEF SameOwner
      <3> QED BY <3>1, <3>2, <3>3
    <2>5. Entered(t, e)
      BY <1>3, <1>4, <1>5, <2>2, <2>3, <2>4 DEF Entered
    <2> QED BY <1>2, <1>7, <2>4, <2>5 DEF Registered
  <1> QED BY <1>8, <1>9

\* OnTusReply takes the entry of the number, whosever it is.
Taken(e) ==
    /\ pending' = pending \ {e} /\ reader' = e.ctx
    /\ DOMAIN ctxs' = DOMAIN ctxs /\ \A c \in DOMAIN ctxs : c # e.ctx => ctxs'[c] = ctxs[c]
    /\ ctxs'[e.ctx].result = ctxs[e.ctx].result /\ ctxs'[e.ctx].lost = ctxs[e.ctx].lost
    /\ ctxs'[e.ctx].owned = ctxs[e.ctx].owned /\ ctxs'[e.ctx].spoilt = ctxs[e.ctx].spoilt
    /\ ctxs'[e.ctx].wrong = TRUE => e.session # last
Answered(p) ==
    /\ reader = 0 /\ p \in inFlight /\ inFlight' = inFlight \ {p}
    /\ \/ missed' = missed \cup {p}
       \/ missed' = missed /\ \E e \in pending : e.pkt = p /\ e.session = last
    /\ UNCHANGED <<call, session, last, up, counter, task>>
    /\ \/ UNCHANGED <<replyVars, ctxs>> /\ ~ \E e \in pending : e.pkt = p
       \/ \E e \in pending : e.pkt = p /\ Taken(e)

\* The reader does that with the packet of a reply.
LEMMA TakeIs ==
    ASSUME Typed, NEW p \in inFlight, TakeReply(p)
    PROVE  Answered(p)
  <1>1. /\ reader = 0 /\ inFlight' = inFlight \ {p}
        /\ UNCHANGED <<call, session, last, up, counter, task>>
    BY DEF TakeReply, PacketAnswered
  <1>2. \/ missed' = missed \cup {p}
        \/ missed' = missed /\ \E e \in pending : e.pkt = p /\ e.session = last
    BY DEF TakeReply, PacketAnswered
  <1>3. CASE ~ \E e \in pending : e.pkt = p
    <2>1. UNCHANGED <<replyVars, ctxs>>
      BY <1>3 DEF TakeReply, replyVars
    <2> QED BY <1>1, <1>2, <1>3, <2>1 DEF Answered
  <1>4. CASE \E e \in pending : e.pkt = p
    <2>1. PICK e \in pending : /\ e.pkt = p /\ pending' = pending \ {e} /\ reader' = e.ctx
                               /\ ctxs' = [ctxs EXCEPT ![e.ctx].wrong = e.session # last]
      BY <1>4 DEF TakeReply
    <2>2. PICK c : c = e.ctx
      OBVIOUS
    <2>3. c \in DOMAIN ctxs
      BY <2>2 DEF Typed, TypeOK, Entries
    <2>4. PICK x : x = ctxs[c]
      OBVIOUS
    <2>5. x \in Ctxs
      BY <2>3, <2>4, OpType DEF Typed
    <2>6. PICK w : w = (e.session # last)
      OBVIOUS
    <2>7. PICK y : y = [x EXCEPT !.wrong = w]
      OBVIOUS
    <2>8. /\ y.result = x.result /\ y.lost = x.lost /\ y.owned = x.owned /\ y.spoilt = x.spoilt
          /\ y.wrong = w
      BY <2>5, <2>7 DEF Ctxs
    <2>9. ctxs' = [ctxs EXCEPT ![c] = y]
      BY <2>1, <2>2, <2>4, <2>6, <2>7
    <2>10. DOMAIN ctxs' = DOMAIN ctxs /\ ctxs'[c] = y /\ \A b \in DOMAIN ctxs : b # c => ctxs'[b] = ctxs[b]
      BY <2>3, <2>9
    <2>11. w = TRUE => e.session # last
      BY <2>6
    <2>12. Taken(e)
      BY <2>1, <2>2, <2>4, <2>8, <2>10, <2>11 DEF Taken
    <2> QED BY <1>1, <1>2, <2>1, <2>12 DEF Answered
  <1> QED BY <1>3, <1>4

\* The rest of OnTusReply: the result, unless there is one, and the buffers, if the reply is good.
Completed ==
    /\ reader \in DOMAIN ctxs /\ reader' = 0 /\ UNCHANGED <<call, sessionVars, pending>>
    /\ DOMAIN ctxs' = DOMAIN ctxs /\ \A c \in DOMAIN ctxs : c # reader => ctxs'[c] = ctxs[c]
    /\ ctxs'[reader].result # "unset"
    /\ ctxs[reader].result # "unset" => ctxs'[reader].result = ctxs[reader].result
    /\ ctxs'[reader].lost = ctxs[reader].lost
    /\ ctxs'[reader].owned = ctxs[reader].owned /\ ctxs'[reader].wrong = ctxs[reader].wrong
    /\ ctxs'[reader].spoilt = TRUE => ctxs[reader].spoilt = TRUE \/ ctxs[reader].owned = FALSE

\* The reader does that with the operation.
LEMMA CompleteIs ==
    ASSUME Typed, NEW good \in BOOLEAN, CompleteOp(good)
    PROVE  Completed
  <1>1. reader # 0 /\ reader' = 0 /\ UNCHANGED <<call, sessionVars, pending>>
    BY DEF CompleteOp
  <1>2. reader \in DOMAIN ctxs
    BY <1>1 DEF Typed, TypeOK
  <1>3. PICK x : x = ctxs[reader]
    OBVIOUS
  <1>4. x \in Ctxs
    BY <1>2, <1>3, OpType DEF Typed
  <1>5. PICK r \in {"ok", "failed"} : r = IF good THEN "ok" ELSE "failed"
    OBVIOUS
  <1>6. PICK y : y = SetResult(x, r)
    OBVIOUS
  <1>7. /\ y.result = IF x.result = "unset" THEN r ELSE x.result
        /\ y.owned = x.owned /\ y.spoilt = x.spoilt /\ y.wrong = x.wrong /\ y.lost = x.lost
    BY <1>4, <1>6, SetResultIs
  <1>8. y \in Ctxs
    BY <1>4, <1>6, Altered DEF Alike
  <1>9. PICK z : z = [y EXCEPT !.spoilt = TRUE]
    OBVIOUS
  <1>10. z.result = y.result /\ z.owned = y.owned /\ z.wrong = y.wrong /\ z.lost = y.lost
    BY <1>8, <1>9 DEF Ctxs
  <1>11. PICK w \in {y, z} : ctxs' = [ctxs EXCEPT ![reader] = w] /\ (w # y => ~ctxs[reader].owned)
    BY <1>3, <1>5, <1>6, <1>9 DEF CompleteOp
  <1>12. w # y => x.owned = FALSE
    BY <1>3, <1>4, <1>11 DEF Ctxs
  <1>13. DOMAIN ctxs' = DOMAIN ctxs /\ ctxs'[reader] = w /\ \A b \in DOMAIN ctxs : b # reader => ctxs'[b] = ctxs[b]
    BY <1>2, <1>11
  <1>14. w.result = y.result /\ w.owned = y.owned /\ w.wrong = y.wrong /\ w.lost = y.lost
    BY <1>10, <1>11
  <1>15. w.spoilt = TRUE => x.spoilt = TRUE \/ x.owned = FALSE
    BY <1>7, <1>12
  <1>16. w.result # "unset" /\ (x.result # "unset" => w.result = x.result)
    BY <1>7, <1>14
  <1> QED BY <1>1, <1>2, <1>3, <1>7, <1>13, <1>14, <1>15, <1>16 DEF Completed

\* A sign-out fails what is pending.
Failed ==
    /\ pending' = {} /\ reader' = reader /\ call' = call
    /\ task = "fail" /\ task' = "none" /\ UNCHANGED <<session, last, up, counter, inFlight, missed>>
    /\ DOMAIN ctxs' = DOMAIN ctxs
    /\ \A c \in DOMAIN ctxs :
         /\ SameOwner(c) /\ ctxs'[c].lost = ctxs[c].lost
         /\ ctxs[c].result # "unset" => ctxs'[c].result = ctxs[c].result
         /\ IF \E e \in pending : e.ctx = c THEN ctxs'[c].result # "unset"
            ELSE ctxs'[c].result = ctxs[c].result

\* FailPendingRequests does that.
LEMMA FailIs ==
    ASSUME Typed, FailPendingRequests
    PROVE  Failed
  <1>1. /\ pending' = {} /\ reader' = reader /\ call' = call /\ task = "fail" /\ task' = "none"
        /\ UNCHANGED <<session, last, up, counter, inFlight, missed>>
    BY DEF FailPendingRequests, FailEntries, PendingFailed
  <1>2. FailEntries
    BY DEF FailPendingRequests
  <1>3. ctxs' \in Seq(Ctxs) /\ Len(ctxs') = Len(ctxs) /\ ctxs \in Seq(Ctxs)
          /\ \A c \in DOMAIN ctxs : ctxs'[c] = IF \E e \in pending : e.ctx = c
                THEN SetResult(ctxs[c], "signed out") ELSE ctxs[c]
    BY <1>2, FailSets DEF Typed, TypeOK
  <1>6. ctxs' \in Seq(Ctxs) /\ Len(ctxs') = Len(ctxs) /\ ctxs \in Seq(Ctxs)
    BY <1>3
  <1>4. DOMAIN ctxs' = DOMAIN ctxs
    BY <1>6
  <1>5. ASSUME NEW c \in DOMAIN ctxs
        PROVE  /\ SameOwner(c) /\ ctxs'[c].lost = ctxs[c].lost
               /\ ctxs[c].result # "unset" => ctxs'[c].result = ctxs[c].result
               /\ IF \E e \in pending : e.ctx = c THEN ctxs'[c].result # "unset"
                  ELSE ctxs'[c].result = ctxs[c].result
    <2>1. PICK x : x = ctxs[c]
      OBVIOUS
    <2>2. x \in Ctxs
      BY <2>1, OpType DEF Typed
    <2>3. PICK y : y = SetResult(x, "signed out")
      OBVIOUS
    <2>4. /\ y.result = IF x.result = "unset" THEN "signed out" ELSE x.result
          /\ y.owned = x.owned /\ y.spoilt = x.spoilt /\ y.wrong = x.wrong /\ y.lost = x.lost
      BY <2>2, <2>3, SetResultIs
    <2>5. ctxs'[c] = IF \E e \in pending : e.ctx = c THEN y ELSE x
      BY <1>3, <2>1, <2>3
    <2> QED BY <2>1, <2>4, <2>5 DEF SameOwner
  <1> QED BY <1>1, <1>4, <1>5 DEF Failed

-----------------------------------------------------------------------------
(* Who will complete an operation, and the numbers of its packet.          *)

\* What is sent, and what is pending, is of an operation there is.
LEMMA Known ==
    ASSUME Typed
    PROVE  /\ Len(ctxs) \in Nat /\ DOMAIN ctxs = 1 .. Len(ctxs)
           /\ \A t \in Threads : \A c : Sending(call[t], c) => c \in DOMAIN ctxs
           /\ \A e \in pending : e.ctx \in DOMAIN ctxs
           /\ reader # 0 => reader \in DOMAIN ctxs
  <1>1. ctxs \in Seq(Ctxs)
    BY DEF Typed, TypeOK
  <1>2. Len(ctxs) \in Nat /\ DOMAIN ctxs = 1 .. Len(ctxs)
    BY <1>1
  <1>3. \A t \in Threads : \A c : Sending(call[t], c) => c \in DOMAIN ctxs
    BY CallCtx DEF Sending
  <1>4. \A e \in pending : e.ctx \in DOMAIN ctxs
    BY <1>2 DEF Typed, TypeOK, Entries
  <1>5. reader # 0 => reader \in DOMAIN ctxs
    BY <1>2 DEF Typed, TypeOK
  <1> QED BY <1>2, <1>3, <1>4, <1>5

\* Quiet threads send nothing, and what is sent stays so in a steady step.
LEMMA SteadySends ==
    ASSUME Steady
    PROVE  \A t \in Threads : \A c : Sending(call'[t], c) <=> Sending(call[t], c)
  BY DEF Steady, Sending, Quiet

\* Every operation has one that will complete it, at most.
LEMMA OnePlaceStep ==
    ASSUME Typed, [Next]_vars, OnePlace
    PROVE  OnePlace'
  <1>k. Kind /\ Typed'
    BY Kinds, TypeStep
  <1>1. CASE GameStep
    <2>1. \A t \in Threads : \A c : Sending(call'[t], c) <=> Sending(call[t], c)
      BY <1>1, SteadySends DEF GameStep
    <2>2. pending' = pending /\ reader' = reader
      BY <1>1 DEF GameStep, replyVars
    <2>3. ASSUME NEW t \in Threads, NEW u \in Threads,
                 Sending(call'[t], call'[t].ctx), Sending(call'[u], call'[t].ctx)
          PROVE  t = u
      <3>1. PICK c : c = call'[t].ctx
        OBVIOUS
      <3>2. Sending(call[t], c) /\ Sending(call[u], c)
        BY <2>1, <2>3, <3>1
      <3> QED BY <3>2 DEF OnePlace, Sending
    <2>4. \A t \in Threads, e \in pending' : ~Sending(call'[t], e.ctx)
      BY <2>1, <2>2 DEF OnePlace
    <2>5. \A t \in Threads : ~Sending(call'[t], reader')
      BY <2>1, <2>2 DEF OnePlace
    <2> QED BY <2>2, <2>3, <2>4, <2>5 DEF OnePlace, Sending
  <1>2. ASSUME NEW t \in Threads, Sent(t) PROVE OnePlace'
    <2>1. pending' = pending /\ reader' = reader
      BY <1>2 DEF Sent, replyVars
    <2>2. \A c : Sending(call'[t], c) => c \notin DOMAIN ctxs /\ c # 0
      <3>1. Len(ctxs) + 1 \notin DOMAIN ctxs /\ Len(ctxs) + 1 # 0
        BY Known
      <3> QED BY <1>2, <3>1 DEF Sent, Sending
    <2>3. \A u \in Threads \ {t} : \A c : Sending(call'[u], c) => Sending(call[u], c) /\ c \in DOMAIN ctxs
      BY <1>2, Known DEF Sent
    <2>4. ASSUME NEW u \in Threads, NEW v \in Threads,
                 Sending(call'[u], call'[u].ctx), Sending(call'[v], call'[u].ctx)
          PROVE  u = v
      <3>1. PICK c : c = call'[u].ctx
        OBVIOUS
      <3>2. CASE u # t /\ v # t
        <4>1. Sending(call[u], c) /\ Sending(call[v], c)
          BY <2>3, <2>4, <3>1, <3>2
        <4> QED BY <4>1 DEF OnePlace, Sending
      <3>3. CASE u = t \/ v = t
        BY <2>2, <2>3, <2>4, <3>1, <3>3
      <3> QED BY <3>2, <3>3
    <2>5. \A u \in Threads, e \in pending' : ~Sending(call'[u], e.ctx)
      BY <2>1, <2>2, <2>3, Known DEF OnePlace
    <2>6. \A u \in Threads : ~Sending(call'[u], reader')
      BY <2>1, <2>2, <2>3, Known DEF OnePlace
    <2> QED BY <2>1, <2>4, <2>5, <2>6 DEF OnePlace, Sending
  <1>3. ASSUME NEW t \in Threads, Submitted(t) PROVE OnePlace'
    <2>1. pending' = pending /\ reader' = reader
      BY <1>3 DEF Submitted, replyVars
    <2>2. \A u \in Threads : \A c : Sending(call'[u], c) <=> Sending(call[u], c)
      BY <1>3 DEF Submitted, OthersStay, Sending
    <2>3. ASSUME NEW u \in Threads, NEW v \in Threads,
                 Sending(call'[u], call'[u].ctx), Sending(call'[v], call'[u].ctx)
          PROVE  u = v
      <3>1. PICK c : c = call'[u].ctx
        OBVIOUS
      <3>2. Sending(call[u], c) /\ Sending(call[v], c)
        BY <2>2, <2>3, <3>1
      <3> QED BY <3>2 DEF OnePlace, Sending
    <2>4. \A u \in Threads, e \in pending' : ~Sending(call'[u], e.ctx)
      BY <2>1, <2>2 DEF OnePlace
    <2>5. \A u \in Threads : ~Sending(call'[u], reader')
      BY <2>1, <2>2 DEF OnePlace
    <2> QED BY <2>1, <2>3, <2>4, <2>5 DEF OnePlace, Sending
  <1>4. ASSUME NEW t \in Threads, Registered(t) PROVE OnePlace'
    <2>1. reader' = reader /\ Sending(call[t], call[t].ctx)
      BY <1>4 DEF Registered, Sending
    <2>2. \A u \in Threads : \A c : Sending(call'[u], c) => Sending(call[u], c) /\ u # t
      BY <1>4 DEF Registered, OthersStay, Sending
    <2>3. ASSUME NEW u \in Threads, NEW v \in Threads,
                 Sending(call'[u], call'[u].ctx), Sending(call'[v], call'[u].ctx)
          PROVE  u = v
      <3>1. PICK c : c = call'[u].ctx
        OBVIOUS
      <3>2. Sending(call[u], c) /\ Sending(call[v], c)
        BY <2>2, <2>3, <3>1
      <3> QED BY <3>2 DEF OnePlace, Sending
    <2>4. \A e \in pending' : e \in pending \/ e.ctx = call[t].ctx
      BY <1>4 DEF Registered, Entered
    <2>5. \A u \in Threads, e \in pending' : ~Sending(call'[u], e.ctx)
      BY <2>1, <2>2, <2>4 DEF OnePlace, Sending
    <2>6. \A u \in Threads : ~Sending(call'[u], reader')
      BY <2>1, <2>2 DEF OnePlace
    <2>7. \A e \in pending' : e.ctx # reader'
      BY <2>1, <2>4 DEF OnePlace
    <2>8. ASSUME NEW e \in pending', NEW f \in pending', e.ctx = f.ctx PROVE e = f
      BY <1>4, <2>1, <2>8 DEF Registered, Entered, OnePlace
    <2> QED BY <2>3, <2>5, <2>6, <2>7, <2>8 DEF OnePlace, Sending
  <1>5. ASSUME NEW p \in inFlight, Answered(p) PROVE OnePlace'
    <2>1. call' = call
      BY <1>5 DEF Answered
    <2>2. CASE UNCHANGED <<replyVars, ctxs>>
      BY <2>1, <2>2 DEF OnePlace, replyVars, Sending
    <2>3. ASSUME NEW e \in pending, Taken(e) PROVE OnePlace'
      BY <2>1, <2>3 DEF OnePlace, Taken, Sending
    <2> QED BY <1>5, <2>2, <2>3 DEF Answered
  <1>6. CASE Completed
    <2>1. \A t \in Threads : ~Sending(call[t], 0)
      BY Known
    <2>2. \A e \in pending : e.ctx # 0
      BY Known
    <2> QED BY <1>6, <2>1, <2>2 DEF OnePlace, Completed, Sending
  <1>7. CASE Failed
    BY <1>7 DEF OnePlace, Failed, Sending
  <1>8. CASE SignIn \/ LoseConnection \/ Disconnect \/ StopClient
    <2>1. UNCHANGED <<call, pending, reader>>
      BY <1>8 DEF SignIn, LoseConnection, Disconnect, StopClient, replyVars
    <2> QED BY <2>1 DEF OnePlace, Sending
  <1> QED BY <1>k, <1>1, <1>2, <1>3, <1>4, <1>5, <1>6, <1>7, <1>8, SubmitIs, RegisterIs, TakeIs, CompleteIs,
             FailIs DEF Kind, ReplyStep, CompleteStep

\* A packet number is of one operation of a session.
LEMMA NumberedStep ==
    ASSUME Typed, [Next]_vars, Numbered
    PROVE  Numbered'
  <1>k. Kind
    BY Kinds
  <1>q. ASSUME \A u \in Threads : call'[u] = call[u] \/ call'[u].pc # "register",
               pending' \subseteq pending
        PROVE  Numbered'
    BY <1>q DEF Numbered
  <1>1. CASE GameStep
    <2>1. \A u \in Threads : call'[u] = call[u] \/ call'[u].pc # "register"
      BY <1>1 DEF GameStep, Steady, Quiet
    <2>2. pending' = pending
      BY <1>1 DEF GameStep, replyVars
    <2> QED BY <1>q, <2>1, <2>2
  <1>2. ASSUME NEW t \in Threads, Sent(t) PROVE Numbered'
    <2>1. \A u \in Threads : call'[u] = call[u] \/ call'[u].pc # "register"
      BY <1>2 DEF Sent
    <2>2. pending' = pending
      BY <1>2 DEF Sent, replyVars
    <2> QED BY <1>q, <2>1, <2>2
  <1>3. ASSUME NEW t \in Threads, Submitted(t) PROVE Numbered'
    <2>1. PICK s : s = call[t].session
      OBVIOUS
    <2>2. s \in Sessions
      <3>1. Stage(call[t]) /\ call[t].pc = "submit"
        BY <1>3 DEF Typed, Submitted
      <3>2. last \in 0 .. MaxSessions /\ s \in 1 .. last
        BY <2>1, <3>1 DEF Stage, Typed, TypeOK, SessionTypeOK
      <3> QED BY <3>2, SessionAssumption DEF Sessions
    <2>3. counter[s] \in Nat
      BY <2>2 DEF Typed, TypeOK, SessionTypeOK
    <2>4. call'[t].pkt = counter[s] + 1 /\ call'[t].session = s
      BY <1>3, <2>1 DEF Submitted
    <2>5. \A u \in Threads : call[u].pc = "register" /\ call[u].session = s => call[u].pkt # counter[s] + 1
      <3>1. \A u \in Threads : call[u].pc = "register" /\ call[u].session = s => call[u].pkt \in 1 .. counter[s]
        BY DEF Typed, Stage
      <3> QED BY <2>3, <3>1
    <2>6. \A e \in pending : e.session = s => e.pkt # counter[s] + 1
      <3>1. \A e \in pending : e.session = s => e.pkt \in 1 .. counter[s]
        BY DEF Typed, Sessioned
      <3> QED BY <2>3, <3>1
    <2>7. pending' = pending /\ \A u \in Threads \ {t} : call'[u] = call[u]
      BY <1>3 DEF Submitted, OthersStay, replyVars
    <2>8. ASSUME NEW u \in Threads, NEW v \in Threads, call'[u].pc = "register", call'[v].pc = "register",
                 call'[u].session = call'[v].session, call'[u].pkt = call'[v].pkt
          PROVE  u = v
      BY <2>4, <2>5, <2>7, <2>8 DEF Numbered
    <2>9. ASSUME NEW u \in Threads, NEW e \in pending', call'[u].pc = "register", call'[u].session = e.session
          PROVE  call'[u].pkt # e.pkt
      BY <2>4, <2>6, <2>7, <2>9 DEF Numbered
    <2> QED BY <2>8, <2>9 DEF Numbered
  <1>4. ASSUME NEW t \in Threads, Registered(t) PROVE Numbered'
    <2>1. \A u \in Threads : call'[u].pc = "register" => u # t /\ call'[u] = call[u]
      BY <1>4 DEF Registered, OthersStay
    <2>2. \A e \in pending' : e \in pending \/ (e.pkt = call[t].pkt /\ e.session = call[t].session)
      BY <1>4 DEF Registered, Entered
    <2>3. call[t].pc = "register"
      BY <1>4 DEF Registered
    <2> QED BY <2>1, <2>2, <2>3 DEF Numbered
  <1>5. ASSUME NEW p \in inFlight, Answered(p) PROVE Numbered'
    <2>1. call' = call /\ pending' \subseteq pending
      BY <1>5 DEF Answered, Taken, replyVars
    <2> QED BY <1>q, <2>1
  <1>6. CASE Completed
    <2>1. call' = call /\ pending' = pending
      BY <1>6 DEF Completed
    <2> QED BY <1>q, <2>1
  <1>7. CASE Failed
    <2>1. call' = call /\ pending' = {}
      BY <1>7 DEF Failed
    <2> QED BY <1>q, <2>1
  <1>8. CASE SignIn \/ LoseConnection \/ Disconnect \/ StopClient
    <2>1. call' = call /\ pending' = pending
      BY <1>8 DEF SignIn, LoseConnection, Disconnect, StopClient, replyVars
    <2> QED BY <1>q, <2>1
  <1> QED BY <1>k, <1>1, <1>2, <1>3, <1>4, <1>5, <1>6, <1>7, <1>8, SubmitIs, RegisterIs, TakeIs, CompleteIs,
             FailIs DEF Kind, ReplyStep, CompleteStep

-----------------------------------------------------------------------------
(* What becomes of an operation.                                           *)

\* Who will complete an operation stays as it is in the steps of the game.
LEMMA ToComeSteady ==
    ASSUME GameStep, NEW c
    PROVE  ToCome(c)' <=> ToCome(c)
  <1>1. \A t \in Threads : \A b : Sending(call'[t], b) <=> Sending(call[t], b)
    BY SteadySends DEF GameStep
  <1>2. pending' = pending /\ reader' = reader
    BY DEF GameStep, replyVars
  <1>3. (\E t \in Threads : Sending(call'[t], c)) <=> (\E t \in Threads : Sending(call[t], c))
    BY <1>1
  <1> QED BY <1>2, <1>3 DEF ToCome, Sending

\* Only an operation there is will be completed.
LEMMA ComesKnown ==
    ASSUME Typed, NEW c, ToCome(c), c # 0
    PROVE  c \in DOMAIN ctxs
  BY Known DEF ToCome

\* In a session's changes the operations, the calls and the entries stay.
LEMMA SessionOnly ==
    ASSUME SignIn \/ LoseConnection \/ Disconnect \/ StopClient
    PROVE  UNCHANGED <<ctxs, call, pending, reader>> /\ \A c : ToCome(c)' <=> ToCome(c)
  <1>1. UNCHANGED <<ctxs, call, pending, reader>>
    BY DEF SignIn, LoseConnection, Disconnect, StopClient, replyVars
  <1> QED BY <1>1 DEF ToCome, Sending

\* An operation that waits and was not forgotten will be completed.
LEMMA AnswerableStep ==
    ASSUME Typed, [Next]_vars, OnePlace, Answerable
    PROVE  Answerable'
  <1>k. Kind
    BY Kinds
  <1> SUFFICES ASSUME NEW c \in DOMAIN ctxs', ctxs'[c].result = "unset", ctxs'[c].lost = "no"
               PROVE  ToCome(c)'
    BY DEF Answerable
  <1>1. CASE GameStep
    <2>1. c \in DOMAIN ctxs
      BY <1>1 DEF GameStep, CtxsMild
    <2>2. ctxs[c].result = "unset" /\ ctxs[c].lost = "no"
      BY <1>1, <2>1 DEF GameStep, CtxsMild, Mild
    <2> QED BY <1>1, <2>1, <2>2, ToComeSteady DEF Answerable
  <1>2. ASSUME NEW t \in Threads, Sent(t) PROVE ToCome(c)'
    <2>1. pending' = pending /\ reader' = reader
      BY <1>2 DEF Sent, replyVars
    <2>2. \A u \in Threads : \A b : Sending(call[u], b) => Sending(call'[u], b)
      BY <1>2 DEF Sent, Sending
    <2>3. CASE c \in DOMAIN ctxs
      <3>1. ToCome(c)
        BY <1>2, <2>3 DEF Sent, Answerable
      <3> QED BY <2>1, <2>2, <3>1 DEF ToCome, Sending
    <2>4. CASE c \notin DOMAIN ctxs
      <3>1. ctxs' \in Seq(Ctxs) /\ Len(ctxs') = Len(ctxs) + 1
        BY <1>2, CtxsStep DEF Sent
      <3>2. DOMAIN ctxs' = 1 .. Len(ctxs) + 1
        BY <3>1
      <3>3. c = Len(ctxs) + 1
        BY <2>4, <3>2, Known
      <3>4. Sending(call'[t], c)
        BY <1>2, <3>3 DEF Sent, Sending
      <3> QED BY <3>4 DEF ToCome, Sending
    <2> QED BY <2>3, <2>4
  <1>3. ASSUME NEW t \in Threads, Submitted(t) PROVE ToCome(c)'
    <2>1. pending' = pending /\ reader' = reader /\ ctxs' = ctxs
      BY <1>3 DEF Submitted, replyVars
    <2>2. \A u \in Threads : \A b : Sending(call[u], b) => Sending(call'[u], b)
      BY <1>3 DEF Submitted, OthersStay, Sending
    <2>3. ToCome(c)
      BY <2>1 DEF Answerable
    <2> QED BY <2>1, <2>2, <2>3 DEF ToCome, Sending
  <1>4. ASSUME NEW t \in Threads, Registered(t) PROVE ToCome(c)'
    <2>1. c \in DOMAIN ctxs /\ ctxs[c].result = "unset" /\ ctxs[c].lost = "no" /\ reader' = reader
      BY <1>4 DEF Registered
    <2>2. ToCome(c)
      BY <2>1 DEF Answerable
    <2>3. \A u \in Threads \ {t} : Sending(call[u], c) => Sending(call'[u], c)
      BY <1>4 DEF Registered, OthersStay
    <2>4. pending \subseteq pending'
      BY <1>4 DEF Registered, Entered
    <2>5. CASE Sending(call[t], c)
      <3>1. c = call[t].ctx
        BY <2>5 DEF Sending
      <3>2. PICK e : Entered(t, e)
        BY <1>4, <3>1 DEF Registered
      <3> QED BY <3>1, <3>2 DEF Entered, ToCome
    <2>6. CASE ~Sending(call[t], c)
      BY <2>1, <2>2, <2>3, <2>4, <2>6 DEF ToCome, Sending
    <2> QED BY <2>5, <2>6
  <1>5. ASSUME NEW p \in inFlight, Answered(p) PROVE ToCome(c)'
    <2>1. call' = call
      BY <1>5 DEF Answered
    <2>2. CASE UNCHANGED <<replyVars, ctxs>>
      <3>1. ToCome(c) /\ pending' = pending /\ reader' = reader
        BY <2>2 DEF Answerable, replyVars
      <3> QED BY <2>1, <3>1 DEF ToCome, Sending
    <2>3. ASSUME NEW e \in pending, Taken(e) PROVE ToCome(c)'
      <3>1. reader = 0 /\ reader' = e.ctx /\ pending' = pending \ {e} /\ DOMAIN ctxs' = DOMAIN ctxs
        BY <1>5, <2>3 DEF Answered, Taken
      <3>2. c \in DOMAIN ctxs /\ ctxs[c].result = "unset" /\ ctxs[c].lost = "no"
        BY <2>3, <3>1 DEF Taken
      <3>3. c # 0
        BY <3>2, Known
      <3>4. ToCome(c)
        BY <3>2 DEF Answerable
      <3> QED BY <2>1, <3>1, <3>3, <3>4 DEF ToCome, Sending
    <2> QED BY <1>5, <2>2, <2>3 DEF Answered
  <1>6. CASE Completed
    <2>1. c \in DOMAIN ctxs /\ c # reader
      BY <1>6 DEF Completed
    <2>2. ToCome(c)
      BY <1>6, <2>1 DEF Completed, Answerable
    <2> QED BY <1>6, <2>1, <2>2 DEF Completed, ToCome, Sending
  <1>7. CASE Failed
    <2>1. c \in DOMAIN ctxs /\ ~ \E e \in pending : e.ctx = c
      BY <1>7 DEF Failed
    <2>2. ToCome(c)
      BY <1>7, <2>1 DEF Failed, Answerable
    <2> QED BY <1>7, <2>1, <2>2 DEF Failed, ToCome, Sending
  <1>8. CASE SignIn \/ LoseConnection \/ Disconnect \/ StopClient
    BY <1>8, SessionOnly DEF Answerable
  <1> QED BY <1>k, <1>1, <1>2, <1>3, <1>4, <1>5, <1>6, <1>7, <1>8, SubmitIs, RegisterIs, TakeIs, CompleteIs,
             FailIs DEF Kind, ReplyStep, CompleteStep

\* Every step keeps the entries expected.
LEMMA ExpectableStep ==
    ASSUME Typed, [Next]_vars, Expectable, Underway
    PROVE  Expectable'
  <1>k. Kind
    BY Kinds
  <1> SUFFICES ASSUME NEW e \in pending', ctxs'[e.ctx].lost = "no"
               PROVE  e.session = last' /\ StillExpected(e.pkt)'
    BY DEF Expectable
  <1>q. ASSUME UNCHANGED sessionVars, e \in pending, ctxs[e.ctx].lost = "no"
        PROVE  e.session = last' /\ StillExpected(e.pkt)'
    BY <1>q DEF sessionVars, StillExpected, Expectable
  <1>1. CASE GameStep
    <2>1. e \in pending /\ UNCHANGED sessionVars
      BY <1>1 DEF GameStep, replyVars
    <2>2. ctxs[e.ctx].lost = "no"
      BY <1>1, <2>1, Known DEF GameStep, CtxsMild, Mild
    <2> QED BY <1>q, <2>1, <2>2
  <1>2. ASSUME NEW t \in Threads, Sent(t) PROVE e.session = last' /\ StillExpected(e.pkt)'
    <2>1. e \in pending /\ UNCHANGED sessionVars
      BY <1>2 DEF Sent, replyVars
    <2>2. ctxs[e.ctx].lost = "no"
      BY <1>2, <2>1, Known DEF Sent
    <2> QED BY <1>q, <2>1, <2>2
  <1>3. ASSUME NEW t \in Threads, Submitted(t) PROVE e.session = last' /\ StillExpected(e.pkt)'
    BY <1>3 DEF Submitted, replyVars, StillExpected, Expectable
  <1>4. ASSUME NEW t \in Threads, Registered(t) PROVE e.session = last' /\ StillExpected(e.pkt)'
    <2>1. UNCHANGED sessionVars
      BY <1>4 DEF Registered
    <2>2. CASE e \in pending
      <3>1. ctxs[e.ctx].lost = "no"
        BY <1>4, <2>2, Known DEF Registered
      <3> QED BY <1>q, <2>1, <2>2, <3>1
    <2>3. CASE e \notin pending
      <3>1. Entered(t, e)
        BY <1>4, <2>3 DEF Registered, Entered
      <3>2. e.session = call[t].session /\ e.pkt = call[t].pkt /\ ~Over(e.session) /\ e.pkt \notin missed
        BY <3>1 DEF Entered
      <3>3. e.session = last /\ (session = last \/ task # "none")
        BY <3>2 DEF Over
      <3>4. up => e.pkt \in inFlight
        BY <1>4, <3>2, <3>3 DEF Registered, Underway
      <3>5. StillExpected(e.pkt)
        BY <3>3, <3>4 DEF StillExpected
      <3> QED BY <2>1, <3>3, <3>5 DEF sessionVars, StillExpected
    <2> QED BY <2>2, <2>3
  <1>5. ASSUME NEW p \in inFlight, Answered(p) PROVE e.session = last' /\ StillExpected(e.pkt)'
    <2>1. UNCHANGED <<session, last, up, task>> /\ inFlight' = inFlight \ {p}
      BY <1>5 DEF Answered
    <2>2. e \in pending /\ e.pkt # p /\ ctxs[e.ctx].lost = "no"
      <3>1. CASE UNCHANGED <<replyVars, ctxs>> /\ ~ \E f \in pending : f.pkt = p
        BY <3>1 DEF replyVars
      <3>2. ASSUME NEW f \in pending, f.pkt = p, Taken(f) PROVE e \in pending /\ e.pkt # p /\ ctxs[e.ctx].lost = "no"
        <4>1. e \in pending /\ e # f
          BY <3>2 DEF Taken
        <4>2. e.pkt # p
          BY <3>2, <4>1 DEF Typed, TypeOK
        <4>3. ctxs[e.ctx].lost = "no"
          BY <3>2, <4>1, Known DEF Taken
        <4> QED BY <4>1, <4>2, <4>3
      <3> QED BY <1>5, <3>1, <3>2 DEF Answered
    <2> QED BY <2>1, <2>2 DEF StillExpected, Expectable
  <1>6. CASE Completed
    <2>1. e \in pending /\ UNCHANGED sessionVars
      BY <1>6 DEF Completed
    <2>2. ctxs[e.ctx].lost = "no"
      BY <1>6, <2>1, Known DEF Completed
    <2> QED BY <1>q, <2>1, <2>2
  <1>7. CASE Failed
    BY <1>7 DEF Failed
  <1>8. CASE SignIn \/ LoseConnection \/ Disconnect \/ StopClient
    <2>1. e \in pending /\ ctxs[e.ctx].lost = "no"
      BY <1>8, SessionOnly
    <2>2. e.session = last /\ StillExpected(e.pkt) /\ e.session \in 1 .. last
      BY <2>1 DEF Expectable, Typed, Sessioned
    <2>3. CASE SignIn
      <3>1. session = 0 /\ task = "none"
        BY <2>3 DEF SignIn, ConnectUser
      <3>2. inFlight = {}
        BY <3>1 DEF Typed, Sessioned, SessionEnds
      <3>3. last = 0
        BY <2>2, <3>1, <3>2 DEF StillExpected
      <3> QED BY <2>2, <3>3
    <2>4. CASE LoseConnection
      <3>1. session # 0 /\ up' = FALSE /\ UNCHANGED <<session, last>>
        BY <2>4 DEF LoseConnection, ConnectionLost
      <3>2. session = last
        BY <3>1 DEF Typed, TypeOK, SessionTypeOK
      <3> QED BY <2>2, <3>1, <3>2 DEF StillExpected
    <2>5. CASE Disconnect
      <3>1. task' # "none" /\ last' = last
        BY <2>5 DEF Disconnect, ClientRemoved
      <3> QED BY <2>2, <3>1 DEF StillExpected
    <2>6. CASE StopClient
      <3>1. task' # "none" /\ last' = last
        BY <2>6 DEF StopClient, ClientStopped
      <3> QED BY <2>2, <3>1 DEF StillExpected
    <2> QED BY <1>8, <2>3, <2>4, <2>5, <2>6
  <1> QED BY <1>k, <1>1, <1>2, <1>3, <1>4, <1>5, <1>6, <1>7, <1>8, SubmitIs, RegisterIs, TakeIs, CompleteIs,
             FailIs DEF Kind, ReplyStep, CompleteStep

\* Every step keeps those on their way.
LEMMA UnderwayStep ==
    ASSUME Typed, [Next]_vars, Numbered, Underway
    PROVE  Underway'
  <1>k. Kind
    BY Kinds
  <1> SUFFICES ASSUME NEW u \in Threads, call'[u].pc = "register", call'[u].session = last', up'
               PROVE  call'[u].pkt \in inFlight' \cup missed'
    BY DEF Underway
  <1>q. ASSUME UNCHANGED <<last, up>>, call'[u] = call[u], inFlight \cup missed \subseteq inFlight' \cup missed'
        PROVE  call'[u].pkt \in inFlight' \cup missed'
    BY <1>q DEF Underway
  <1>1. CASE GameStep
    <2>1. call'[u] = call[u] /\ UNCHANGED sessionVars
      BY <1>1 DEF GameStep, Steady, Quiet
    <2> QED BY <1>q, <2>1 DEF sessionVars
  <1>2. ASSUME NEW t \in Threads, Sent(t) PROVE call'[u].pkt \in inFlight' \cup missed'
    <2>1. call'[u] = call[u] /\ UNCHANGED sessionVars
      BY <1>2 DEF Sent
    <2> QED BY <1>q, <2>1 DEF sessionVars
  <1>3. ASSUME NEW t \in Threads, Submitted(t) PROVE call'[u].pkt \in inFlight' \cup missed'
    <2>1. CASE u = t
      BY <1>3, <2>1 DEF Submitted
    <2>2. CASE u # t
      <3>1. call'[u] = call[u] /\ UNCHANGED <<last, up, missed>> /\ inFlight \subseteq inFlight'
        BY <1>3, <2>2 DEF Submitted, OthersStay
      <3> QED BY <1>q, <3>1
    <2> QED BY <2>1, <2>2
  <1>4. ASSUME NEW t \in Threads, Registered(t) PROVE call'[u].pkt \in inFlight' \cup missed'
    <2>1. call'[u] = call[u] /\ UNCHANGED sessionVars
      BY <1>4 DEF Registered, OthersStay
    <2> QED BY <1>q, <2>1 DEF sessionVars
  <1>5. ASSUME NEW p \in inFlight, Answered(p) PROVE call'[u].pkt \in inFlight' \cup missed'
    <2>1. call' = call /\ UNCHANGED <<last, up>> /\ inFlight' = inFlight \ {p}
      BY <1>5 DEF Answered
    <2>2. CASE missed' = missed \cup {p}
      BY <1>q, <2>1, <2>2
    <2>3. ASSUME missed' = missed, NEW e \in pending, e.pkt = p, e.session = last
          PROVE  call'[u].pkt \in inFlight' \cup missed'
      <3>1. call[u].pc = "register" /\ call[u].session = last /\ up
        BY <2>1
      <3>2. call[u].pkt # p
        BY <2>3, <3>1 DEF Numbered
      <3>3. call[u].pkt \in inFlight \cup missed
        BY <3>1 DEF Underway
      <3> QED BY <2>1, <2>3, <3>2, <3>3
    <2> QED BY <1>5, <2>2, <2>3 DEF Answered
  <1>6. CASE Completed
    <2>1. call' = call /\ UNCHANGED sessionVars
      BY <1>6 DEF Completed
    <2> QED BY <1>q, <2>1 DEF sessionVars
  <1>7. CASE Failed
    <2>1. call' = call /\ UNCHANGED <<last, up, inFlight, missed>>
      BY <1>7 DEF Failed
    <2> QED BY <1>q, <2>1
  <1>8. CASE SignIn \/ LoseConnection \/ Disconnect \/ StopClient
    <2>1. call' = call
      BY <1>8, SessionOnly
    <2>2. CASE SignIn
      <3>1. last' = last + 1
        BY <2>2 DEF SignIn, ConnectUser
      <3>2. last \in Nat
        BY SessionAssumption DEF Typed, TypeOK, SessionTypeOK
      <3>3. call[u].session \in 1 .. last
        BY <2>1 DEF Typed, Stage
      <3> QED BY <2>1, <3>1, <3>2, <3>3
    <2>3. CASE LoseConnection \/ StopClient
      BY <2>3 DEF LoseConnection, ConnectionLost, StopClient, ClientStopped
    <2>4. CASE Disconnect
      <3>1. UNCHANGED <<last, up, inFlight, missed>>
        BY <2>4 DEF Disconnect, ClientRemoved
      <3> QED BY <1>q, <2>1, <3>1
    <2> QED BY <1>8, <2>2, <2>3, <2>4
  <1> QED BY <1>k, <1>1, <1>2, <1>3, <1>4, <1>5, <1>6, <1>7, <1>8, SubmitIs, RegisterIs, TakeIs, CompleteIs,
             FailIs DEF Kind, ReplyStep, CompleteStep

\* Another session's reply is taken only for what was forgotten.
LEMMA MisledStep ==
    ASSUME Typed, [Next]_vars, Expectable, Misled
    PROVE  Misled'
  <1>k. Kind
    BY Kinds
  <1> SUFFICES ASSUME NEW c \in DOMAIN ctxs', ctxs'[c].wrong = TRUE
               PROVE  ctxs'[c].lost # "no"
    BY DEF Misled
  <1>1. CASE GameStep
    <2>1. c \in DOMAIN ctxs
      BY <1>1 DEF GameStep, CtxsMild, Fresh
    <2> QED BY <1>1, <2>1 DEF GameStep, CtxsMild, Mild, Misled
  <1>2. ASSUME NEW t \in Threads, Sent(t) PROVE ctxs'[c].lost # "no"
    <2>1. ctxs' \in Seq(Ctxs) /\ Len(ctxs') = Len(ctxs) + 1
      BY <1>2, CtxsStep DEF Sent
    <2>2. DOMAIN ctxs' = 1 .. Len(ctxs) + 1
      BY <2>1
    <2>3. c \in DOMAIN ctxs \/ c = Len(ctxs) + 1
      BY <2>2, Known
    <2>4. c \in DOMAIN ctxs
      BY <1>2, <2>3 DEF Sent, Fresh
    <2> QED BY <1>2, <2>4 DEF Sent, Misled
  <1>3. ASSUME NEW t \in Threads, Submitted(t) PROVE ctxs'[c].lost # "no"
    BY <1>3 DEF Submitted, Misled
  <1>4. ASSUME NEW t \in Threads, Registered(t) PROVE ctxs'[c].lost # "no"
    BY <1>4 DEF Registered, Misled, SameOwner
  <1>5. ASSUME NEW p \in inFlight, Answered(p) PROVE ctxs'[c].lost # "no"
    <2>1. CASE UNCHANGED <<replyVars, ctxs>>
      BY <2>1 DEF Misled
    <2>2. ASSUME NEW e \in pending, Taken(e) PROVE ctxs'[c].lost # "no"
      BY <2>2 DEF Taken, Misled, Expectable
    <2> QED BY <1>5, <2>1, <2>2 DEF Answered
  <1>6. CASE Completed
    BY <1>6 DEF Completed, Misled
  <1>7. CASE Failed
    BY <1>7 DEF Failed, Misled, SameOwner
  <1>8. CASE SignIn \/ LoseConnection \/ Disconnect \/ StopClient
    BY <1>8, SessionOnly DEF Misled
  <1> QED BY <1>k, <1>1, <1>2, <1>3, <1>4, <1>5, <1>6, <1>7, <1>8, SubmitIs, RegisterIs, TakeIs, CompleteIs,
             FailIs DEF Kind, ReplyStep, CompleteStep

\* Only an abort gives an operation its result before its reply is here.
LEMMA ResultsStep ==
    ASSUME Typed, [Next]_vars, OnePlace, Results
    PROVE  Results'
  <1>k. Kind /\ Typed'
    BY Kinds, TypeStep
  <1> SUFFICES ASSUME NEW c \in DOMAIN ctxs'
               PROVE  /\ ToCome(c)' => ctxs'[c].result \in {"unset", "aborted"}
                      /\ ctxs'[c].owned = FALSE => ctxs'[c].result # "unset"
                      /\ ctxs'[c].spoilt = TRUE => ctxs'[c].result = "aborted"
    BY DEF Results
  <1> DEFINE Good == /\ ToCome(c)' => ctxs'[c].result \in {"unset", "aborted"}
                     /\ ctxs'[c].owned = FALSE => ctxs'[c].result # "unset"
                     /\ ctxs'[c].spoilt = TRUE => ctxs'[c].result = "aborted"
  <1>1. CASE GameStep
    <2>1. CASE c \in DOMAIN ctxs
      <3>1. /\ ToCome(c) => ctxs[c].result \in {"unset", "aborted"}
            /\ ctxs[c].owned = FALSE => ctxs[c].result # "unset"
            /\ ctxs[c].spoilt = TRUE => ctxs[c].result = "aborted"
        BY <2>1 DEF Results
      <3>2. Mild(c)
        BY <1>1, <2>1 DEF GameStep, CtxsMild
      <3>3. ToCome(c)' => ToCome(c)
        BY <1>1, ToComeSteady
      <3> QED BY <3>1, <3>2, <3>3 DEF Mild
    <2>2. CASE c \notin DOMAIN ctxs
      <3>1. c # 0
        <4>1. ctxs' \in Seq(Ctxs)
          BY CtxsStep
        <4> QED BY <4>1
      <3>2. ~ToCome(c)'
        BY <1>1, <2>2, <3>1, ToComeSteady, ComesKnown
      <3>3. Fresh(c)
        BY <1>1, <2>2 DEF GameStep, CtxsMild
      <3> QED BY <3>2, <3>3 DEF Fresh
    <2> QED BY <2>1, <2>2
  <1>2. ASSUME NEW t \in Threads, Sent(t) PROVE Good
    <2>1. ctxs' \in Seq(Ctxs) /\ Len(ctxs') = Len(ctxs) + 1
      BY <1>2, CtxsStep DEF Sent
    <2>2. DOMAIN ctxs' = 1 .. Len(ctxs) + 1
      BY <2>1
    <2>3. CASE c = Len(ctxs) + 1
      BY <1>2, <2>3 DEF Sent, Fresh
    <2>4. CASE c \in DOMAIN ctxs
      <3>1. c # Len(ctxs) + 1 /\ ctxs'[c] = ctxs[c] /\ pending' = pending /\ reader' = reader
        BY <1>2, <2>4, Known DEF Sent, replyVars
      <3>2. \A u \in Threads : Sending(call'[u], c) => Sending(call[u], c)
        BY <1>2, <3>1 DEF Sent, Sending
      <3>3. ToCome(c)' => ToCome(c)
        BY <3>1, <3>2 DEF ToCome, Sending
      <3> QED BY <2>4, <3>1, <3>3 DEF Results
    <2>5. c = Len(ctxs) + 1 \/ c \in DOMAIN ctxs
      BY <2>2, Known
    <2> QED BY <2>3, <2>4, <2>5
  <1>3. ASSUME NEW t \in Threads, Submitted(t) PROVE Good
    <2>1. pending' = pending /\ reader' = reader /\ ctxs' = ctxs
      BY <1>3 DEF Submitted, replyVars
    <2>2. \A u \in Threads : Sending(call'[u], c) => Sending(call[u], c)
      BY <1>3 DEF Submitted, OthersStay, Sending
    <2>3. ToCome(c)' => ToCome(c)
      BY <2>1, <2>2 DEF ToCome, Sending
    <2> QED BY <2>1, <2>3 DEF Results
  <1>4. ASSUME NEW t \in Threads, Registered(t) PROVE Good
    <2>1. c \in DOMAIN ctxs /\ ctxs'[c].result = ctxs[c].result /\ ctxs'[c].owned = ctxs[c].owned
            /\ ctxs'[c].spoilt = ctxs[c].spoilt /\ reader' = reader
      BY <1>4 DEF Registered, SameOwner
    <2>2. \A u \in Threads : Sending(call'[u], c) => Sending(call[u], c)
      BY <1>4 DEF Registered, OthersStay, Sending
    <2>3. \A e \in pending' : e.ctx = c => e \in pending \/ Sending(call[t], c)
      BY <1>4 DEF Registered, Entered, Sending
    <2>4. ToCome(c)' => ToCome(c)
      BY <2>1, <2>2, <2>3 DEF ToCome, Sending
    <2> QED BY <2>1, <2>4 DEF Results
  <1>5. ASSUME NEW p \in inFlight, Answered(p) PROVE Good
    <2>1. call' = call
      BY <1>5 DEF Answered
    <2>2. CASE UNCHANGED <<replyVars, ctxs>>
      <3>1. ToCome(c)' => ToCome(c)
        BY <2>1, <2>2 DEF ToCome, Sending, replyVars
      <3> QED BY <2>2, <3>1 DEF Results
    <2>3. ASSUME NEW e \in pending, Taken(e) PROVE Good
      <3>1. c \in DOMAIN ctxs /\ ctxs'[c].result = ctxs[c].result /\ ctxs'[c].owned = ctxs[c].owned
              /\ ctxs'[c].spoilt = ctxs[c].spoilt
        BY <2>3 DEF Taken
      <3>2. ToCome(c)' => ToCome(c)
        BY <2>1, <2>3 DEF ToCome, Sending, Taken
      <3> QED BY <3>1, <3>2 DEF Results
    <2> QED BY <1>5, <2>2, <2>3 DEF Answered
  <1>6. CASE Completed
    <2>1. c \in DOMAIN ctxs /\ reader' = 0 /\ call' = call /\ pending' = pending
      BY <1>6 DEF Completed
    <2>2. /\ ToCome(c) => ctxs[c].result \in {"unset", "aborted"}
          /\ ctxs[c].owned = FALSE => ctxs[c].result # "unset"
          /\ ctxs[c].spoilt = TRUE => ctxs[c].result = "aborted"
      BY <2>1 DEF Results
    <2>3. c # 0
      BY <2>1, Known
    <2>4. CASE c = reader
      <3>1. ~ToCome(c)'
        BY <2>1, <2>3, <2>4 DEF OnePlace, ToCome, Sending
      <3>2. ctxs[c].result \in {"unset", "aborted"}
        BY <2>2, <2>4 DEF ToCome
      <3>3. ctxs'[c].spoilt = TRUE => ctxs[c].result = "aborted"
        BY <1>6, <2>2, <2>4, <3>2 DEF Completed
      <3> QED BY <1>6, <2>4, <3>1, <3>3 DEF Completed
    <2>5. CASE c # reader
      <3>1. ctxs'[c] = ctxs[c]
        BY <1>6, <2>1, <2>5 DEF Completed
      <3>2. ToCome(c)' => ToCome(c)
        BY <2>1, <2>3 DEF ToCome, Sending
      <3> QED BY <2>2, <3>1, <3>2
    <2> QED BY <2>4, <2>5
  <1>7. CASE Failed
    <2>1. c \in DOMAIN ctxs /\ reader' = reader /\ call' = call /\ pending' = {}
      BY <1>7 DEF Failed
    <2>2. /\ ToCome(c) => ctxs[c].result \in {"unset", "aborted"}
          /\ ctxs[c].owned = FALSE => ctxs[c].result # "unset"
          /\ ctxs[c].spoilt = TRUE => ctxs[c].result = "aborted"
      BY <2>1 DEF Results
    <2>3. ToCome(c)' => ToCome(c) /\ ~ \E e \in pending : e.ctx = c
      BY <2>1 DEF ToCome, Sending, OnePlace
    <2>4. /\ ctxs'[c].owned = ctxs[c].owned /\ ctxs'[c].spoilt = ctxs[c].spoilt
          /\ ctxs[c].result # "unset" => ctxs'[c].result = ctxs[c].result
          /\ IF \E e \in pending : e.ctx = c THEN ctxs'[c].result # "unset"
             ELSE ctxs'[c].result = ctxs[c].result
      BY <1>7, <2>1 DEF Failed, SameOwner
    <2> QED BY <2>2, <2>3, <2>4
  <1>8. CASE SignIn \/ LoseConnection \/ Disconnect \/ StopClient
    BY <1>8, SessionOnly DEF Results
  <1> QED BY <1>k, <1>1, <1>2, <1>3, <1>4, <1>5, <1>6, <1>7, <1>8, SubmitIs, RegisterIs, TakeIs, CompleteIs,
             FailIs DEF Kind, ReplyStep, CompleteStep

-----------------------------------------------------------------------------
(* The steps, by what they are to a transfer.                              *)

\* A new operation asks for what it is owed.
Proper(c) == ctxs'[c].fits = TRUE /\ ctxs'[c].astray = FALSE

\* No chunk is taken or handed on.
CallsCalm ==
    \A u \in Threads :
        call'[u].read \in {<<>>, call[u].read} /\ call'[u].blob \in {<<>>, call[u].blob}
XfersCalm ==
    /\ begun' = begun
    /\ \A r \in DOMAIN requests' :
         \/ r \in DOMAIN requests /\ requests'[r].xfer = requests[r].xfer
         \/ requests'[r].xfer = NoXfer
Calm ==
    /\ CallsCalm /\ XfersCalm
    /\ \A c \in DOMAIN ctxs' \ DOMAIN ctxs : Proper(c) /\ ctxs'[c].read = <<>> /\ ctxs'[c].blob = <<>>

\* A thread hands the chunk it read, or the blob, to a new operation.
HandsOn(t) ==
    /\ call'[t].read = <<>> /\ call'[t].blob = <<>> /\ OthersStay(t)
    /\ XfersCalm
    /\ \A c \in DOMAIN ctxs' \ DOMAIN ctxs :
         c = Len(ctxs) + 1 /\ Proper(c) /\ ctxs'[c].read = call[t].read /\ ctxs'[c].blob = call[t].blob

\* A thread takes a chunk of the transfer x of request r, which it goes on with or begins.
Takes(t, r, x) ==
    /\ \/ x = requests[r].xfer /\ x.active = TRUE
       \/ x.serial = begun + 1 /\ x.parts = <<>> /\ x.received = 0
    /\ DOMAIN requests' = DOMAIN requests
    /\ \A q \in DOMAIN requests \ {r} : requests'[q].xfer = requests[q].xfer
    /\ requests'[r].xfer.serial = x.serial
    /\ begun' = IF x.serial > begun THEN x.serial ELSE begun
    /\ OthersStay(t) /\ ctxs' = ctxs
ReadsChunk(t, r, x) ==
    /\ Takes(t, r, x)
    /\ call'[t].blob = <<>>
    /\ requests'[r].xfer.parts = x.parts /\ requests'[r].xfer.owner = x.owner
    /\ \/ requests'[r].xfer.received = x.received + 1 /\ call'[t].read \in {<<>>, <<x.serial, x.received>>}
       \/ requests'[r].xfer.received = x.received /\ call'[t].read = <<>>
WritesChunk(t, r, x) ==
    /\ Takes(t, r, x) /\ x.owner \in {"account", Name}
    /\ call'[t].read = <<>>
    /\ \/ /\ requests'[r].xfer.active = FALSE /\ requests'[r].xfer.parts = <<>>
          /\ call'[t].blob = Append(x.parts, x.owner)
       \/ /\ requests'[r].xfer.parts = Append(x.parts, x.owner) /\ requests'[r].xfer.owner = x.owner
          /\ requests'[r].xfer.received = x.received
          /\ call'[t].blob = <<>>

ByChunks ==
    \/ Calm
    \/ \E t \in Threads : HandsOn(t)
    \/ \E t \in Threads, r \in DOMAIN requests, x \in Xfers : ReadsChunk(t, r, x) \/ WritesChunk(t, r, x)

\* A thread carries a chunk only between taking it and starting its operation.
LEMMA CallsAreCalm ==
    ASSUME Typed, [Next]_vars, \A u \in Threads : call'[u] = call[u] \/ call'[u].pc # "start"
    PROVE  CallsCalm
  <1>1. \A u \in Threads : Stage(call[u])'
    BY CallsStep
  <1>2. \A u \in Threads : call'[u].pc # "start" => call'[u].read = <<>> /\ call'[u].blob = <<>>
    BY <1>1 DEF Stage
  <1> QED BY <1>2 DEF CallsCalm

\* One thread goes on, with nothing.
LEMMA OneIsCalm ==
    ASSUME Typed, NEW t \in Threads, NEW x, Goto(t, x), x.read = <<>>, x.blob = <<>>
    PROVE  CallsCalm
  <1>1. call'[t] = x /\ \A u \in Threads \ {t} : call'[u] = call[u]
    BY DEF Goto, Typed, TypeOK
  <1> QED BY <1>1 DEF CallsCalm

\* The context of a request is set.
LEMMA CtxIsCalm ==
    ASSUME Typed, NEW r \in DOMAIN requests, NEW n, begun' = begun, requests' = [requests EXCEPT ![r].ctx = n]
    PROVE  XfersCalm
  <1>1. PICK x : x = requests[r]
    OBVIOUS
  <1>2. x \in Requests
    BY <1>1 DEF Typed, TypeOK
  <1>3. PICK y : y = [x EXCEPT !.ctx = n]
    OBVIOUS
  <1>4. y.xfer = x.xfer
    BY <1>2, <1>3 DEF Requests
  <1>5. requests' = [requests EXCEPT ![r] = y]
    BY <1>1, <1>3
  <1>6. DOMAIN requests' = DOMAIN requests /\ requests'[r] = y /\ \A q \in DOMAIN requests : q # r => requests'[q] = requests[q]
    BY <1>5
  <1> QED BY <1>1, <1>4, <1>6 DEF XfersCalm

\* The operation that is added is of the call that was made.
LEMMA OneIsNew ==
    ASSUME Typed, NEW x \in Ctxs, ctxs' = Append(ctxs, x)
    PROVE  \A c \in DOMAIN ctxs' \ DOMAIN ctxs : c = Len(ctxs) + 1 /\ ctxs'[c] = x
  <1>1. Len(ctxs') = Len(ctxs) + 1 /\ ctxs'[Len(ctxs) + 1] = x /\ ctxs' \in Seq(Ctxs)
    BY OneAdded DEF Typed
  <1>2. Len(ctxs) \in Nat /\ DOMAIN ctxs = 1 .. Len(ctxs)
    BY Known
  <1>3. DOMAIN ctxs' = 1 .. Len(ctxs) + 1
    BY <1>1
  <1>4. DOMAIN ctxs' \ DOMAIN ctxs = {Len(ctxs) + 1}
    BY <1>2, <1>3
  <1> QED BY <1>1, <1>4

\* The transfer a call goes on with or begins
LEMMA XferIs ==
    ASSUME Typed, NEW t \in Threads, NEW n \in 0 .. MaxParts, NEW x \in XferOf(t, n)
    PROVE  /\ x \in Xfers /\ call[t].req \in DOMAIN requests
           /\ x.owner = call[t].op.owner
           /\ \/ x = requests[call[t].req].xfer /\ x.active = TRUE
              \/ x.serial = begun + 1 /\ x.parts = <<>> /\ x.received = 0
  <1>1. /\ x \in Xfers /\ call[t].req \in DOMAIN requests
        /\ \/ SameTarget(requests[call[t].req].xfer, call[t].op.owner)
                /\ x = requests[call[t].req].xfer
           \/ x = BeginXfer(call[t].op.owner, n, begun + 1)
    BY XferType
  <1>2. CASE SameTarget(requests[call[t].req].xfer, call[t].op.owner) /\ x = requests[call[t].req].xfer
    <2>1. x.active /\ x.owner = call[t].op.owner
      BY <1>2 DEF SameTarget
    <2>2. x.active = TRUE
      BY <1>1, <2>1 DEF Xfers
    <2> QED BY <1>1, <1>2, <2>1, <2>2
  <1>3. CASE x = BeginXfer(call[t].op.owner, n, begun + 1)
    <2>1. PICK o : o = call[t].op.owner
      OBVIOUS
    <2>2. PICK m : m = begun + 1
      OBVIOUS
    <2>3. x = [NoXfer EXCEPT !.active = TRUE, !.owner = o, !.total = n, !.serial = m]
      BY <1>3, <2>1, <2>2 DEF BeginXfer
    <2>4. x.owner = o /\ x.serial = m /\ x.parts = <<>> /\ x.received = 0
      BY <2>3 DEF NoXfer
    <2> QED BY <1>1, <2>1, <2>2, <2>4
  <1> QED BY <1>1, <1>2, <1>3

\* It is put back into the request.
LEMMA XferSet ==
    ASSUME Typed, NEW t \in Threads, NEW r \in DOMAIN requests, r = call[t].req, NEW y, Transfer(t, y)
    PROVE  /\ DOMAIN requests' = DOMAIN requests /\ requests'[r].xfer = y
           /\ \A q \in DOMAIN requests \ {r} : requests'[q].xfer = requests[q].xfer
           /\ begun' = (IF y.serial > begun THEN y.serial ELSE begun) /\ ctxs' = ctxs
  <1>1. PICK x : x = requests[r]
    OBVIOUS
  <1>2. x \in Requests
    BY <1>1 DEF Typed, TypeOK
  <1>3. PICK z : z = [x EXCEPT !.xfer = y]
    OBVIOUS
  <1>4. z.xfer = y
    BY <1>2, <1>3 DEF Requests
  <1>5. requests' = [requests EXCEPT ![r] = z]
    BY <1>1, <1>3 DEF Transfer
  <1>6. DOMAIN requests' = DOMAIN requests /\ requests'[r] = z /\ \A q \in DOMAIN requests \ {r} : requests'[q] = requests[q]
    BY <1>5
  <1>7. begun' = (IF y.serial > begun THEN y.serial ELSE begun) /\ ctxs' = ctxs
    BY DEF Transfer
  <1> QED BY <1>4, <1>6, <1>7

\* Every step is one of these.
LEMMA ByChunksStep ==
    ASSUME Typed, [Next]_vars
    PROVE  ByChunks
  <1>h. [Next]_vars
    OBVIOUS
  <1>1. ASSUME NEW t \in Threads, CreateNpTitleCtx(t)
       PROVE  ByChunks
    <2>1. XfersCalm
      BY <1>1 DEF CreateNpTitleCtx, XfersCalm, requestVars
    <2>2. DOMAIN ctxs' = DOMAIN ctxs
      BY <1>1 DEF CreateNpTitleCtx
    <2>3. CallsCalm
      BY <1>1 DEF CreateNpTitleCtx, CallsCalm
    <2> QED BY <2>1, <2>2, <2>3 DEF ByChunks, Calm
  <1>2. ASSUME NEW t \in Threads, NEW i \in titles, DeleteNpTitleCtx(t, i)
       PROVE  ByChunks
    <2>1. XfersCalm
      BY <1>2 DEF DeleteNpTitleCtx, Restrict, XfersCalm
    <2>2. DOMAIN ctxs' = DOMAIN ctxs
      BY <1>2 DEF DeleteNpTitleCtx, AbortOps
    <2>3. CallsCalm
      BY <1>2 DEF DeleteNpTitleCtx, CallsCalm
    <2> QED BY <2>1, <2>2, <2>3 DEF ByChunks, Calm
  <1>3. ASSUME NEW t \in Threads, NEW i \in titles, CreateRequest(t, i)
       PROVE  ByChunks
    <2>1. XfersCalm
      <3>1. PICK n : n = made.req + 1
        OBVIOUS
      <3>2. PICK x : x = [title |-> i, ctx |-> 0, xfer |-> NoXfer]
        OBVIOUS
      <3>3. /\ begun' = begun /\ DOMAIN requests' = DOMAIN requests \cup {n} /\ requests'[n] = x
            /\ \A q \in DOMAIN requests : q # n => requests'[q] = requests[q]
        BY <1>3, <3>1, <3>2 DEF CreateRequest
      <3>4. x.xfer = NoXfer
        BY <3>2
      <3> QED BY <3>3, <3>4 DEF XfersCalm
    <2>2. DOMAIN ctxs' = DOMAIN ctxs
      BY <1>3 DEF CreateRequest
    <2>3. CallsCalm
      BY <1>3 DEF CreateRequest, CallsCalm
    <2> QED BY <2>1, <2>2, <2>3 DEF ByChunks, Calm
  <1>4. ASSUME NEW t \in Threads, NEW r \in DOMAIN requests, DeleteRequest(t, r)
       PROVE  ByChunks
    <2>1. XfersCalm
      BY <1>4 DEF DeleteRequest, Restrict, XfersCalm
    <2>2. DOMAIN ctxs' = DOMAIN ctxs
      BY <1>4 DEF DeleteRequest, AbortOps
    <2>3. CallsCalm
      BY <1>4 DEF DeleteRequest, CallsCalm
    <2> QED BY <2>1, <2>2, <2>3 DEF ByChunks, Calm
  <1>5. ASSUME NEW t \in Threads, NEW r \in DOMAIN requests, AbortRequest(t, r)
       PROVE  ByChunks
    <2>1. XfersCalm
      BY <1>5 DEF AbortRequest, XfersCalm, requestVars
    <2>2. DOMAIN ctxs' = DOMAIN ctxs
      BY <1>5 DEF AbortRequest, AbortOps
    <2>3. CallsCalm
      BY <1>5 DEF AbortRequest, CallsCalm
    <2> QED BY <2>1, <2>2, <2>3 DEF ByChunks, Calm
  <1>6. ASSUME NEW t \in Threads, NEW r \in DOMAIN requests, NEW op \in KindOps, NEW sync \in game.syncs, ResolveTus(t, r, op, sync)
       PROVE  ByChunks
    <2>1. XfersCalm
      BY <1>6 DEF ResolveTus, XfersCalm, requestVars
    <2>2. DOMAIN ctxs' = DOMAIN ctxs
      BY <1>6 DEF ResolveTus
    <2>3. CallsCalm
      <3>1. PICK x : x = [Idle EXCEPT !.pc = IF op.transfer = "none" THEN "start" ELSE "xfer",
                                    !.req = r, !.op = op, !.sync = sync] /\ Goto(t, x)
        BY <1>6 DEF ResolveTus
      <3>2. x.read = <<>> /\ x.blob = <<>>
        BY <3>1 DEF Idle
      <3>3. Goto(t, x)
        BY <3>1
      <3> QED BY <3>2, <3>3, OneIsCalm
    <2> QED BY <2>1, <2>2, <2>3 DEF ByChunks, Calm
  <1>7. ASSUME NEW t \in Threads, NEW r \in DOMAIN requests, FakeAsyncComplete(t, r)
       PROVE  ByChunks
    <2>1. XfersCalm
      BY <1>7, CtxIsCalm DEF FakeAsyncComplete
    <2>3. CallsCalm
      BY <1>7 DEF FakeAsyncComplete, CallsCalm
    <2>4. PICK x : x = NewCtx(SmallStorage, <<>>, <<>>)
      OBVIOUS
    <2>5. x \in Ctxs /\ x.fits /\ ~x.astray
      <3>1. <<>> \in Reads /\ <<>> \in Parts
        BY DEF Reads, Parts
      <3> QED BY <2>4, <3>1, NewCtxType, SmallStorageOp
    <2>6. x.read = <<>> /\ x.blob = <<>>
      BY <2>4 DEF NewCtx
    <2>7. PICK y : y = SetResult(x, "ok")
      OBVIOUS
    <2>8. Alike(y, x)
      BY <2>5, <2>7, Altered
    <2>9. y \in Ctxs /\ y.fits = TRUE /\ y.astray = FALSE /\ y.read = <<>> /\ y.blob = <<>>
      BY <2>5, <2>6, <2>8 DEF Alike, Ctxs
    <2>10. ctxs' = Append(ctxs, y)
      BY <1>7, <2>4, <2>7 DEF FakeAsyncComplete
    <2>11. \A c \in DOMAIN ctxs' \ DOMAIN ctxs : ctxs'[c] = y
      BY <2>9, <2>10, OneIsNew
    <2> QED BY <2>1, <2>3, <2>9, <2>11 DEF ByChunks, Calm, Proper
  <1>8. ASSUME NEW t \in Threads, NEW r \in DOMAIN requests, WaitAsync(t, r)
       PROVE  ByChunks
    <2>1. XfersCalm
      BY <1>8 DEF WaitAsync, XfersCalm, requestVars
    <2>2. DOMAIN ctxs' = DOMAIN ctxs
      BY <1>8 DEF WaitAsync
    <2>3. CallsCalm
      <3>1. PICK x : x = [Idle EXCEPT !.pc = "wait", !.ctx = requests[r].ctx] /\ Goto(t, x)
        BY <1>8 DEF WaitAsync
      <3>2. x.read = <<>> /\ x.blob = <<>>
        BY <3>1 DEF Idle
      <3>3. Goto(t, x)
        BY <3>1
      <3> QED BY <3>2, <3>3, OneIsCalm
    <2> QED BY <2>1, <2>2, <2>3 DEF ByChunks, Calm
  <1>9. ASSUME NEW t \in Threads, NEW r \in DOMAIN requests, PollAsync(t, r)
       PROVE  ByChunks
    <2>1. XfersCalm
      BY <1>9 DEF PollAsync, XfersCalm, requestVars
    <2>2. DOMAIN ctxs' = DOMAIN ctxs
      BY <1>9 DEF PollAsync, Reported
    <2>3. CallsCalm
      BY <1>9 DEF PollAsync, CallsCalm
    <2> QED BY <2>1, <2>2, <2>3 DEF ByChunks, Calm
  <1>10. ASSUME NEW t \in Threads, NEW data \in BOOLEAN, ReadData(t, data)
       PROVE  ByChunks
    <2>1. PICK y : y = call[t]
      OBVIOUS
    <2>2. y \in Calls /\ y.read = <<>> /\ y.blob = <<>>
      BY <1>10, <2>1 DEF ReadData, Typed, TypeOK, Stage
    <2>3. PICK x \in XferOf(t, 0) :
            /\ x.received < MaxParts /\ Transfer(t, Received(x, data))
            /\ Goto(t, [y EXCEPT !.pc = "start", !.read = IF data THEN <<x.serial, x.received>> ELSE <<>>])
      BY <1>10, <2>1 DEF ReadData
    <2>4. PICK r : r = y.req
      OBVIOUS
    <2>5. /\ x \in Xfers /\ r \in DOMAIN requests /\ x.owner = y.op.owner
          /\ (x = requests[r].xfer /\ x.active = TRUE) \/ (x.serial = begun + 1 /\ x.parts = <<>> /\ x.received = 0)
      <3>1. 0 \in 0 .. MaxParts
        BY TusAssumption
      <3> QED BY <2>1, <2>3, <2>4, <3>1, XferIs
    <2>6. PICK z : z = Received(x, data)
      OBVIOUS
    <2>7. /\ z.owner = x.owner /\ z.serial = x.serial /\ z.parts = x.parts
          /\ z.received = IF data THEN x.received + 1 ELSE x.received
      BY <2>3, <2>5, <2>6, ReceivedType
    <2>8. Transfer(t, z)
      BY <2>3, <2>6
    <2>9. /\ DOMAIN requests' = DOMAIN requests /\ requests'[r].xfer = z
          /\ \A q \in DOMAIN requests \ {r} : requests'[q].xfer = requests[q].xfer
          /\ begun' = (IF z.serial > begun THEN z.serial ELSE begun) /\ ctxs' = ctxs
      BY <2>1, <2>4, <2>5, <2>8, XferSet
    <2>10. PICK d : d = IF data THEN <<x.serial, x.received>> ELSE <<>>
      OBVIOUS
    <2>11. PICK w : w = [y EXCEPT !.pc = "start", !.read = d]
      OBVIOUS
    <2>12. w.read = d /\ w.blob = <<>>
      BY <2>2, <2>10, <2>11 DEF Calls
    <2>13. call'[t] = w /\ OthersStay(t)
      <3>1. Goto(t, w)
        BY <2>3, <2>10, <2>11
      <3> QED BY <3>1 DEF Goto, OthersStay, Typed, TypeOK
    <2>14. Takes(t, r, x)
      BY <2>5, <2>7, <2>9, <2>13 DEF Takes
    <2>15. ReadsChunk(t, r, x)
      BY <2>7, <2>9, <2>10, <2>12, <2>13, <2>14 DEF ReadsChunk
    <2> QED BY <2>5, <2>15 DEF ByChunks
  <1>11. ASSUME NEW t \in Threads, ReadDataAt(t)
       PROVE  ByChunks
    <2>1. PICK y : y = call[t]
      OBVIOUS
    <2>2. y \in Calls /\ y.read = <<>> /\ y.blob = <<>>
      BY <1>11, <2>1 DEF ReadDataAt, Typed, TypeOK, Stage
    <2>3. PICK x \in XferOf(t, 0) :
            /\ x.received < MaxParts /\ Transfer(t, Received(x, TRUE))
            /\ Goto(t, [y EXCEPT !.pc = "start"])
      BY <1>11, <2>1 DEF ReadDataAt
    <2>4. PICK r : r = y.req
      OBVIOUS
    <2>5. /\ x \in Xfers /\ r \in DOMAIN requests /\ x.owner = y.op.owner
          /\ (x = requests[r].xfer /\ x.active = TRUE) \/ (x.serial = begun + 1 /\ x.parts = <<>> /\ x.received = 0)
      <3>1. 0 \in 0 .. MaxParts
        BY TusAssumption
      <3> QED BY <2>1, <2>3, <2>4, <3>1, XferIs
    <2>6. PICK z : z = Received(x, TRUE)
      OBVIOUS
    <2>7. /\ z.owner = x.owner /\ z.serial = x.serial /\ z.parts = x.parts
          /\ z.received = IF TRUE THEN x.received + 1 ELSE x.received
      BY <2>3, <2>5, <2>6, ReceivedType
    <2>8. Transfer(t, z)
      BY <2>3, <2>6
    <2>9. /\ DOMAIN requests' = DOMAIN requests /\ requests'[r].xfer = z
          /\ \A q \in DOMAIN requests \ {r} : requests'[q].xfer = requests[q].xfer
          /\ begun' = (IF z.serial > begun THEN z.serial ELSE begun) /\ ctxs' = ctxs
      BY <2>1, <2>4, <2>5, <2>8, XferSet
    <2>10. PICK d : d = <<>>
      OBVIOUS
    <2>11. PICK w : w = [y EXCEPT !.pc = "start"]
      OBVIOUS
    <2>12. w.read = d /\ w.blob = <<>>
      BY <2>2, <2>10, <2>11 DEF Calls
    <2>13. call'[t] = w /\ OthersStay(t)
      <3>1. Goto(t, w)
        BY <2>3, <2>10, <2>11
      <3> QED BY <3>1 DEF Goto, OthersStay, Typed, TypeOK
    <2>14. Takes(t, r, x)
      BY <2>5, <2>7, <2>9, <2>13 DEF Takes
    <2>15. ReadsChunk(t, r, x)
      BY <2>7, <2>9, <2>10, <2>12, <2>13, <2>14 DEF ReadsChunk
    <2> QED BY <2>5, <2>15 DEF ByChunks
  <1>12. ASSUME NEW t \in Threads, NEW total \in 1 .. MaxParts, WriteData(t, total)
       PROVE  ByChunks
    <2>1. PICK y : y = call[t]
      OBVIOUS
    <2>2. y \in Calls /\ y.read = <<>> /\ y.blob = <<>>
      BY <1>12, <2>1 DEF WriteData, Typed, TypeOK, Stage
    <2>3. PICK x \in XferOf(t, total) : \E whole \in BOOLEAN :
            /\ Transfer(t, IF whole THEN [NoXfer EXCEPT !.serial = x.serial]
                            ELSE [x EXCEPT !.parts = Append(x.parts, y.op.owner)])
            /\ Goto(t, [y EXCEPT !.pc = "start", !.partial = ~whole,
                          !.blob = IF whole THEN Append(x.parts, y.op.owner) ELSE <<>>])
      BY <1>12, <2>1 DEF WriteData
    <2>4. PICK r : r = y.req
      OBVIOUS
    <2>5. /\ x \in Xfers /\ r \in DOMAIN requests /\ x.owner = y.op.owner
          /\ (x = requests[r].xfer /\ x.active = TRUE) \/ (x.serial = begun + 1 /\ x.parts = <<>> /\ x.received = 0)
      <3>1. total \in 0 .. MaxParts
        BY TusAssumption
      <3> QED BY <2>1, <2>3, <2>4, <3>1, XferIs
    <2>6. PICK whole \in BOOLEAN :
            /\ Transfer(t, IF whole THEN [NoXfer EXCEPT !.serial = x.serial]
                            ELSE [x EXCEPT !.parts = Append(x.parts, y.op.owner)])
            /\ Goto(t, [y EXCEPT !.pc = "start", !.partial = ~whole,
                          !.blob = IF whole THEN Append(x.parts, y.op.owner) ELSE <<>>])
      BY <2>3
    <2>7. PICK s : s = Append(x.parts, y.op.owner)
      OBVIOUS
    <2>8. PICK z : z = IF whole THEN [NoXfer EXCEPT !.serial = x.serial] ELSE [x EXCEPT !.parts = s]
      OBVIOUS
    <2>9. z.serial = x.serial
      <3>1. CASE whole
        BY <2>8, <3>1 DEF NoXfer
      <3>2. CASE ~whole
        BY <2>5, <2>8, <3>2 DEF Xfers
      <3> QED BY <3>1, <3>2
    <2>10. /\ DOMAIN requests' = DOMAIN requests /\ requests'[r].xfer = z
           /\ \A q \in DOMAIN requests \ {r} : requests'[q].xfer = requests[q].xfer
           /\ begun' = (IF z.serial > begun THEN z.serial ELSE begun) /\ ctxs' = ctxs
      <3>1. Transfer(t, z)
        BY <2>6, <2>7, <2>8
      <3> QED BY <2>1, <2>4, <2>5, <3>1, XferSet
    <2>11. PICK d : d = IF whole THEN s ELSE <<>>
      OBVIOUS
    <2>12. PICK p : p = ~whole
      OBVIOUS
    <2>13. PICK w : w = [y EXCEPT !.pc = "start", !.partial = p, !.blob = d]
      OBVIOUS
    <2>14. w.read = <<>> /\ w.blob = d
      BY <2>2, <2>13 DEF Calls
    <2>15. call'[t] = w /\ OthersStay(t)
      <3>1. Goto(t, w)
        BY <2>6, <2>7, <2>11, <2>12, <2>13
      <3> QED BY <3>1 DEF Goto, OthersStay, Typed, TypeOK
    <2>16. Takes(t, r, x)
      BY <2>5, <2>9, <2>10, <2>15 DEF Takes
    <2>0. x.owner \in {"account", Name}
      <3>1. y.op \in Ops /\ y.op.transfer = "write"
        BY <1>12, <2>1, <2>2 DEF WriteData, Calls
      <3>2. y.op.owner \in {"account", Name}
        BY <3>1, OpsRight DEF Right
      <3> QED BY <2>5, <3>2
    <2>17. CASE whole
      <3>1. z.active = FALSE /\ z.parts = <<>>
        BY <2>8, <2>17 DEF NoXfer
      <3>2. d = Append(x.parts, x.owner)
        BY <2>5, <2>7, <2>11, <2>17
      <3>3. WritesChunk(t, r, x)
        BY <2>10, <2>0, <2>14, <2>15, <2>16, <3>1, <3>2 DEF WritesChunk
      <3> QED BY <2>5, <3>3 DEF ByChunks
    <2>18. CASE ~whole
      <3>1. z.parts = s /\ z.owner = x.owner /\ z.received = x.received
        BY <2>5, <2>8, <2>18 DEF Xfers
      <3>2. d = <<>> /\ s = Append(x.parts, x.owner)
        BY <2>5, <2>7, <2>11, <2>18
      <3>3. WritesChunk(t, r, x)
        BY <2>10, <2>0, <2>14, <2>15, <2>16, <3>1, <3>2 DEF WritesChunk
      <3> QED BY <2>5, <3>3 DEF ByChunks
    <2> QED BY <2>17, <2>18
  <1>13. ASSUME NEW t \in Threads, Stray(t)
       PROVE  ByChunks
    <2>1. XfersCalm
      BY <1>13 DEF Stray, XfersCalm, requestVars
    <2>2. DOMAIN ctxs' = DOMAIN ctxs
      BY <1>13 DEF Stray
    <2>3. CallsCalm
      <3>1. PICK y : y = call[t]
        OBVIOUS
      <3>2. y \in Calls /\ y.read = <<>> /\ y.blob = <<>>
        BY <1>13, <3>1 DEF Stray, Typed, TypeOK, Stage
      <3>3. PICK d : Goto(t, [y EXCEPT !.pc = "start", !.partial = d])
        BY <1>13, <3>1 DEF Stray
      <3>4. PICK x : x = [y EXCEPT !.pc = "start", !.partial = d]
        OBVIOUS
      <3>5. x.read = <<>> /\ x.blob = <<>>
        BY <3>2, <3>4 DEF Calls
      <3>6. Goto(t, x)
        BY <3>3, <3>4
      <3> QED BY <3>5, <3>6, OneIsCalm
    <2> QED BY <2>1, <2>2, <2>3 DEF ByChunks, Calm
  <1>14. ASSUME NEW t \in Threads, NEW valid \in BOOLEAN, StartOp(t, valid)
       PROVE  ByChunks
    <2>1. PICK y : y = call[t]
      OBVIOUS
    <2>2. y \in Calls /\ y.pc = "start"
      BY <1>14, <2>1 DEF StartOp, Typed, TypeOK
    <2>3. PICK x : x = NewCtx(y.op, y.read, y.blob)
      OBVIOUS
    <2>4. x \in Ctxs /\ x.fits /\ ~x.astray
      <3>1. y.op \in Ops /\ y.read \in Reads /\ y.blob \in Parts
        BY <2>2 DEF Calls
      <3> QED BY <2>3, <3>1, NewCtxType
    <2>5. x.read = y.read /\ x.blob = y.blob
      BY <2>3 DEF NewCtx
    <2>6. PICK z \in {SetResult(x, "ok"), x, [x EXCEPT !.lost = "not sent"]} : ctxs' = Append(ctxs, z)
      BY <1>14, <2>1, <2>3 DEF StartOp
    <2>7. Alike(z, x)
      <3>1. Alike(x, x)
        BY <2>4 DEF Alike
      <3>2. Alike(SetResult(x, "ok"), x)
        BY <2>4, Altered
      <3>3. Alike([x EXCEPT !.lost = "not sent"], x)
        BY <2>4, Altered
      <3> QED BY <2>6, <3>1, <3>2, <3>3
    <2>8. z \in Ctxs /\ z.fits = TRUE /\ z.astray = FALSE /\ z.read = y.read /\ z.blob = y.blob
      BY <2>4, <2>5, <2>7 DEF Alike, Ctxs
    <2>9. \A c \in DOMAIN ctxs' \ DOMAIN ctxs : c = Len(ctxs) + 1 /\ ctxs'[c] = z
      BY <2>6, <2>8, OneIsNew
    <2>10. XfersCalm
      <3>1. CASE call[t].req \in DOMAIN requests
        <4>1. PICK r \in DOMAIN requests : r = call[t].req
          BY <3>1
        <4>2. requests' = [requests EXCEPT ![r].ctx = Len(ctxs) + 1] /\ begun' = begun
          BY <1>14, <4>1 DEF StartOp
        <4> QED BY <4>2, CtxIsCalm
      <3>2. CASE call[t].req \notin DOMAIN requests
        BY <1>14, <3>2 DEF StartOp, XfersCalm
      <3> QED BY <3>1, <3>2
    <2>11. call'[t].pc # "start" /\ OthersStay(t)
      <3>1. PICK w : Goto(t, w) /\ w.pc # "start"
        <4>1. PICK v : v = [Idle EXCEPT !.pc = "submit", !.ctx = Len(ctxs) + 1,
                                   !.session = session, !.sync = call[t].sync,
                                   !.req = call[t].req]
          OBVIOUS
        <4>2. v.pc = "submit" /\ Idle.pc = "idle"
          BY <4>1 DEF Idle
        <4>3. Goto(t, v) \/ Goto(t, Idle) \/ Done(t)
          BY <1>14, <4>1 DEF StartOp
        <4>4. CASE Goto(t, v)
          BY <4>2, <4>4
        <4>5. CASE Goto(t, Idle)
          BY <4>2, <4>5
        <4>6. CASE Done(t)
          BY <4>6, DonePc
        <4> QED BY <4>3, <4>4, <4>5, <4>6
      <3>2. call'[t] = w /\ OthersStay(t)
        BY <3>1 DEF Goto, OthersStay, Typed, TypeOK
      <3> QED BY <3>1, <3>2
    <2>12. call'[t].read = <<>> /\ call'[t].blob = <<>>
      <3>1. Stage(call[t])'
        BY <1>h, CallsStep
      <3> QED BY <2>11, <3>1 DEF Stage
    <2>13. HandsOn(t)
      BY <2>1, <2>8, <2>9, <2>10, <2>11, <2>12 DEF HandsOn, Proper
    <2> QED BY <2>13 DEF ByChunks
  <1>15. ASSUME NEW t \in Threads, SubmitRequest(t)
       PROVE  ByChunks
    <2>1. XfersCalm
      BY <1>15 DEF SubmitRequest, XfersCalm, requestVars
    <2>2. DOMAIN ctxs' = DOMAIN ctxs
      BY <1>15 DEF SubmitRequest
    <2>3. CallsCalm
      <3>1. Submitted(t)
        BY <1>15, SubmitIs
      <3>2. \A u \in Threads : call'[u] = call[u] \/ call'[u].pc # "start"
        BY <3>1 DEF Submitted, OthersStay
      <3> QED BY <1>h, <3>2, CallsAreCalm
    <2> QED BY <2>1, <2>2, <2>3 DEF ByChunks, Calm
  <1>16. ASSUME NEW t \in Threads, Register(t)
       PROVE  ByChunks
    <2>1. XfersCalm
      BY <1>16 DEF Register, XfersCalm, requestVars
    <2>2. DOMAIN ctxs' = DOMAIN ctxs
      BY <1>16 DEF Register, Lose
    <2>3. CallsCalm
      <3>1. Registered(t)
        BY <1>16, RegisterIs
      <3>2. \A u \in Threads : call'[u] = call[u] \/ call'[u].pc # "start"
        BY <3>1 DEF Registered, OthersStay
      <3> QED BY <1>h, <3>2, CallsAreCalm
    <2> QED BY <2>1, <2>2, <2>3 DEF ByChunks, Calm
  <1>17. ASSUME NEW t \in Threads, WaitAgain(t)
       PROVE  ByChunks
    <2>1. XfersCalm
      BY <1>17 DEF WaitAgain, XfersCalm, requestVars
    <2>2. DOMAIN ctxs' = DOMAIN ctxs
      BY <1>17 DEF WaitAgain
    <2>3. CallsCalm
      <3>1. PICK x : x = IF call[t].req \in DOMAIN requests /\ requests[call[t].req].ctx # 0
                        THEN [Idle EXCEPT !.pc = "wait", !.ctx = requests[call[t].req].ctx] ELSE Idle
        OBVIOUS
      <3>2. x.read = <<>> /\ x.blob = <<>>
        BY <3>1 DEF Idle
      <3>3. Goto(t, x)
        BY <1>17, <3>1 DEF WaitAgain
      <3> QED BY <3>2, <3>3, OneIsCalm
    <2> QED BY <2>1, <2>2, <2>3 DEF ByChunks, Calm
  <1>18. ASSUME NEW t \in Threads, WaitReturns(t)
       PROVE  ByChunks
    <2>1. XfersCalm
      BY <1>18 DEF WaitReturns, XfersCalm, requestVars
    <2>2. DOMAIN ctxs' = DOMAIN ctxs
      BY <1>18 DEF WaitReturns, Reported
    <2>3. CallsCalm
      <3>1. PICK x : x = Idle /\ Goto(t, x)
        BY <1>18 DEF WaitReturns
      <3>2. x.read = <<>> /\ x.blob = <<>>
        BY <3>1 DEF Idle
      <3>3. Goto(t, x)
        BY <3>1
      <3> QED BY <3>2, <3>3, OneIsCalm
    <2> QED BY <2>1, <2>2, <2>3 DEF ByChunks, Calm
  <1>19. ASSUME NEW p \in inFlight, TakeReply(p)
       PROVE  ByChunks
    <2>1. XfersCalm
      BY <1>19 DEF TakeReply, XfersCalm, requestVars
    <2>2. DOMAIN ctxs' = DOMAIN ctxs
      BY <1>19 DEF TakeReply
    <2>3. CallsCalm
      BY <1>19 DEF TakeReply, CallsCalm
    <2> QED BY <2>1, <2>2, <2>3 DEF ByChunks, Calm
  <1>20. ASSUME NEW good \in BOOLEAN, CompleteOp(good)
       PROVE  ByChunks
    <2>1. XfersCalm
      BY <1>20 DEF CompleteOp, XfersCalm, requestVars
    <2>2. DOMAIN ctxs' = DOMAIN ctxs
      BY <1>20 DEF CompleteOp
    <2>3. CallsCalm
      BY <1>20 DEF CompleteOp, CallsCalm
    <2> QED BY <2>1, <2>2, <2>3 DEF ByChunks, Calm
  <1>21. ASSUME SignIn
       PROVE  ByChunks
    <2>1. XfersCalm
      BY <1>21 DEF SignIn, XfersCalm, requestVars
    <2>2. DOMAIN ctxs' = DOMAIN ctxs
      BY <1>21 DEF SignIn
    <2>3. CallsCalm
      BY <1>21 DEF SignIn, CallsCalm
    <2> QED BY <2>1, <2>2, <2>3 DEF ByChunks, Calm
  <1>22. ASSUME LoseConnection
       PROVE  ByChunks
    <2>1. XfersCalm
      BY <1>22 DEF LoseConnection, XfersCalm, requestVars
    <2>2. DOMAIN ctxs' = DOMAIN ctxs
      BY <1>22 DEF LoseConnection
    <2>3. CallsCalm
      BY <1>22 DEF LoseConnection, CallsCalm
    <2> QED BY <2>1, <2>2, <2>3 DEF ByChunks, Calm
  <1>23. ASSUME Disconnect
       PROVE  ByChunks
    <2>1. XfersCalm
      BY <1>23 DEF Disconnect, XfersCalm, requestVars
    <2>2. DOMAIN ctxs' = DOMAIN ctxs
      BY <1>23 DEF Disconnect
    <2>3. CallsCalm
      BY <1>23 DEF Disconnect, CallsCalm
    <2> QED BY <2>1, <2>2, <2>3 DEF ByChunks, Calm
  <1>24. ASSUME StopClient
       PROVE  ByChunks
    <2>1. XfersCalm
      BY <1>24 DEF StopClient, XfersCalm, requestVars
    <2>2. DOMAIN ctxs' = DOMAIN ctxs
      BY <1>24 DEF StopClient
    <2>3. CallsCalm
      BY <1>24 DEF StopClient, CallsCalm
    <2> QED BY <2>1, <2>2, <2>3 DEF ByChunks, Calm
  <1>25. ASSUME FailPendingRequests
       PROVE  ByChunks
    <2>1. XfersCalm
      BY <1>25 DEF FailPendingRequests, XfersCalm, requestVars
    <2>2. DOMAIN ctxs' = DOMAIN ctxs
      BY <1>25 DEF FailPendingRequests, FailEntries
    <2>3. CallsCalm
      BY <1>25 DEF FailPendingRequests, CallsCalm
    <2> QED BY <2>1, <2>2, <2>3 DEF ByChunks, Calm
  <1>26. CASE UNCHANGED vars
    <2>1. UNCHANGED <<requests, begun, call, ctxs>>
      BY <1>26 DEF vars, requestVars
    <2> QED BY <2>1 DEF ByChunks, Calm, CallsCalm, XfersCalm
  <1> QED
    BY <1>1, <1>2, <1>3, <1>4, <1>5, <1>6, <1>7, <1>8, <1>9, <1>10, <1>11, <1>12, <1>13, <1>14, <1>15, <1>16, <1>17, <1>18, <1>19, <1>20, <1>21, <1>22, <1>23, <1>24, <1>25, <1>26 DEF Next, GameCalls, CallStep, ReplyStep, CompleteStep, DisconnectStep

-----------------------------------------------------------------------------
(* What is transferred in parts.                                           *)

\* Every operation asks for what it is owed, and keeps it.
LEMMA FittingStep ==
    ASSUME Typed, [Next]_vars, Fitting
    PROVE  Fitting'
  <1>1. ByChunks /\ OldKept
    BY ByChunksStep, CtxsStep
  <1>2. ASSUME NEW c \in DOMAIN ctxs' PROVE ctxs'[c].fits = TRUE /\ ctxs'[c].astray = FALSE
    <2>1. CASE c \in DOMAIN ctxs
      BY <1>1, <2>1 DEF OldKept, Kept, Fitting
    <2>2. CASE c \notin DOMAIN ctxs
      <3>1. Proper(c)
        BY <1>1, <2>2 DEF ByChunks, Calm, HandsOn, Takes, ReadsChunk, WritesChunk
      <3> QED BY <3>1 DEF Proper
    <2> QED BY <2>1, <2>2
  <1> QED BY <1>2 DEF Fitting

\* The numbers of a transfer
LEMMA XferNats ==
    ASSUME NEW x \in Xfers
    PROVE  x.serial \in Nat /\ x.received \in Nat /\ x.active \in BOOLEAN /\ x.parts \in Parts
  <1>1. x.serial \in Nat /\ x.received \in 0 .. MaxParts /\ x.active \in BOOLEAN /\ x.parts \in Parts
    BY DEF Xfers
  <1>2. MaxParts \in Nat
    BY TusAssumption
  <1> QED BY <1>1, <1>2

\* What a transfer is, from the types
LEMMA XferFacts ==
    ASSUME Typed, NEW r \in DOMAIN requests
    PROVE  /\ requests[r].xfer.serial \in Nat /\ requests[r].xfer.received \in Nat /\ begun \in Nat
           /\ requests[r].xfer.active \in BOOLEAN /\ requests[r].xfer.parts \in Parts
  <1>1. PICK x : x = requests[r].xfer
    OBVIOUS
  <1>2. x \in Xfers /\ begun \in Nat
    BY <1>1 DEF Typed, TypeOK, Requests
  <1>3. x.serial \in Nat /\ x.received \in Nat /\ x.active \in BOOLEAN /\ x.parts \in Parts
    BY <1>2, XferNats
  <1> QED BY <1>1, <1>2, <1>3

\* Every step keeps the transfers apart.
LEMMA SerialsStep ==
    ASSUME Typed, [Next]_vars, Serials
    PROVE  Serials'
  <1>1. ByChunks
    BY ByChunksStep
  <1>0. NoXfer.serial = 0 /\ NoXfer.active = FALSE
    BY DEF NoXfer
  <1>2. CASE XfersCalm
    <2>1. ASSUME NEW r \in DOMAIN requests'
          PROVE  /\ requests'[r].xfer.serial <= begun'
                 /\ requests'[r].xfer.active => requests'[r].xfer.serial # 0
      <3>1. begun \in Nat /\ begun' = begun
        BY <1>2 DEF XfersCalm, Typed, TypeOK
      <3>2. CASE requests'[r].xfer = NoXfer
        BY <1>0, <3>1, <3>2
      <3>3. CASE r \in DOMAIN requests /\ requests'[r].xfer = requests[r].xfer
        BY <3>1, <3>3 DEF Serials
      <3> QED BY <1>2, <3>2, <3>3 DEF XfersCalm
    <2>2. ASSUME NEW q \in DOMAIN requests', NEW r \in DOMAIN requests', requests'[q].xfer.active,
                 requests'[q].xfer.serial = requests'[r].xfer.serial
          PROVE  q = r
      <3>1. q \in DOMAIN requests /\ requests'[q].xfer = requests[q].xfer
        BY <1>0, <1>2, <2>2 DEF XfersCalm
      <3>2. CASE requests'[r].xfer = NoXfer
        BY <1>0, <2>2, <3>1, <3>2 DEF Serials
      <3>3. CASE r \in DOMAIN requests /\ requests'[r].xfer = requests[r].xfer
        BY <2>2, <3>1, <3>3 DEF Serials
      <3> QED BY <1>2, <3>2, <3>3 DEF XfersCalm
    <2> QED BY <2>1, <2>2 DEF Serials
  <1>3. ASSUME NEW t \in Threads, NEW r \in DOMAIN requests, NEW x \in Xfers, Takes(t, r, x)
        PROVE  Serials'
    <2>1. /\ x.serial \in Nat /\ begun \in Nat /\ x.serial # 0 /\ requests[r].xfer.serial \in Nat
          /\ begun' \in Nat /\ begun <= begun' /\ x.serial <= begun'
          /\ \A q \in DOMAIN requests \ {r} : requests[q].xfer.active => requests[q].xfer.serial # x.serial
          /\ \A q \in DOMAIN requests \ {r} : requests[q].xfer.serial \in Nat
      <3>1. x.serial \in Nat /\ begun \in Nat /\ requests[r].xfer.serial \in Nat
        BY XferFacts DEF Xfers
      <3>2. begun' = IF x.serial > begun THEN x.serial ELSE begun
        BY <1>3 DEF Takes
      <3>3. begun' \in Nat /\ begun <= begun' /\ x.serial <= begun'
        BY <3>1, <3>2
      <3>4. CASE x = requests[r].xfer /\ x.active = TRUE
        BY <3>1, <3>3, <3>4, XferFacts DEF Serials
      <3>5. CASE x.serial = begun + 1
        <4>1. \A q \in DOMAIN requests : requests[q].xfer.serial <= begun /\ requests[q].xfer.serial \in Nat
          BY XferFacts DEF Serials
        <4> QED BY <3>1, <3>3, <3>5, <4>1
      <3> QED BY <1>3, <3>4, <3>5 DEF Takes
    <2>2. /\ DOMAIN requests' = DOMAIN requests /\ requests'[r].xfer.serial = x.serial
          /\ \A q \in DOMAIN requests \ {r} : requests'[q].xfer = requests[q].xfer
      BY <1>3 DEF Takes
    <2>3. \A q \in DOMAIN requests \ {r} : requests[q].xfer.active => requests[q].xfer.serial # 0
      BY DEF Serials
    <2>4. \A q \in DOMAIN requests \ {r} : requests[q].xfer.serial <= begun'
      <3>1. \A q \in DOMAIN requests \ {r} : requests[q].xfer.serial <= begun
        BY DEF Serials
      <3> QED BY <2>1, <3>1
    <2>5. ASSUME NEW q \in DOMAIN requests'
          PROVE  /\ requests'[q].xfer.serial <= begun'
                 /\ requests'[q].xfer.active => requests'[q].xfer.serial # 0
      BY <2>1, <2>2, <2>3, <2>4
    <2>6. ASSUME NEW p \in DOMAIN requests', NEW q \in DOMAIN requests', requests'[p].xfer.active,
                 requests'[p].xfer.serial = requests'[q].xfer.serial
          PROVE  p = q
      <3>1. CASE p # r /\ q # r
        BY <2>2, <2>6, <3>1 DEF Serials
      <3>2. CASE p # r /\ q = r
        BY <2>1, <2>2, <2>6, <3>2
      <3>3. CASE p = r /\ q # r
        <4>1. requests[q].xfer.serial = x.serial
          BY <2>2, <2>6, <3>3
        <4>2. (x = requests[r].xfer /\ x.active = TRUE) \/ x.serial = begun + 1
          BY <1>3 DEF Takes
        <4>3. CASE x = requests[r].xfer /\ x.active = TRUE
          BY <2>2, <3>3, <4>1, <4>3 DEF Serials
        <4>4. CASE x.serial = begun + 1
          <5>1. requests[q].xfer.serial <= begun
            BY <2>2, <3>3 DEF Serials
          <5> QED BY <2>1, <4>1, <4>4, <5>1
        <4> QED BY <4>2, <4>3, <4>4
      <3> QED BY <3>1, <3>2, <3>3
    <2> QED BY <2>5, <2>6 DEF Serials
  <1> QED BY <1>1, <1>2, <1>3 DEF ByChunks, Calm, HandsOn, ReadsChunk, WritesChunk

\* What a thread or an operation carries
LEMMA ReadFacts ==
    ASSUME Typed
    PROVE  /\ \A t \in Threads : call[t].read \in Reads
           /\ \A c \in DOMAIN ctxs : ctxs[c].read \in Reads
           /\ \A z \in Reads : z # <<>> => z[1] \in Nat /\ z[2] \in Nat
  <1>1. \A t \in Threads : call[t].read \in Reads
    BY DEF Typed, TypeOK, Calls
  <1>2. \A c \in DOMAIN ctxs : ctxs[c].read \in Reads
    BY OpType DEF Typed, Ctxs
  <1>3. \A z \in Reads : z # <<>> => z[1] \in Nat /\ z[2] \in Nat
    BY DEF Reads
  <1> QED BY <1>1, <1>2, <1>3

\* A claim stays behind the offset of its transfer.
LEMMA ClaimedStays ==
    ASSUME Typed, ByChunks, Serials, NEW z \in Reads, Claimed(z)
    PROVE  Claimed(z)'
  <1> SUFFICES ASSUME z # <<>> PROVE Claimed(z)'
    BY DEF Claimed
  <1>1. /\ z[1] \in Nat /\ z[2] \in Nat /\ z[1] <= begun
        /\ \A r \in DOMAIN requests :
             requests[r].xfer.active /\ requests[r].xfer.serial = z[1] => z[2] < requests[r].xfer.received
    BY ReadFacts DEF Claimed
  <1>2. CASE XfersCalm
    <2>1. NoXfer.active = FALSE
      BY DEF NoXfer
    <2>2. \A r \in DOMAIN requests' :
             requests'[r].xfer.active /\ requests'[r].xfer.serial = z[1] => z[2] < requests'[r].xfer.received
      BY <1>1, <1>2, <2>1 DEF XfersCalm
    <2>3. z[1] <= begun'
      BY <1>1, <1>2 DEF XfersCalm
    <2> QED BY <2>2, <2>3 DEF Claimed
  <1>3. ASSUME NEW t \in Threads, NEW r \in DOMAIN requests, NEW x \in Xfers, Takes(t, r, x),
               \/ requests'[r].xfer.active = FALSE
               \/ requests'[r].xfer.received \in {x.received, x.received + 1}
        PROVE  Claimed(z)'
    <2>1. x.serial \in Nat /\ begun \in Nat /\ x.received \in Nat
      BY XferNats DEF Typed, TypeOK
    <2>2. begun' = (IF x.serial > begun THEN x.serial ELSE begun)
      BY <1>3 DEF Takes
    <2>3. z[1] <= begun'
      BY <1>1, <2>1, <2>2
    <2>4. ASSUME NEW q \in DOMAIN requests', requests'[q].xfer.active, requests'[q].xfer.serial = z[1]
          PROVE  z[2] < requests'[q].xfer.received
      <3>1. CASE q # r
        BY <1>1, <1>3, <2>4, <3>1 DEF Takes
      <3>2. CASE q = r
        <4>1. x.serial = z[1] /\ requests'[q].xfer.received \in {x.received, x.received + 1}
          BY <1>3, <2>4, <3>2 DEF Takes
        <4>2. x = requests[r].xfer /\ x.active = TRUE
          <5>1. x.serial # begun + 1
            BY <1>1, <2>1, <4>1
          <5> QED BY <1>3, <5>1 DEF Takes
        <4>3. z[2] < x.received
          BY <1>1, <4>1, <4>2
        <4> QED BY <1>1, <2>1, <4>1, <4>3
      <3> QED BY <3>1, <3>2
    <2> QED BY <2>3, <2>4 DEF Claimed
  <1>4. ASSUME NEW t \in Threads, NEW r \in DOMAIN requests, NEW x \in Xfers, ReadsChunk(t, r, x)
        PROVE  Claimed(z)'
    BY <1>3, <1>4 DEF ReadsChunk
  <1>5. ASSUME NEW t \in Threads, NEW r \in DOMAIN requests, NEW x \in Xfers, WritesChunk(t, r, x)
        PROVE  Claimed(z)'
    BY <1>3, <1>5 DEF WritesChunk
  <1> QED BY <1>2, <1>4, <1>5 DEF ByChunks, Calm, HandsOn

\* A new claim is of a chunk nobody has, and lies behind the offset.
LEMMA NewClaim ==
    ASSUME Typed, Serials, Serials', NEW t \in Threads, NEW r \in DOMAIN requests, NEW x \in Xfers, Takes(t, r, x),
           requests'[r].xfer.received = x.received + 1,
           NEW z, z = <<x.serial, x.received>>
    PROVE  Claimed(z)' /\ \A w \in Reads : Claimed(w) => w # z
  <1>1. x.serial \in Nat /\ begun \in Nat /\ x.received \in Nat
    BY XferNats DEF Typed, TypeOK
  <1>2. z # <<>> /\ z[1] = x.serial /\ z[2] = x.received
    OBVIOUS
  <1>3. begun' = (IF x.serial > begun THEN x.serial ELSE begun) /\ requests'[r].xfer.serial = x.serial
          /\ DOMAIN requests' = DOMAIN requests
    BY DEF Takes
  <1>4. z[1] <= begun'
    BY <1>1, <1>2, <1>3
  <1>5. ASSUME NEW q \in DOMAIN requests', requests'[q].xfer.active, requests'[q].xfer.serial = z[1]
        PROVE  z[2] < requests'[q].xfer.received
    <2>1. q = r
      BY <1>2, <1>3, <1>5 DEF Serials
    <2> QED BY <1>1, <1>2, <2>1
  <1>6. Claimed(z)'
    BY <1>4, <1>5 DEF Claimed
  <1>7. ASSUME NEW w \in Reads, Claimed(w), w = z PROVE FALSE
    <2>1. x.serial <= begun
      BY <1>2, <1>7 DEF Claimed
    <2>2. x = requests[r].xfer /\ x.active = TRUE
      <3>1. x.serial # begun + 1
        BY <1>1, <2>1
      <3> QED BY <3>1 DEF Takes
    <2>3. x.received < x.received
      BY <1>2, <1>7, <2>2 DEF Claimed
    <2> QED BY <1>1, <2>3
  <1> QED BY <1>6, <1>7

\* Every chunk that is read is read once.
LEMMA ClaimsStep ==
    ASSUME Typed, [Next]_vars, Serials, Claims
    PROVE  Claims'
  <1>1. ByChunks /\ OldKept /\ Typed' /\ Serials'
    BY ByChunksStep, CtxsStep, TypeStep, SerialsStep
  <1>2. \A z \in Reads : Claimed(z) => Claimed(z)'
    BY <1>1, ClaimedStays
  <1>3. Claimed(<<>>)'
    BY DEF Claimed
  <1>4. \A c \in DOMAIN ctxs : c \in DOMAIN ctxs' /\ ctxs'[c].read = ctxs[c].read
    <2>1. ctxs \in Seq(Ctxs) /\ ctxs' \in Seq(Ctxs) /\ Len(ctxs) <= Len(ctxs')
      BY <1>1, CtxsStep DEF OldKept, Typed, TypeOK
    <2>2. DOMAIN ctxs = 1 .. Len(ctxs) /\ DOMAIN ctxs' = 1 .. Len(ctxs') /\ Len(ctxs) \in Nat /\ Len(ctxs') \in Nat
      BY <2>1
    <2> QED BY <1>1, <2>1, <2>2 DEF OldKept, Kept
  <1>8. ASSUME \A u \in Threads : call'[u].read = <<>> \/ call'[u].read = call[u].read,
               \A c \in DOMAIN ctxs' : c \in DOMAIN ctxs \/ ctxs'[c].read = <<>>
        PROVE  Claims'
    <2>1. ASSUME NEW u \in Threads PROVE Claimed(call[u].read)'
      <3>1. PICK z : z = call'[u].read
        OBVIOUS
      <3>2. Claimed(z)'
        BY <1>2, <1>3, <1>8, <3>1, ReadFacts DEF Claims
      <3> QED BY <3>1, <3>2 DEF Claimed
    <2>2. ASSUME NEW c \in DOMAIN ctxs' PROVE Claimed(ctxs[c].read)'
      <3>1. PICK z : z = ctxs'[c].read
        OBVIOUS
      <3>2. Claimed(z)'
        BY <1>2, <1>3, <1>4, <1>8, <3>1, ReadFacts DEF Claims
      <3> QED BY <3>1, <3>2 DEF Claimed
    <2>3. (\A u, v \in Threads : u # v /\ call[u].read # <<>> => call[u].read # call[v].read)'
      BY <1>8 DEF Claims
    <2>4. (\A u \in Threads, c \in DOMAIN ctxs : call[u].read # <<>> => call[u].read # ctxs[c].read)'
      BY <1>4, <1>8 DEF Claims
    <2>5. EachChunkOnce'
      BY <1>4, <1>8 DEF Claims, EachChunkOnce
    <2> QED BY <2>1, <2>2, <2>3, <2>4, <2>5 DEF Claims, Claimed
  <1>5. CASE Calm
    <2>1. \A u \in Threads : call'[u].read \in {<<>>, call[u].read}
      BY <1>5 DEF Calm, CallsCalm
    <2>2. \A c \in DOMAIN ctxs' : c \in DOMAIN ctxs \/ ctxs'[c].read = <<>>
      BY <1>5 DEF Calm
    <2>3. \A u \in Threads : call'[u].read = <<>> \/ call'[u].read = call[u].read
      BY <2>1
    <2> QED BY <1>8, <2>2, <2>3
  <1>6. ASSUME NEW t \in Threads, HandsOn(t) PROVE Claims'
    <2>1. call'[t].read = <<>> /\ \A u \in Threads \ {t} : call'[u] = call[u]
      BY <1>6 DEF HandsOn, OthersStay
    <2>2. \A c \in DOMAIN ctxs' : c \in DOMAIN ctxs \/ (c = Len(ctxs) + 1 /\ ctxs'[c].read = call[t].read)
      BY <1>6 DEF HandsOn
    <2>3. \A u \in Threads \ {t} : call'[u].read = call[u].read
      BY <2>1
    <2>4. (\A u \in Threads : Claimed(call[u].read)') /\ (\A c \in DOMAIN ctxs' : Claimed(ctxs[c].read)')
      <3>1. \A z \in Reads : Claimed(z) => Claimed(z)'
        BY <1>2
      <3>2. ASSUME NEW u \in Threads PROVE Claimed(call[u].read)'
        <4>1. PICK z : z = call'[u].read
          OBVIOUS
        <4>2. Claimed(z)'
          BY <1>3, <2>1, <2>3, <3>1, <4>1, ReadFacts DEF Claims
        <4> QED BY <4>1, <4>2 DEF Claimed
      <3>3. ASSUME NEW c \in DOMAIN ctxs' PROVE Claimed(ctxs[c].read)'
        <4>1. PICK z : z = ctxs'[c].read
          OBVIOUS
        <4>2. z \in Reads /\ Claimed(z)
          BY <1>4, <2>2, <4>1, ReadFacts DEF Claims
        <4>3. Claimed(z)'
          BY <3>1, <4>2
        <4> QED BY <4>1, <4>3 DEF Claimed
      <3> QED BY <3>2, <3>3
    <2>5. (\A u, v \in Threads : u # v /\ call[u].read # <<>> => call[u].read # call[v].read)'
      BY <2>1, <2>3 DEF Claims
    <2>6. (\A u \in Threads, c \in DOMAIN ctxs : call[u].read # <<>> => call[u].read # ctxs[c].read)'
      BY <1>4, <2>1, <2>2, <2>3 DEF Claims
    <2>7. EachChunkOnce'
      BY <1>4, <2>2 DEF Claims, EachChunkOnce
    <2> QED BY <2>4, <2>5, <2>6, <2>7 DEF Claims, Claimed
  <1>7. ASSUME NEW t \in Threads, NEW r \in DOMAIN requests, NEW x \in Xfers, ReadsChunk(t, r, x) \/ WritesChunk(t, r, x)
        PROVE  Claims'
    <2>1. ctxs' = ctxs /\ \A u \in Threads \ {t} : call'[u] = call[u]
      BY <1>7 DEF ReadsChunk, WritesChunk, Takes, OthersStay
    <2>2. CASE call'[t].read = <<>>
      BY <1>8, <2>1, <2>2
    <2>3. CASE call'[t].read # <<>>
      <3>1. PICK z : z = <<x.serial, x.received>>
        OBVIOUS
      <3>2. Takes(t, r, x) /\ requests'[r].xfer.received = x.received + 1 /\ call'[t].read = z
        BY <1>7, <2>3, <3>1 DEF ReadsChunk, WritesChunk
      <3>3. Claimed(z)' /\ \A w \in Reads : Claimed(w) => w # z
        BY <1>1, <3>1, <3>2, NewClaim
      <3>4. \A u \in Threads : call[u].read \in Reads /\ Claimed(call[u].read)
        BY ReadFacts DEF Claims
      <3>5. \A c \in DOMAIN ctxs : ctxs[c].read \in Reads /\ Claimed(ctxs[c].read)
        BY ReadFacts DEF Claims
      <3>6. (\A u \in Threads : call[u].read # z) /\ \A c \in DOMAIN ctxs : ctxs[c].read # z
        BY <3>3, <3>4, <3>5
      <3>7. ASSUME NEW u \in Threads PROVE Claimed(call[u].read)'
        <4>1. PICK w : w = call'[u].read
          OBVIOUS
        <4>2. Claimed(w)'
          BY <1>2, <2>1, <3>2, <3>3, <3>4, <4>1
        <4> QED BY <4>1, <4>2 DEF Claimed
      <3>8. ASSUME NEW c \in DOMAIN ctxs' PROVE Claimed(ctxs[c].read)'
        <4>1. PICK w : w = ctxs'[c].read
          OBVIOUS
        <4>2. Claimed(w)'
          BY <1>2, <2>1, <3>5, <4>1
        <4> QED BY <4>1, <4>2 DEF Claimed
      <3>9. (\A u, v \in Threads : u # v /\ call[u].read # <<>> => call[u].read # call[v].read)'
        BY <2>1, <3>2, <3>6 DEF Claims
      <3>10. (\A u \in Threads, c \in DOMAIN ctxs : call[u].read # <<>> => call[u].read # ctxs[c].read)'
        BY <2>1, <3>2, <3>6 DEF Claims
      <3>11. EachChunkOnce'
        BY <2>1 DEF Claims, EachChunkOnce
      <3> QED BY <3>7, <3>8, <3>9, <3>10, <3>11 DEF Claims, Claimed
    <2> QED BY <2>2, <2>3
  <1> QED BY <1>1, <1>5, <1>6, <1>7 DEF ByChunks

\* A chunk is appended.
LEMMA OneMore ==
    ASSUME NEW s \in Parts, NEW o \in {"account", Name}, AllFor(s, o)
    PROVE  AllFor(Append(s, o), o) /\ Uniform(Append(s, o))
  <1>1. s \in Seq({"account", Name})
    BY DEF Parts
  <1>2. AllFor(Append(s, o), o)
    BY <1>1 DEF AllFor
  <1> QED BY <1>2 DEF AllFor, Uniform

\* The chunks of a blob are for one target.
LEMMA BlobsStep ==
    ASSUME Typed, [Next]_vars, Blobs
    PROVE  Blobs'
  <1>1. ByChunks /\ OldKept
    BY ByChunksStep, CtxsStep
  <1>2. Uniform(<<>>) /\ \A o : AllFor(<<>>, o)
    BY DEF Uniform, AllFor
  <1>3. ASSUME XfersCalm, NEW r \in DOMAIN requests' PROVE AllFor(requests'[r].xfer.parts, requests'[r].xfer.owner)
    <2>1. NoXfer.parts = <<>>
      BY DEF NoXfer
    <2> QED BY <1>2, <1>3, <2>1 DEF XfersCalm, Blobs
  <1>4. ASSUME \A u \in Threads : call'[u].blob \in {<<>>, call[u].blob},
               \A c \in DOMAIN ctxs' \ DOMAIN ctxs : Uniform(ctxs'[c].blob),
               \A r \in DOMAIN requests' : AllFor(requests'[r].xfer.parts, requests'[r].xfer.owner)
        PROVE  Blobs'
    <2>1. \A u \in Threads : Uniform(call'[u].blob)
      BY <1>2, <1>4 DEF Blobs
    <2>2. \A c \in DOMAIN ctxs' : Uniform(ctxs'[c].blob)
      BY <1>1, <1>4 DEF Blobs, OldKept, Kept
    <2> QED BY <1>4, <2>1, <2>2 DEF Blobs, Uniform, AllFor
  <1>5. CASE Calm
    <2>1. \A r \in DOMAIN requests' : AllFor(requests'[r].xfer.parts, requests'[r].xfer.owner)
      BY <1>3, <1>5 DEF Calm
    <2>2. \A c \in DOMAIN ctxs' \ DOMAIN ctxs : Uniform(ctxs'[c].blob)
      BY <1>2, <1>5 DEF Calm
    <2> QED BY <1>4, <1>5, <2>1, <2>2 DEF Calm, CallsCalm
  <1>6. ASSUME NEW t \in Threads, HandsOn(t) PROVE Blobs'
    <2>1. \A r \in DOMAIN requests' : AllFor(requests'[r].xfer.parts, requests'[r].xfer.owner)
      BY <1>3, <1>6 DEF HandsOn
    <2>2. \A c \in DOMAIN ctxs' \ DOMAIN ctxs : Uniform(ctxs'[c].blob)
      BY <1>6 DEF HandsOn, Blobs
    <2>3. \A u \in Threads : call'[u].blob \in {<<>>, call[u].blob}
      BY <1>6 DEF HandsOn, OthersStay
    <2> QED BY <1>4, <2>1, <2>2, <2>3
  <1>7. ASSUME NEW t \in Threads, NEW r \in DOMAIN requests, NEW x \in Xfers, ReadsChunk(t, r, x) \/ WritesChunk(t, r, x)
        PROVE  Blobs'
    <2>1. /\ ctxs' = ctxs /\ \A u \in Threads \ {t} : call'[u] = call[u]
          /\ DOMAIN requests' = DOMAIN requests
          /\ \A q \in DOMAIN requests \ {r} : requests'[q].xfer = requests[q].xfer
      BY <1>7 DEF ReadsChunk, WritesChunk, Takes, OthersStay
    <2>2. AllFor(x.parts, x.owner)
      <3>1. x = requests[r].xfer \/ x.parts = <<>>
        BY <1>7 DEF ReadsChunk, WritesChunk, Takes
      <3> QED BY <1>2, <3>1 DEF Blobs
    <2>3. /\ AllFor(requests'[r].xfer.parts, requests'[r].xfer.owner)
          /\ Uniform(call'[t].blob)
      <3>1. CASE ReadsChunk(t, r, x)
        BY <1>2, <2>2, <3>1 DEF ReadsChunk
      <3>2. CASE WritesChunk(t, r, x)
        <4>1. AllFor(Append(x.parts, x.owner), x.owner) /\ Uniform(Append(x.parts, x.owner))
          <5>1. x.parts \in Parts /\ x.owner \in {"account", Name}
            BY <3>2 DEF Xfers, WritesChunk
          <5> QED BY <2>2, <5>1, OneMore
        <4> QED BY <1>2, <3>2, <4>1 DEF WritesChunk
      <3> QED BY <1>7, <3>1, <3>2
    <2>4. \A q \in DOMAIN requests' : AllFor(requests'[q].xfer.parts, requests'[q].xfer.owner)
      BY <2>1, <2>3 DEF Blobs
    <2>5. \A u \in Threads : Uniform(call'[u].blob)
      BY <2>1, <2>3 DEF Blobs
    <2>6. \A c \in DOMAIN ctxs' : Uniform(ctxs'[c].blob)
      BY <2>1 DEF Blobs
    <2> QED BY <2>4, <2>5, <2>6 DEF Blobs, Uniform, AllFor
  <1> QED BY <1>1, <1>5, <1>6, <1>7 DEF ByChunks

-----------------------------------------------------------------------------
(* The theorems.                                                           *)

\* The inductive invariant holds at the start.
LEMMA IInvInit == Init => IInv
  <1> SUFFICES ASSUME Init PROVE IInv
    OBVIOUS
  <1>1. Typed
    BY TypeInit
  <1>2. /\ ctxs = <<>> /\ DOMAIN ctxs = {} /\ pending = {} /\ reader = 0 /\ DOMAIN requests = {}
        /\ \A t \in Threads : call[t] = Idle
    BY DEF Init, Restrict
  <1>3. Idle.pc = "idle" /\ Idle.read = <<>> /\ Idle.blob = <<>>
    BY DEF Idle
  <1>4. OnePlace /\ Numbered
    BY <1>2, <1>3 DEF OnePlace, Numbered, Sending
  <1>5. Answerable /\ Expectable /\ Underway /\ Misled /\ Results
    BY <1>2, <1>3 DEF Answerable, Expectable, Underway, Misled, Results
  <1>6. Serials /\ Claims
    BY <1>2, <1>3 DEF Serials, Claims, Claimed, EachChunkOnce
  <1>7. Blobs /\ Fitting
    BY <1>2, <1>3 DEF Blobs, Uniform, Fitting
  <1> QED BY <1>1, <1>4, <1>5, <1>6, <1>7 DEF IInv

\* And every step keeps it.
LEMMA IInvStep == IInv /\ [Next]_vars => IInv'
  <1> SUFFICES ASSUME IInv, [Next]_vars PROVE IInv'
    OBVIOUS
  <1>1. Typed' /\ OnePlace' /\ Numbered'
    BY TypeStep, OnePlaceStep, NumberedStep DEF IInv
  <1>2. Answerable' /\ Expectable' /\ Underway' /\ Misled' /\ Results'
    BY AnswerableStep, ExpectableStep, UnderwayStep, MisledStep, ResultsStep DEF IInv
  <1>3. Serials' /\ Claims' /\ Blobs' /\ Fitting'
    BY SerialsStep, ClaimsStep, BlobsStep, FittingStep DEF IInv
  <1> QED BY <1>1, <1>2, <1>3 DEF IInv

\* So it is an invariant.
LEMMA IInvHolds == Spec => []IInv
  BY IInvInit, IInvStep, PTL DEF Spec

\* An operation that has no result is on its way to one -- a thread is about to send or
\* register it, the reader holds it, or its entry is of the newest session and expected -- unless
\* the code forgot it in one of the four ways that are named.
THEOREM UnansweredIsExplainedHolds == Spec => []UnansweredIsExplained
  <1>1. IInv => UnansweredIsExplained
    <2> SUFFICES ASSUME IInv, NEW c \in DOMAIN ctxs, ctxs[c].result = "unset", ctxs[c].lost = "no"
                 PROVE  \/ reader = c
                        \/ \E t \in Threads : call[t].ctx = c /\ call[t].pc \in {"submit", "register"}
                        \/ \E e \in pending : e.ctx = c /\ e.session = last /\ StillExpected(e.pkt)
      BY DEF UnansweredIsExplained
    <2>1. ToCome(c)
      BY DEF IInv, Answerable
    <2>2. \A e \in pending : e.ctx = c => e.session = last /\ StillExpected(e.pkt)
      BY DEF IInv, Expectable
    <2> QED BY <2>1, <2>2 DEF ToCome, Sending
  <1> QED BY <1>1, IInvHolds, PTL

\* A reply completes an operation of another session only if the code had forgotten the
\* operation; it fills the buffers of the game after the game was told the outcome only when the
\* game itself aborted; and every call asks the server for what its buffers hold, for whom it
\* was made.
THEOREM RepliesAreOwnHolds == Spec => []RepliesAreOwn
  <1>1. IInv => RepliesAreOwn
    <2> SUFFICES ASSUME IInv PROVE RepliesAreOwn
      OBVIOUS
    <2>1. ASSUME NEW c \in DOMAIN ctxs
          PROVE  /\ ctxs[c].wrong => ctxs[c].lost # "no"
                 /\ ctxs[c].spoilt => ctxs[c].result = "aborted"
                 /\ ctxs[c].fits /\ ~ctxs[c].astray
      <3>1. ctxs[c].wrong \in BOOLEAN /\ ctxs[c].spoilt \in BOOLEAN
        BY OpType DEF IInv, Typed, Ctxs
      <3>2. ctxs[c].wrong = TRUE => ctxs[c].lost # "no"
        BY DEF IInv, Misled
      <3>3. ctxs[c].spoilt = TRUE => ctxs[c].result = "aborted"
        BY DEF IInv, Results
      <3>4. ctxs[c].fits = TRUE /\ ctxs[c].astray = FALSE
        BY DEF IInv, Fitting
      <3> QED BY <3>1, <3>2, <3>3, <3>4
    <2> QED BY <2>1 DEF RepliesAreOwn, MisdeliveredOnlyIfLost, SpoiltOnlyByAbort, RepliesFit, NoneAstray
  <1> QED BY <1>1, IInvHolds, PTL

\* Two reads never claim the same chunk of one transfer, and a blob is put together from chunks
\* for one target, however the threads that use a request interleave.
THEOREM TransfersAreWholeHolds == Spec => []TransfersAreWhole
  <1>1. IInv => TransfersAreWhole
    BY DEF IInv, Typed, Claims, Blobs, Uniform, BlobOneTarget, TransfersAreWhole
  <1> QED BY <1>1, IInvHolds, PTL

=============================================================================
