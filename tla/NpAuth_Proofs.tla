--------------------------- MODULE NpAuth_Proofs ---------------------------
(***************************************************************************)
(* Proofs about NpAuth, for every set of threads, users, clients and       *)
(* contexts, every limit of the request table and every bound on packets.  *)
(***************************************************************************)
EXTENDS NpAuth, FiniteSetTheorems, TLAPS

-----------------------------------------------------------------------------
(* The request ids.                                                        *)

\* A set of ids that is not empty has a least element: the initial segments below
\* its elements are well ordered by strict inclusion.
LEMMA LeastElement ==
  ASSUME NEW n \in Nat, NEW S \in SUBSET (1 .. n), S # {}
  PROVE  \E i \in S : \A j \in S : i <= j
<1> DEFINE D == 1 .. n
           R == StrictSubsetOrdering(D)
           T == {1 .. i : i \in S}
<1>1. IsWellFoundedOn(R, FiniteSubsetsOf(D))
  BY FS_Interval, FS_StrictSubsetOrderingWellFounded
<1>2. T \subseteq FiniteSubsetsOf(D) /\ T # {}
  <2>1. \A i \in S : 1 .. i \subseteq D /\ IsFiniteSet(1 .. i)
    BY FS_Interval
  <2> QED
    BY <2>1 DEF FiniteSubsetsOf
<1>3. \E x \in T : \A y \in T : <<y, x>> \notin R
  <2> HIDE DEF R, T
  <2> QED
    BY <1>1, <1>2, WFMin
<1>4. PICK i \in S : \A j \in S : <<1 .. j, 1 .. i>> \notin R
  BY <1>3
<1>5. ASSUME NEW j \in S, j < i PROVE FALSE
  <2>1. 1 .. j \subseteq 1 .. i /\ i \in 1 .. i /\ i \notin 1 .. j
    BY <1>5
  <2>2. 1 .. j \in SUBSET D /\ 1 .. i \in SUBSET D
    OBVIOUS
  <2>3. <<1 .. j, 1 .. i>> \in R
    BY <2>1, <2>2 DEF StrictSubsetOrdering
  <2> QED
    BY <2>3, <1>4
<1> QED
  BY <1>4, <1>5

\* CreateNpAuthRequest finds an id: among Cardinality(ids) + 1 ids one is free, and
\* it is within the limit when the table is not full.
LEMMA FreshId ==
  ASSUME NEW ids \in SUBSET (1 .. RequestLimit), ~TableFull(ids)
  PROVE  /\ LowestFreeId(ids) \in 1 .. RequestLimit
         /\ LowestFreeId(ids) \notin ids
<1> USE ConstantsAssumption
<1>1. /\ IsFiniteSet(ids)
      /\ Cardinality(ids) \in Nat
      /\ Cardinality(ids) < RequestLimit
  <2>1. /\ IsFiniteSet(1 .. RequestLimit)
        /\ Cardinality(1 .. RequestLimit) = RequestLimit
    BY FS_Interval
  <2>2. IsFiniteSet(ids) /\ Cardinality(ids) <= RequestLimit
    BY <2>1, FS_Subset
  <2>3. Cardinality(ids) \in Nat
    BY <2>2, FS_CardinalityType
  <2> QED
    BY <2>2, <2>3 DEF TableFull
<1> DEFINE n == Cardinality(ids) + 1
<1>2. FreeIds(ids) # {}
  <2> SUFFICES ASSUME FreeIds(ids) = {} PROVE FALSE
    OBVIOUS
  <2>1. (1 .. n) \in SUBSET ids
    BY DEF FreeIds
  <2>2. Cardinality(1 .. n) <= Cardinality(ids)
    BY <1>1, <2>1, FS_Subset
  <2>3. Cardinality(1 .. n) = n
    BY <1>1, FS_Interval
  <2> QED
    BY <1>1, <2>2, <2>3
<1>3. FreeIds(ids) \in SUBSET (1 .. n) /\ n \in Nat
  BY <1>1 DEF FreeIds
<1>4. \E i \in FreeIds(ids) : \A j \in FreeIds(ids) : i <= j
  BY <1>2, <1>3, LeastElement
<1>5. LowestFreeId(ids) \in FreeIds(ids)
  BY <1>4 DEF LowestFreeId
<1> QED
  BY <1>1, <1>5 DEF FreeIds

-----------------------------------------------------------------------------
(* Type correctness.                                                       *)

LEMMA ReplyResultsType == ReplyResults \subseteq Results
BY DEF ReplyResults, Results, AuthErrorFromReply

\* What a thread inside a call holds.
LEMMA InCall ==
  ASSUME TypeOK, NEW t \in Threads, call[t].pc # "idle"
  PROVE  /\ call[t].ctx \in Ctxs
         /\ call[t].pc \in {"started", "looked", "checked"} => call[t].user \in Users
         /\ call[t].pc \in {"looked", "checked"} => call[t].client \in Clients
<1>1. call[t] \in Calls
  BY DEF TypeOK
<1> QED
  BY <1>1 DEF Calls, IdleCall

LEMMA WaitingCall ==
  ASSUME NEW c \in Ctxs, NEW pc \in {"wait", "poll"}
  PROVE  [IdleCall EXCEPT !.pc = pc, !.ctx = c] \in Calls
BY DEF Calls, IdleCall

LEMMA FinishTyped ==
  ASSUME TypeOK, NEW t \in Threads, call[t].pc # "idle", FinishStartedRequest(t)
  PROVE  call' \in [Threads -> Calls]
<1>1. call[t].ctx \in Ctxs
  BY InCall
<1>2. /\ IdleCall \in Calls
      /\ [IdleCall EXCEPT !.pc = "wait", !.ctx = call[t].ctx] \in Calls
  BY <1>1, WaitingCall DEF Calls
<1> QED
  BY <1>2 DEF FinishStartedRequest, TypeOK

LEMMA SetResultTyped ==
  ASSUME TypeOK, NEW c \in Ctxs, NEW r \in Results, SetResult(c, r)
  PROVE  result' \in [Ctxs -> Results \cup {Unset}]
BY DEF SetResult, TypeOK

LEMMA SettleTyped ==
  ASSUME TypeOK, NEW t \in Threads, call[t].pc # "idle", NEW r \in Results,
         Settle(t, r)
  PROVE  TypeOK'
<1>1. call[t].ctx \in Ctxs
  BY InCall
<1>2. SetResult(call[t].ctx, r) /\ FinishStartedRequest(t)
  BY DEF Settle
<1>3. result' \in [Ctxs -> Results \cup {Unset}]
  BY <1>1, <1>2, SetResultTyped
<1>4. call' \in [Threads -> Calls]
  BY <1>2, FinishTyped
<1> QED
  BY <1>3, <1>4 DEF TypeOK, Settle, tableVars, clientVars, handlerVars

\* What loses its entry is a context.
LEMMA OrphanTyped ==
  ASSUME TypeOK, NEW es \in SUBSET pending, NEW left, Orphan(es, left)
  PROVE  orphans' \subseteq Ctxs /\ orphans \subseteq orphans'
BY DEF Orphan, TypeOK, Entries

LEMMA TypeStep == TypeOK /\ [Next]_vars => TypeOK'
<1> SUFFICES ASSUME TypeOK, [Next]_vars PROVE TypeOK'
  OBVIOUS
<1> USE ConstantsAssumption
    DEF TypeOK, tableVars, cellVars, clientVars, handlerVars
<1>1. ASSUME NEW t \in Threads, NEW async \in AsyncKinds,
             CreateNpAuthRequest(t, async)
      PROVE  TypeOK'
  <2> DEFINE id == LowestFreeId(DOMAIN requests)
             r == [async |-> async, aborted |-> FALSE, ctx |-> NoCtx]
             new == [i \in DOMAIN requests \cup {id} |->
                       IF i = id THEN r ELSE requests[i]]
  <2>1. requests' = new
    BY <1>1 DEF CreateNpAuthRequest
  <2>2. id \in 1 .. RequestLimit
    BY <1>1, FreshId DEF CreateNpAuthRequest
  <2>3. r \in Request
    BY DEF Request
  <2> HIDE DEF id, r
  <2>4. /\ DOMAIN new \subseteq 1 .. RequestLimit
        /\ new \in [DOMAIN new -> Request]
    BY <2>2, <2>3
  <2> QED
    BY <1>1, <2>1, <2>4 DEF CreateNpAuthRequest
<1>2. ASSUME NEW t \in Threads, NEW id \in DOMAIN requests,
             NEW u \in Users \cup {NoUser}, NEW pc \in {"started", "token"},
             pc = "started" <=> u \in Users, StartRequest(t, id, u, pc)
      PROVE  TypeOK'
  <2>1. PICK c \in Ctxs \ started :
          /\ started' = started \cup {c}
          /\ requests' = [requests EXCEPT ![id].ctx = c]
          /\ requester' = [requester EXCEPT ![c] = u]
          /\ call' = [call EXCEPT ![t] =
                        [pc |-> pc, ctx |-> c, user |-> u, client |-> NoClient,
                         async |-> requests[id].async]]
    BY <1>2 DEF StartRequest
  <2>2. requests[id] \in Request
    OBVIOUS
  <2>3. [pc |-> pc, ctx |-> c, user |-> u, client |-> NoClient,
         async |-> requests[id].async] \in Calls
    BY <1>2, <2>1, <2>2 DEF Calls, Request
  <2>4. [requests[id] EXCEPT !.ctx = c] \in Request
    BY <2>1, <2>2 DEF Request
  <2>5. call' \in [Threads -> Calls]
    BY <2>1, <2>3
  <2>6. /\ DOMAIN requests' = DOMAIN requests
        /\ requests' \in [DOMAIN requests' -> Request]
    BY <2>1, <2>4
  <2> QED
    BY <1>2, <2>1, <2>5, <2>6 DEF StartRequest
<1>3. ASSUME NEW t \in Threads, NEW id \in DOMAIN requests,
             NEW pc \in {"wait", "poll"}, FindAsyncRequest(t, id, pc)
      PROVE  TypeOK'
  <2>1. requests[id].ctx \in Ctxs
    BY <1>3 DEF FindAsyncRequest, Request
  <2>2. [IdleCall EXCEPT !.pc = pc, !.ctx = requests[id].ctx] \in Calls
    BY <2>1, WaitingCall
  <2>3. call' \in [Threads -> Calls]
    BY <1>3, <2>2 DEF FindAsyncRequest
  <2> QED
    BY <1>3, <2>3 DEF FindAsyncRequest
<1>4. ASSUME NEW t \in Threads, NEW id \in DOMAIN requests, AbortRequest(t, id)
      PROVE  TypeOK'
  <2>1. CASE requests[id].ctx # NoCtx
    <3>1. requests[id].ctx \in Ctxs /\ "ABORTED" \in Results
      BY <2>1 DEF Request, Results
    <3>2. AbortCtx(requests[id].ctx) /\ UNCHANGED requests
      BY <1>4, <2>1 DEF AbortRequest
    <3>3. result' \in [Ctxs -> Results \cup {Unset}]
      BY <3>1, <3>2, SetResultTyped DEF AbortCtx
    <3> QED
      BY <1>4, <3>1, <3>2, <3>3 DEF AbortRequest, AbortCtx
  <2>2. CASE requests[id].ctx = NoCtx
    <3>1. requests' = [requests EXCEPT ![id].aborted = TRUE]
      BY <1>4, <2>2 DEF AbortRequest
    <3>2. requests[id] \in Request
      OBVIOUS
    <3>3. [requests[id] EXCEPT !.aborted = TRUE] \in Request
      BY <3>2 DEF Request
    <3>4. /\ DOMAIN requests' = DOMAIN requests
          /\ requests' \in [DOMAIN requests' -> Request]
      BY <3>1, <3>3
    <3> QED
      BY <1>4, <2>2, <3>4 DEF AbortRequest
  <2> QED
    BY <2>1, <2>2
<1>5. ASSUME NEW t \in Threads, NEW id \in DOMAIN requests, DeleteRequest(t, id)
      PROVE  TypeOK'
  BY <1>5 DEF DeleteRequest, AbortCtx, SetResult, Request, Results
<1>6. ASSUME NEW t \in Threads, CallStep(t)
      PROVE  TypeOK'
  <2>1. ASSUME StubToken(t) PROVE TypeOK'
    BY <2>1, SettleTyped DEF StubToken, Results
  <2>2. ASSUME LookUpClient(t) PROVE TypeOK'
    <3>1. CASE enabled /\ clients[call[t].user] # NoClient
      <4>1. /\ call[t] \in Calls /\ call[t].pc = "started"
            /\ clients[call[t].user] \in Clients
        BY <2>2, <3>1, InCall DEF LookUpClient
      <4> DEFINE looked == [call[t] EXCEPT !.pc = "looked",
                                           !.client = clients[call[t].user]]
      <4>2. call[t] \in [pc : {"started"}, ctx : Ctxs, user : Users,
                         client : {NoClient}, async : BOOLEAN]
        BY <4>1 DEF Calls, IdleCall
      <4>3. looked \in [pc : {"looked", "checked"}, ctx : Ctxs, user : Users,
                        client : Clients, async : BOOLEAN]
        BY <4>1, <4>2
      <4>4. looked \in Calls
        BY <4>3 DEF Calls
      <4>5. call' \in [Threads -> Calls]
        BY <2>2, <3>1, <4>4 DEF LookUpClient
      <4> QED
        BY <2>2, <3>1, <4>5 DEF LookUpClient
    <3> QED
      BY <2>2, <3>1, SettleTyped DEF LookUpClient, Results
  <2>3. ASSUME CheckAuthenticated(t) PROVE TypeOK'
    <3>1. CASE Authenticated(call[t].client)
      <4>1. call[t] \in Calls /\ call[t].pc = "looked"
        BY <2>3 DEF CheckAuthenticated
      <4>2. [call[t] EXCEPT !.pc = "checked"] \in Calls
        BY <4>1 DEF Calls, IdleCall
      <4>3. call' \in [Threads -> Calls]
        BY <2>3, <3>1, <4>2 DEF CheckAuthenticated
      <4> QED
        BY <2>3, <3>1, <4>3 DEF CheckAuthenticated
    <3> QED
      BY <2>3, <3>1, SettleTyped DEF CheckAuthenticated, Results
  <2>4. ASSUME SubmitRequest(t) PROVE TypeOK'
    <3> DEFINE k == call[t].client
               e == [pkt |-> counter[k], ctx |-> call[t].ctx, user |-> call[t].user,
                     client |-> k]
    <3>1. k \in Clients /\ call[t].ctx \in Ctxs /\ call[t].user \in Users
      BY <2>4, InCall DEF SubmitRequest
    <3>2. e \in Entries /\ counter[k] \in Nat \ {0}
      BY <3>1 DEF Entries
    <3>3. call' \in [Threads -> Calls]
      BY <2>4, FinishTyped DEF SubmitRequest
    <3>4. counter' \in [Clients -> Nat \ {0}]
      BY <2>4, <3>1, <3>2 DEF SubmitRequest, NextPkt
    <3>5. inFlight' \in [Clients -> SUBSET (Nat \ {0})]
      BY <2>4, <3>1, <3>2 DEF SubmitRequest
    <3>6. Emplace(e)
      BY <2>4 DEF SubmitRequest
    <3>7. pending' \in SUBSET Entries /\ refused' \subseteq Ctxs
      BY <3>1, <3>2, <3>6 DEF Emplace
    <3>8. stranded' \subseteq Ctxs
      BY <2>4, <3>1 DEF SubmitRequest
    <3> QED
      BY <2>4, <3>3, <3>4, <3>5, <3>7, <3>8 DEF SubmitRequest
  <2>5. ASSUME WaitReturns(t) PROVE TypeOK'
    <3>1. call[t].ctx \in Ctxs /\ IdleCall \in Calls
      BY <2>5, InCall DEF WaitReturns, Calls
    <3> QED
      BY <2>5, <3>1 DEF WaitReturns
  <2>6. ASSUME PollReturns(t) PROVE TypeOK'
    <3>1. call[t].ctx \in Ctxs /\ IdleCall \in Calls
      BY <2>6, InCall DEF PollReturns, Calls
    <3> QED
      BY <2>6, <3>1 DEF PollReturns
  <2> QED
    BY <1>6, <2>1, <2>2, <2>3, <2>4, <2>5, <2>6 DEF CallStep
<1>7. ASSUME NEW k \in Clients, ReaderStep(k)
      PROVE  TypeOK'
  <2>1. ASSUME NEW pkt \in inFlight[k], NEW r \in ReplyResults,
               OnAuthReply(k, pkt, r)
        PROVE  TypeOK'
    <3>1. orphans' \subseteq Ctxs
      BY <2>1, OrphanTyped DEF OnAuthReply
    <3>2. reader' \in [Clients -> Reads] /\ pending' \subseteq pending
      <4>1. CASE UNCHANGED <<pending, reader>>
        BY <4>1
      <4>2. ASSUME NEW p \in pending, TakeEntry(k, p, r)
            PROVE  reader' \in [Clients -> Reads] /\ pending' \subseteq pending
        BY <4>2, ReplyResultsType DEF TakeEntry, Reads, Entries
      <4> QED
        BY <2>1, <4>1, <4>2 DEF OnAuthReply
    <3> QED
      BY <2>1, <3>1, <3>2 DEF OnAuthReply
  <2>2. ASSUME CompleteReply(k) PROVE TypeOK'
    BY <2>2 DEF CompleteReply, SetResult, WriteCode, Reads, IdleRead, Results
  <2>3. ASSUME LoseConnection(k) PROVE TypeOK'
    BY <2>3 DEF LoseConnection
  <2>4. ASSUME NumberOtherPacket(k) PROVE TypeOK'
    BY <2>4 DEF NumberOtherPacket, NextPkt
  <2>5. ASSUME DestroyClient(k) PROVE TypeOK'
    BY <2>5 DEF DestroyClient
  <2> QED
    BY <1>7, <2>1, <2>2, <2>3, <2>4, <2>5 DEF ReaderStep
<1>8. ASSUME NEW h \in Handlers, HandlerStep(h)
      PROVE  TypeOK'
  <2>1. ASSUME NEW u \in Users, BeginConnect(h, u) PROVE TypeOK'
    BY <2>1 DEF BeginConnect, Tasks
  <2>2. ASSUME NEW u \in Users, BeginDisconnect(h, u) PROVE TypeOK'
    BY <2>2 DEF BeginDisconnect, Tasks
  <2>3. ASSUME ConnectFails(h) PROVE TypeOK'
    BY <2>3 DEF ConnectFails, Tasks, IdleTask
  <2>4. ASSUME ConnectUser(h) PROVE TypeOK'
    <3>1. stranded' \subseteq Ctxs
      BY <2>4 DEF ConnectUser, Entries
    <3> QED
      BY <2>4, <3>1 DEF ConnectUser, Tasks, IdleTask
  <2>5. ASSUME StopClient(h) PROVE TypeOK'
    <3>1. task[h] \in Tasks /\ task[h].op = "stop"
      BY <2>5 DEF StopClient
    <3> DEFINE fail == [task[h] EXCEPT !.op = "fail", !.client = NoClient]
    <3>2. task[h] \in [op : {"stop"}, user : Users, client : Clients]
      BY <3>1 DEF Tasks, IdleTask
    <3>3. fail \in [op : {"connect", "fail"}, user : Users, client : {NoClient}]
      BY <3>2
    <3>4. fail \in Tasks
      BY <3>3 DEF Tasks
    <3>5. task' \in [Handlers -> Tasks]
      BY <2>5, <3>4 DEF StopClient
    <3> QED
      BY <2>5, <3>2, <3>5 DEF StopClient
  <2>6. ASSUME FailPendingRequests(h) PROVE TypeOK'
    <3>1. orphans' \subseteq Ctxs
      BY <2>6, OrphanTyped DEF FailPendingRequests
    <3> QED
      BY <2>6, <3>1 DEF FailPendingRequests, FailEntries, Tasks, IdleTask, Results
  <2> QED
    BY <1>8, <2>1, <2>2, <2>3, <2>4, <2>5, <2>6 DEF HandlerStep
<1>9. CASE UNCHANGED vars
  BY <1>9 DEF vars
<1> QED
  BY <1>1, <1>2, <1>3, <1>4, <1>5, <1>6, <1>7, <1>8, <1>9
     DEF Next, LibraryStep, GetAuthorizationCode, GetIdToken

\* The variables keep their types and, in particular, the request ids that the
\* library hands to the game stay within 1 .. ORBIS_NP_AUTH_REQUEST_LIMIT.
THEOREM TypeCorrect == Spec => []TypeOK
<1>1. Init => TypeOK
  BY ConstantsAssumption DEF Init, TypeOK, Calls, IdleCall, Reads, IdleRead, Tasks,
     IdleTask, Results
<1> QED
  BY <1>1, TypeStep, PTL DEF Spec

-----------------------------------------------------------------------------
(***************************************************************************)
(* Safety.  Each part of the invariant speaks of the contexts that have    *)
(* been started: the table, the calls, the pending map and the readers     *)
(* refer to no other, and what a context that has not been started will    *)
(* hold is still untouched.                                                *)
(***************************************************************************)
References ==
    /\ \A id \in DOMAIN requests :
         requests[id].ctx # NoCtx => requests[id].ctx \in started
    /\ \A t \in Threads : call[t].pc # "idle" => call[t].ctx \in started
    /\ \A p \in pending : p.ctx \in started
    /\ \A k \in Clients : reader[k].ctx # NoCtx => reader[k].ctx \in started

Untouched ==
    \A c \in Ctxs \ started :
        result[c] = Unset /\ code[c] = NoUser /\ requester[c] = NoUser

\* A thread in GetIdToken works on a context that was started for no user, and a
\* reader with a reply in hand belongs to a client that has an owner.
Tokens == \A t \in Threads :
    call[t].pc = "token" => requester[call[t].ctx] = NoUser
Owners == \A k \in Clients :
    clientState[k] = "up" \/ reader[k].ctx # NoCtx => owner[k] \in Users

CodeWithResult == \A c \in Ctxs :
    /\ code[c] # NoUser => result[c] = "OK"
    /\ requester[c] # NoUser /\ result[c] = "OK" => code[c] # NoUser

ReturnedHaveResult == \A c \in returned : result[c] # Unset

CallsEnd == \A t \in Threads : call[t].pc # "idle" =>
    \/ result[call[t].ctx] # Unset
    \/ \E id \in DOMAIN requests : requests[id].ctx = call[t].ctx

\* The account a client is signed in to is the user who holds it in m_clients, and the
\* user for whom a thread submits; a client that was used keeps its account.
Used(k) == k \in Clients /\ clientState[k] # "unused"
Accounts ==
    /\ \A u \in Users : clients[u] # NoClient => Used(clients[u]) /\ owner[clients[u]] = u
    /\ \A t \in Threads : call[t].pc \in {"looked", "checked"} =>
          Used(call[t].client) /\ owner[call[t].client] = call[t].user
    /\ \A h \in Handlers : task[h].op = "stop" => Used(task[h].client)
    /\ \A k \in Clients : inFlight[k] # {} \/ reader[k].ctx # NoCtx => Used(k)
Requesters ==
    /\ \A t \in Threads : call[t].pc \in {"started", "looked", "checked"} =>
          requester[call[t].ctx] = call[t].user
    /\ \A p \in pending : requester[p.ctx] = p.user
    /\ refused \cup orphans \subseteq started

\* A packet in flight has an entry of its client's user, or the user has lost one.
Lost(u) == \E d \in refused \cup orphans : requester[d] = u
Expected == \A k \in Clients : \A n \in inFlight[k] :
    (\E p \in pending : p.pkt = n /\ p.user = owner[k]) \/ Lost(owner[k])
HandedOver == \A k \in Clients :
    reader[k].ctx # NoCtx => requester[reader[k].ctx] = owner[k] \/ Lost(owner[k])

\* A request that nobody has in hand any more; an entry is not looked at here.
Forgotten(c) ==
    /\ c \in started /\ result[c] = Unset
    /\ ~Registered(c)
    /\ \A t \in Threads : ~Starting(t, c)
    /\ \A k \in Clients : ~Completing(k, c)
ForgottenOnlyIfRefused == \A c \in Ctxs : Forgotten(c) => c \in refused

\* A client in m_clients has not been stopped and nobody is stopping it.
Held ==
    /\ \A u \in Users : clients[u] # NoClient => clientState[clients[u]] \in {"up", "dropped"}
    /\ \A h \in Handlers, u \in Users : task[h].op = "stop" => clients[u] # task[h].client

\* An entry went to a client of its user; while that is up its packet is in flight, and
\* until the entry is stranded the client is the user's or the user is being signed out.
Attended == \A p \in pending :
    /\ Used(p.client) /\ owner[p.client] = p.user
    /\ clientState[p.client] = "up" => p.pkt \in inFlight[p.client]
    /\ p.ctx \in stranded \/ clients[p.user] = p.client \/ SigningOut(p.user)

IInv == /\ TypeOK /\ References /\ Untouched /\ Tokens /\ Owners
        /\ OneCompleter /\ CodeWithResult /\ ReturnedHaveResult /\ CallsEnd
        /\ ForgottenOnlyIfRefused /\ Held /\ Attended
        /\ Accounts /\ Requesters /\ Expected /\ HandedOver /\ MisdeliveredOnlyIfLost

\* A context is started once and its first result is its last.
LEMMA Monotone ==
  ASSUME TypeOK, [Next]_vars
  PROVE  /\ started \subseteq started'
         /\ \A c \in Ctxs : result[c] # Unset => result'[c] = result[c]
<1> USE DEF tableVars, cellVars, clientVars, handlerVars
<1>1. ASSUME NEW t \in Threads, LibraryStep(t)
      PROVE  /\ started \subseteq started'
             /\ \A c \in Ctxs : result[c] # Unset => result'[c] = result[c]
  <2>1. \/ UNCHANGED result /\ started \subseteq started'
        \/ \E id \in DOMAIN requests : AbortRequest(t, id) \/ DeleteRequest(t, id)
    BY <1>1 DEF LibraryStep, CreateNpAuthRequest, GetAuthorizationCode, GetIdToken,
                StartRequest, FindAsyncRequest
  <2>2. ASSUME NEW id \in DOMAIN requests,
               AbortRequest(t, id) \/ DeleteRequest(t, id)
        PROVE  /\ started' = started
               /\ result' = result \/ SetResult(requests[id].ctx, "ABORTED")
    BY <2>2 DEF AbortRequest, DeleteRequest, AbortCtx
  <2> QED
    BY <2>1, <2>2 DEF SetResult, TypeOK
<1>2. \A t \in Threads : CallStep(t) =>
         /\ started \subseteq started'
         /\ \A c \in Ctxs : result[c] # Unset => result'[c] = result[c]
  BY DEF CallStep, StubToken, LookUpClient, CheckAuthenticated, SubmitRequest,
         WaitReturns, PollReturns, Settle, SetResult, TypeOK
<1>3. \A k \in Clients : ReaderStep(k) =>
         /\ started \subseteq started'
         /\ \A c \in Ctxs : result[c] # Unset => result'[c] = result[c]
  BY DEF ReaderStep, OnAuthReply, CompleteReply, LoseConnection,
         NumberOtherPacket, DestroyClient, SetResult, TypeOK
<1>4. \A h \in Handlers : HandlerStep(h) =>
         /\ started \subseteq started'
         /\ \A c \in Ctxs : result[c] # Unset => result'[c] = result[c]
  BY DEF HandlerStep, BeginConnect, BeginDisconnect, ConnectFails, ConnectUser,
         StopClient, FailPendingRequests, FailEntries, TypeOK
<1> QED
  BY <1>1, <1>2, <1>3, <1>4 DEF Next, vars

\* A step of a call moves the calling thread only; the thread keeps its context
\* until it returns, and is starting the request only if it was.
LEMMA CallMoves ==
  ASSUME TypeOK, NEW t \in Threads, CallStep(t)
  PROVE  /\ call[t].pc # "idle"
         /\ \A s \in Threads \ {t} : call'[s] = call[s]
         /\ call'[t].pc # "idle" => call'[t].ctx = call[t].ctx
         /\ call'[t].pc \in {"started", "token", "looked", "checked"} =>
              /\ call[t].pc = "started" \/ call[t].pc = "looked"
              /\ call'[t].pc # "token"
              /\ call'[t].user = call[t].user
<1>1. ASSUME call[t].pc # "idle", FinishStartedRequest(t)
      PROVE  /\ \A s \in Threads \ {t} : call'[s] = call[s]
             /\ call'[t].pc \in {"idle", "wait"}
             /\ call'[t].pc # "idle" => call'[t].ctx = call[t].ctx
  BY <1>1 DEF FinishStartedRequest, TypeOK, IdleCall
<1>2. StubToken(t) \/ SubmitRequest(t) =>
        call[t].pc # "idle" /\ FinishStartedRequest(t)
  BY DEF StubToken, SubmitRequest, Settle
<1>3. WaitReturns(t) \/ PollReturns(t) =>
        call[t].pc # "idle" /\ call' = [call EXCEPT ![t] = IdleCall]
  BY DEF WaitReturns, PollReturns
<1>4. LookUpClient(t) =>
        /\ call[t].pc = "started"
        /\ \/ FinishStartedRequest(t)
           \/ call' = [call EXCEPT ![t].pc = "looked",
                                   ![t].client = clients[call[t].user]]
  BY DEF LookUpClient, Settle
<1>5. CheckAuthenticated(t) =>
        /\ call[t].pc = "looked"
        /\ FinishStartedRequest(t) \/ call' = [call EXCEPT ![t].pc = "checked"]
  BY DEF CheckAuthenticated, Settle
<1>6. call \in [Threads -> Calls] /\ IdleCall.pc = "idle"
  BY DEF TypeOK, IdleCall
<1>7. CASE LookUpClient(t) /\ ~FinishStartedRequest(t)
  <2>1. call[t] \in [pc : {"started"}, ctx : Ctxs, user : Users,
                     client : {NoClient}, async : BOOLEAN]
    BY <1>4, <1>6, <1>7 DEF Calls, IdleCall
  <2> QED
    BY <1>4, <1>6, <1>7, <2>1
<1>8. CASE CheckAuthenticated(t) /\ ~FinishStartedRequest(t)
  <2>1. call[t] \in [pc : {"looked", "checked"}, ctx : Ctxs, user : Users,
                     client : Clients, async : BOOLEAN]
    BY <1>5, <1>6, <1>8 DEF Calls, IdleCall
  <2> QED
    BY <1>5, <1>6, <1>8, <2>1
<1>9. CASE WaitReturns(t) \/ PollReturns(t)
  BY <1>3, <1>6, <1>9
<1>10. CASE FinishStartedRequest(t) /\ call[t].pc # "idle"
  BY <1>1, <1>10
<1> QED
  BY <1>2, <1>4, <1>5, <1>7, <1>8, <1>9, <1>10 DEF CallStep

LEMMA ReferencesStep == IInv /\ [Next]_vars => References'
<1> SUFFICES ASSUME IInv, [Next]_vars PROVE References'
  OBVIOUS
<1> USE DEF tableVars, cellVars, clientVars, handlerVars
<1>1. TypeOK /\ References
  BY DEF IInv
<1>2. started \subseteq started'
  BY <1>1, Monotone
<1> DEFINE R1 == \A id \in DOMAIN requests :
                   requests[id].ctx # NoCtx => requests[id].ctx \in started
           R2 == \A t \in Threads :
                   call[t].pc # "idle" => call[t].ctx \in started
           R3 == \A p \in pending : p.ctx \in started
           R4 == \A k \in Clients :
                   reader[k].ctx # NoCtx => reader[k].ctx \in started
<1>3. R1 /\ R2 /\ R3 /\ R4
  BY <1>1 DEF References
<1>4. ASSUME NEW t \in Threads, LibraryStep(t) PROVE References'
  <2>1. ASSUME NEW async \in AsyncKinds, CreateNpAuthRequest(t, async)
        PROVE  References'
    BY <1>3, <2>1 DEF CreateNpAuthRequest, References
  <2>2. ASSUME NEW id \in DOMAIN requests, NEW u \in Users \cup {NoUser},
               NEW pc \in {"started", "token"}, StartRequest(t, id, u, pc)
        PROVE  References'
    BY <1>1, <1>3, <2>2 DEF StartRequest, References, TypeOK
  <2>3. ASSUME NEW id \in DOMAIN requests, NEW pc \in {"wait", "poll"},
               FindAsyncRequest(t, id, pc)
        PROVE  References'
    BY <1>1, <1>3, <2>3 DEF FindAsyncRequest, References, TypeOK, IdleCall
  <2>4. ASSUME NEW id \in DOMAIN requests, AbortRequest(t, id)
        PROVE  References'
    BY <1>1, <1>3, <2>4 DEF AbortRequest, References, TypeOK, Request
  <2>5. ASSUME NEW id \in DOMAIN requests, DeleteRequest(t, id)
        PROVE  References'
    BY <1>3, <2>5 DEF DeleteRequest, References
  <2> QED
    BY <1>4, <2>1, <2>2, <2>3, <2>4, <2>5
       DEF LibraryStep, GetAuthorizationCode, GetIdToken
<1>5. ASSUME NEW t \in Threads, CallStep(t) PROVE References'
  <2>1. UNCHANGED <<requests, started, reader>>
    BY <1>5 DEF CallStep, StubToken, LookUpClient, CheckAuthenticated,
                SubmitRequest, WaitReturns, PollReturns, Settle
  <2>2. call[t].pc # "idle"
    BY <1>1, <1>5, CallMoves
  <2>3. ASSUME NEW s \in Threads, call'[s].pc # "idle"
        PROVE  call[s].pc # "idle" /\ call'[s].ctx = call[s].ctx
    BY <1>1, <1>5, <2>3, CallMoves
  <2>4. ASSUME NEW p \in pending' PROVE p \in pending \/ p.ctx = call[t].ctx
    BY <1>5 DEF CallStep, StubToken, LookUpClient, CheckAuthenticated,
                SubmitRequest, Emplace, WaitReturns, PollReturns, Settle
  <2> QED
    BY <1>3, <2>1, <2>2, <2>3, <2>4 DEF References
<1>6. ASSUME NEW k \in Clients, ReaderStep(k) PROVE References'
  <2>1. UNCHANGED <<requests, started, call>> /\ pending' \subseteq pending
    BY <1>6 DEF ReaderStep, OnAuthReply, TakeEntry, CompleteReply, LoseConnection,
                NumberOtherPacket, DestroyClient
  <2>2. ASSUME NEW j \in Clients
        PROVE  \/ reader'[j].ctx = NoCtx
               \/ reader'[j] = reader[j]
               \/ \E p \in pending : reader'[j].ctx = p.ctx
    <3>1. ASSUME NEW n \in inFlight[k], NEW r \in ReplyResults, OnAuthReply(k, n, r)
          PROVE  reader'[j] = reader[j] \/ \E p \in pending : reader'[j].ctx = p.ctx
      <4>1. ASSUME NEW p \in pending, TakeEntry(k, p, r)
            PROVE  reader'[j] = reader[j] \/ reader'[j].ctx = p.ctx
        BY <1>1, <4>1 DEF TakeEntry, TypeOK
      <4> QED
        BY <3>1, <4>1 DEF OnAuthReply
    <3>2. CASE CompleteReply(k)
      BY <1>1, <3>2 DEF CompleteReply, IdleRead, TypeOK
    <3> QED
      BY <1>6, <3>1, <3>2 DEF ReaderStep, LoseConnection, NumberOtherPacket, DestroyClient
  <2> QED
    BY <1>3, <2>1, <2>2 DEF References
<1>7. ASSUME NEW h \in Handlers, HandlerStep(h) PROVE References'
  <2>1. UNCHANGED <<requests, started, call, reader>> /\ pending' \subseteq pending
    BY <1>7 DEF HandlerStep, BeginConnect, BeginDisconnect, ConnectFails,
                ConnectUser, StopClient, FailPendingRequests, FailEntries
  <2> QED
    BY <1>3, <2>1 DEF References
<1>8. CASE UNCHANGED vars
  BY <1>3, <1>8 DEF vars, References
<1> QED
  BY <1>4, <1>5, <1>6, <1>7, <1>8 DEF Next

LEMMA OwnersStep == IInv /\ [Next]_vars => Owners'
<1> SUFFICES ASSUME IInv, [Next]_vars PROVE Owners'
  OBVIOUS
<1> USE DEF tableVars, cellVars, clientVars, handlerVars
<1>1. TypeOK /\ Owners
  BY DEF IInv
<1>2. ASSUME NEW t \in Threads, LibraryStep(t) \/ CallStep(t) PROVE Owners'
  <2>1. UNCHANGED <<reader, owner, clientState>>
    BY <1>2 DEF LibraryStep, CreateNpAuthRequest, GetAuthorizationCode, GetIdToken,
                StartRequest, FindAsyncRequest, AbortRequest, DeleteRequest,
                CallStep, StubToken, LookUpClient, CheckAuthenticated,
                SubmitRequest, WaitReturns, PollReturns, Settle
  <2> QED
    BY <1>1, <2>1 DEF Owners
<1>3. ASSUME NEW k \in Clients, ReaderStep(k) PROVE Owners'
  <2>1. UNCHANGED owner
    BY <1>3 DEF ReaderStep, OnAuthReply, CompleteReply, LoseConnection,
                NumberOtherPacket, DestroyClient
  <2>2. ASSUME NEW j \in Clients
        PROVE  clientState'[j] = "up" => clientState[j] = "up"
    BY <1>1, <1>3 DEF ReaderStep, OnAuthReply, CompleteReply, LoseConnection,
                NumberOtherPacket, DestroyClient, TypeOK
  <2>3. ASSUME NEW j \in Clients, reader'[j].ctx # NoCtx
        PROVE  reader[j].ctx # NoCtx \/ clientState[j] = "up"
    BY <1>1, <1>3, <2>3 DEF ReaderStep, OnAuthReply, TakeEntry, CompleteReply,
                LoseConnection, NumberOtherPacket, DestroyClient, TypeOK, IdleRead
  <2> QED
    BY <1>1, <2>1, <2>2, <2>3 DEF Owners
<1>4. ASSUME NEW h \in Handlers, HandlerStep(h) PROVE Owners'
  <2>1. CASE ConnectUser(h)
    <3>1. task[h].user \in Users
      <4>1. task[h] \in Tasks /\ task[h].op = "connect"
        BY <1>1, <2>1 DEF TypeOK, ConnectUser
      <4> QED
        BY <4>1 DEF Tasks, IdleTask
    <3> QED
      BY <1>1, <2>1, <3>1 DEF ConnectUser, Owners, TypeOK
  <2>2. CASE StopClient(h)
    BY <1>1, <2>2 DEF StopClient, Owners, TypeOK, IdleRead
  <2>3. CASE UNCHANGED <<reader, owner, clientState>>
    BY <1>1, <2>3 DEF Owners
  <2> QED
    BY <1>4, <2>1, <2>2, <2>3 DEF HandlerStep, BeginConnect, BeginDisconnect,
       ConnectFails, FailPendingRequests
<1>5. CASE UNCHANGED vars
  BY <1>1, <1>5 DEF vars, Owners
<1> QED
  BY <1>2, <1>3, <1>4, <1>5 DEF Next

\* What a step does to the contexts' results, codes and requesters.
LEMMA UntouchedStep == IInv /\ [Next]_vars => Untouched' /\ Tokens'
<1> SUFFICES ASSUME IInv, [Next]_vars PROVE Untouched' /\ Tokens'
  OBVIOUS
<1> USE DEF tableVars, cellVars, clientVars, handlerVars
<1>1. TypeOK /\ References /\ Untouched /\ Tokens
  BY DEF IInv
<1>2. NoCtx \notin Ctxs
  BY ConstantsAssumption
<1>3. ASSUME NEW t \in Threads, LibraryStep(t) PROVE Untouched' /\ Tokens'
  <2>1. ASSUME NEW id \in DOMAIN requests, NEW u \in Users \cup {NoUser},
               NEW pc \in {"started", "token"}, pc = "started" <=> u \in Users,
               StartRequest(t, id, u, pc)
        PROVE  Untouched' /\ Tokens'
    <3>1. PICK c \in Ctxs \ started :
            /\ started' = started \cup {c}
            /\ requester' = [requester EXCEPT ![c] = u]
            /\ call' = [call EXCEPT ![t] =
                          [pc |-> pc, ctx |-> c, user |-> u, client |-> NoClient,
                           async |-> requests[id].async]]
      BY <2>1 DEF StartRequest
    <3>2. UNCHANGED <<result, code>>
      BY <2>1 DEF StartRequest
    <3>3. Untouched'
      BY <1>1, <3>1, <3>2 DEF Untouched, TypeOK
    <3>4. ASSUME NEW s \in Threads, call'[s].pc = "token"
          PROVE  requester'[call'[s].ctx] = NoUser
      <4>1. CASE s = t
        BY <1>1, <2>1, <3>1, <3>4, <4>1 DEF TypeOK
      <4>2. CASE s # t
        <5>1. call'[s] = call[s] /\ call[s].ctx \in started
          BY <1>1, <3>1, <3>4, <4>2 DEF TypeOK, References
        <5> QED
          BY <1>1, <3>1, <3>4, <5>1 DEF Tokens, TypeOK
      <4> QED
        BY <4>1, <4>2
    <3> QED
      BY <3>3, <3>4 DEF Tokens
  <2>2. ASSUME NEW id \in DOMAIN requests,
               AbortRequest(t, id) \/ DeleteRequest(t, id)
        PROVE  Untouched' /\ Tokens'
    <3>1. UNCHANGED <<started, code, requester, call>>
      BY <2>2 DEF AbortRequest, DeleteRequest
    <3>2. \/ UNCHANGED result
          \/ requests[id].ctx \in started /\ SetResult(requests[id].ctx, "ABORTED")
      BY <1>1, <2>2 DEF AbortRequest, DeleteRequest, AbortCtx, References
    <3> QED
      BY <1>1, <3>1, <3>2 DEF Untouched, Tokens, SetResult, TypeOK
  <2>3. ASSUME NEW async \in AsyncKinds, CreateNpAuthRequest(t, async)
        PROVE  Untouched' /\ Tokens'
    BY <1>1, <2>3 DEF CreateNpAuthRequest, Untouched, Tokens
  <2>4. ASSUME NEW id \in DOMAIN requests, NEW pc \in {"wait", "poll"},
               FindAsyncRequest(t, id, pc)
        PROVE  Untouched' /\ Tokens'
    BY <1>1, <2>4 DEF FindAsyncRequest, Untouched, Tokens, TypeOK, IdleCall
  <2> QED
    BY <1>3, <2>1, <2>2, <2>3, <2>4, ConstantsAssumption
       DEF LibraryStep, GetAuthorizationCode, GetIdToken
<1>4. ASSUME NEW t \in Threads, CallStep(t) PROVE Untouched' /\ Tokens'
  <2>1. UNCHANGED <<started, code, requester>>
    BY <1>4 DEF CallStep, StubToken, LookUpClient, CheckAuthenticated,
                SubmitRequest, WaitReturns, PollReturns, Settle
  <2>2. UNCHANGED result \/ \E r \in Results : SetResult(call[t].ctx, r)
    BY <1>4 DEF CallStep, StubToken, LookUpClient, CheckAuthenticated,
                SubmitRequest, WaitReturns, PollReturns, Settle, Results
  <2>3. call[t].ctx \in started
    BY <1>1, <1>4, CallMoves DEF References
  <2>4. Untouched'
    BY <1>1, <2>1, <2>2, <2>3 DEF Untouched, SetResult, TypeOK
  <2>5. Tokens'
    BY <1>1, <1>4, <2>1, CallMoves DEF Tokens
  <2> QED
    BY <2>4, <2>5
<1>5. ASSUME NEW k \in Clients, ReaderStep(k) PROVE Untouched' /\ Tokens'
  <2>1. CASE CompleteReply(k)
    <3>1. reader[k].ctx \in started
      BY <1>1, <2>1 DEF CompleteReply, References
    <3>2. UNCHANGED <<started, requester, call>>
      BY <2>1 DEF CompleteReply
    <3> QED
      BY <1>1, <2>1, <3>1, <3>2
         DEF CompleteReply, SetResult, WriteCode, Untouched, Tokens, TypeOK
  <2>2. CASE UNCHANGED <<started, result, code, requester, call>>
    BY <1>1, <2>2 DEF Untouched, Tokens
  <2> QED
    BY <1>5, <2>1, <2>2 DEF ReaderStep, OnAuthReply, LoseConnection,
       NumberOtherPacket, DestroyClient
<1>6. ASSUME NEW h \in Handlers, HandlerStep(h) PROVE Untouched' /\ Tokens'
  <2>1. UNCHANGED <<started, code, requester, call>>
    BY <1>6 DEF HandlerStep, BeginConnect, BeginDisconnect, ConnectFails,
                ConnectUser, StopClient, FailPendingRequests
  <2>2. ASSUME NEW c \in Ctxs \ started PROVE result'[c] = result[c]
    BY <1>1, <1>6 DEF HandlerStep, BeginConnect, BeginDisconnect, ConnectFails,
       ConnectUser, StopClient, FailPendingRequests, FailEntries, References, TypeOK
  <2> QED
    BY <1>1, <2>1, <2>2 DEF Untouched, Tokens
<1>7. CASE UNCHANGED vars
  BY <1>1, <1>7 DEF vars, Untouched, Tokens
<1> QED
  BY <1>3, <1>4, <1>5, <1>6, <1>7 DEF Next

LEMMA OneCompleterStep == IInv /\ [Next]_vars => OneCompleter'
<1> SUFFICES ASSUME IInv, [Next]_vars PROVE OneCompleter'
  OBVIOUS
<1> USE DEF tableVars, cellVars, clientVars, handlerVars
<1>1. TypeOK /\ References /\ OneCompleter
  BY DEF IInv
<1>2. NoCtx \notin Ctxs
  BY ConstantsAssumption
\* Whoever gives a context up, or hands nothing on, disturbs nothing.
<1>3. ASSUME pending' \subseteq pending,
             \A s \in Threads, c \in Ctxs : Starting(s, c)' => Starting(s, c),
             \A k \in Clients, c \in Ctxs : Completing(k, c)' => Completing(k, c)
      PROVE  OneCompleter'
  <2>1. \A c \in Ctxs : Registered(c)' => Registered(c)
    BY <1>3 DEF Registered
  <2> QED
    BY <1>1, <1>3, <2>1 DEF OneCompleter
<1>4. ASSUME NEW t \in Threads, LibraryStep(t) PROVE OneCompleter'
  <2>1. UNCHANGED <<pending, reader>>
    BY <1>4 DEF LibraryStep, CreateNpAuthRequest, GetAuthorizationCode, GetIdToken,
                StartRequest, FindAsyncRequest, AbortRequest, DeleteRequest
  <2>2. \A c \in Ctxs : Registered(c)' <=> Registered(c)
    BY <2>1 DEF Registered
  <2>3. \A k \in Clients, c \in Ctxs : Completing(k, c)' <=> Completing(k, c)
    BY <2>1 DEF Completing
  <2>4. ASSUME NEW id \in DOMAIN requests, NEW u, NEW pc, StartRequest(t, id, u, pc)
        PROVE  OneCompleter'
    <3>1. PICK d \in Ctxs \ started :
            call' = [call EXCEPT ![t] =
                      [pc |-> pc, ctx |-> d, user |-> u, client |-> NoClient,
                       async |-> requests[id].async]]
      BY <2>4 DEF StartRequest
    <3>2. /\ ~Registered(d)
          /\ \A k \in Clients : ~Completing(k, d)
          /\ \A s \in Threads : ~Starting(s, d)
      BY <1>1, <1>2, <3>1 DEF Registered, Completing, Starting, References, TypeOK
    <3>3. \A s \in Threads, c \in Ctxs :
            Starting(s, c)' => Starting(s, c) \/ (s = t /\ c = d)
      BY <1>1, <3>1 DEF Starting, TypeOK
    <3>4. \A c \in Ctxs : ~Starting(t, c)
      BY <2>4 DEF StartRequest, Starting
    <3> QED
      BY <1>1, <2>1, <2>2, <2>3, <3>1, <3>2, <3>3, <3>4 DEF OneCompleter
  <2>5. ASSUME \A s \in Threads, c \in Ctxs : Starting(s, c)' => Starting(s, c)
        PROVE  OneCompleter'
    BY <1>3, <2>1, <2>3, <2>5
  <2>6. ASSUME NEW id \in DOMAIN requests, NEW pc \in {"wait", "poll"},
               FindAsyncRequest(t, id, pc)
        PROVE  \A s \in Threads, c \in Ctxs : Starting(s, c)' => Starting(s, c)
    BY <1>1, <2>6 DEF FindAsyncRequest, Starting, TypeOK, IdleCall
  <2>7. ASSUME UNCHANGED call
        PROVE  \A s \in Threads, c \in Ctxs : Starting(s, c)' => Starting(s, c)
    BY <2>7 DEF Starting
  <2> QED
    BY <1>4, <2>4, <2>5, <2>6, <2>7
       DEF LibraryStep, CreateNpAuthRequest, GetAuthorizationCode, GetIdToken,
           AbortRequest, DeleteRequest
<1>5. ASSUME NEW t \in Threads, CallStep(t) PROVE OneCompleter'
  <2>1. UNCHANGED reader
    BY <1>5 DEF CallStep, StubToken, LookUpClient, CheckAuthenticated,
                SubmitRequest, WaitReturns, PollReturns, Settle
  <2>2. \A k \in Clients, c \in Ctxs : Completing(k, c)' <=> Completing(k, c)
    BY <2>1 DEF Completing
  <2>3. \A s \in Threads, c \in Ctxs : Starting(s, c)' => Starting(s, c)
    BY <1>1, <1>5, CallMoves DEF Starting
  <2>4. CASE SubmitRequest(t)
    <3> DEFINE k == call[t].client
               e == [pkt |-> counter[k], ctx |-> call[t].ctx, user |-> call[t].user,
                     client |-> k]
    <3>1. Starting(t, call[t].ctx) /\ call[t].ctx \in Ctxs
      BY <1>1, <2>4, InCall DEF SubmitRequest, Starting
    <3>2. \A c \in Ctxs : ~Starting(t, c)'
      BY <1>1, <2>4 DEF SubmitRequest, FinishStartedRequest, IdleCall, Starting,
         TypeOK
    <3>3. \/ pending' = pending
          \/ pending' = pending \cup {e} /\ \A p \in pending : p.pkt # e.pkt
      BY <2>4 DEF SubmitRequest, Emplace
    <3>4. CASE pending' = pending
      BY <1>3, <2>2, <2>3, <3>4
    <3>5. CASE pending' = pending \cup {e} /\ \A p \in pending : p.pkt # e.pkt
      <4>1. \A c \in Ctxs : Registered(c)' <=> Registered(c) \/ c = call[t].ctx
        <5>1. e.ctx = call[t].ctx /\ e \in pending'
          BY <3>5
        <5>2. \A p \in pending' : p \in pending \/ p = e
          BY <3>5
        <5>3. pending \subseteq pending'
          BY <3>5
        <5> HIDE DEF e
        <5> QED
          BY <5>1, <5>2, <5>3 DEF Registered
      <4>2. ~Registered(call[t].ctx)
        BY <1>1, <3>1 DEF OneCompleter
      <4>3. ASSUME NEW p \in pending', NEW q \in pending',
                   p.pkt = q.pkt \/ p.ctx = q.ctx
            PROVE  p = q
        BY <1>1, <3>5, <4>2, <4>3 DEF OneCompleter, Registered
      <4> QED
        BY <1>1, <2>2, <2>3, <3>1, <3>2, <4>1, <4>3 DEF OneCompleter
    <3> QED
      BY <3>3, <3>4, <3>5
  <2>5. CASE UNCHANGED pending
    BY <1>3, <2>2, <2>3, <2>5
  <2> QED
    BY <1>5, <2>4, <2>5 DEF CallStep, StubToken, LookUpClient, CheckAuthenticated,
       WaitReturns, PollReturns, Settle
<1>6. ASSUME NEW k \in Clients, ReaderStep(k) PROVE OneCompleter'
  <2>1. UNCHANGED call
    BY <1>6 DEF ReaderStep, OnAuthReply, CompleteReply, LoseConnection,
                NumberOtherPacket, DestroyClient
  <2>2. \A s \in Threads, c \in Ctxs : Starting(s, c)' <=> Starting(s, c)
    BY <2>1 DEF Starting
  <2>3. ASSUME NEW p \in pending, NEW r, TakeEntry(k, p, r) PROVE OneCompleter'
    <3>1. \A j \in Clients, c \in Ctxs :
            Completing(j, c)' => Completing(j, c) \/ (j = k /\ c = p.ctx)
      BY <1>1, <2>3 DEF TakeEntry, Completing, TypeOK
    <3>2. \A c \in Ctxs : Completing(k, c)' => c = p.ctx
      BY <1>1, <2>3 DEF TakeEntry, Completing, TypeOK
    <3>3. \A c \in Ctxs : Registered(c)' => Registered(c) /\ c # p.ctx
      BY <1>1, <2>3 DEF TakeEntry, Registered, OneCompleter
    <3>4. Registered(p.ctx) /\ p.ctx \in Ctxs
      BY <1>1 DEF Registered, TypeOK, Entries
    <3>5. pending' \subseteq pending
      BY <2>3 DEF TakeEntry
    <3> QED
      BY <1>1, <2>2, <3>1, <3>2, <3>3, <3>4, <3>5 DEF OneCompleter
  <2>4. CASE CompleteReply(k)
    <3>1. \A j \in Clients, c \in Ctxs : Completing(j, c)' => Completing(j, c)
      BY <1>1, <1>2, <2>4 DEF CompleteReply, IdleRead, Completing, TypeOK
    <3>2. UNCHANGED pending
      BY <2>4 DEF CompleteReply
    <3> QED
      BY <1>3, <2>2, <3>1, <3>2
  <2>5. CASE UNCHANGED <<pending, reader>>
    BY <1>3, <2>2, <2>5 DEF Completing
  <2> QED
    BY <1>6, <2>3, <2>4, <2>5 DEF ReaderStep, OnAuthReply, LoseConnection,
       NumberOtherPacket, DestroyClient
<1>7. ASSUME NEW h \in Handlers, HandlerStep(h) PROVE OneCompleter'
  <2>1. UNCHANGED <<call, reader>> /\ pending' \subseteq pending
    BY <1>7 DEF HandlerStep, BeginConnect, BeginDisconnect, ConnectFails,
                ConnectUser, StopClient, FailPendingRequests, FailEntries
  <2> QED
    BY <1>3, <2>1 DEF Starting, Completing
<1>8. CASE UNCHANGED vars
  BY <1>3, <1>8 DEF vars, Starting, Completing
<1> QED
  BY <1>4, <1>5, <1>6, <1>7, <1>8 DEF Next

LEMMA CodeStep == IInv /\ [Next]_vars => CodeWithResult'
<1> SUFFICES ASSUME IInv, [Next]_vars PROVE CodeWithResult'
  OBVIOUS
<1> USE DEF tableVars, cellVars, clientVars, handlerVars
<1>1. TypeOK /\ References /\ Untouched /\ Tokens /\ Owners /\ CodeWithResult
  BY DEF IInv
\* A first result that reports no success, or is not about a code, goes with an
\* untouched buffer.
<1>2. ASSUME UNCHANGED <<code, requester>>,
             \A c \in Ctxs : \/ result'[c] = result[c]
                            \/ /\ result[c] = Unset
                               /\ result'[c] # "OK" \/ requester[c] = NoUser
      PROVE  CodeWithResult'
  BY <1>1, <1>2 DEF CodeWithResult, Unset
<1>3. ASSUME NEW t \in Threads, LibraryStep(t) PROVE CodeWithResult'
  <2>1. ASSUME NEW id \in DOMAIN requests, NEW u, NEW pc, StartRequest(t, id, u, pc)
        PROVE  CodeWithResult'
    <3>1. PICK d \in Ctxs \ started : requester' = [requester EXCEPT ![d] = u]
      BY <2>1 DEF StartRequest
    <3>2. result[d] = Unset /\ code[d] = NoUser
      BY <1>1, <3>1 DEF Untouched
    <3>3. UNCHANGED <<result, code>>
      BY <2>1 DEF StartRequest
    <3> QED
      BY <1>1, <3>1, <3>2, <3>3 DEF CodeWithResult, TypeOK, Unset
  <2>2. ASSUME NEW id \in DOMAIN requests,
               AbortRequest(t, id) \/ DeleteRequest(t, id)
        PROVE  CodeWithResult'
    <3>1. UNCHANGED <<code, requester>>
      BY <2>2 DEF AbortRequest, DeleteRequest
    <3>2. UNCHANGED result \/ SetResult(requests[id].ctx, "ABORTED")
      BY <2>2 DEF AbortRequest, DeleteRequest, AbortCtx
    <3> QED
      BY <1>1, <1>2, <3>1, <3>2 DEF SetResult, TypeOK
  <2>3. CASE UNCHANGED <<result, code, requester>>
    BY <1>2, <2>3
  <2> QED
    BY <1>3, <2>1, <2>2, <2>3 DEF LibraryStep, CreateNpAuthRequest,
       GetAuthorizationCode, GetIdToken, FindAsyncRequest
<1>4. ASSUME NEW t \in Threads, CallStep(t) PROVE CodeWithResult'
  <2>1. UNCHANGED <<code, requester>>
    BY <1>4 DEF CallStep, StubToken, LookUpClient, CheckAuthenticated,
                SubmitRequest, WaitReturns, PollReturns, Settle
  <2>2. \/ UNCHANGED result
        \/ SetResult(call[t].ctx, "SIGNED_OUT")
        \/ SetResult(call[t].ctx, "OK") /\ requester[call[t].ctx] = NoUser
    BY <1>1, <1>4 DEF CallStep, StubToken, LookUpClient, CheckAuthenticated,
       SubmitRequest, WaitReturns, PollReturns, Settle, Tokens
  <2> QED
    BY <1>1, <1>2, <2>1, <2>2 DEF SetResult, TypeOK
<1>5. ASSUME NEW k \in Clients, ReaderStep(k) PROVE CodeWithResult'
  <2>1. CASE CompleteReply(k)
    <3>1. owner[k] # NoUser /\ requester' = requester
      BY <1>1, <2>1, ConstantsAssumption DEF CompleteReply, Owners
    <3>2. reader[k].ctx \in Ctxs
      BY <1>1, <2>1 DEF CompleteReply, TypeOK, Reads
    <3>3. CASE reader[k].result = "OK"
      BY <1>1, <2>1, <3>1, <3>2, <3>3
         DEF CompleteReply, SetResult, WriteCode, CodeWithResult, TypeOK, Unset
    <3>4. CASE reader[k].result # "OK"
      BY <1>1, <1>2, <2>1, <3>1, <3>2, <3>4 DEF CompleteReply, SetResult, TypeOK
    <3> QED
      BY <3>3, <3>4
  <2>2. CASE UNCHANGED <<result, code, requester>>
    BY <1>2, <2>2
  <2> QED
    BY <1>5, <2>1, <2>2 DEF ReaderStep, OnAuthReply, LoseConnection,
       NumberOtherPacket, DestroyClient
<1>6. ASSUME NEW h \in Handlers, HandlerStep(h) PROVE CodeWithResult'
  <2>1. UNCHANGED <<code, requester>>
    BY <1>6 DEF HandlerStep, BeginConnect, BeginDisconnect, ConnectFails,
                ConnectUser, StopClient, FailPendingRequests
  <2>2. ASSUME NEW c \in Ctxs
        PROVE  \/ result'[c] = result[c]
               \/ result[c] = Unset /\ result'[c] = "SIGNED_OUT"
    BY <1>1, <1>6 DEF HandlerStep, BeginConnect, BeginDisconnect, ConnectFails,
       ConnectUser, StopClient, FailPendingRequests, FailEntries, TypeOK
  <2> QED
    BY <1>2, <2>1, <2>2
<1>7. CASE UNCHANGED vars
  BY <1>2, <1>7 DEF vars
<1> QED
  BY <1>3, <1>4, <1>5, <1>6, <1>7 DEF Next

LEMMA ReturnedStep == IInv /\ [Next]_vars => ReturnedHaveResult'
<1> SUFFICES ASSUME IInv, [Next]_vars PROVE ReturnedHaveResult'
  OBVIOUS
<1> USE DEF tableVars, cellVars, clientVars, handlerVars
<1>1. TypeOK /\ References /\ ReturnedHaveResult
  BY DEF IInv
<1>2. \A c \in Ctxs : result[c] # Unset => result'[c] # Unset
  BY <1>1, Monotone
<1>3. ASSUME \A c \in returned' : c \in returned \/ result'[c] # Unset
      PROVE  ReturnedHaveResult'
  BY <1>1, <1>2, <1>3 DEF ReturnedHaveResult, TypeOK
<1>4. ASSUME NEW t \in Threads, LibraryStep(t)
      PROVE  \A c \in returned' : c \in returned \/ result'[c] # Unset
  <2>1. ASSUME NEW id \in DOMAIN requests, requests[id].ctx # NoCtx,
               AbortCtx(requests[id].ctx)
        PROVE  \A c \in returned' : c \in returned \/ result'[c] # Unset
    <3>1. requests[id].ctx \in Ctxs
      BY <1>1, <2>1 DEF TypeOK, References
    <3> QED
      BY <1>1, <2>1, <3>1 DEF AbortCtx, SetResult, TypeOK, Unset
  <2> QED
    BY <1>4, <2>1 DEF LibraryStep, CreateNpAuthRequest, GetAuthorizationCode,
       GetIdToken, StartRequest, FindAsyncRequest, AbortRequest, DeleteRequest
<1>5. ASSUME NEW t \in Threads, CallStep(t)
      PROVE  \A c \in returned' : c \in returned \/ result'[c] # Unset
  BY <1>1, <1>5 DEF CallStep, StubToken, LookUpClient, CheckAuthenticated,
     SubmitRequest, WaitReturns, PollReturns, Settle
<1>6. ASSUME \/ \E k \in Clients : ReaderStep(k)
             \/ \E h \in Handlers : HandlerStep(h)
             \/ UNCHANGED vars
      PROVE  UNCHANGED returned
  BY <1>6 DEF ReaderStep, OnAuthReply, CompleteReply, LoseConnection,
     NumberOtherPacket, DestroyClient, HandlerStep, BeginConnect, BeginDisconnect,
     ConnectFails, ConnectUser, StopClient, FailPendingRequests, vars
<1> QED
  BY <1>3, <1>4, <1>5, <1>6 DEF Next

LEMMA CallsEndStep == IInv /\ [Next]_vars => CallsEnd'
<1> SUFFICES ASSUME IInv, [Next]_vars PROVE CallsEnd'
  OBVIOUS
<1> USE DEF tableVars, cellVars, clientVars, handlerVars
<1>1. TypeOK /\ References /\ CallsEnd
  BY DEF IInv
<1>2. \A c \in Ctxs : result[c] # Unset => result'[c] # Unset
  BY <1>1, Monotone
<1>3. NoCtx \notin Ctxs /\ started \subseteq Ctxs
  BY <1>1, ConstantsAssumption DEF TypeOK
\* The table keeps the contexts of requests without a result, and a thread that
\* enters a call takes its context from the table.
<1>4. ASSUME \A id \in DOMAIN requests :
               LET c == requests[id].ctx
               IN  c # NoCtx =>
                     \/ result'[c] # Unset
                     \/ id \in DOMAIN requests' /\ requests'[id].ctx = c,
             \A t \in Threads : call'[t].pc # "idle" =>
               \/ call[t].pc # "idle" /\ call'[t].ctx = call[t].ctx
               \/ \E id \in DOMAIN requests' : requests'[id].ctx = call'[t].ctx
      PROVE  CallsEnd'
  BY <1>1, <1>2, <1>3, <1>4 DEF CallsEnd, References
<1>5. ASSUME NEW t \in Threads, LibraryStep(t) PROVE CallsEnd'
  <2>1. ASSUME NEW async \in AsyncKinds, CreateNpAuthRequest(t, async) PROVE CallsEnd'
    <3>1. LowestFreeId(DOMAIN requests) \notin DOMAIN requests
      BY <1>1, <2>1, FreshId DEF CreateNpAuthRequest, TypeOK
    <3> QED
      BY <1>4, <2>1, <3>1 DEF CreateNpAuthRequest
  <2>2. ASSUME NEW id \in DOMAIN requests, NEW u, NEW pc, StartRequest(t, id, u, pc)
        PROVE  CallsEnd'
    <3>1. PICK c \in Ctxs \ started :
            /\ requests' = [requests EXCEPT ![id].ctx = c]
            /\ call' = [call EXCEPT ![t] =
                          [pc |-> pc, ctx |-> c, user |-> u, client |-> NoClient,
                           async |-> requests[id].async]]
      BY <2>2 DEF StartRequest
    <3>2. requests[id].ctx = NoCtx /\ requests'[id].ctx = c
      BY <1>1, <2>2, <3>1 DEF StartRequest, TypeOK, Request
    <3> QED
      BY <1>1, <1>4, <3>1, <3>2 DEF TypeOK
  <2>3. ASSUME NEW id \in DOMAIN requests, NEW pc \in {"wait", "poll"},
               FindAsyncRequest(t, id, pc)
        PROVE  CallsEnd'
    BY <1>1, <1>4, <2>3 DEF FindAsyncRequest, TypeOK, IdleCall
  <2>4. ASSUME NEW id \in DOMAIN requests, AbortRequest(t, id) PROVE CallsEnd'
    <3>1. DOMAIN requests' = DOMAIN requests
      BY <1>1, <2>4 DEF AbortRequest
    <3>2. \A i \in DOMAIN requests : requests'[i].ctx = requests[i].ctx
      BY <1>1, <2>4 DEF AbortRequest, TypeOK, Request
    <3>3. UNCHANGED call
      BY <2>4 DEF AbortRequest
    <3> QED
      BY <1>4, <3>1, <3>2, <3>3
  <2>5. ASSUME NEW id \in DOMAIN requests, DeleteRequest(t, id) PROVE CallsEnd'
    <3>1. UNCHANGED call /\ requests' = [i \in DOMAIN requests \ {id} |-> requests[i]]
      BY <2>5 DEF DeleteRequest
    <3>2. requests[id].ctx # NoCtx => result'[requests[id].ctx] # Unset
      BY <1>1, <1>3, <2>5
         DEF DeleteRequest, AbortCtx, SetResult, TypeOK, References, Unset
    <3> QED
      BY <1>4, <3>1, <3>2
  <2> QED
    BY <1>5, <2>1, <2>2, <2>3, <2>4, <2>5
       DEF LibraryStep, GetAuthorizationCode, GetIdToken
<1>6. ASSUME NEW t \in Threads, CallStep(t) PROVE CallsEnd'
  <2>1. UNCHANGED requests
    BY <1>6 DEF CallStep, StubToken, LookUpClient, CheckAuthenticated,
                SubmitRequest, WaitReturns, PollReturns, Settle
  <2> QED
    BY <1>1, <1>4, <1>6, <2>1, CallMoves
<1>7. ASSUME \/ \E k \in Clients : ReaderStep(k)
             \/ \E h \in Handlers : HandlerStep(h)
             \/ UNCHANGED vars
      PROVE  UNCHANGED <<requests, call>>
  BY <1>7 DEF ReaderStep, OnAuthReply, CompleteReply, LoseConnection,
     NumberOtherPacket, DestroyClient, HandlerStep, BeginConnect, BeginDisconnect,
     ConnectFails, ConnectUser, StopClient, FailPendingRequests, vars
<1> QED
  BY <1>4, <1>5, <1>6, <1>7 DEF Next

LEMMA ForgottenStep == IInv /\ [Next]_vars => ForgottenOnlyIfRefused'
<1> SUFFICES ASSUME IInv, [Next]_vars PROVE ForgottenOnlyIfRefused'
  OBVIOUS
<1> USE DEF tableVars, cellVars, clientVars, handlerVars
<1>1. TypeOK /\ References /\ ForgottenOnlyIfRefused
  BY DEF IInv
<1>2. \A c \in Ctxs : result'[c] = Unset => result[c] = Unset
  BY <1>1, Monotone
<1>3. NoCtx \notin Ctxs
  BY ConstantsAssumption
\* A context that is owed a result and not given one is handed on or refused.
<1>4. ASSUME refused \subseteq refused',
             \A c \in started' : c \in started \/ \E t \in Threads : Starting(t, c)',
             \A c \in Ctxs :
               /\ result'[c] = Unset
               /\ \/ Registered(c)
                  \/ \E t \in Threads : Starting(t, c)
                  \/ \E k \in Clients : Completing(k, c)
               => \/ c \in refused'
                  \/ Registered(c)'
                  \/ \E t \in Threads : Starting(t, c)'
                  \/ \E k \in Clients : Completing(k, c)'
      PROVE  ForgottenOnlyIfRefused'
  BY <1>1, <1>2, <1>4 DEF ForgottenOnlyIfRefused, Forgotten
<1>5. ASSUME UNCHANGED <<started, call, pending, reader, refused>>
      PROVE  ForgottenOnlyIfRefused'
  BY <1>4, <1>5 DEF Registered, Starting, Completing
<1>6. ASSUME NEW t \in Threads, LibraryStep(t) PROVE ForgottenOnlyIfRefused'
  <2>1. UNCHANGED <<pending, reader, refused>>
    BY <1>6 DEF LibraryStep, CreateNpAuthRequest, GetAuthorizationCode, GetIdToken,
                StartRequest, FindAsyncRequest, AbortRequest, DeleteRequest
  <2>2. ASSUME NEW id \in DOMAIN requests, NEW u, NEW pc \in {"started", "token"},
               StartRequest(t, id, u, pc)
        PROVE  ForgottenOnlyIfRefused'
    <3>1. PICK d \in Ctxs \ started :
            /\ started' = started \cup {d}
            /\ call' = [call EXCEPT ![t] =
                          [pc |-> pc, ctx |-> d, user |-> u, client |-> NoClient,
                           async |-> requests[id].async]]
      BY <2>2 DEF StartRequest
    <3>2. call[t].pc = "idle"
      BY <2>2 DEF StartRequest
    <3>3. \A s \in Threads, c \in Ctxs : Starting(s, c) => Starting(s, c)'
      BY <1>1, <3>1, <3>2 DEF Starting, TypeOK
    <3>4. Starting(t, d)'
      BY <1>1, <3>1 DEF Starting, TypeOK
    <3> QED
      BY <1>4, <2>1, <3>1, <3>3, <3>4 DEF Registered, Completing
  <2>3. ASSUME NEW id \in DOMAIN requests, NEW pc \in {"wait", "poll"},
               FindAsyncRequest(t, id, pc)
        PROVE  ForgottenOnlyIfRefused'
    <3>1. \A s \in Threads, c \in Ctxs : Starting(s, c) => Starting(s, c)'
      BY <1>1, <2>3 DEF FindAsyncRequest, Starting, TypeOK
    <3>2. UNCHANGED started
      BY <2>3 DEF FindAsyncRequest
    <3> QED
      BY <1>4, <2>1, <3>1, <3>2 DEF Registered, Completing
  <2>4. CASE UNCHANGED <<started, call>>
    BY <1>5, <2>1, <2>4
  <2> QED
    BY <1>6, <2>2, <2>3, <2>4 DEF LibraryStep, CreateNpAuthRequest,
       GetAuthorizationCode, GetIdToken, AbortRequest, DeleteRequest
<1>7. ASSUME NEW t \in Threads, CallStep(t) PROVE ForgottenOnlyIfRefused'
  <2>1. UNCHANGED <<started, reader>>
    BY <1>7 DEF CallStep, StubToken, LookUpClient, CheckAuthenticated,
                SubmitRequest, WaitReturns, PollReturns, Settle
  <2>2. pending \subseteq pending' /\ refused \subseteq refused'
    BY <1>7 DEF CallStep, StubToken, LookUpClient, CheckAuthenticated,
                SubmitRequest, WaitReturns, PollReturns, Settle, Emplace
  <2>3. \A s \in Threads \ {t}, c \in Ctxs : Starting(s, c) => Starting(s, c)'
    BY <1>1, <1>7, CallMoves DEF Starting
  <2>4. ASSUME NEW c \in Ctxs, Starting(t, c), result'[c] = Unset
        PROVE  c \in refused' \/ Registered(c)' \/ Starting(t, c)'
    <3>1. c = call[t].ctx
      BY <2>4 DEF Starting
    <3>2. ASSUME NEW r \in Results, Settle(t, r) PROVE FALSE
      BY <1>1, <2>4, <3>1, <3>2 DEF Settle, SetResult, TypeOK, Unset, Results
    <3>3. CASE SubmitRequest(t)
      <4> DEFINE e == [pkt |-> counter[call[t].client], ctx |-> call[t].ctx,
                       user |-> call[t].user, client |-> call[t].client]
      <4>1. call[t].ctx \in refused' \/ e \in pending'
        BY <3>3 DEF SubmitRequest, Emplace
      <4>2. e.ctx = c
        BY <3>1
      <4> HIDE DEF e
      <4> QED
        BY <3>1, <4>1, <4>2 DEF Registered
    <3>4. CASE LookUpClient(t) \/ CheckAuthenticated(t)
      <4>1. \/ call' = [call EXCEPT ![t].pc = "looked",
                                    ![t].client = clients[call[t].user]]
            \/ call' = [call EXCEPT ![t].pc = "checked"]
        BY <3>2, <3>4 DEF LookUpClient, CheckAuthenticated, Results
      <4>2. \/ call[t] \in [pc : {"started"}, ctx : Ctxs, user : Users,
                            client : {NoClient}, async : BOOLEAN]
            \/ call[t] \in [pc : {"looked", "checked"}, ctx : Ctxs, user : Users,
                            client : Clients, async : BOOLEAN]
        BY <1>1, <3>4 DEF LookUpClient, CheckAuthenticated, TypeOK, Calls, IdleCall
      <4>3. call \in [Threads -> Calls]
        BY <1>1 DEF TypeOK
      <4>4. call'[t].ctx = c /\ call'[t].pc \in {"looked", "checked"}
        BY <3>1, <4>1, <4>2, <4>3
      <4> QED
        BY <4>4 DEF Starting
    <3>5. ~StubToken(t)
      BY <3>2 DEF StubToken, Results
    <3>6. ~WaitReturns(t) /\ ~PollReturns(t)
      BY <2>4 DEF Starting, WaitReturns, PollReturns
    <3> QED
      BY <1>7, <3>3, <3>4, <3>5, <3>6 DEF CallStep
  <2> QED
    BY <1>4, <2>1, <2>2, <2>3, <2>4 DEF Registered, Completing
<1>8. ASSUME NEW k \in Clients, ReaderStep(k) PROVE ForgottenOnlyIfRefused'
  <2>1. UNCHANGED <<started, call, refused>>
    BY <1>8 DEF ReaderStep, OnAuthReply, CompleteReply, LoseConnection,
                NumberOtherPacket, DestroyClient
  <2>2. \A s \in Threads, c \in Ctxs : Starting(s, c) <=> Starting(s, c)'
    BY <2>1 DEF Starting
  <2>3. ASSUME NEW p \in pending, NEW r, reader[k] = IdleRead, TakeEntry(k, p, r)
        PROVE  ForgottenOnlyIfRefused'
    <3>1. \A c \in Ctxs : Registered(c) => Registered(c)' \/ c = p.ctx
      BY <2>3 DEF TakeEntry, Registered
    <3>2. Completing(k, p.ctx)'
      BY <1>1, <2>3 DEF TakeEntry, Completing, TypeOK
    <3>3. \A j \in Clients, c \in Ctxs : Completing(j, c) => Completing(j, c)'
      BY <1>1, <1>3, <2>3 DEF TakeEntry, Completing, TypeOK, IdleRead
    <3> QED
      BY <1>4, <2>1, <2>2, <3>1, <3>2, <3>3
  <2>4. CASE CompleteReply(k)
    <3>1. reader[k].result # Unset /\ result'[reader[k].ctx] # Unset
      BY <1>1, <2>4 DEF CompleteReply, SetResult, TypeOK, Reads, Results, Unset
    <3>2. \A j \in Clients, c \in Ctxs :
            Completing(j, c) /\ result'[c] = Unset => Completing(j, c)'
      BY <1>1, <2>4, <3>1 DEF CompleteReply, Completing, TypeOK
    <3>3. UNCHANGED pending
      BY <2>4 DEF CompleteReply
    <3> QED
      BY <1>4, <2>1, <2>2, <3>2, <3>3 DEF Registered
  <2>5. CASE UNCHANGED <<pending, reader>>
    BY <1>5, <2>1, <2>5
  <2> QED
    BY <1>8, <2>3, <2>4, <2>5 DEF ReaderStep, OnAuthReply, LoseConnection,
       NumberOtherPacket, DestroyClient
<1>9. ASSUME NEW h \in Handlers, HandlerStep(h) PROVE ForgottenOnlyIfRefused'
  <2>1. CASE FailPendingRequests(h)
    <3>1. UNCHANGED <<started, call, reader, refused>>
      BY <2>1 DEF FailPendingRequests
    <3>2. ASSUME NEW p \in pending, p \notin pending' PROVE result'[p.ctx] # Unset
      <4>1. p.ctx \in Ctxs
        BY <1>1 DEF TypeOK, Entries
      <4> QED
        BY <2>1, <3>2, <4>1 DEF FailPendingRequests, FailEntries, Unset
    <3> QED
      BY <1>4, <3>1, <3>2 DEF Registered, Starting, Completing
  <2>2. CASE UNCHANGED <<started, call, pending, reader, refused>>
    BY <1>5, <2>2
  <2> QED
    BY <1>9, <2>1, <2>2 DEF HandlerStep, BeginConnect, BeginDisconnect,
       ConnectFails, ConnectUser, StopClient
<1>10. CASE UNCHANGED vars
  BY <1>5, <1>10 DEF vars
<1> QED
  BY <1>6, <1>7, <1>8, <1>9, <1>10 DEF Next

-----------------------------------------------------------------------------
(* Whose code it is.                                                       *)

\* What the connector and the disconnector of a user hold.
LEMMA InTask ==
  ASSUME TypeOK, NEW h \in Handlers
  PROVE  /\ task[h].op \in {"connect", "stop", "fail"} => task[h].user \in Users
         /\ task[h].op = "stop" => task[h].client \in Clients
<1>1. task[h] \in Tasks
  BY DEF TypeOK
<1> QED
  BY <1>1 DEF Tasks, IdleTask

\* A client that was used stays so, and keeps its account.
LEMMA AccountKept ==
  ASSUME TypeOK, [Next]_vars
  PROVE  \A k \in Clients : Used(k) => clientState'[k] # "unused" /\ owner'[k] = owner[k]
<1> USE DEF tableVars, cellVars, clientVars, handlerVars, TypeOK, Used
<1>1. ASSUME NEW t \in Threads, LibraryStep(t) \/ CallStep(t)
      PROVE  UNCHANGED <<owner, clientState>>
  BY <1>1 DEF LibraryStep, CreateNpAuthRequest, GetAuthorizationCode, GetIdToken,
     StartRequest, FindAsyncRequest, AbortRequest, DeleteRequest,
     CallStep, StubToken, LookUpClient, CheckAuthenticated,
     SubmitRequest, WaitReturns, PollReturns, Settle
<1>2. ASSUME NEW k \in Clients, ReaderStep(k)
      PROVE  /\ UNCHANGED owner
             /\ \A j \in Clients : Used(j) => clientState'[j] # "unused"
  BY <1>2 DEF ReaderStep, OnAuthReply, CompleteReply, LoseConnection,
     NumberOtherPacket, DestroyClient
<1>3. ASSUME NEW h \in Handlers, HandlerStep(h), NEW j \in Clients, Used(j)
      PROVE  clientState'[j] # "unused" /\ owner'[j] = owner[j]
  BY <1>3 DEF HandlerStep, BeginConnect, BeginDisconnect, ConnectFails,
     ConnectUser, StopClient, FailPendingRequests
<1> QED
  BY <1>1, <1>2, <1>3 DEF Next, vars

\* A client is found and stopped only under its account.
LEMMA AccountsStep == IInv /\ [Next]_vars => Accounts'
<1> SUFFICES ASSUME IInv, [Next]_vars PROVE Accounts'
  OBVIOUS
<1> USE DEF tableVars, cellVars, clientVars, handlerVars
<1>1. TypeOK /\ Accounts
  BY DEF IInv
<1>2. \A k \in Clients : Used(k) => clientState'[k] # "unused" /\ owner'[k] = owner[k]
  BY <1>1, AccountKept
<1>c. \A k : Used(k) => k \in Clients
  BY DEF Used
<1>f. ASSUME NEW t \in Threads, FinishStartedRequest(t) PROVE call'[t].pc \in {"idle", "wait"}
  BY <1>1, <1>f DEF FinishStartedRequest, TypeOK, IdleCall
<1>3. ASSUME NEW t \in Threads, LibraryStep(t) PROVE Accounts'
  <2>1. UNCHANGED <<clients, task, inFlight, reader>>
    BY <1>3 DEF LibraryStep, CreateNpAuthRequest, GetAuthorizationCode, GetIdToken,
       StartRequest, FindAsyncRequest, AbortRequest, DeleteRequest
  <2>2. ASSUME NEW s \in Threads, call'[s].pc \in {"looked", "checked"}
        PROVE  call'[s] = call[s]
    <3>1. CASE UNCHANGED call
      BY <3>1
    <3>2. ASSUME NEW id \in DOMAIN requests, NEW u, NEW pc \in {"started", "token"},
                 StartRequest(t, id, u, pc)
          PROVE  call'[s] = call[s]
      BY <1>1, <2>2, <3>2 DEF StartRequest, TypeOK
    <3>3. ASSUME NEW id \in DOMAIN requests, NEW pc \in {"wait", "poll"}, FindAsyncRequest(t, id, pc)
          PROVE  call'[s] = call[s]
      BY <1>1, <2>2, <3>3 DEF FindAsyncRequest, TypeOK, IdleCall
    <3> QED
      BY <1>3, <3>1, <3>2, <3>3 DEF LibraryStep, CreateNpAuthRequest, GetAuthorizationCode, GetIdToken,
         AbortRequest, DeleteRequest
  <2> QED
    BY <1>1, <1>2, <1>c, <2>1, <2>2 DEF Accounts, Used
<1>4. ASSUME NEW t \in Threads, CallStep(t) PROVE Accounts'
  <2>1. UNCHANGED <<clients, task, reader>>
    BY <1>4 DEF CallStep, StubToken, LookUpClient, CheckAuthenticated,
       SubmitRequest, WaitReturns, PollReturns, Settle
  <2>2. ASSUME NEW j \in Clients, inFlight'[j] # {} PROVE Used(j)
    <3>1. inFlight' = inFlight \/ (SubmitRequest(t) /\ clientState[call[t].client] = "up")
      BY <1>4 DEF CallStep, StubToken, LookUpClient, CheckAuthenticated,
         SubmitRequest, WaitReturns, PollReturns, Settle
    <3> QED
      BY <1>1, <2>2, <3>1 DEF SubmitRequest, TypeOK, Accounts
  <2>3. ASSUME NEW s \in Threads, call'[s].pc \in {"looked", "checked"}
        PROVE  Used(call'[s].client) /\ owner[call'[s].client] = call'[s].user
    <3>1. CASE s # t
      BY <1>1, <1>4, <2>3, <3>1, CallMoves DEF Accounts
    <3>2. CASE s = t /\ LookUpClient(t)
      <4>1. /\ call[t].pc # "idle" /\ clients[call[t].user] # NoClient
            /\ call' = [call EXCEPT ![t].pc = "looked", ![t].client = clients[call[t].user]]
        BY <1>1, <1>f, <2>3, <3>2 DEF LookUpClient, Settle
      <4>2. call[t] \in [pc : {"started"}, ctx : Ctxs, user : Users,
                         client : {NoClient}, async : BOOLEAN]
        BY <1>1, <3>2 DEF TypeOK, Calls, IdleCall, LookUpClient
      <4>3. call'[t].client = clients[call[t].user] /\ call'[t].user = call[t].user
        BY <1>1, <4>1, <4>2 DEF TypeOK
      <4> QED
        BY <1>1, <3>2, <4>1, <4>2, <4>3 DEF Accounts
    <3>3. CASE s = t /\ CheckAuthenticated(t)
      <4>1. call' = [call EXCEPT ![t].pc = "checked"] /\ call[t].pc = "looked"
        BY <1>1, <1>f, <2>3, <3>3 DEF CheckAuthenticated, Settle
      <4>2. call[t] \in [pc : {"looked", "checked"}, ctx : Ctxs, user : Users,
                         client : Clients, async : BOOLEAN]
        BY <1>1, <4>1 DEF TypeOK, Calls, IdleCall
      <4> QED
        BY <1>1, <3>3, <4>1, <4>2 DEF Accounts, TypeOK
    <3>4. CASE s = t /\ (StubToken(t) \/ SubmitRequest(t) \/ WaitReturns(t) \/ PollReturns(t))
      <4>1. FinishStartedRequest(t) \/ call' = [call EXCEPT ![t] = IdleCall]
        BY <3>4 DEF StubToken, SubmitRequest, WaitReturns, PollReturns, Settle
      <4> QED
        BY <1>1, <1>f, <2>3, <3>4, <4>1 DEF TypeOK, IdleCall
    <3> QED
      BY <1>4, <3>1, <3>2, <3>3, <3>4 DEF CallStep
  <2> QED
    BY <1>1, <1>2, <1>c, <2>1, <2>2, <2>3 DEF Accounts, Used
<1>5. ASSUME NEW k \in Clients, ReaderStep(k) PROVE Accounts'
  <2>1. UNCHANGED <<clients, call, task>>
    BY <1>5 DEF ReaderStep, OnAuthReply, CompleteReply, LoseConnection,
       NumberOtherPacket, DestroyClient
  <2>2. ASSUME NEW j \in Clients, inFlight'[j] # {} PROVE inFlight[j] # {}
    BY <1>1, <1>5, <2>2 DEF ReaderStep, OnAuthReply, CompleteReply, LoseConnection,
       NumberOtherPacket, DestroyClient, TypeOK
  <2>3. ASSUME NEW j \in Clients, reader'[j].ctx # NoCtx PROVE Used(j)
    <3>1. ASSUME NEW n \in inFlight[k], NEW r \in ReplyResults, OnAuthReply(k, n, r) PROVE Used(j)
      BY <1>1, <2>3, <3>1 DEF OnAuthReply, TakeEntry, TypeOK, Accounts, Used
    <3>2. CASE CompleteReply(k)
      BY <1>1, <2>3, <3>2 DEF CompleteReply, TypeOK, Accounts, IdleRead
    <3>3. CASE UNCHANGED reader
      BY <1>1, <2>3, <3>3 DEF Accounts
    <3> QED
      BY <1>5, <3>1, <3>2, <3>3 DEF ReaderStep, LoseConnection, NumberOtherPacket, DestroyClient
  <2> QED
    BY <1>1, <1>2, <1>c, <2>1, <2>2, <2>3 DEF Accounts, Used
<1>6. ASSUME NEW h \in Handlers, HandlerStep(h) PROVE Accounts'
  <2>1. UNCHANGED <<call, reader>>
    BY <1>6 DEF HandlerStep, BeginConnect, BeginDisconnect, ConnectFails,
       ConnectUser, StopClient, FailPendingRequests
  <2>2. ASSUME NEW j \in Clients, inFlight'[j] # {} PROVE inFlight[j] # {}
    BY <1>1, <1>6, <2>2 DEF HandlerStep, BeginConnect, BeginDisconnect, ConnectFails,
       ConnectUser, StopClient, FailPendingRequests, TypeOK
  <2>3. ASSUME NEW u \in Users, clients'[u] # NoClient
        PROVE  /\ clients'[u] \in Clients /\ clientState'[clients'[u]] # "unused"
               /\ owner'[clients'[u]] = u
    <3>1. CASE ConnectUser(h)
      <4>1. PICK k \in Clients : /\ clientState' = [clientState EXCEPT ![k] = "up"]
                                 /\ owner' = [owner EXCEPT ![k] = task[h].user]
                                 /\ clients' = [clients EXCEPT ![task[h].user] = k]
        BY <3>1 DEF ConnectUser
      <4>2. CASE u = task[h].user
        BY <1>1, <4>1, <4>2 DEF TypeOK, Used
      <4>3. CASE u # task[h].user
        <5>1. clients'[u] = clients[u]
          BY <1>1, <4>1, <4>3 DEF TypeOK
        <5> QED
          BY <1>1, <1>2, <1>c, <2>3, <5>1 DEF Accounts
      <4> QED
        BY <4>2, <4>3
    <3>2. CASE ~ConnectUser(h)
      <4>1. clients'[u] = clients[u]
        BY <1>1, <1>6, <2>3, <3>2 DEF HandlerStep, BeginConnect, BeginDisconnect, ConnectFails,
           StopClient, FailPendingRequests, TypeOK
      <4> QED
        BY <1>1, <1>2, <1>c, <2>3, <4>1 DEF Accounts
    <3> QED
      BY <3>1, <3>2
  <2>4. ASSUME NEW g \in Handlers, task'[g].op = "stop" PROVE Used(task'[g].client)
    <3>1. CASE \E u \in Users : BeginDisconnect(h, u)
      BY <1>1, <2>4, <3>1 DEF BeginDisconnect, Accounts, TypeOK
    <3>2. CASE StopClient(h)
      BY <1>1, <2>4, <3>2 DEF StopClient, Accounts, TypeOK
    <3>3. CASE (\E u \in Users : BeginConnect(h, u)) \/ ConnectFails(h) \/ ConnectUser(h)
               \/ FailPendingRequests(h)
      BY <1>1, <2>4, <3>3 DEF BeginConnect, ConnectFails, ConnectUser, FailPendingRequests,
         Accounts, TypeOK, IdleTask
    <3> QED
      BY <1>6, <3>1, <3>2, <3>3 DEF HandlerStep
  <2> QED
    BY <1>1, <1>2, <1>c, <2>1, <2>2, <2>3, <2>4 DEF Accounts, Used
<1>7. CASE UNCHANGED vars
  BY <1>1, <1>7 DEF vars, Accounts, Used
<1> QED
  BY <1>3, <1>4, <1>5, <1>6, <1>7 DEF Next

\* A client that the user holds is stopped only by the step that takes it away.
LEMMA HeldStep == IInv /\ [Next]_vars => Held'
<1> SUFFICES ASSUME IInv, [Next]_vars PROVE Held'
  OBVIOUS
<1> USE ConstantsAssumption DEF tableVars, cellVars, clientVars, handlerVars
<1>1. TypeOK /\ Accounts /\ Held
  BY DEF IInv
<1>2. ASSUME UNCHANGED <<clients, clientState, task>> PROVE Held'
  BY <1>1, <1>2 DEF Held
<1>3. ASSUME NEW t \in Threads, LibraryStep(t) \/ CallStep(t) PROVE Held'
  BY <1>2, <1>3 DEF LibraryStep, CreateNpAuthRequest, GetAuthorizationCode, GetIdToken,
     StartRequest, FindAsyncRequest, AbortRequest, DeleteRequest,
     CallStep, StubToken, LookUpClient, CheckAuthenticated,
     SubmitRequest, WaitReturns, PollReturns, Settle
<1>4. ASSUME NEW k \in Clients, ReaderStep(k) PROVE Held'
  <2>1. UNCHANGED <<clients, task>>
    BY <1>4 DEF ReaderStep, OnAuthReply, CompleteReply, LoseConnection, NumberOtherPacket, DestroyClient
  <2>2. ASSUME NEW u \in Users, clients[u] # NoClient
        PROVE  clientState'[clients[u]] \in {"up", "dropped"}
    BY <1>1, <1>4, <2>2 DEF Held, TypeOK, ReaderStep, OnAuthReply, CompleteReply, LoseConnection,
       NumberOtherPacket, DestroyClient
  <2> QED
    BY <1>1, <2>1, <2>2 DEF Held
<1>5. ASSUME NEW h \in Handlers, HandlerStep(h) PROVE Held'
  <2>1. CASE ConnectUser(h)
    <3>1. PICK k \in Clients : /\ clientState[k] = "unused"
                               /\ clientState' = [clientState EXCEPT ![k] = "up"]
                               /\ clients' = [clients EXCEPT ![task[h].user] = k]
      BY <2>1 DEF ConnectUser
    <3>2. \A g \in Handlers : task'[g].op = "stop" => task'[g] = task[g] /\ task[g].client # k
      BY <1>1, <2>1, <3>1 DEF ConnectUser, TypeOK, IdleTask, Accounts, Used
    <3>3. \A u \in Users : clients'[u] = k \/ clients'[u] = clients[u]
      BY <1>1, <3>1 DEF TypeOK
    <3> QED
      BY <1>1, <3>1, <3>2, <3>3 DEF Held, TypeOK
  <2>2. ASSUME NEW u \in Users, BeginDisconnect(h, u) PROVE Held'
    <3>1. /\ clients[u] \in Clients /\ clients' = [clients EXCEPT ![u] = NoClient]
          /\ task' = [task EXCEPT ![h] = [op |-> "stop", user |-> u, client |-> clients[u]]]
          /\ UNCHANGED clientState
      BY <1>1, <2>2 DEF BeginDisconnect, TypeOK
    <3>2. \A v \in Users : v # u => clients[v] # clients[u]
      BY <1>1, <3>1 DEF Accounts
    <3>3. \A v \in Users : clients'[v] \in {NoClient, clients[v]} /\ clients'[u] = NoClient
      BY <1>1, <3>1 DEF TypeOK
    <3>4. ASSUME NEW g \in Handlers, NEW v \in Users, task'[g].op = "stop"
          PROVE  clients'[v] # task'[g].client
      <4>1. CASE g = h
        <5>1. task'[g].client = clients[u]
          BY <1>1, <3>1, <4>1 DEF TypeOK
        <5> QED
          BY <3>1, <3>2, <3>3, <5>1
      <4>2. CASE g # h
        <5>1. task'[g] = task[g]
          BY <1>1, <3>1, <4>2 DEF TypeOK
        <5>2. task[g].op = "stop"
          BY <3>4, <5>1
        <5>3. clients[v] # task[g].client /\ task[g].client \in Clients
          BY <1>1, <5>2 DEF Held, Accounts, Used
        <5>4. clients'[v] \in {NoClient, clients[v]}
          BY <3>3
        <5> QED
          BY <5>1, <5>3, <5>4
      <4> QED
        BY <4>1, <4>2
    <3> QED
      BY <1>1, <3>1, <3>3, <3>4 DEF Held
  <2>3. CASE StopClient(h)
    <3>1. /\ \A u \in Users : clients[u] # task[h].client
          /\ UNCHANGED clients
          /\ clientState' = [clientState EXCEPT ![task[h].client] = "stopped"]
          /\ \A g \in Handlers : task'[g].op = "stop" => task'[g] = task[g]
      BY <1>1, <2>3 DEF StopClient, Held, TypeOK
    <3> QED
      BY <1>1, <3>1 DEF Held, TypeOK
  <2>4. CASE (\E u \in Users : BeginConnect(h, u)) \/ ConnectFails(h) \/ FailPendingRequests(h)
    <3>1. /\ UNCHANGED <<clients, clientState>>
          /\ \A g \in Handlers : task'[g].op = "stop" => task'[g] = task[g]
      BY <1>1, <2>4 DEF BeginConnect, ConnectFails, FailPendingRequests, TypeOK, IdleTask
    <3> QED
      BY <1>1, <3>1 DEF Held
  <2> QED
    BY <1>5, <2>1, <2>2, <2>3, <2>4 DEF HandlerStep
<1>6. CASE UNCHANGED vars
  BY <1>2, <1>6 DEF vars
<1> QED
  BY <1>3, <1>4, <1>5, <1>6 DEF Next

\* An entry loses its client only to a sign-out or when it is counted as stranded.
LEMMA AttendedStep == IInv /\ [Next]_vars => Attended'
<1> SUFFICES ASSUME IInv, [Next]_vars PROVE Attended'
  OBVIOUS
<1> USE ConstantsAssumption DEF tableVars, cellVars, clientVars, handlerVars
<1>1. TypeOK /\ Accounts /\ Held /\ Attended /\ OneCompleter
  BY DEF IInv
<1>2. \A p \in pending : p.user \in Users /\ p.client \in Clients
  BY <1>1 DEF TypeOK, Entries
<1>3. \A k \in Clients : Used(k) => clientState'[k] # "unused" /\ owner'[k] = owner[k]
  BY <1>1, AccountKept
\* What is left to show of an entry that stays.
<1>4. ASSUME \A p \in pending' : p \in pending,
             \A p \in pending' : clientState'[p.client] = "up" => p.pkt \in inFlight'[p.client],
             \A p \in pending' : p.ctx \in stranded \/ clients[p.user] = p.client \/ SigningOut(p.user) =>
               p.ctx \in stranded' \/ clients'[p.user] = p.client \/ SigningOut(p.user)'
      PROVE  Attended'
  BY <1>1, <1>2, <1>3, <1>4 DEF Attended, Used
<1>5. ASSUME UNCHANGED <<clients, clientState, owner, pending, inFlight, stranded, task>>
      PROVE  Attended'
  BY <1>1, <1>5 DEF Attended, Used, SigningOut
<1>6. ASSUME NEW t \in Threads, LibraryStep(t) PROVE Attended'
  BY <1>5, <1>6 DEF LibraryStep, CreateNpAuthRequest, GetAuthorizationCode, GetIdToken,
     StartRequest, FindAsyncRequest, AbortRequest, DeleteRequest
<1>7. ASSUME NEW t \in Threads, CallStep(t) PROVE Attended'
  <2>1. CASE SubmitRequest(t)
    <3> DEFINE k == call[t].client
               e == [pkt |-> counter[k], ctx |-> call[t].ctx, user |-> call[t].user, client |-> k]
    <3>1. /\ k \in Clients /\ Used(k) /\ owner[k] = call[t].user
          /\ UNCHANGED <<clients, clientState, owner, task>>
          /\ stranded' = IF clients[call[t].user] = k \/ SigningOut(call[t].user) THEN stranded
                         ELSE stranded \cup {call[t].ctx}
          /\ inFlight' = IF clientState[k] = "up" THEN [inFlight EXCEPT ![k] = @ \cup {counter[k]}]
                         ELSE inFlight
      BY <1>1, <2>1 DEF SubmitRequest, Accounts, Used
    <3>2. pending' \subseteq pending \cup {e}
      BY <2>1 DEF SubmitRequest, Emplace
    <3>3. /\ e.client = k /\ e.user = call[t].user /\ e.ctx = call[t].ctx /\ e.pkt = counter[k]
          /\ \A u : SigningOut(u)' <=> SigningOut(u)
      BY <3>1 DEF SigningOut
    <3> HIDE DEF e, k
    <3>4. ASSUME NEW p \in pending' PROVE
             /\ Used(p.client)' /\ owner'[p.client] = p.user
             /\ clientState'[p.client] = "up" => p.pkt \in inFlight'[p.client]
             /\ p.ctx \in stranded' \/ clients'[p.user] = p.client \/ SigningOut(p.user)'
      <4>1. CASE p = e
        BY <1>1, <3>1, <3>3, <4>1 DEF Used, TypeOK
      <4>2. CASE p \in pending
        <5>1. inFlight[p.client] \subseteq inFlight'[p.client] /\ stranded \subseteq stranded'
          BY <1>1, <1>2, <3>1, <4>2 DEF TypeOK
        <5> QED
          BY <1>1, <3>1, <3>3, <4>2, <5>1 DEF Attended, Used
      <4> QED
        BY <3>2, <4>1, <4>2
    <3> QED
      BY <3>4 DEF Attended
  <2>2. CASE ~SubmitRequest(t)
    BY <1>5, <1>7, <2>2 DEF CallStep, StubToken, LookUpClient, CheckAuthenticated,
       WaitReturns, PollReturns, Settle
  <2> QED
    BY <2>1, <2>2
<1>8. ASSUME NEW k \in Clients, ReaderStep(k) PROVE Attended'
  <2>1. /\ UNCHANGED <<clients, task, stranded>> /\ \A u : SigningOut(u)' <=> SigningOut(u)
    BY <1>8 DEF ReaderStep, OnAuthReply, CompleteReply, LoseConnection, NumberOtherPacket,
       DestroyClient, SigningOut
  <2>2. ASSUME NEW n \in inFlight[k], NEW r \in ReplyResults, OnAuthReply(k, n, r) PROVE Attended'
    <3>1. pending' \subseteq pending /\ UNCHANGED clientState
          /\ inFlight' = [inFlight EXCEPT ![k] = @ \ {n}]
      BY <2>2 DEF OnAuthReply, TakeEntry
    <3>2. \A p \in pending' : p.pkt # n
      BY <1>1, <2>2 DEF OnAuthReply, TakeEntry, OneCompleter
    <3>3. \A p \in pending' : clientState'[p.client] = "up" => p.pkt \in inFlight'[p.client]
      BY <1>1, <1>2, <3>1, <3>2 DEF Attended, TypeOK
    <3> QED
      BY <1>4, <2>1, <3>1, <3>3
  <2>3. CASE LoseConnection(k) \/ DestroyClient(k)
    <3>1. UNCHANGED pending /\ inFlight' = [inFlight EXCEPT ![k] = {}]
          /\ \E s \in {"dropped", "stopped"} : clientState' = [clientState EXCEPT ![k] = s]
      BY <2>3 DEF LoseConnection, DestroyClient
    <3>2. \A p \in pending' : clientState'[p.client] = "up" => p.pkt \in inFlight'[p.client]
      BY <1>1, <1>2, <3>1 DEF Attended, TypeOK
    <3> QED
      BY <1>4, <2>1, <3>1, <3>2
  <2>4. CASE CompleteReply(k) \/ NumberOtherPacket(k)
    BY <1>5, <2>4 DEF CompleteReply, NumberOtherPacket
  <2> QED
    BY <1>8, <2>2, <2>3, <2>4 DEF ReaderStep
<1>9. ASSUME NEW h \in Handlers, HandlerStep(h) PROVE Attended'
  <2>1. CASE ConnectUser(h)
    <3> DEFINE u == task[h].user
    <3>1. PICK k \in Clients : /\ clientState[k] = "unused"
                               /\ clientState' = [clientState EXCEPT ![k] = "up"]
                               /\ clients' = [clients EXCEPT ![u] = k]
      BY <2>1 DEF ConnectUser
    <3>2. /\ UNCHANGED <<pending, inFlight>> /\ u \in Users
          /\ stranded' = IF SigningOut(u) THEN stranded
                         ELSE stranded \cup {p.ctx : p \in {q \in pending : q.user = u /\ q.client = clients[u]}}
          /\ \A v : SigningOut(v)' <=> SigningOut(v)
      BY <1>1, <2>1, InTask DEF ConnectUser, SigningOut, IdleTask, TypeOK
    <3> HIDE DEF u
    <3>3. \A p \in pending : p.client # k
      BY <1>1, <3>1 DEF Attended, Used
    <3>4. ASSUME NEW p \in pending', clientState'[p.client] = "up"
          PROVE  p.pkt \in inFlight'[p.client]
      <4>1. p \in pending /\ clientState'[p.client] = clientState[p.client]
        BY <1>1, <1>2, <3>1, <3>2, <3>3 DEF TypeOK
      <4> QED
        BY <1>1, <3>2, <3>4, <4>1 DEF Attended
    <3>5. ASSUME NEW p \in pending, p.ctx \in stranded \/ clients[p.user] = p.client \/ SigningOut(p.user)
          PROVE  p.ctx \in stranded' \/ clients'[p.user] = p.client \/ SigningOut(p.user)'
      <4>1. CASE p.user = u
        BY <3>2, <3>5, <4>1
      <4>2. CASE p.user # u
        <5>1. clients'[p.user] = clients[p.user]
          BY <1>1, <1>2, <3>1, <4>2 DEF TypeOK
        <5> QED
          BY <3>2, <3>5, <5>1
      <4> QED
        BY <4>1, <4>2
    <3> QED
      BY <1>4, <3>2, <3>4, <3>5
  <2>2. ASSUME NEW u \in Users, BeginDisconnect(h, u) PROVE Attended'
    <3>1. /\ UNCHANGED <<pending, inFlight, clientState, stranded>>
          /\ clients' = [clients EXCEPT ![u] = NoClient]
          /\ task[h].op = "idle"
          /\ task' = [task EXCEPT ![h] = [op |-> "stop", user |-> u, client |-> clients[u]]]
      BY <2>2 DEF BeginDisconnect
    <3>2. \A v : SigningOut(v) => SigningOut(v)'
      BY <1>1, <3>1 DEF SigningOut, TypeOK
    <3>3. SigningOut(u)'
      BY <1>1, <3>1 DEF SigningOut, TypeOK
    <3>4. \A v \in Users : v # u => clients'[v] = clients[v]
      BY <1>1, <3>1 DEF TypeOK
    <3> QED
      BY <1>1, <1>2, <1>4, <3>1, <3>2, <3>3, <3>4 DEF Attended
  <2>3. CASE StopClient(h)
    <3>1. /\ UNCHANGED <<pending, clients, stranded>>
          /\ clientState' = [clientState EXCEPT ![task[h].client] = "stopped"]
          /\ inFlight' = [inFlight EXCEPT ![task[h].client] = {}]
          /\ task[h].op = "stop" /\ task[h].client \in Clients
          /\ task' = [task EXCEPT ![h].op = "fail", ![h].client = NoClient]
      BY <1>1, <2>3, InTask DEF StopClient
    <3>2. \A v : SigningOut(v) => SigningOut(v)'
      <4>1. task[h] \in [op : {"stop"}, user : Users, client : Clients]
        BY <1>1, <3>1 DEF TypeOK, Tasks, IdleTask
      <4>2. task'[h].op = "fail" /\ task'[h].user = task[h].user
        BY <1>1, <3>1, <4>1 DEF TypeOK
      <4>3. \A g \in Handlers \ {h} : task'[g] = task[g]
        BY <1>1, <3>1 DEF TypeOK
      <4> QED
        BY <4>2, <4>3 DEF SigningOut
    <3>3. \A p \in pending' : clientState'[p.client] = "up" => p.pkt \in inFlight'[p.client]
      BY <1>1, <1>2, <3>1 DEF Attended, TypeOK
    <3> QED
      BY <1>4, <3>1, <3>2, <3>3
  <2>4. CASE FailPendingRequests(h)
    <3>1. /\ UNCHANGED <<clients, clientState, inFlight, stranded>>
          /\ pending' = pending \ {p \in pending : p.user = task[h].user}
          /\ task' = [task EXCEPT ![h] = IdleTask]
      BY <2>4 DEF FailPendingRequests, FailEntries
    <3>2. \A p \in pending' : p \in pending /\ p.user # task[h].user
      BY <3>1
    <3>3. \A v : v # task[h].user /\ SigningOut(v) => SigningOut(v)'
      BY <1>1, <3>1 DEF SigningOut, TypeOK
    <3> QED
      BY <1>1, <1>4, <3>1, <3>2, <3>3 DEF Attended
  <2>5. CASE (\E u \in Users : BeginConnect(h, u)) \/ ConnectFails(h)
    <3>1. /\ UNCHANGED <<pending, clients, clientState, inFlight, stranded>>
          /\ task[h].op \in {"idle", "connect"}
          /\ \A g \in Handlers \ {h} : task'[g] = task[g]
      BY <1>1, <2>5 DEF BeginConnect, ConnectFails, TypeOK
    <3>2. \A v : SigningOut(v) => SigningOut(v)'
      BY <3>1 DEF SigningOut
    <3> QED
      BY <1>1, <1>4, <3>1, <3>2 DEF Attended
  <2> QED
    BY <1>9, <2>1, <2>2, <2>3, <2>4, <2>5 DEF HandlerStep
<1>10. CASE UNCHANGED vars
  BY <1>5, <1>10 DEF vars
<1> QED
  BY <1>6, <1>7, <1>8, <1>9, <1>10 DEF Next

\* The user a context was started for is not forgotten; neither is a lost entry.
LEMMA RequesterKept ==
  ASSUME TypeOK, [Next]_vars
  PROVE  /\ \A c \in started : requester'[c] = requester[c]
         /\ refused \subseteq refused' /\ orphans \subseteq orphans'
         /\ started \subseteq started'
<1> USE DEF tableVars, cellVars, clientVars, handlerVars
<1>1. ASSUME NEW t \in Threads, LibraryStep(t)
      PROVE  /\ \A c \in started : requester'[c] = requester[c]
             /\ UNCHANGED <<refused, orphans>>
  BY <1>1 DEF LibraryStep, CreateNpAuthRequest, GetAuthorizationCode, GetIdToken,
     StartRequest, FindAsyncRequest, AbortRequest, DeleteRequest, TypeOK
<1>2. ASSUME NEW t \in Threads, CallStep(t)
      PROVE  UNCHANGED <<requester, orphans>> /\ refused \subseteq refused'
  BY <1>2 DEF CallStep, StubToken, LookUpClient, CheckAuthenticated,
     SubmitRequest, Emplace, WaitReturns, PollReturns, Settle
<1>3. ASSUME NEW k \in Clients, ReaderStep(k)
      PROVE  UNCHANGED <<requester, refused>> /\ orphans \subseteq orphans'
  BY <1>3, OrphanTyped DEF ReaderStep, OnAuthReply, CompleteReply, LoseConnection,
     NumberOtherPacket, DestroyClient
<1>4. ASSUME NEW h \in Handlers, HandlerStep(h)
      PROVE  UNCHANGED <<requester, refused>> /\ orphans \subseteq orphans'
  BY <1>4, OrphanTyped DEF HandlerStep, BeginConnect, BeginDisconnect, ConnectFails,
     ConnectUser, StopClient, FailPendingRequests
<1>5. started \subseteq started'
  BY Monotone
<1> QED
  BY <1>1, <1>2, <1>3, <1>4, <1>5 DEF Next, vars

\* Whom a request is for is known from its start to its entry, and to its loss.
LEMMA RequestersStep == IInv /\ [Next]_vars => Requesters'
<1> SUFFICES ASSUME IInv, [Next]_vars PROVE Requesters'
  OBVIOUS
<1> USE DEF tableVars, cellVars, clientVars, handlerVars
<1>1. TypeOK /\ Requesters /\ References
  BY DEF IInv
<1>2. /\ \A c \in started : requester'[c] = requester[c]
      /\ started \subseteq started'
  BY <1>1, RequesterKept
<1>3. ASSUME NEW t \in Threads, LibraryStep(t) PROVE Requesters'
  <2>1. UNCHANGED <<pending, refused, orphans>>
    BY <1>3 DEF LibraryStep, CreateNpAuthRequest, GetAuthorizationCode, GetIdToken,
       StartRequest, FindAsyncRequest, AbortRequest, DeleteRequest
  <2>2. ASSUME NEW s \in Threads, call'[s].pc \in {"started", "looked", "checked"}
        PROVE  requester'[call'[s].ctx] = call'[s].user
    <3>1. CASE UNCHANGED call
      BY <1>1, <1>2, <2>2, <3>1 DEF Requesters, References
    <3>2. ASSUME NEW id \in DOMAIN requests, NEW u, NEW pc \in {"started", "token"},
                 StartRequest(t, id, u, pc)
          PROVE  requester'[call'[s].ctx] = call'[s].user
      <4>1. PICK c \in Ctxs \ started :
              /\ requester' = [requester EXCEPT ![c] = u]
              /\ call' = [call EXCEPT ![t] =
                            [pc |-> pc, ctx |-> c, user |-> u, client |-> NoClient,
                             async |-> requests[id].async]]
        BY <3>2 DEF StartRequest
      <4>2. CASE s = t
        BY <1>1, <4>1, <4>2 DEF TypeOK
      <4>3. CASE s # t
        <5>1. call'[s] = call[s]
          BY <1>1, <4>1, <4>3 DEF TypeOK
        <5> QED
          BY <1>1, <1>2, <2>2, <5>1 DEF Requesters, References
      <4> QED
        BY <4>2, <4>3
    <3>3. ASSUME NEW id \in DOMAIN requests, NEW pc \in {"wait", "poll"}, FindAsyncRequest(t, id, pc)
          PROVE  call'[s] = call[s] /\ UNCHANGED requester
      BY <1>1, <2>2, <3>3 DEF FindAsyncRequest, TypeOK, IdleCall
    <3> QED
      BY <1>1, <1>2, <1>3, <2>2, <3>1, <3>2, <3>3 DEF LibraryStep, CreateNpAuthRequest,
         GetAuthorizationCode, GetIdToken, AbortRequest, DeleteRequest, Requesters
  <2> QED
    BY <1>1, <1>2, <2>1, <2>2 DEF Requesters, References
<1>4. ASSUME NEW t \in Threads, CallStep(t) PROVE Requesters'
  <2>1. UNCHANGED <<requester, started, orphans>>
    BY <1>4 DEF CallStep, StubToken, LookUpClient, CheckAuthenticated,
       SubmitRequest, WaitReturns, PollReturns, Settle
  <2>2. ASSUME NEW s \in Threads, call'[s].pc \in {"started", "looked", "checked"}
        PROVE  /\ call[s].pc \in {"started", "looked", "checked"}
               /\ call'[s].ctx = call[s].ctx /\ call'[s].user = call[s].user
    <3>1. CASE s # t
      BY <1>1, <1>4, <2>2, <3>1, CallMoves
    <3>2. CASE s = t
      BY <1>1, <1>4, <2>2, <3>2, CallMoves
    <3> QED
      BY <3>1, <3>2
  <2>3. CASE UNCHANGED <<pending, refused>>
    BY <1>1, <2>1, <2>2, <2>3 DEF Requesters
  <2>4. CASE SubmitRequest(t)
    <3>1. call[t].ctx \in started /\ requester[call[t].ctx] = call[t].user
      BY <1>1, <2>4 DEF SubmitRequest, References, Requesters
    <3>2. Emplace([pkt |-> counter[call[t].client], ctx |-> call[t].ctx, user |-> call[t].user,
                   client |-> call[t].client])
      BY <2>4 DEF SubmitRequest
    <3> QED
      BY <1>1, <2>1, <2>2, <3>1, <3>2 DEF Requesters, Emplace
  <2> QED
    BY <1>4, <2>3, <2>4 DEF CallStep, StubToken, LookUpClient, CheckAuthenticated,
       WaitReturns, PollReturns, Settle
<1>5. ASSUME UNCHANGED <<requester, started, call, refused>>, pending' \subseteq pending,
             orphans' \subseteq orphans \cup {p.ctx : p \in pending}
      PROVE  Requesters'
  <2>1. orphans' \subseteq started
    BY <1>1, <1>5 DEF Requesters, References
  <2> QED
    BY <1>1, <1>5, <2>1 DEF Requesters
<1>6. ASSUME NEW k \in Clients, ReaderStep(k) PROVE Requesters'
  <2>1. UNCHANGED <<requester, started, call, refused>> /\ pending' \subseteq pending
    BY <1>6 DEF ReaderStep, OnAuthReply, TakeEntry, CompleteReply, LoseConnection,
       NumberOtherPacket, DestroyClient
  <2>2. UNCHANGED orphans \/ \E p \in pending : Orphan({p}, inFlight')
    BY <1>6 DEF ReaderStep, OnAuthReply, CompleteReply, LoseConnection,
       NumberOtherPacket, DestroyClient
  <2>3. orphans' \subseteq orphans \cup {p.ctx : p \in pending}
    BY <2>2 DEF Orphan
  <2> QED
    BY <1>5, <2>1, <2>3
<1>7. ASSUME NEW h \in Handlers, HandlerStep(h) PROVE Requesters'
  <2>1. UNCHANGED <<requester, started, call, refused>> /\ pending' \subseteq pending
    BY <1>7 DEF HandlerStep, BeginConnect, BeginDisconnect, ConnectFails,
       ConnectUser, StopClient, FailPendingRequests, FailEntries
  <2>2. UNCHANGED orphans \/ Orphan({p \in pending : p.user = task[h].user}, inFlight)
    BY <1>7 DEF HandlerStep, BeginConnect, BeginDisconnect, ConnectFails,
       ConnectUser, StopClient, FailPendingRequests
  <2>3. orphans' \subseteq orphans \cup {p.ctx : p \in pending}
    BY <2>2 DEF Orphan
  <2> QED
    BY <1>5, <2>1, <2>3
<1>8. CASE UNCHANGED vars
  BY <1>1, <1>8 DEF vars, Requesters
<1> QED
  BY <1>3, <1>4, <1>6, <1>7, <1>8 DEF Next

\* A lost entry stays lost.
LEMMA LostStays ==
  ASSUME IInv, [Next]_vars, NEW u, Lost(u)
  PROVE  \E d \in refused' \cup orphans' : requester'[d] = u
<1>1. TypeOK /\ Requesters
  BY DEF IInv
<1> QED
  BY <1>1, RequesterKept DEF Lost, Requesters

\* An entry that leaves m_pending_auth while its packet is in flight is an orphan's.
LEMMA EntryGone ==
  ASSUME TypeOK, [Next]_vars, NEW p \in pending, p \notin pending',
         NEW k \in Clients, owner[k] = p.user, p.pkt \in inFlight[k], p.pkt \in inFlight'[k]
  PROVE  p.ctx \in orphans'
<1> USE DEF tableVars, cellVars, clientVars, handlerVars
<1>1. ASSUME NEW t \in Threads, LibraryStep(t) \/ CallStep(t) PROVE pending \subseteq pending'
  BY <1>1 DEF LibraryStep, CreateNpAuthRequest, GetAuthorizationCode, GetIdToken,
     StartRequest, FindAsyncRequest, AbortRequest, DeleteRequest,
     CallStep, StubToken, LookUpClient, CheckAuthenticated,
     SubmitRequest, Emplace, WaitReturns, PollReturns, Settle
<1>2. ASSUME NEW j \in Clients, ReaderStep(j) PROVE p.ctx \in orphans'
  <2>1. \E q \in pending : pending' = pending \ {q} /\ Orphan({q}, inFlight')
    BY <1>2 DEF ReaderStep, OnAuthReply, TakeEntry, CompleteReply, LoseConnection,
       NumberOtherPacket, DestroyClient
  <2>2. Orphan({p}, inFlight')
    BY <2>1
  <2> QED
    BY <2>2 DEF Orphan
<1>3. ASSUME NEW h \in Handlers, HandlerStep(h) PROVE p.ctx \in orphans'
  <2>1. FailPendingRequests(h)
    BY <1>3 DEF HandlerStep, BeginConnect, BeginDisconnect, ConnectFails, ConnectUser, StopClient
  <2> DEFINE failed == {q \in pending : q.user = task[h].user}
  <2>2. pending' = pending \ failed /\ Orphan(failed, inFlight)
    BY <2>1 DEF FailPendingRequests, FailEntries
  <2>3. p \in failed
    BY <2>2
  <2> QED
    BY <2>2, <2>3 DEF Orphan
<1> QED
  BY <1>1, <1>2, <1>3 DEF Next, vars

\* What a step adds to the packets in flight is the packet of a request.
LEMMA NewPacket ==
  ASSUME TypeOK, [Next]_vars, NEW k \in Clients, NEW n \in inFlight'[k], n \notin inFlight[k]
  PROVE  \E t \in Threads : SubmitRequest(t) /\ k = call[t].client /\ n = counter[k]
<1> USE DEF tableVars, cellVars, clientVars, handlerVars, TypeOK
<1>1. ASSUME NEW t \in Threads, LibraryStep(t) PROVE UNCHANGED inFlight
  BY <1>1 DEF LibraryStep, CreateNpAuthRequest, GetAuthorizationCode, GetIdToken,
     StartRequest, FindAsyncRequest, AbortRequest, DeleteRequest
<1>2. ASSUME NEW t \in Threads, CallStep(t), ~SubmitRequest(t) PROVE UNCHANGED inFlight
  BY <1>2 DEF CallStep, StubToken, LookUpClient, CheckAuthenticated, WaitReturns, PollReturns, Settle
<1>3. ASSUME NEW t \in Threads, SubmitRequest(t) PROVE k = call[t].client /\ n = counter[k]
  BY <1>3 DEF SubmitRequest
<1>4. ASSUME NEW j \in Clients, ReaderStep(j) PROVE inFlight'[k] \subseteq inFlight[k]
  BY <1>4 DEF ReaderStep, OnAuthReply, CompleteReply, LoseConnection, NumberOtherPacket, DestroyClient
<1>5. ASSUME NEW h \in Handlers, HandlerStep(h) PROVE inFlight'[k] \subseteq inFlight[k]
  BY <1>5 DEF HandlerStep, BeginConnect, BeginDisconnect, ConnectFails,
     ConnectUser, StopClient, FailPendingRequests
<1> QED
  BY <1>1, <1>2, <1>3, <1>4, <1>5 DEF Next, vars

\* A reply that may come has its entry, or the account has lost one.
LEMMA ExpectedStep == IInv /\ [Next]_vars => Expected'
<1> SUFFICES ASSUME IInv, [Next]_vars, NEW k \in Clients, NEW n \in inFlight'[k]
             PROVE  \/ \E p \in pending' : p.pkt = n /\ p.user = owner'[k]
                    \/ \E d \in refused' \cup orphans' : requester'[d] = owner'[k]
  BY DEF Expected, Lost
<1>1. TypeOK /\ Accounts /\ Requesters /\ Expected /\ References
  BY DEF IInv
<1>2. CASE n \in inFlight[k]
  <2>1. owner'[k] = owner[k]
    BY <1>1, <1>2, AccountKept DEF Accounts
  <2>2. CASE Lost(owner[k])
    BY <2>1, <2>2, LostStays
  <2>3. ASSUME NEW p \in pending, p.pkt = n, p.user = owner[k], p \notin pending'
        PROVE  p.ctx \in orphans' /\ requester'[p.ctx] = owner[k]
    <3>1. p.ctx \in orphans'
      BY <1>1, <1>2, <2>3, EntryGone
    <3>2. p.ctx \in started /\ requester[p.ctx] = owner[k]
      BY <1>1, <2>3 DEF References, Requesters
    <3> QED
      BY <1>1, <3>1, <3>2, RequesterKept
  <2> QED
    BY <1>1, <1>2, <2>1, <2>2, <2>3 DEF Expected
<1>3. CASE n \notin inFlight[k]
  <2>1. PICK t \in Threads : SubmitRequest(t) /\ k = call[t].client /\ n = counter[k]
    BY <1>1, <1>3, NewPacket
  <2>2. /\ call[t].pc = "checked" /\ owner' = owner /\ requester' = requester
        /\ Emplace([pkt |-> n, ctx |-> call[t].ctx, user |-> call[t].user, client |-> k])
    BY <2>1 DEF SubmitRequest, tableVars
  <2>3. owner[k] = call[t].user /\ requester[call[t].ctx] = call[t].user
    BY <1>1, <2>1, <2>2 DEF Accounts, Requesters
  <2>4. CASE call[t].ctx \in refused'
    BY <2>2, <2>3, <2>4
  <2>5. CASE [pkt |-> n, ctx |-> call[t].ctx, user |-> call[t].user, client |-> k] \in pending'
    BY <2>2, <2>3, <2>5
  <2> QED
    BY <2>2, <2>4, <2>5 DEF Emplace
<1> QED
  BY <1>2, <1>3

\* A reader completes a request of its account, or the account has lost one.
LEMMA HandedOverStep == IInv /\ [Next]_vars => HandedOver'
<1> SUFFICES ASSUME IInv, [Next]_vars, NEW k \in Clients, reader'[k].ctx # NoCtx
             PROVE  \/ requester'[reader'[k].ctx] = owner'[k]
                    \/ \E d \in refused' \cup orphans' : requester'[d] = owner'[k]
  BY DEF HandedOver, Lost
<1> USE DEF tableVars, cellVars, clientVars, handlerVars
<1>1. TypeOK /\ Accounts /\ Requesters /\ Expected /\ References /\ HandedOver /\ OneCompleter
  BY DEF IInv
<1>2. CASE reader'[k] = reader[k]
  <2>1. /\ reader[k].ctx \in started /\ owner'[k] = owner[k]
        /\ requester'[reader[k].ctx] = requester[reader[k].ctx]
    BY <1>1, <1>2, AccountKept, RequesterKept DEF Accounts, References
  <2>2. CASE Lost(owner[k])
    BY <2>1, <2>2, LostStays
  <2> QED
    BY <1>1, <1>2, <2>1, <2>2 DEF HandedOver
<1>3. ASSUME NEW n \in inFlight[k], NEW r \in ReplyResults, OnAuthReply(k, n, r),
             NEW p \in pending, p.pkt = n, TakeEntry(k, p, r)
      PROVE  \/ requester'[reader'[k].ctx] = owner'[k]
             \/ \E d \in refused' \cup orphans' : requester'[d] = owner'[k]
  <2>1. reader'[k].ctx = p.ctx /\ UNCHANGED <<owner, requester>>
    BY <1>1, <1>3 DEF TakeEntry, OnAuthReply, TypeOK
  <2>2. CASE Lost(owner[k])
    BY <2>1, <2>2, LostStays
  <2>3. CASE \E q \in pending : q.pkt = n /\ q.user = owner[k]
    <3>1. p.user = owner[k]
      BY <1>1, <1>3, <2>3 DEF OneCompleter
    <3> QED
      BY <1>1, <2>1, <3>1 DEF Requesters
  <2> QED
    BY <1>1, <2>2, <2>3 DEF Expected
<1>4. CASE reader'[k] # reader[k]
  <2>1. \E j \in Clients : ReaderStep(j)
    BY <1>4 DEF Next, LibraryStep, CreateNpAuthRequest, GetAuthorizationCode, GetIdToken,
       StartRequest, FindAsyncRequest, AbortRequest, DeleteRequest,
       CallStep, StubToken, LookUpClient, CheckAuthenticated,
       SubmitRequest, WaitReturns, PollReturns, Settle, HandlerStep, BeginConnect, BeginDisconnect,
       ConnectFails, ConnectUser, StopClient, FailPendingRequests, vars
  <2>2. PICK j \in Clients : ReaderStep(j)
    BY <2>1
  <2>3. ~CompleteReply(j)
    BY <1>1, <1>4 DEF CompleteReply, TypeOK, IdleRead
  <2>4. PICK n \in inFlight[j], r \in ReplyResults : OnAuthReply(j, n, r)
    BY <1>4, <2>2, <2>3 DEF ReaderStep, LoseConnection, NumberOtherPacket, DestroyClient
  <2>5. PICK p \in pending : p.pkt = n /\ TakeEntry(j, p, r)
    BY <1>4, <2>4 DEF OnAuthReply
  <2>6. j = k
    BY <1>1, <1>4, <2>5 DEF TakeEntry, TypeOK
  <2> QED
    BY <1>3, <2>4, <2>5, <2>6
<1> QED
  BY <1>2, <1>4

\* A code is written for the request in the reader's hands.
LEMMA MisdeliveredStep == IInv /\ [Next]_vars => MisdeliveredOnlyIfLost'
<1> SUFFICES ASSUME IInv, [Next]_vars, NEW c \in Ctxs, code'[c] # NoUser, code'[c] # requester'[c]
             PROVE  \E d \in refused' \cup orphans' : requester'[d] = code'[c]
  BY DEF MisdeliveredOnlyIfLost
<1> USE DEF tableVars, cellVars, clientVars, handlerVars
<1>1. TypeOK /\ References /\ HandedOver /\ MisdeliveredOnlyIfLost /\ Untouched
  BY DEF IInv
<1>2. CASE code'[c] = code[c]
  <2>1. c \in started
    BY <1>1, <1>2 DEF Untouched
  <2>2. requester'[c] = requester[c]
    BY <1>1, <2>1, RequesterKept
  <2>3. Lost(code[c])
    BY <1>1, <1>2, <2>2 DEF MisdeliveredOnlyIfLost, Lost
  <2> QED
    BY <1>2, <2>3, LostStays
<1>3. CASE code'[c] # code[c]
  <2>1. PICK k \in Clients : CompleteReply(k)
    BY <1>3 DEF Next, LibraryStep, CreateNpAuthRequest, GetAuthorizationCode, GetIdToken,
       StartRequest, FindAsyncRequest, AbortRequest, DeleteRequest,
       CallStep, StubToken, LookUpClient, CheckAuthenticated,
       SubmitRequest, WaitReturns, PollReturns, Settle, HandlerStep, BeginConnect, BeginDisconnect,
       ConnectFails, ConnectUser, StopClient, FailPendingRequests, ReaderStep, OnAuthReply,
       LoseConnection, NumberOtherPacket, DestroyClient, vars
  <2>2. /\ c = reader[k].ctx /\ code'[c] = owner[k] /\ requester' = requester
        /\ reader[k].ctx # NoCtx
    BY <1>1, <1>3, <2>1 DEF CompleteReply, WriteCode, TypeOK
  <2>3. Lost(owner[k])
    BY <1>1, <2>2 DEF HandedOver
  <2> QED
    BY <2>2, <2>3, LostStays
<1> QED
  BY <1>2, <1>3

-----------------------------------------------------------------------------
LEMMA Invariance == Spec => []IInv
<1>1. Init => IInv
  <2> SUFFICES ASSUME Init PROVE IInv
    OBVIOUS
  <2>1. TypeOK
    BY ConstantsAssumption DEF Init, TypeOK, Calls, Reads, IdleRead, Tasks, Results
  <2> QED
    BY <2>1, ConstantsAssumption
       DEF Init, IInv, References, Untouched, Tokens, Owners, OneCompleter,
           CodeWithResult, ReturnedHaveResult, CallsEnd, ForgottenOnlyIfRefused,
           Held, Attended,
           Forgotten, Starting, Registered, Completing, IdleCall, IdleRead, Unset,
           Accounts, Requesters, Expected, HandedOver, MisdeliveredOnlyIfLost, IdleTask
<1>2. IInv /\ [Next]_vars => IInv'
  <2>1. IInv /\ [Next]_vars => TypeOK'
    BY TypeStep DEF IInv
  <2> QED
    BY <2>1, ReferencesStep, UntouchedStep, OwnersStep, OneCompleterStep, CodeStep,
       ReturnedStep, CallsEndStep, ForgottenStep, HeldStep, AttendedStep, AccountsStep, RequestersStep, ExpectedStep,
       HandedOverStep, MisdeliveredStep DEF IInv
<1> QED
  BY <1>1, <1>2, PTL DEF Spec

\* A request has one completer at a time, whatever replies, sign-outs and other
\* threads do meanwhile (RequestAuthorizationCode, OnAuthReply,
\* FailPendingRequests).
THEOREM CompletedOnce == Spec => []OneCompleter
BY Invariance, PTL DEF IInv

\* The game's buffer holds a code exactly for the requests that report success
\* (SetAuthorizationCode).
THEOREM CodeMeansSuccess == Spec => []CodeOnlyOnSuccess
<1>1. IInv => CodeOnlyOnSuccess
  BY DEF IInv, CodeWithResult, CodeOnlyOnSuccess
<1> QED
  BY <1>1, Invariance, PTL

\* A thread blocked in a wait on a deleted request has its outcome
\* (DeleteNpAuthRequest, AuthRequestCtx::Wait).
THEOREM DeleteReleasesWaiters == Spec => []DeletedNeverBlocks
<1>1. IInv => DeletedNeverBlocks
  BY DEF IInv, CallsEnd, DeletedNeverBlocks
<1> QED
  BY <1>1, Invariance, PTL

\* A request without a result is in a thread's or a reader's hands, or has an entry that
\* the answer or a sign-out will end; else m_pending_auth refused it, or its entry was made
\* for or left with a client that was the user's no more (RequestAuthorizationCode,
\* ConnectUser, DisconnectUser).
THEOREM NothingElseForgotten == Spec => []UnansweredIsExplained
<1>1. ASSUME IInv PROVE UnansweredIsExplained
  <2>1. /\ TypeOK /\ ForgottenOnlyIfRefused /\ Held /\ Attended
        /\ \A p \in pending : p.user \in Users /\ p.client \in Clients
    BY <1>1 DEF IInv, TypeOK, Entries
  <2>2. ASSUME NEW p \in pending, p.ctx \notin stranded PROVE Owed(p)
    <3>1. CASE clients[p.user] = p.client
      <4>1. clientState[p.client] \in {"up", "dropped"}
        BY <2>1, <3>1, ConstantsAssumption DEF Held
      <4> QED
        BY <2>1, <2>2, <3>1, <4>1 DEF Attended, Owed
    <3> QED
      BY <2>1, <2>2, <3>1 DEF Attended, Owed
  <2>3. ASSUME NEW c \in started, result[c] = Unset, c \notin refused
        PROVE  \/ Registered(c) \/ \E t \in Threads : Starting(t, c)
               \/ \E k \in Clients : Completing(k, c)
    BY <2>1, <2>3 DEF TypeOK, ForgottenOnlyIfRefused, Forgotten
  <2> QED
    BY <2>2, <2>3 DEF UnansweredIsExplained, Registered
<1> QED
  BY <1>1, Invariance, PTL

\* A code reaches a user who did not ask for it only after a request of the account the
\* code belongs to was left without an entry for its reply (emplace, FailPendingRequests,
\* OnAuthReply, which all go by the packet id or the user alone).
THEOREM OthersCodeOnlyIfLost == Spec => []MisdeliveredOnlyIfLost
BY Invariance, PTL DEF IInv

\* No step writes into the buffer of a request whose outcome the game has seen
\* (SetAuthorizationCode tests the result under the context's mutex).
THEOREM BufferReleased == Spec => NoWriteAfterReturn
<1>1. IInv /\ [Next]_vars => [\A c \in Ctxs : c \in returned => code'[c] = code[c]]_vars
  <2> SUFFICES ASSUME IInv, [Next]_vars, NEW c \in Ctxs, c \in returned
               PROVE  code'[c] = code[c]
    OBVIOUS
  <2> USE DEF tableVars, cellVars, clientVars, handlerVars
  <2>1. result[c] # Unset /\ TypeOK
    BY DEF IInv, ReturnedHaveResult
  <2>2. ASSUME NEW k \in Clients, ReaderStep(k) PROVE code'[c] = code[c]
    BY <2>1, <2>2 DEF ReaderStep, OnAuthReply, CompleteReply, WriteCode,
       LoseConnection, NumberOtherPacket, DestroyClient, TypeOK
  <2>3. ASSUME \/ \E t \in Threads : LibraryStep(t) \/ CallStep(t)
               \/ \E h \in Handlers : HandlerStep(h)
               \/ UNCHANGED vars
        PROVE  UNCHANGED code
    BY <2>3 DEF LibraryStep, CreateNpAuthRequest, GetAuthorizationCode, GetIdToken,
       StartRequest, FindAsyncRequest, AbortRequest, DeleteRequest, CallStep,
       StubToken, LookUpClient, CheckAuthenticated, SubmitRequest, WaitReturns,
       PollReturns, Settle, HandlerStep, BeginConnect, BeginDisconnect,
       ConnectFails, ConnectUser, StopClient, FailPendingRequests, vars
  <2> QED
    BY <2>2, <2>3 DEF Next
<1> QED
  BY <1>1, Invariance, PTL DEF Spec, NoWriteAfterReturn
=============================================================================
