---------------------------- MODULE WebApi_Proofs ----------------------------
(***************************************************************************)
(* Proofs about WebApi: its types, its counters, and what the counters are *)
(* for: nothing is deleted under a call that is using it.                  *)
(***************************************************************************)
EXTENDS WebApi, FiniteSetTheorems, WellFoundedInduction, TLAPS

-----------------------------------------------------------------------------
(* The inductive invariant.                                                *)

\* Where a call may be, given what it is: its ids are of what there has been.
Nesting == {"find", "global", "inContext", "drainUser", "leaveContext", "deleted"}
HandleCalls == {"abortHandle", "deleteHandle"}
Terminating == {"list", "next", "abortHandles", "drainContext", "erase"}

Fits(x) ==
    /\ x.pc # "idle" /\ x.api # "checkTimeout" => x.c \in DOMAIN contexts
    /\ x.api = "checkTimeout" => x.pc \in {"idle", "find", "global"}
    /\ x.api \in RequestCalls \cup {"deleteRequest"} =>
          x.r \in DOMAIN requests /\ x.u = requests[x.r].u
    /\ x.api \in HandleCalls => x.h \in DOMAIN handles
    /\ x.api = "createRequest" => x.u[1] = x.c
    /\ x.api = "createUserContext" => x.user \in Users
    /\ x.nested => x.api = "terminateContext" /\ x.pc \in Nesting
    /\ x.pc = "deleted" => x.nested
    /\ x.pc = "makeUser" => x.api = "createUserContext"
    /\ x.pc \in InsideRequest => x.api \in RequestCalls \cup {"deleteRequest"}
    /\ x.pc \in {"sendCheck", "create", "make"} => x.api = "sendRequest"
    /\ x.pc \in {"http", "readDone", "leaveRequest"} => x.api # "abortRequest"
    /\ x.pc = "drainRequest" => x.api = "deleteRequest"
    /\ x.pc \in {"inHandle", "drainHandle"} => x.api \in HandleCalls
    /\ x.pc \in Terminating => x.api = "terminateContext"

CallsFit == \A t \in Threads : Fits(call[t])

\* A context's lock is held as often as it was taken.
LocksFit ==
    /\ \A c \in DOMAIN contexts : contexts[c].owner = None <=> contexts[c].depth = 0
    /\ \A t \in Threads : call[t].pc = "abortHandles" => contexts[call[t].c].owner = t

\* Who waits to delete something has marked it.
DeletersMark ==
    \A t \in Threads :
        /\ call[t].pc = "drainUser" => call[t].u \in DOMAIN users /\ users[call[t].u].deleted
        /\ call[t].pc = "drainHandle" => handles[call[t].h].deleted
        /\ call[t].pc = "drainContext" => sdk >= 400 /\ contexts[call[t].c].terminated

\* From 4.00 on who is about to erase a context is alone with it, and nobody comes in.
EraserIsAlone ==
    \A t \in Threads : call[t].pc = "erase" /\ sdk >= 400 =>
        /\ contexts[call[t].c].terminated
        /\ UsingContext(call[t].c) = {} /\ NestedIn(call[t].c) = {}

\* Nor does a context leave under a terminateContext that is deleting a user context.
NestingStays == \A t \in Threads : call[t].nested /\ sdk >= 400 => contexts[call[t].c].there

\* Only a send that does not know the method leaves half of the HTTP objects.
PartialIsBad == \A r \in DOMAIN requests : requests[r].http = "partial" => requests[r].bad

\* A thread that counts or marks is in no other call; while no two did so at once, it
\* is alone, what it has read is the count, and the count and the mark fit its place.
OuterIsIdle == \A t \in Threads : outer[t].pc # "none" => call[t].pc = "idle"
TornFits == torn => overlapped
OneOuter == ~overlapped =>
    \A t, u \in Threads : outer[t].pc # "none" /\ outer[u].pc # "none" => t = u
ReadFits == ~overlapped =>
    \A t \in Threads : outer[t].pc \in {"counted", "uncounted", "written"} => outer[t].n = active

MarkAt(x, n, mark) ==
    /\ n >= 0
    /\ x.pc \in {"create", "count", "counted", "uncount", "uncounted", "written"} => mark
    /\ x.pc \in {"uncount", "uncounted"} => n >= 1
    /\ x.pc = "clear" => n = 0
    /\ x.pc = "none" => (mark <=> n > 0)

MarkFits == ~overlapped /\ early = 0 =>
    \A t \in Threads : (\A u \in Threads \ {t} : outer[u].pc = "none") =>
        MarkAt(outer[t], active, initialized)

LibraryFits == ActiveIsTrue /\ TornFits /\ OneOuter /\ ReadFits /\ MarkFits

Inv ==
    /\ TypeOK /\ CallsFit /\ LocksFit
    /\ OuterIsIdle /\ LibraryFits
    /\ CountsAreExact
    /\ DeletersMark /\ EraserIsAlone /\ NestingStays /\ DeletionsWait
    /\ PartialIsBad /\ HttpGoesWithRequest

-----------------------------------------------------------------------------
(* Data: one element more or less, sequences, the least of a set.          *)

One(b) == IF b THEN 1 ELSE 0

\* What a call weighs in the counters of a context, a user context and a request
InC(x, c) == x.c = c /\ x.pc \in InsideContext
Nst(x, c) == x.c = c /\ x.nested
InU(x, k) == x.pc \in InsideUser /\ x.u = k
InR(x, r) == x.pc \in InsideRequest /\ x.r = r /\ Mark(x.api) = 1
W(x, c) == One(InC(x, c)) + One(Nst(x, c))

\* The constants are what the assumption says.
LEMMA BoundsNat ==
    /\ MaxContexts \in Nat /\ MaxRequests \in Nat /\ MaxHandles \in Nat
    /\ MaxCalls \in Nat /\ MaxShared \in Nat
    /\ UserIdLimit \in Nat /\ UserIdLimit > 1 /\ IsFiniteSet(Threads) /\ None \notin Threads
    /\ Apis \subseteq RequestCalls /\ \A s \in Sdks : s \in Nat
  BY WebApiAssumption

\* Every kind of thread set counted here is finite.
LEMMA Counted ==
    \A S \in SUBSET Threads : IsFiniteSet(S) /\ Cardinality(S) \in Nat
  <1>1. ASSUME NEW S \in SUBSET Threads PROVE IsFiniteSet(S) /\ Cardinality(S) \in Nat
    BY BoundsNat, FS_Subset, FS_CardinalityType
  <1> QED BY <1>1

\* A set that changes only in one element changes its size by that element.
LEMMA SizeMoves ==
    ASSUME NEW T, NEW S \in SUBSET T, NEW R \in SUBSET T, NEW t, IsFiniteSet(T), S \ {t} = R \ {t}
    PROVE  /\ Cardinality(R) = Cardinality(S) + One(t \in R) - One(t \in S)
           /\ Cardinality(R) \in Nat /\ Cardinality(S) \in Nat
  <1> DEFINE Q == S \ {t}
  <1>1. IsFiniteSet(S) /\ IsFiniteSet(R) /\ IsFiniteSet(Q)
    BY FS_Subset
  <1>2. Cardinality(S) \in Nat /\ Cardinality(R) \in Nat /\ Cardinality(Q) \in Nat
    BY <1>1, FS_CardinalityType
  <1>3. Cardinality(S) = Cardinality(Q) + One(t \in S)
    <2>1. Cardinality(Q) = IF t \in S THEN Cardinality(S) - 1 ELSE Cardinality(S)
      BY <1>1, FS_RemoveElement
    <2> QED BY <2>1, <1>2 DEF One
  <1>4. Cardinality(R) = Cardinality(Q) + One(t \in R)
    <2>1. Cardinality(R \ {t}) = IF t \in R THEN Cardinality(R) - 1 ELSE Cardinality(R)
      BY <1>1, FS_RemoveElement
    <2>2. Q = R \ {t}
      OBVIOUS
    <2> HIDE DEF Q
    <2> QED BY <2>1, <2>2, <1>2 DEF One
  <1> HIDE DEF Q
  <1> QED BY <1>2, <1>3, <1>4 DEF One

\* A set of at most as many elements as it is known to have holds no other.
LEMMA SizeBounds ==
    ASSUME NEW S \in SUBSET Threads, NEW t, NEW u \in S, u # t
    PROVE  Cardinality(S) >= 1 + One(t \in S)
  <1> DEFINE Q == S \ {u}
  <1>1. IsFiniteSet(S) /\ IsFiniteSet(Q) /\ Cardinality(S) \in Nat /\ Cardinality(Q) \in Nat
    BY Counted
  <1>2. Cardinality(S) = Cardinality(Q) + 1
    <2>1. Cardinality(Q) = Cardinality(S) - 1
      BY <1>1, FS_RemoveElement
    <2> HIDE DEF Q
    <2> QED BY <1>1, <2>1
  <1>3. CASE t \in S
    <2>1. Q # {}
      BY <1>3
    <2>2. Cardinality(Q) # 0
      BY <1>1, <2>1, FS_EmptySet
    <2> HIDE DEF Q
    <2> QED BY <1>1, <1>2, <1>3, <2>2 DEF One
  <1>4. CASE t \notin S
    <2> HIDE DEF Q
    <2> QED BY <1>1, <1>2, <1>4 DEF One
  <1> QED BY <1>3, <1>4

\* A longer sequence holds what was there and the new element.
LEMMA Longer ==
    ASSUME NEW S, NEW s \in Seq(S), NEW x \in S
    PROVE  /\ Append(s, x) \in Seq(S) /\ Len(Append(s, x)) = Len(s) + 1
           /\ DOMAIN Append(s, x) = DOMAIN s \cup {Len(s) + 1}
           /\ Append(s, x)[Len(s) + 1] = x /\ Len(s) + 1 \notin DOMAIN s
           /\ \A i \in DOMAIN s : Append(s, x)[i] = s[i]
  OBVIOUS

\* A sequence whose elements change stays a sequence.
LEMMA Mapped ==
    ASSUME NEW S, NEW s \in Seq(S), NEW f, DOMAIN f = DOMAIN s, f = [i \in DOMAIN f |-> f[i]],
           \A i \in DOMAIN s : f[i] \in S
    PROVE  f \in Seq(S) /\ Len(f) = Len(s)
  <1>1. DOMAIN f = 1 .. Len(s) /\ Len(s) \in Nat
    OBVIOUS
  <1>2. f \in [1 .. Len(s) -> S]
    BY <1>1
  <1> QED BY <1>1, <1>2

\* A nonempty set of numbers has a least one.
LEMMA LeastNumber ==
    ASSUME NEW S \in SUBSET Nat, NEW n \in S
    PROVE  \E i \in S : \A j \in S : i <= j
  <1> DEFINE D == 0 .. n
             R == StrictSubsetOrdering(D)
             T == {0 .. i : i \in S \cap D}
  <1>0. n \in S \cap D
    OBVIOUS
  <1>1. IsWellFoundedOn(R, FiniteSubsetsOf(D))
    BY FS_Interval, FS_StrictSubsetOrderingWellFounded
  <1>2. T \subseteq FiniteSubsetsOf(D) /\ T # {}
    <2>1. \A i \in S \cap D : 0 .. i \subseteq D /\ IsFiniteSet(0 .. i)
      BY FS_Interval
    <2> QED BY <1>0, <2>1 DEF FiniteSubsetsOf
  <1>3. \E x \in T : \A y \in T : <<y, x>> \notin R
    <2> HIDE DEF R, T
    <2> QED BY <1>1, <1>2, WFMin
  <1>4. PICK i \in S \cap D : \A j \in S \cap D : <<0 .. j, 0 .. i>> \notin R
    BY <1>3
  <1>5. ASSUME NEW j \in S, j < i PROVE FALSE
    <2>1. j \in S \cap D /\ 0 .. j \subseteq 0 .. i /\ i \in 0 .. i /\ i \notin 0 .. j
      BY <1>5
    <2>2. 0 .. j \in SUBSET D /\ 0 .. i \in SUBSET D
      BY <2>1
    <2>3. <<0 .. j, 0 .. i>> \in R
      BY <2>1, <2>2 DEF StrictSubsetOrdering
    <2> QED BY <1>4, <2>1, <2>3
  <1>6. \A j \in S : i <= j
    BY <1>5
  <1> QED BY <1>6

\* So the first user context of some is one of them.
LEMMA FirstUser ==
    ASSUME NEW S \in SUBSET (Nat \X Nat), S # {}
    PROVE  (CHOOSE k \in S : \A l \in S : k[2] <= l[2]) \in S
  <1> DEFINE N == {k[2] : k \in S}
  <1>1. N \in SUBSET Nat /\ N # {}
    <2>1. \A k \in S : k[2] \in Nat
      OBVIOUS
    <2> QED BY <2>1
  <1>2. PICK i \in N : \A j \in N : i <= j
    <2> HIDE DEF N
    <2> QED BY <1>1, LeastNumber
  <1>3. PICK k \in S : k[2] = i
    BY <1>2
  <1>4. \A l \in S : k[2] <= l[2]
    BY <1>2, <1>3
  <1> QED BY <1>4

\* And the last unused number is one of them.
LEMMA LastNumber ==
    ASSUME NEW top \in Nat, NEW S \in SUBSET (1 .. top), S # {}
    PROVE  (CHOOSE n \in S : \A m \in S : m <= n) \in S
  <1> DEFINE N == {top - n : n \in S}
  <1>1. N \in SUBSET Nat /\ N # {}
    <2>1. \A n \in S : top - n \in Nat
      OBVIOUS
    <2> QED BY <2>1
  <1>2. PICK i \in N : \A j \in N : i <= j
    <2> HIDE DEF N
    <2> QED BY <1>1, LeastNumber
  <1>3. PICK n \in S : i = top - n
    BY <1>2
  <1>4. ASSUME NEW m \in S PROVE m <= n
    <2>1. top - n <= top - m
      BY <1>2, <1>3
    <2> QED BY <2>1
  <1> QED BY <1>4

-----------------------------------------------------------------------------
(* What a step of a thread does.  It changes the thread's own call to z,   *)
(* and of each table only what the four relations below say.               *)

CtxMove(t, z, c, x, y) ==
    /\ y.count - y.kept - W(z, c) = x.count - x.kept - W(call[t], c)
    /\ sdk >= 400 /\ x.terminated => y.terminated
    /\ y.there => x.there
    /\ x.there /\ ~y.there => call[t].pc = "erase" /\ call[t].c = c
    /\ y.owner = None <=> y.depth = 0
    /\ x.owner \notin {t, None} => y.owner = x.owner
    /\ InC(z, c) => InC(call[t], c) \/ Nst(call[t], c) \/ (x.there /\ ~x.terminated)
    /\ Nst(z, c) => InC(call[t], c) \/ Nst(call[t], c)
    /\ z.pc = "abortHandles" /\ z.c = c => y.owner = t
    /\ z.pc = "drainContext" /\ z.c = c => sdk >= 400 /\ ~x.terminated /\ y.terminated
    /\ z.pc = "erase" /\ z.c = c /\ sdk >= 400 => y.terminated /\ x.count <= 1 /\ InC(call[t], c)

CtxMoves(t, z) ==
    /\ contexts' \in Seq(Contexts) /\ Len(contexts') <= MaxContexts
    /\ DOMAIN contexts \subseteq DOMAIN contexts'
    /\ \A c \in DOMAIN contexts' \ DOMAIN contexts :
          /\ contexts'[c] = NewContext
          /\ z.c = c => z.pc = "idle" /\ ~z.nested
    /\ \A c \in DOMAIN contexts : CtxMove(t, z, c, contexts[c], contexts'[c])

UsrMoves(t, z) ==
    /\ DOMAIN users' \subseteq Keys /\ users' \in [DOMAIN users' -> UserContexts]
    /\ \A k \in DOMAIN users' \cap DOMAIN users :
          /\ users'[k].count - One(InU(z, k)) = users[k].count - One(InU(call[t], k))
          /\ users[k].deleted => users'[k].deleted
    /\ \A k \in DOMAIN users' \ DOMAIN users : users'[k].count = 0 /\ ~InU(z, k)
    /\ \A k \in DOMAIN users \ DOMAIN users' : users[k].count <= One(InU(call[t], k))
    /\ z.pc \in InsideUser => z.u \in DOMAIN users'
    /\ z.pc = "drainUser" => z.u \in DOMAIN users /\ ~users[z.u].deleted /\ users'[z.u].deleted

\* What the http properties say of one request
HttpFine(q) ==
    /\ q.http = "partial" => q.bad
    /\ q.aborted /\ q.http = "whole" => q.told \/ q.late
    /\ q.orphan => q.bad \/ q.twice
    /\ ~q.there /\ q.http # "none" => q.cleared \/ q.below > 0

ReqMove(t, z, r, x, y) ==
    /\ y.u = x.u /\ y.below >= x.below
    /\ y.count + y.below - One(InR(z, r)) = x.count + x.below - One(InR(call[t], r))
    /\ y.there => x.there
    /\ x.there /\ ~y.there =>
          \/ ~InR(z, r) /\ x.count <= One(InR(call[t], r))
          \/ ~InR(z, r) /\ x.u \in DOMAIN users \ DOMAIN users'
    /\ InR(z, r) => InR(call[t], r) \/ x.there
    /\ HttpFine(y)

ReqMoves(t, z) ==
    /\ requests' \in Seq(Requests) /\ DOMAIN requests \subseteq DOMAIN requests'
    /\ \A r \in DOMAIN requests' \ DOMAIN requests :
          \E bad \in BOOLEAN : /\ requests'[r] = NewRequest(call[t].u, bad) /\ ~InR(z, r)
                               /\ call[t].u[1] \in DOMAIN contexts
    /\ \A r \in DOMAIN requests : ReqMove(t, z, r, requests[r], requests'[r])

HdlMoves(t, z) ==
    /\ handles' \in Seq(Handles) /\ DOMAIN handles \subseteq DOMAIN handles'
    /\ \A h \in DOMAIN handles' \ DOMAIN handles : handles'[h].c \in DOMAIN contexts
    /\ \A h \in DOMAIN handles :
          handles'[h].c = handles[h].c /\ (handles[h].deleted => handles'[h].deleted)
    /\ z.pc = "drainHandle" => z.h \in DOMAIN handles /\ ~handles[z.h].deleted /\ handles'[z.h].deleted

LibMoves(t) ==
    /\ active' \in Int /\ early' \in Nat /\ initialized' \in BOOLEAN
    /\ torn' \in BOOLEAN /\ overlapped' \in BOOLEAN /\ outer' \in [Threads -> Outers]
    /\ \A u \in Threads : outer'[u].pc # outer[u].pc => call'[u].pc = "idle"
    /\ LibraryFits'

RestMoves(t) ==
    sdk' = sdk /\ userCount' \in 0 .. UserIdLimit - 1 /\ glock' \in Threads \cup {None} /\ calls' \in 0 .. MaxCalls

Moves(t, z) ==
    /\ call' = [call EXCEPT ![t] = z] /\ z \in Calls /\ Fits(z)'
    /\ CtxMoves(t, z) /\ UsrMoves(t, z) /\ ReqMoves(t, z) /\ HdlMoves(t, z)
    /\ LibMoves(t) /\ RestMoves(t)

-----------------------------------------------------------------------------
(* Such a step keeps the invariant.                                        *)

\* The conjuncts of the invariant that speak of the types
LEMMA Typed ==
    ASSUME Inv
    PROVE  /\ sdk \in Nat /\ contexts \in Seq(Contexts) /\ Len(contexts) <= MaxContexts
           /\ DOMAIN contexts = 1 .. Len(contexts) /\ Len(contexts) \in Nat
           /\ \A c \in DOMAIN contexts : contexts[c] \in Contexts /\ c \in 1 .. MaxContexts
           /\ DOMAIN users \subseteq Keys /\ users \in [DOMAIN users -> UserContexts]
           /\ \A k \in DOMAIN users : users[k] \in UserContexts
           /\ requests \in Seq(Requests)
           /\ \A r \in DOMAIN requests :
                 requests[r] \in Requests /\ requests[r].u[1] \in DOMAIN contexts
           /\ handles \in Seq(Handles)
           /\ \A h \in DOMAIN handles :
                 handles[h] \in Handles /\ handles[h].c \in DOMAIN contexts
           /\ call \in [Threads -> Calls] /\ \A t \in Threads : call[t] \in Calls /\ Fits(call[t])
           /\ active \in Int /\ early \in Nat /\ initialized \in BOOLEAN
           /\ torn \in BOOLEAN /\ overlapped \in BOOLEAN /\ outer \in [Threads -> Outers]
           /\ glock \in Threads \cup {None} /\ calls \in 0 .. MaxCalls
           /\ userCount \in 0 .. UserIdLimit - 1
  <1>1. TypeOK /\ CallsFit
    BY DEF Inv
  <1>2. \A c \in DOMAIN contexts : contexts[c] \in Contexts /\ c \in 1 .. MaxContexts
    BY <1>1, BoundsNat DEF TypeOK
  <1>3. \A r \in DOMAIN requests : requests[r] \in Requests
    BY <1>1 DEF TypeOK
  <1>4. \A h \in DOMAIN handles : handles[h] \in Handles
    BY <1>1 DEF TypeOK
  <1> QED BY <1>1, <1>2, <1>3, <1>4, BoundsNat DEF TypeOK, CallsFit

\* Only the thread's own call changes.
LEMMA Others ==
    ASSUME NEW t \in Threads, NEW z, Inv, Moves(t, z)
    PROVE  /\ call'[t] = z /\ call' \in [Threads -> Calls]
           /\ \A u \in Threads : u # t => call'[u] = call[u]
  BY Typed DEF Moves

\* What a call may be does not depend on what others do.
LEMMA CallsFitStays ==
    ASSUME NEW t \in Threads, NEW z, Inv, Moves(t, z)
    PROVE  CallsFit'
  <1>1. ASSUME NEW u \in Threads, u # t PROVE Fits(call[u])'
    <2>1. PICK x : x = call[u]
      OBVIOUS
    <2>2. Fits(x) /\ x = call'[u]
      BY <1>1, <2>1, Others, Typed
    <2>3. DOMAIN contexts \subseteq DOMAIN contexts'
      BY DEF Moves, CtxMoves
    <2>4. /\ DOMAIN requests \subseteq DOMAIN requests'
          /\ \A r \in DOMAIN requests : requests'[r].u = requests[r].u
      BY DEF Moves, ReqMoves, ReqMove
    <2>5. DOMAIN handles \subseteq DOMAIN handles'
      BY DEF Moves, HdlMoves
    <2>6. Fits(x)'
      BY <2>2, <2>3, <2>4, <2>5 DEF Fits
    <2> QED BY <2>2, <2>6
  <1>2. Fits(call[t])'
    BY Others DEF Moves
  <1> QED BY <1>1, <1>2 DEF CallsFit

\* The types
LEMMA TypesStay ==
    ASSUME NEW t \in Threads, NEW z, Inv, Moves(t, z)
    PROVE  TypeOK'
  <1>1. call' \in [Threads -> Calls]
    BY Others
  <1>2. contexts' \in Seq(Contexts) /\ Len(contexts') <= MaxContexts /\ DOMAIN contexts \subseteq DOMAIN contexts'
    BY DEF Moves, CtxMoves
  <1>3. DOMAIN users' \subseteq Keys /\ users' \in [DOMAIN users' -> UserContexts]
    BY DEF Moves, UsrMoves
  <1>4. requests' \in Seq(Requests) /\ \A r \in DOMAIN requests' : requests'[r].u[1] \in DOMAIN contexts'
    <2>1. ASSUME NEW r \in DOMAIN requests PROVE requests'[r].u[1] \in DOMAIN contexts'
      BY <1>2, Typed DEF Moves, ReqMoves, ReqMove
    <2>2. ASSUME NEW r \in DOMAIN requests' \ DOMAIN requests PROVE requests'[r].u[1] \in DOMAIN contexts'
      <3>1. PICK bad \in BOOLEAN : requests'[r] = NewRequest(call[t].u, bad) /\ call[t].u[1] \in DOMAIN contexts
        BY <2>2 DEF Moves, ReqMoves
      <3> QED BY <3>1, <1>2 DEF NewRequest
    <2> QED BY <2>1, <2>2 DEF Moves, ReqMoves
  <1>5. handles' \in Seq(Handles) /\ \A h \in DOMAIN handles' : handles'[h].c \in DOMAIN contexts'
    <2>1. ASSUME NEW h \in DOMAIN handles' PROVE handles'[h].c \in DOMAIN contexts'
      BY <1>2, Typed DEF Moves, HdlMoves
    <2> QED BY <2>1 DEF Moves, HdlMoves
  <1>6. /\ active' \in Int /\ early' \in Nat /\ initialized' \in BOOLEAN
        /\ torn' \in BOOLEAN /\ overlapped' \in BOOLEAN /\ outer' \in [Threads -> Outers]
    BY DEF Moves, LibMoves
  <1>7. sdk' \in Sdks /\ userCount' \in 0 .. UserIdLimit - 1 /\ glock' \in Threads \cup {None} /\ calls' \in 0 .. MaxCalls
    BY DEF Moves, RestMoves, Inv, TypeOK
  <1> QED BY <1>1, <1>2, <1>3, <1>4, <1>5, <1>6, <1>7 DEF TypeOK

\* The locks
LEMMA LocksStay ==
    ASSUME NEW t \in Threads, NEW z, Inv, Moves(t, z)
    PROVE  LocksFit'
  <1>1. ASSUME NEW c \in DOMAIN contexts' PROVE contexts'[c].owner = None <=> contexts'[c].depth = 0
    <2>1. CASE c \in DOMAIN contexts
      BY <1>1, <2>1 DEF Moves, CtxMoves, CtxMove
    <2>2. CASE c \notin DOMAIN contexts
      BY <1>1, <2>2 DEF Moves, CtxMoves, NewContext
    <2> QED BY <2>1, <2>2
  <1>2. ASSUME NEW u \in Threads, call'[u].pc = "abortHandles" PROVE contexts'[call'[u].c].owner = u
    <2>1. CASE u = t
      <3>1. call'[u] = z
        BY <2>1, Others
      <3>2. Fits(z)' /\ z.pc = "abortHandles"
        BY <1>2, <3>1 DEF Moves
      <3>3. z.c \in DOMAIN contexts'
        BY <3>2 DEF Fits
      <3>4. z.c \in DOMAIN contexts
        BY <3>2, <3>3 DEF Moves, CtxMoves
      <3>5. CtxMove(t, z, z.c, contexts[z.c], contexts'[z.c])
        BY <3>4 DEF Moves, CtxMoves
      <3> QED BY <3>5, <3>2, <3>1, <2>1 DEF CtxMove
    <2>2. CASE u # t
      <3>1. call'[u] = call[u]
        BY <2>2, Others
      <3>2. PICK c : c = call[u].c
        OBVIOUS
      <3>3. c \in DOMAIN contexts /\ contexts[c].owner = u
        BY <1>2, <3>1, <3>2, Typed DEF Fits, Inv, LocksFit
      <3>4. CtxMove(t, z, c, contexts[c], contexts'[c])
        BY <3>3 DEF Moves, CtxMoves
      <3>5. u \notin {t, None}
        BY <2>2, BoundsNat
      <3> QED BY <3>1, <3>2, <3>3, <3>4, <3>5 DEF CtxMove
    <2> QED BY <2>1, <2>2
  <1> QED BY <1>1, <1>2 DEF LocksFit

\* How many are inside a context, a user context, a request
LEMMA SetsMove ==
    ASSUME NEW t \in Threads, NEW z, Inv, Moves(t, z), NEW i
    PROVE  /\ Cardinality(UsingContext(i))' =
                 Cardinality(UsingContext(i)) + One(InC(z, i)) - One(InC(call[t], i))
           /\ Cardinality(NestedIn(i))' =
                 Cardinality(NestedIn(i)) + One(Nst(z, i)) - One(Nst(call[t], i))
           /\ Cardinality(UsingUser(i))' =
                 Cardinality(UsingUser(i)) + One(InU(z, i)) - One(InU(call[t], i))
           /\ Cardinality(UsingRequest(i))' =
                 Cardinality(UsingRequest(i)) + One(InR(z, i)) - One(InR(call[t], i))
  <1>0. IsFiniteSet(Threads)
    BY BoundsNat
  <1>1. Cardinality(UsingContext(i)') =
           Cardinality(UsingContext(i)) + One(InC(z, i)) - One(InC(call[t], i))
    <2> DEFINE S == UsingContext(i)
               R == UsingContext(i)'
    <2>1. S \in SUBSET Threads /\ R \in SUBSET Threads
      BY DEF UsingContext
    <2>2. S \ {t} = R \ {t}
      BY Others DEF UsingContext
    <2>3. (t \in S <=> InC(call[t], i)) /\ (t \in R <=> InC(z, i))
      BY Others DEF UsingContext, InC
    <2> HIDE DEF S, R
    <2>4. Cardinality(R) = Cardinality(S) + One(t \in R) - One(t \in S)
      BY <1>0, <2>1, <2>2, SizeMoves
    <2>5. Cardinality(R) = Cardinality(S) + One(InC(z, i)) - One(InC(call[t], i))
      BY <2>3, <2>4 DEF One
    <2> QED BY <2>5 DEF R, S
  <1>2. Cardinality(NestedIn(i)') =
           Cardinality(NestedIn(i)) + One(Nst(z, i)) - One(Nst(call[t], i))
    <2> DEFINE S == NestedIn(i)
               R == NestedIn(i)'
    <2>1. S \in SUBSET Threads /\ R \in SUBSET Threads
      BY DEF NestedIn
    <2>2. S \ {t} = R \ {t}
      BY Others DEF NestedIn
    <2>3. (t \in S <=> Nst(call[t], i)) /\ (t \in R <=> Nst(z, i))
      BY Others DEF NestedIn, Nst
    <2> HIDE DEF S, R
    <2>4. Cardinality(R) = Cardinality(S) + One(t \in R) - One(t \in S)
      BY <1>0, <2>1, <2>2, SizeMoves
    <2>5. Cardinality(R) = Cardinality(S) + One(Nst(z, i)) - One(Nst(call[t], i))
      BY <2>3, <2>4 DEF One
    <2> QED BY <2>5 DEF R, S
  <1>3. Cardinality(UsingUser(i)') =
           Cardinality(UsingUser(i)) + One(InU(z, i)) - One(InU(call[t], i))
    <2> DEFINE S == UsingUser(i)
               R == UsingUser(i)'
    <2>1. S \in SUBSET Threads /\ R \in SUBSET Threads
      BY DEF UsingUser
    <2>2. S \ {t} = R \ {t}
      BY Others DEF UsingUser
    <2>3. (t \in S <=> InU(call[t], i)) /\ (t \in R <=> InU(z, i))
      BY Others DEF UsingUser, InU
    <2> HIDE DEF S, R
    <2>4. Cardinality(R) = Cardinality(S) + One(t \in R) - One(t \in S)
      BY <1>0, <2>1, <2>2, SizeMoves
    <2>5. Cardinality(R) = Cardinality(S) + One(InU(z, i)) - One(InU(call[t], i))
      BY <2>3, <2>4 DEF One
    <2> QED BY <2>5 DEF R, S
  <1>4. Cardinality(UsingRequest(i)') =
           Cardinality(UsingRequest(i)) + One(InR(z, i)) - One(InR(call[t], i))
    <2> DEFINE S == UsingRequest(i)
               R == UsingRequest(i)'
    <2>1. S \in SUBSET Threads /\ R \in SUBSET Threads
      BY DEF UsingRequest
    <2>2. S \ {t} = R \ {t}
      BY Others DEF UsingRequest, Marks
    <2>3. (t \in S <=> InR(call[t], i)) /\ (t \in R <=> InR(z, i))
      BY Others DEF UsingRequest, Marks, InR
    <2> HIDE DEF S, R
    <2>4. Cardinality(R) = Cardinality(S) + One(t \in R) - One(t \in S)
      BY <1>0, <2>1, <2>2, SizeMoves
    <2>5. Cardinality(R) = Cardinality(S) + One(InR(z, i)) - One(InR(call[t], i))
      BY <2>3, <2>4 DEF One
    <2> QED BY <2>5 DEF R, S
  <1> QED BY <1>1, <1>2, <1>3, <1>4

\* The counted calls of a thread set are numbers.
LEMMA CountsNat ==
    \A i : /\ Cardinality(UsingContext(i)) \in Nat /\ Cardinality(NestedIn(i)) \in Nat
           /\ Cardinality(UsingUser(i)) \in Nat /\ Cardinality(UsingRequest(i)) \in Nat
  <1>1. \A i : /\ UsingContext(i) \in SUBSET Threads /\ NestedIn(i) \in SUBSET Threads
               /\ UsingUser(i) \in SUBSET Threads /\ UsingRequest(i) \in SUBSET Threads
    BY DEF UsingContext, NestedIn, UsingUser, UsingRequest
  <1> QED BY <1>1, Counted

\* Nobody is inside what there is not.
LEMMA NobodyInside ==
    ASSUME Inv
    PROVE  /\ \A c : c \notin DOMAIN contexts =>
                 Cardinality(UsingContext(c)) = 0 /\ Cardinality(NestedIn(c)) = 0
           /\ \A k : k \notin DOMAIN users => Cardinality(UsingUser(k)) = 0
           /\ \A r : r \notin DOMAIN requests => Cardinality(UsingRequest(r)) = 0
  <1>0. Cardinality({}) = 0
    BY FS_EmptySet
  <1>1. ASSUME NEW c, c \notin DOMAIN contexts PROVE UsingContext(c) = {} /\ NestedIn(c) = {}
    <2>1. ASSUME NEW u \in Threads PROVE u \notin UsingContext(c) /\ u \notin NestedIn(c)
      <3>1. Fits(call[u])
        BY Typed
      <3>2. PICK x : x = call[u]
        OBVIOUS
      <3>3. Fits(x) /\ (u \in UsingContext(c) => InC(x, c)) /\ (u \in NestedIn(c) => Nst(x, c))
        BY <3>1, <3>2 DEF UsingContext, NestedIn, InC, Nst
      <3>4. ~InC(x, c) /\ ~Nst(x, c)
        BY <3>3, <1>1 DEF Fits, InC, Nst, InsideContext, InsideUser, InsideRequest, Nesting
      <3> QED BY <3>3, <3>4
    <2> QED BY <2>1 DEF UsingContext, NestedIn
  <1>2. ASSUME NEW k, k \notin DOMAIN users PROVE UsingUser(k) = {}
    BY <1>2 DEF Inv, DeletionsWait, InUseStays, UsingUser
  <1>3. ASSUME NEW r, r \notin DOMAIN requests PROVE UsingRequest(r) = {}
    <2>1. ASSUME NEW u \in UsingRequest(r) PROVE FALSE
      <3>1. Fits(call[u]) /\ call[u].pc \in InsideRequest /\ call[u].r = r
        BY Typed DEF UsingRequest
      <3> QED BY <3>1, <1>3 DEF Fits
    <2> QED BY <2>1
  <1> QED BY <1>0, <1>1, <1>2, <1>3

\* The counters
LEMMA CountsStay ==
    ASSUME NEW t \in Threads, NEW z, Inv, Moves(t, z)
    PROVE  CountsAreExact'
  <1>0. CountsAreExact
    BY DEF Inv
  <1>1. ASSUME NEW c \in DOMAIN contexts'
        PROVE  contexts'[c].count = Cardinality(UsingContext(c))' + Cardinality(NestedIn(c))' + contexts'[c].kept
    <2>1. CASE c \in DOMAIN contexts
      <3>1. CtxMove(t, z, c, contexts[c], contexts'[c])
        BY <2>1 DEF Moves, CtxMoves
      <3>2. contexts'[c].count - contexts'[c].kept - W(z, c) = contexts[c].count - contexts[c].kept - W(call[t], c)
        BY <3>1 DEF CtxMove
      <3>3. contexts[c].count = Cardinality(UsingContext(c)) + Cardinality(NestedIn(c)) + contexts[c].kept
        BY <1>0, <2>1 DEF CountsAreExact
      <3>4. contexts'[c] \in Contexts /\ contexts[c] \in Contexts
        BY <2>1, <1>1, Typed DEF Moves, CtxMoves
      <3>5. /\ contexts'[c].count \in Int /\ contexts'[c].kept \in Int
            /\ contexts[c].count \in Int /\ contexts[c].kept \in Int
        BY <3>4 DEF Contexts
      <3>6. \A b : One(b) \in Int
        BY DEF One
      <3> QED BY <3>2, <3>3, <3>5, <3>6, SetsMove, CountsNat DEF W
    <2>2. CASE c \notin DOMAIN contexts
      <3>1. contexts'[c] = NewContext /\ ~InC(z, c) /\ ~Nst(z, c)
        BY <1>1, <2>2 DEF Moves, CtxMoves, InC, Nst, InsideContext, InsideUser, InsideRequest
      <3>2. Cardinality(UsingContext(c)) = 0 /\ Cardinality(NestedIn(c)) = 0
        BY <2>2, NobodyInside
      <3>3. ~InC(call[t], c) /\ ~Nst(call[t], c)
        <4>1. t \notin UsingContext(c) /\ t \notin NestedIn(c)
          <5>1. UsingContext(c) \in SUBSET Threads /\ NestedIn(c) \in SUBSET Threads
            BY DEF UsingContext, NestedIn
          <5>2. UsingContext(c) = {} /\ NestedIn(c) = {}
            BY <5>1, <3>2, Counted, FS_EmptySet
          <5> QED BY <5>2
        <4> QED BY <4>1 DEF UsingContext, NestedIn, InC, Nst
      <3>4. contexts'[c].count = 0 /\ contexts'[c].kept = 0
        BY <3>1 DEF NewContext
      <3> QED BY <3>1, <3>2, <3>3, <3>4, SetsMove DEF One
    <2> QED BY <2>1, <2>2
  <1>2. ASSUME NEW k \in DOMAIN users' PROVE users'[k].count = Cardinality(UsingUser(k))'
    <2>1. CASE k \in DOMAIN users
      <3>1. users'[k].count - One(InU(z, k)) = users[k].count - One(InU(call[t], k))
        BY <1>2, <2>1 DEF Moves, UsrMoves
      <3>2. users[k].count = Cardinality(UsingUser(k))
        BY <1>0, <2>1 DEF CountsAreExact
      <3>3. users'[k] \in UserContexts
        BY <1>2 DEF Moves, UsrMoves
      <3>4. users'[k].count \in Int
        BY <3>3 DEF UserContexts
      <3>5. \A b : One(b) \in Int
        BY DEF One
      <3>6. Cardinality(UsingUser(k))' = Cardinality(UsingUser(k)) + One(InU(z, k)) - One(InU(call[t], k))
        BY SetsMove
      <3>7. users[k].count \in Int
        BY <3>2, CountsNat
      <3> QED BY <3>1, <3>2, <3>4, <3>5, <3>6, <3>7
    <2>2. CASE k \notin DOMAIN users
      <3>1. users'[k].count = 0 /\ ~InU(z, k)
        BY <1>2, <2>2 DEF Moves, UsrMoves
      <3>2. Cardinality(UsingUser(k)) = 0
        BY <2>2, NobodyInside
      <3>3. ~InU(call[t], k)
        BY <2>2 DEF Inv, DeletionsWait, InUseStays, InU
      <3> QED BY <3>1, <3>2, <3>3, SetsMove DEF One
    <2> QED BY <2>1, <2>2
  <1>3. ASSUME NEW r \in DOMAIN requests'
        PROVE  requests'[r].count = Cardinality(UsingRequest(r))' - requests'[r].below
    <2>1. CASE r \in DOMAIN requests
      <3>1. ReqMove(t, z, r, requests[r], requests'[r])
        BY <2>1 DEF Moves, ReqMoves
      <3>2. requests'[r].count + requests'[r].below - One(InR(z, r)) = requests[r].count + requests[r].below - One(InR(call[t], r))
        BY <3>1 DEF ReqMove
      <3>3. requests[r].count = Cardinality(UsingRequest(r)) - requests[r].below
        BY <1>0, <2>1 DEF CountsAreExact
      <3>4. requests'[r] \in Requests /\ requests[r] \in Requests
        BY <2>1, <1>3, Typed DEF Moves, ReqMoves
      <3>5. /\ requests'[r].count \in Int /\ requests'[r].below \in Int
            /\ requests[r].count \in Int /\ requests[r].below \in Int
        BY <3>4 DEF Requests
      <3>6. \A b : One(b) \in Int
        BY DEF One
      <3>7. Cardinality(UsingRequest(r))' = Cardinality(UsingRequest(r)) + One(InR(z, r)) - One(InR(call[t], r))
        BY SetsMove
      <3>8. Cardinality(UsingRequest(r)) \in Int
        BY CountsNat
      <3> QED BY <3>2, <3>3, <3>5, <3>6, <3>7, <3>8
    <2>2. CASE r \notin DOMAIN requests
      <3>1. PICK bad \in BOOLEAN : requests'[r] = NewRequest(call[t].u, bad) /\ ~InR(z, r)
        BY <1>3, <2>2 DEF Moves, ReqMoves
      <3>2. Cardinality(UsingRequest(r)) = 0
        BY <2>2, NobodyInside
      <3>3. ~InR(call[t], r)
        BY <2>2, Typed DEF Fits, InR
      <3>4. requests'[r].count = 0 /\ requests'[r].below = 0
        BY <3>1 DEF NewRequest
      <3> QED BY <3>1, <3>2, <3>3, <3>4, SetsMove DEF One
    <2> QED BY <2>1, <2>2
  <1> QED BY <1>1, <1>2, <1>3 DEF CountsAreExact

\* Who counts or marks is still in no other call.
LEMMA OuterStays ==
    ASSUME NEW t \in Threads, NEW z, Inv, Moves(t, z),
           call[t].pc # "idle" \/ outer[t].pc = "none" \/ z = call[t]
    PROVE  OuterIsIdle'
  <1>1. ASSUME NEW u \in Threads, outer'[u].pc # "none", outer'[u].pc = outer[u].pc
        PROVE  call'[u].pc = "idle"
    <2>1. call[u].pc = "idle"
      BY <1>1 DEF Inv, OuterIsIdle
    <2>2. u = t => z = call[t]
      BY <1>1, <2>1
    <2> QED BY <2>1, <2>2, Others
  <1>2. \A u \in Threads : outer'[u].pc # outer[u].pc => call'[u].pc = "idle"
    BY DEF Moves, LibMoves
  <1> QED BY <1>1, <1>2 DEF OuterIsIdle

\* Another call inside a context, a user context or a request is counted there.
LEMMA OthersCount ==
    ASSUME NEW t \in Threads, NEW u \in Threads, u # t, Inv
    PROVE  /\ \A c \in DOMAIN contexts :
                 /\ InC(call[u], c) => contexts[c].count >= 1 + One(InC(call[t], c))
                 /\ Nst(call[u], c) => contexts[c].count >= 1 + One(InC(call[t], c))
           /\ \A k \in DOMAIN users : InU(call[u], k) => users[k].count >= 1 + One(InU(call[t], k))
           /\ \A r \in DOMAIN requests :
                 InR(call[u], r) => requests[r].count + requests[r].below >= 1 + One(InR(call[t], r))
  <1>0. CountsAreExact
    BY DEF Inv
  <1>1. ASSUME NEW c \in DOMAIN contexts
        PROVE  /\ InC(call[u], c) => contexts[c].count >= 1 + One(InC(call[t], c))
               /\ Nst(call[u], c) => contexts[c].count >= 1 + One(InC(call[t], c))
    <2>1. contexts[c].count = Cardinality(UsingContext(c)) + Cardinality(NestedIn(c)) + contexts[c].kept
      BY <1>0 DEF CountsAreExact
    <2>2. contexts[c].kept \in Nat
      BY Typed DEF Contexts
    <2>3. Cardinality(UsingContext(c)) \in Nat /\ Cardinality(NestedIn(c)) \in Nat
      BY CountsNat
    <2>4. UsingContext(c) \in SUBSET Threads /\ NestedIn(c) \in SUBSET Threads
      BY DEF UsingContext, NestedIn
    <2>5. /\ t \in UsingContext(c) <=> InC(call[t], c)
          /\ u \in UsingContext(c) <=> InC(call[u], c)
          /\ u \in NestedIn(c) <=> Nst(call[u], c)
      BY DEF UsingContext, NestedIn, InC, Nst
    <2>6. ASSUME InC(call[u], c) PROVE contexts[c].count >= 1 + One(InC(call[t], c))
      <3>1. Cardinality(UsingContext(c)) >= 1 + One(t \in UsingContext(c))
        BY <2>4, <2>5, <2>6, SizeBounds
      <3> QED BY <2>1, <2>2, <2>3, <2>5, <3>1 DEF One
    <2>7. ASSUME Nst(call[u], c) PROVE contexts[c].count >= 1 + One(InC(call[t], c))
      <3>1. Cardinality(NestedIn(c)) >= 1
        <4>1. NestedIn(c) # {}
          BY <2>5, <2>7
        <4>2. Cardinality(NestedIn(c)) # 0
          BY <2>4, <4>1, Counted, FS_EmptySet
        <4> QED BY <2>3, <4>2
      <3>2. ASSUME InC(call[t], c) PROVE Cardinality(UsingContext(c)) >= 1
        <4>1. UsingContext(c) # {}
          BY <2>5, <3>2
        <4>2. Cardinality(UsingContext(c)) # 0
          BY <2>4, <4>1, Counted, FS_EmptySet
        <4> QED BY <2>3, <4>2
      <3> QED BY <2>1, <2>2, <2>3, <3>1, <3>2 DEF One
    <2> QED BY <2>6, <2>7
  <1>2. ASSUME NEW k \in DOMAIN users, InU(call[u], k)
        PROVE  users[k].count >= 1 + One(InU(call[t], k))
    <2>1. users[k].count = Cardinality(UsingUser(k))
      BY <1>0 DEF CountsAreExact
    <2>2. UsingUser(k) \in SUBSET Threads
      BY DEF UsingUser
    <2>3. (t \in UsingUser(k) <=> InU(call[t], k)) /\ u \in UsingUser(k)
      BY <1>2 DEF UsingUser, InU
    <2>4. Cardinality(UsingUser(k)) >= 1 + One(t \in UsingUser(k))
      BY <2>2, <2>3, SizeBounds
    <2> QED BY <2>1, <2>3, <2>4 DEF One
  <1>3. ASSUME NEW r \in DOMAIN requests, InR(call[u], r)
        PROVE  requests[r].count + requests[r].below >= 1 + One(InR(call[t], r))
    <2>1. requests[r].count = Cardinality(UsingRequest(r)) - requests[r].below
      BY <1>0 DEF CountsAreExact
    <2>2. UsingRequest(r) \in SUBSET Threads
      BY DEF UsingRequest
    <2>3. (t \in UsingRequest(r) <=> InR(call[t], r)) /\ u \in UsingRequest(r)
      BY <1>3 DEF UsingRequest, InR, Marks
    <2>4. Cardinality(UsingRequest(r)) >= 1 + One(t \in UsingRequest(r))
      BY <2>2, <2>3, SizeBounds
    <2>5. requests[r].below \in Nat /\ Cardinality(UsingRequest(r)) \in Nat
      BY Typed, CountsNat DEF Requests
    <2>6. requests[r].count + requests[r].below = Cardinality(UsingRequest(r))
      BY <2>1, <2>5
    <2> QED BY <2>3, <2>4, <2>6 DEF One
  <1> QED BY <1>1, <1>2, <1>3

\* Who waits to delete has marked; of two one only waits.
LEMMA MarksStay ==
    ASSUME NEW t \in Threads, NEW z, Inv, Moves(t, z)
    PROVE  DeletersMark'
  <1>1. ASSUME NEW u \in Threads, call'[u].pc = "drainUser"
        PROVE  call'[u].u \in DOMAIN users' /\ users'[call'[u].u].deleted
    <2>1. CASE u = t
      <3>1. call'[u] = z
        BY <2>1, Others
      <3>2. z.pc = "drainUser" /\ z.pc \in InsideUser
        BY <1>1, <3>1 DEF InsideUser
      <3> QED BY <3>1, <3>2 DEF Moves, UsrMoves
    <2>2. CASE u # t
      <3>1. call'[u] = call[u]
        BY <2>2, Others
      <3>2. PICK k : k = call[u].u
        OBVIOUS
      <3>3. k \in DOMAIN users /\ users[k].deleted
        BY <1>1, <3>1, <3>2 DEF Inv, DeletersMark
      <3>4. InU(call[u], k)
        BY <1>1, <3>1, <3>2 DEF InU, InsideUser
      <3>5. users[k].count >= 1 + One(InU(call[t], k))
        BY <2>2, <3>3, <3>4, OthersCount
      <3>6. users[k].count \in Int
        BY <3>3, Typed DEF UserContexts
      <3>7. k \in DOMAIN users'
        <4>1. ASSUME k \notin DOMAIN users' PROVE FALSE
          <5>1. users[k].count <= One(InU(call[t], k))
            BY <3>3, <4>1 DEF Moves, UsrMoves
          <5> QED BY <3>5, <3>6, <5>1 DEF One
        <4> QED BY <4>1
      <3>8. users'[k].deleted
        BY <3>3, <3>7 DEF Moves, UsrMoves
      <3> QED BY <3>1, <3>2, <3>7, <3>8
    <2> QED BY <2>1, <2>2
  <1>2. ASSUME NEW u \in Threads, call'[u].pc = "drainHandle" PROVE handles'[call'[u].h].deleted
    <2>1. CASE u = t
      BY <2>1, <1>2, Others DEF Moves, HdlMoves
    <2>2. CASE u # t
      <3>1. call'[u] = call[u]
        BY <2>2, Others
      <3>2. PICK h : h = call[u].h
        OBVIOUS
      <3>3. handles[h].deleted
        BY <1>2, <3>1, <3>2 DEF Inv, DeletersMark
      <3>4. h \in DOMAIN handles
        BY <1>2, <3>1, <3>2, Typed DEF Fits
      <3> QED BY <3>1, <3>2, <3>3, <3>4 DEF Moves, HdlMoves
    <2> QED BY <2>1, <2>2
  <1>3. ASSUME NEW u \in Threads, call'[u].pc = "drainContext"
        PROVE  sdk' >= 400 /\ contexts'[call'[u].c].terminated
    <2>0. sdk' = sdk
      BY DEF Moves, RestMoves
    <2>1. CASE u = t
      <3>1. call'[u] = z /\ Fits(z)' /\ z.pc = "drainContext"
        BY <1>3, <2>1, Others DEF Moves
      <3>2. z.c \in DOMAIN contexts'
        BY <3>1 DEF Fits
      <3>3. z.c \in DOMAIN contexts
        BY <3>1, <3>2 DEF Moves, CtxMoves
      <3>4. CtxMove(t, z, z.c, contexts[z.c], contexts'[z.c])
        BY <3>3 DEF Moves, CtxMoves
      <3> QED BY <2>0, <3>1, <3>4 DEF CtxMove
    <2>2. CASE u # t
      <3>1. call'[u] = call[u]
        BY <2>2, Others
      <3>2. PICK c : c = call[u].c
        OBVIOUS
      <3>3. sdk >= 400 /\ contexts[c].terminated
        BY <1>3, <3>1, <3>2 DEF Inv, DeletersMark
      <3>4. c \in DOMAIN contexts
        BY <1>3, <3>1, <3>2, Typed DEF Fits
      <3>5. CtxMove(t, z, c, contexts[c], contexts'[c])
        BY <3>4 DEF Moves, CtxMoves
      <3> QED BY <2>0, <3>1, <3>2, <3>3, <3>5 DEF CtxMove
    <2> QED BY <2>1, <2>2
  <1> QED BY <1>1, <1>2, <1>3 DEF DeletersMark

\* Two deletions that wait do not wait for the same thing.
LEMMA DeletersStay ==
    ASSUME NEW t \in Threads, NEW z, Inv, Moves(t, z)
    PROVE  OneDeleterEach'
  <1>0. OneDeleterEach /\ DeletersMark
    BY DEF Inv, DeletionsWait
  <1>1. ASSUME NEW u \in Threads, u # t, call[u].pc = z.pc
        PROVE  /\ z.pc = "drainUser" => z.u # call[u].u
               /\ z.pc = "drainHandle" => z.h # call[u].h
               /\ z.pc = "drainContext" => z.c # call[u].c
    <2>1. ASSUME z.pc = "drainUser" PROVE z.u # call[u].u
      <3>1. ~users[z.u].deleted
        BY <2>1 DEF Moves, UsrMoves
      <3>2. users[call[u].u].deleted
        BY <1>0, <1>1, <2>1 DEF DeletersMark
      <3> QED BY <3>1, <3>2
    <2>2. ASSUME z.pc = "drainHandle" PROVE z.h # call[u].h
      <3>1. ~handles[z.h].deleted
        BY <2>2 DEF Moves, HdlMoves
      <3>2. handles[call[u].h].deleted
        BY <1>0, <1>1, <2>2 DEF DeletersMark
      <3> QED BY <3>1, <3>2
    <2>3. ASSUME z.pc = "drainContext" PROVE z.c # call[u].c
      <3>1. Fits(z)' /\ z.c \in DOMAIN contexts'
        BY <2>3 DEF Moves, Fits
      <3>2. z.c \in DOMAIN contexts
        BY <2>3, <3>1 DEF Moves, CtxMoves
      <3>3. ~contexts[z.c].terminated
        BY <2>3, <3>2 DEF Moves, CtxMoves, CtxMove
      <3>4. contexts[call[u].c].terminated
        BY <1>0, <1>1, <2>3 DEF DeletersMark
      <3> QED BY <3>3, <3>4
    <2> QED BY <2>1, <2>2, <2>3
  <1>2. ASSUME NEW u \in Threads, NEW v \in Threads, u # v, call'[u].pc = call'[v].pc
        PROVE  /\ call'[u].pc = "drainUser" => call'[u].u # call'[v].u
               /\ call'[u].pc = "drainHandle" => call'[u].h # call'[v].h
               /\ call'[u].pc = "drainContext" => call'[u].c # call'[v].c
    <2>1. CASE u = t
      <3>1. call'[u] = z /\ call'[v] = call[v] /\ v # t
        BY <1>2, <2>1, Others
      <3> QED BY <1>1, <1>2, <3>1
    <2>2. CASE v = t
      <3>1. call'[v] = z /\ call'[u] = call[u] /\ u # t
        BY <1>2, <2>2, Others
      <3> QED BY <1>1, <1>2, <3>1
    <2>3. CASE u # t /\ v # t
      <3>1. call'[v] = call[v] /\ call'[u] = call[u]
        BY <2>3, Others
      <3> QED BY <1>0, <1>2, <3>1 DEF OneDeleterEach
    <2> QED BY <2>1, <2>2, <2>3
  <1> QED BY <1>2 DEF OneDeleterEach

\* Who is to erase a context is alone in it.
LEMMA EraserStays ==
    ASSUME NEW t \in Threads, NEW z, Inv, Moves(t, z)
    PROVE  EraserIsAlone'
  <1>0. sdk' = sdk
    BY DEF Moves, RestMoves
  <1>1. ASSUME NEW u \in Threads, call'[u].pc = "erase", sdk >= 400
        PROVE  /\ contexts'[call'[u].c].terminated
               /\ \A v \in Threads : ~InC(call'[v], call'[u].c) /\ ~Nst(call'[v], call'[u].c)
    <2>0. PICK c : c = call'[u].c
      OBVIOUS
    <2>1. CASE u = t
      <3>1. call'[u] = z /\ Fits(z)' /\ z.pc = "erase" /\ z.c = c
        BY <1>1, <2>0, <2>1, Others DEF Moves
      <3>2. c \in DOMAIN contexts'
        BY <3>1 DEF Fits
      <3>3. c \in DOMAIN contexts
        BY <3>1, <3>2 DEF Moves, CtxMoves
      <3>4. contexts'[c].terminated /\ contexts[c].count <= 1 /\ InC(call[t], c)
        BY <1>1, <3>1, <3>3 DEF Moves, CtxMoves, CtxMove
      <3>5. ~InC(z, c) /\ ~Nst(z, c)
        BY <3>1 DEF InC, Nst, InsideContext, InsideUser, InsideRequest, Fits, Nesting
      <3>6. ASSUME NEW v \in Threads, v # t PROVE ~InC(call'[v], c) /\ ~Nst(call'[v], c)
        <4>1. call'[v] = call[v]
          BY <3>6, Others
        <4>2. contexts[c].count \in Int /\ One(InC(call[t], c)) = 1
          BY <3>3, <3>4, Typed DEF Contexts, One
        <4>3. ~(contexts[c].count >= 1 + One(InC(call[t], c)))
          <5>1. PICK o : o = One(InC(call[t], c))
            OBVIOUS
          <5>2. o = 1 /\ ~(contexts[c].count >= 1 + o)
            BY <3>4, <4>2, <5>1
          <5> QED BY <5>1, <5>2
        <4> QED BY <3>3, <3>6, <4>1, <4>3, OthersCount
      <3>7. \A v \in Threads : ~InC(call'[v], c) /\ ~Nst(call'[v], c)
        BY <3>1, <3>5, <3>6, <2>1
      <3> QED BY <2>0, <3>4, <3>7
    <2>2. CASE u # t
      <3>1. call'[u] = call[u] /\ call[u].c = c /\ call[u].pc = "erase"
        BY <1>1, <2>0, <2>2, Others
      <3>2. c \in DOMAIN contexts
        BY <3>1, Typed DEF Fits
      <3>3. contexts[c].terminated /\ UsingContext(c) = {} /\ NestedIn(c) = {}
        BY <1>1, <3>1 DEF Inv, EraserIsAlone
      <3>4. CtxMove(t, z, c, contexts[c], contexts'[c])
        BY <3>2 DEF Moves, CtxMoves
      <3>5. \A v \in Threads : ~InC(call[v], c) /\ ~Nst(call[v], c)
        BY <3>3 DEF UsingContext, NestedIn, InC, Nst
      <3>6. contexts'[c].terminated
        BY <1>1, <3>3, <3>4 DEF CtxMove
      <3>7. ~InC(z, c) /\ ~Nst(z, c)
        BY <3>3, <3>4, <3>5 DEF CtxMove
      <3>8. \A v \in Threads : ~InC(call'[v], c) /\ ~Nst(call'[v], c)
        BY <3>5, <3>7, Others
      <3> QED BY <2>0, <3>6, <3>8
    <2> QED BY <2>1, <2>2
  <1>2. ASSUME NEW u \in Threads, call'[u].pc = "erase", sdk' >= 400
        PROVE  /\ contexts'[call'[u].c].terminated
               /\ UsingContext(call[u].c)' = {} /\ NestedIn(call[u].c)' = {}
    <2>1. PICK c : c = call'[u].c
      OBVIOUS
    <2>2. contexts'[c].terminated /\ \A v \in Threads : ~InC(call'[v], c) /\ ~Nst(call'[v], c)
      BY <1>0, <1>1, <1>2, <2>1
    <2>3. UsingContext(call[u].c)' = {} /\ NestedIn(call[u].c)' = {}
      BY <2>1, <2>2 DEF UsingContext, NestedIn, InC, Nst
    <2> QED BY <2>1, <2>2, <2>3
  <1> QED BY <1>2 DEF EraserIsAlone

\* A context a step takes away nobody is in, from 4.00 on.
LEMMA OnlyEmptyLeave ==
    ASSUME NEW t \in Threads, NEW z, Inv, Moves(t, z), sdk >= 400,
           NEW c \in DOMAIN contexts, contexts[c].there, ~contexts'[c].there
    PROVE  \A v \in Threads : ~InC(call[v], c) /\ ~Nst(call[v], c)
  <1>1. CtxMove(t, z, c, contexts[c], contexts'[c])
    BY DEF Moves, CtxMoves
  <1>2. call[t].pc = "erase" /\ call[t].c = c
    BY <1>1 DEF CtxMove
  <1>3. UsingContext(c) = {} /\ NestedIn(c) = {}
    BY <1>2 DEF Inv, EraserIsAlone
  <1> QED BY <1>3 DEF UsingContext, NestedIn, InC, Nst

\* From 4.00 on no context leaves under a call that is inside.
LEMMA ContextsStay ==
    ASSUME NEW t \in Threads, NEW z, Inv, Moves(t, z)
    PROVE  ContextOutlivesItsCalls' /\ NestingStays'
  <1>0. sdk' = sdk /\ ContextOutlivesItsCalls /\ NestingStays
    BY DEF Moves, RestMoves, Inv, DeletionsWait
  <1>1. ASSUME NEW v \in Threads, NEW c, sdk >= 400, InC(call[v], c) \/ Nst(call[v], c)
        PROVE  c \in DOMAIN contexts /\ contexts[c].there /\ contexts'[c].there
    <2>1. c = call[v].c /\ contexts[c].there
      BY <1>0, <1>1 DEF InC, Nst, ContextOutlivesItsCalls, NestingStays
    <2>2. PICK x : x = call[v]
      OBVIOUS
    <2>3. Fits(x) /\ c = x.c /\ (InC(x, c) \/ Nst(x, c))
      BY <1>1, <2>1, <2>2, Typed
    <2>4. c \in DOMAIN contexts
      BY <2>3 DEF Fits, InC, Nst, InsideContext, InsideUser, InsideRequest, Nesting
    <2>5. contexts[c].there = TRUE \/ contexts[c].there = FALSE
      BY <2>4, Typed DEF Contexts
    <2> QED BY <1>1, <2>1, <2>4, OnlyEmptyLeave
  <1>2. ASSUME NEW v \in Threads, NEW c, sdk >= 400, InC(call'[v], c) \/ Nst(call'[v], c)
        PROVE  contexts'[c].there
    <2>1. CASE v # t
      BY <1>1, <1>2, <2>1, Others
    <2>2. CASE v = t
      <3>1. InC(z, c) \/ Nst(z, c)
        BY <1>2, <2>2, Others
      <3>2. Fits(z)'
        BY DEF Moves
      <3>3. c \in DOMAIN contexts'
        BY <3>1, <3>2 DEF Fits, InC, Nst, InsideContext, InsideUser, InsideRequest, Nesting
      <3>4. c \in DOMAIN contexts
        BY <3>1, <3>3 DEF Moves, CtxMoves, InC, Nst, InsideContext, InsideUser, InsideRequest
      <3>5. CtxMove(t, z, c, contexts[c], contexts'[c])
        BY <3>4 DEF Moves, CtxMoves
      <3>6. CASE InC(call[t], c) \/ Nst(call[t], c)
        BY <1>1, <1>2, <3>6
      <3>7. CASE ~(InC(call[t], c) \/ Nst(call[t], c))
        <4>1. contexts[c].there /\ ~contexts[c].terminated
          BY <3>1, <3>5, <3>7 DEF CtxMove
        <4>2. ASSUME ~contexts'[c].there PROVE FALSE
          <5>1. call[t].pc = "erase" /\ call[t].c = c
            BY <3>5, <4>1, <4>2 DEF CtxMove
          <5>2. contexts[c].terminated
            BY <1>2, <5>1 DEF Inv, EraserIsAlone
          <5> QED BY <4>1, <5>2
        <4> QED BY <4>2
      <3> QED BY <3>6, <3>7
    <2> QED BY <2>1, <2>2
  <1>3. ContextOutlivesItsCalls'
    <2>1. ASSUME NEW v \in Threads, call'[v].pc \in InsideContext, sdk' >= 400
          PROVE  contexts'[call'[v].c].there
      <3>1. PICK c : c = call'[v].c
        OBVIOUS
      <3>2. InC(call'[v], c)
        BY <2>1, <3>1 DEF InC
      <3> QED BY <1>0, <1>2, <2>1, <3>1, <3>2
    <2> QED BY <2>1 DEF ContextOutlivesItsCalls
  <1>4. NestingStays'
    <2>1. ASSUME NEW v \in Threads, call'[v].nested, sdk' >= 400
          PROVE  contexts'[call'[v].c].there
      <3>1. PICK c : c = call'[v].c
        OBVIOUS
      <3>2. Nst(call'[v], c)
        BY <2>1, <3>1 DEF Nst
      <3> QED BY <1>0, <1>2, <2>1, <3>1, <3>2
    <2> QED BY <2>1 DEF NestingStays
  <1> QED BY <1>3, <1>4

\* What is in use stays.
LEMMA UsersStay ==
    ASSUME NEW t \in Threads, NEW z, Inv, Moves(t, z), NEW u \in Threads, call'[u].pc \in InsideUser
    PROVE  call'[u].u \in DOMAIN users'
  <1>1. CASE u = t
    BY <1>1, Others DEF Moves, UsrMoves
  <1>2. CASE u # t
    <2>1. call'[u] = call[u]
      BY <1>2, Others
    <2>2. PICK k : k = call[u].u
      OBVIOUS
    <2>3. k \in DOMAIN users
      BY <2>1, <2>2 DEF Inv, DeletionsWait, InUseStays
    <2>4. users[k].count >= 1 + One(InU(call[t], k))
      <3>1. InU(call[u], k)
        BY <2>1, <2>2 DEF InU
      <3> QED BY <1>2, <2>3, <3>1, OthersCount
    <2>5. users[k].count \in Int
      BY <2>3, Typed DEF UserContexts
    <2>6. ASSUME k \notin DOMAIN users' PROVE FALSE
      <3>1. users[k].count <= One(InU(call[t], k))
        BY <2>3, <2>6 DEF Moves, UsrMoves
      <3> QED BY <2>4, <2>5, <3>1 DEF One
    <2> QED BY <2>1, <2>2, <2>6
  <1> QED BY <1>1, <1>2

\* A request a call has counted stays, unless its count was taken below.
LEMMA RequestsStay ==
    ASSUME NEW t \in Threads, NEW z, Inv, Moves(t, z), NEW u \in Threads, NEW r, InR(call'[u], r)
    PROVE  requests'[r].there \/ requests'[r].below > 0
  <1>0. ASSUME NEW v \in Threads, InR(call[v], r)
        PROVE  requests[r].there \/ requests[r].below > 0
    BY <1>0 DEF Inv, DeletionsWait, InUseStays, InR, Marks
  <1>1. call'[u].r = r /\ Fits(call[u])'
    BY CallsFitStays DEF InR, CallsFit
  <1>2. r \in DOMAIN requests'
    <2>1. PICK x : x = call'[u]
      OBVIOUS
    <2>2. Fits(x)' /\ x.pc \in InsideRequest /\ x.r = r
      BY <1>1, <2>1 DEF InR
    <2> QED BY <2>2 DEF Fits
  <1>3. ASSUME r \notin DOMAIN requests PROVE requests'[r].there
    <2>1. PICK bad \in BOOLEAN : requests'[r] = NewRequest(call[t].u, bad)
      BY <1>2, <1>3 DEF Moves, ReqMoves
    <2> QED BY <2>1 DEF NewRequest
  <1>4. ASSUME r \in DOMAIN requests PROVE requests'[r].there \/ requests'[r].below > 0
    <2>1. PICK x, y : x = requests[r] /\ y = requests'[r]
      OBVIOUS
    <2>2. ReqMove(t, z, r, x, y) /\ x \in Requests /\ y \in Requests
      BY <1>2, <1>4, <2>1, Typed DEF Moves, ReqMoves
    <2>3. x.below \in Nat /\ y.below \in Nat /\ y.below >= x.below /\ x.count \in Int
      BY <2>2 DEF Requests, ReqMove
    <2>4. CASE ~x.there
      <3>1. InR(z, r) => InR(call[t], r)
        BY <2>2, <2>4 DEF ReqMove
      <3>2. InR(call[u], r)
        BY <3>1, Others
      <3>3. x.below > 0
        BY <1>0, <2>1, <2>4, <3>2
      <3> QED BY <2>1, <2>3, <3>3
    <2>5. CASE x.there /\ ~y.there
      <3>1. ~InR(z, r)
        BY <2>2, <2>5 DEF ReqMove
      <3>2. u # t /\ InR(call[u], r)
        BY <3>1, Others
      <3>3. CASE x.count <= One(InR(call[t], r))
        <4>1. x.count + x.below >= 1 + One(InR(call[t], r))
          BY <1>4, <2>1, <3>2, OthersCount
        <4>2. One(InR(call[t], r)) \in Int
          BY DEF One
        <4>3. x.below > 0
          BY <2>3, <3>3, <4>1, <4>2
        <4> QED BY <2>1, <2>3, <4>3
      <3>4. CASE x.u \in DOMAIN users \ DOMAIN users'
        <4>1. call[u].u = x.u /\ call[u].pc \in InsideUser
          BY <2>1, <3>2, Typed DEF InR, Fits, InsideUser
        <4>2. call'[u].u = x.u /\ call'[u].pc \in InsideUser
          BY <3>2, <4>1, Others
        <4>3. call'[u].u \in DOMAIN users'
          BY <4>2, UsersStay
        <4> QED BY <3>4, <4>2, <4>3
      <3> QED BY <2>2, <2>5, <3>3, <3>4 DEF ReqMove
    <2> QED BY <2>1, <2>4, <2>5
  <1> QED BY <1>3, <1>4

\* What is in use stays, for every thread at once.
LEMMA InUseStaysSo ==
    ASSUME NEW t \in Threads, NEW z, Inv, Moves(t, z)
    PROVE  InUseStays'
  <1>1. ASSUME NEW u \in Threads, call'[u].pc \in InsideRequest, Mark(call'[u].api) = 1
        PROVE  requests'[call'[u].r].there \/ requests'[call'[u].r].below > 0
    <2>1. PICK r : r = call'[u].r
      OBVIOUS
    <2>2. InR(call'[u], r)
      BY <1>1, <2>1 DEF InR
    <2> QED BY <2>1, <2>2, RequestsStay
  <1> QED BY <1>1, UsersStay DEF InUseStays, Marks

\* What the HTTP library has made
LEMMA HttpStays ==
    ASSUME NEW t \in Threads, NEW z, Inv, Moves(t, z)
    PROVE  PartialIsBad' /\ HttpGoesWithRequest'
  <1>1. ASSUME NEW r \in DOMAIN requests' PROVE HttpFine(requests'[r])
    <2>1. CASE r \in DOMAIN requests
      BY <2>1 DEF Moves, ReqMoves, ReqMove
    <2>2. CASE r \notin DOMAIN requests
      <3>1. PICK bad \in BOOLEAN : requests'[r] = NewRequest(call[t].u, bad)
        BY <1>1, <2>2 DEF Moves, ReqMoves
      <3> QED BY <3>1 DEF NewRequest, HttpFine
    <2> QED BY <2>1, <2>2
  <1> QED BY <1>1 DEF HttpFine, PartialIsBad, HttpGoesWithRequest, AbortIsHeard, NothingLeftBehind

\* What the invariant says of one request now
LEMMA FineNow == ASSUME Inv, NEW r \in DOMAIN requests PROVE HttpFine(requests[r])
  BY DEF Inv, HttpFine, PartialIsBad, HttpGoesWithRequest, AbortIsHeard, NothingLeftBehind

\* A step that moves as the relation says keeps the invariant.
LEMMA MovesKeep ==
    ASSUME NEW t \in Threads, NEW z, Inv, Moves(t, z),
           call[t].pc # "idle" \/ outer[t].pc = "none" \/ z = call[t]
    PROVE  Inv'
  <1>1. DeletionsWait'
    BY InUseStaysSo, ContextsStay, DeletersStay DEF DeletionsWait
  <1>2. LibraryFits'
    BY DEF Moves, LibMoves
  <1> QED
    BY <1>1, <1>2, TypesStay, CallsFitStays, LocksStay, CountsStay, OuterStays, MarksStay, EraserStays,
       ContextsStay, HttpStays DEF Inv

-----------------------------------------------------------------------------
(* How a call and a table change.                                          *)

\* z is the call x at another place.
SameCall(x, z) ==
    /\ z.api = x.api /\ z.c = x.c /\ z.u = x.u /\ z.user = x.user /\ z.r = x.r /\ z.h = x.h
    /\ z.nested = x.nested /\ z.ids = x.ids

\* The part of Fits that is about the place
FitsAt(pc, api, nested) ==
    /\ api = "checkTimeout" => pc \in {"idle", "find", "global"}
    /\ nested => pc \in Nesting
    /\ pc = "deleted" => nested
    /\ pc = "makeUser" => api = "createUserContext"
    /\ pc \in InsideRequest => api \in RequestCalls \cup {"deleteRequest"}
    /\ pc \in {"sendCheck", "create", "make"} => api = "sendRequest"
    /\ pc \in {"http", "readDone", "leaveRequest"} => api # "abortRequest"
    /\ pc = "drainRequest" => api = "deleteRequest"
    /\ pc \in {"inHandle", "drainHandle"} => api \in HandleCalls
    /\ pc \in Terminating => api = "terminateContext"

\* The same counters count a call at either place.
SameClass(p, q, api) ==
    /\ p \in InsideContext <=> q \in InsideContext
    /\ p \in InsideUser <=> q \in InsideUser
    /\ Mark(api) = 1 => (p \in InsideRequest <=> q \in InsideRequest)

Marking == {"drainUser", "drainHandle", "abortHandles", "drainContext", "erase"}

\* A call that only changes place fits there when the place fits its name.
LEMMA FitsSame ==
    ASSUME NEW x, NEW z, Fits(x), x.pc # "idle", SameCall(x, z), FitsAt(z.pc, x.api, x.nested)
    PROVE  Fits(z)
  BY DEF Fits, SameCall, FitsAt

\* What a call is after going to another place
LEMMA GoIs ==
    ASSUME NEW t \in Threads, NEW p \in Places, Inv, Go(t, p)
    PROVE  \E z \in Calls : /\ call' = [call EXCEPT ![t] = z] /\ z.pc = p
                            /\ SameCall(call[t], z) /\ z.res = call[t].res
  <1>1. call[t] \in Calls /\ call \in [Threads -> Calls]
    BY Typed
  <1>2. PICK x : x = call[t]
    OBVIOUS
  <1>3. PICK z : z = [x EXCEPT !.pc = p]
    OBVIOUS
  <1>4. z \in Calls /\ z.pc = p /\ SameCall(x, z) /\ z.res = x.res
    BY <1>1, <1>2, <1>3 DEF Calls, SameCall
  <1>5. call' = [call EXCEPT ![t] = z]
    BY <1>1, <1>2, <1>3 DEF Go
  <1> QED BY <1>2, <1>4, <1>5

\* What a call is after setting its result and leaving its context
LEMMA LeavingIs ==
    ASSUME NEW t \in Threads, NEW res \in {"ok", "noUser", "other"}, Inv, Leaving(t, res)
    PROVE  \E z \in Calls : /\ call' = [call EXCEPT ![t] = z] /\ z.pc = "leaveContext"
                            /\ SameCall(call[t], z)
  <1>1. call[t] \in Calls /\ call \in [Threads -> Calls]
    BY Typed
  <1>2. PICK x : x = call[t]
    OBVIOUS
  <1>3. PICK z : z = [x EXCEPT !.pc = "leaveContext", !.res = res]
    OBVIOUS
  <1>4. z \in Calls /\ z.pc = "leaveContext" /\ SameCall(x, z)
    BY <1>1, <1>2, <1>3 DEF Calls, SameCall, Places, InsideContext
  <1>5. call' = [call EXCEPT ![t] = z]
    BY <1>1, <1>2, <1>3 DEF Leaving
  <1> QED BY <1>2, <1>4, <1>5

\* A call that has returned
LEMMA IdleIs ==
    /\ Idle \in Calls /\ Idle.pc = "idle" /\ Idle.api = "" /\ Idle.nested = FALSE
    /\ Fits(Idle)
    /\ \A i : ~InC(Idle, i) /\ ~Nst(Idle, i) /\ ~InU(Idle, i) /\ ~InR(Idle, i)
  <1>1. Idle.pc = "idle" /\ Idle.api = "" /\ Idle.nested = FALSE
    BY DEF Idle
  <1>2. Idle \in Calls
    BY DEF Idle, Calls, Places, GameCalls
  <1>3. Fits(Idle)
    BY <1>1 DEF Fits, Terminating, RequestCalls, MultipartCalls, HandleCalls, InsideRequest
  <1>4. \A i : ~InC(Idle, i) /\ ~Nst(Idle, i) /\ ~InU(Idle, i) /\ ~InR(Idle, i)
    BY <1>1 DEF InC, Nst, InU, InR, InsideContext, InsideUser, InsideRequest
  <1> QED BY <1>1, <1>2, <1>3, <1>4

\* What a call is after returning, to terminateContext or to the game
LEMMA ReturnedIs ==
    ASSUME NEW t \in Threads, NEW res \in {"ok", "noUser", "other"}, Inv, call' = Returned(t, res)
    PROVE  \E z \in Calls :
              /\ call' = [call EXCEPT ![t] = z]
              /\ call[t].nested => z.pc = "deleted" /\ SameCall(call[t], z)
              /\ ~call[t].nested => z = Idle
  <1>1. call[t] \in Calls /\ call \in [Threads -> Calls]
    BY Typed
  <1>2. PICK x : x = call[t]
    OBVIOUS
  <1>3. CASE x.nested
    <2>1. PICK z : z = [x EXCEPT !.pc = "deleted", !.res = res]
      OBVIOUS
    <2>2. z \in Calls /\ z.pc = "deleted" /\ SameCall(x, z)
      BY <1>1, <1>2, <2>1 DEF Calls, SameCall, Places
    <2>3. call' = [call EXCEPT ![t] = z]
      BY <1>1, <1>2, <1>3, <2>1 DEF Returned
    <2> QED BY <1>2, <1>3, <2>2, <2>3
  <1>4. CASE ~x.nested
    <2>1. call' = [call EXCEPT ![t] = Idle]
      BY <1>1, <1>2, <1>4 DEF Returned
    <2> QED BY <1>2, <1>4, <2>1, IdleIs
  <1> QED BY <1>3, <1>4

\* A call at another place of the same class weighs what it did.
LEMMA ClassWeighs ==
    ASSUME NEW x, NEW z, SameCall(x, z), SameClass(x.pc, z.pc, x.api)
    PROVE  \A i : /\ InC(z, i) <=> InC(x, i)
                  /\ Nst(z, i) <=> Nst(x, i)
                  /\ InU(z, i) <=> InU(x, i)
                  /\ InR(z, i) <=> InR(x, i)
  BY DEF SameCall, SameClass, InC, Nst, InU, InR

\* The tables that stay
LEMMA CtxStays ==
    ASSUME NEW t \in Threads, NEW z, Inv, contexts' = contexts,
           z.pc \notin {"abortHandles", "drainContext", "erase"},
           \A c : /\ W(z, c) = W(call[t], c)
                  /\ InC(z, c) \/ Nst(z, c) => InC(call[t], c) \/ Nst(call[t], c)
    PROVE  CtxMoves(t, z)
  <1>1. ASSUME NEW c \in DOMAIN contexts PROVE CtxMove(t, z, c, contexts[c], contexts[c])
    <2>1. contexts[c].owner = None <=> contexts[c].depth = 0
      BY DEF Inv, LocksFit
    <2>2. W(z, c) = W(call[t], c)
      OBVIOUS
    <2>3. contexts[c] \in Contexts
      BY Typed
    <2>4. contexts[c].there \in BOOLEAN
      BY <2>3 DEF Contexts
    <2> QED BY <2>1, <2>2, <2>4 DEF CtxMove
  <1>2. contexts' \in Seq(Contexts) /\ Len(contexts') <= MaxContexts
    BY Typed
  <1> QED BY <1>1, <1>2 DEF CtxMoves

\* The user contexts stay.
LEMMA UsrStays ==
    ASSUME NEW t \in Threads, NEW z, Inv, users' = users, z.pc # "drainUser",
           \A k : InU(z, k) <=> InU(call[t], k)
    PROVE  UsrMoves(t, z)
  <1>1. \A k \in DOMAIN users :
           users[k].count - One(InU(z, k)) = users[k].count - One(InU(call[t], k))
    BY DEF One
  <1>2. z.pc \in InsideUser => z.u \in DOMAIN users
    BY DEF InU, Inv, DeletionsWait, InUseStays
  <1>3. DOMAIN users \subseteq Keys /\ users \in [DOMAIN users -> UserContexts]
    BY Typed
  <1> QED BY <1>1, <1>2, <1>3 DEF UsrMoves

\* The requests stay.
LEMMA ReqStays ==
    ASSUME NEW t \in Threads, NEW z, Inv, requests' = requests,
           \A r : InR(z, r) <=> InR(call[t], r)
    PROVE  ReqMoves(t, z)
  <1>1. ASSUME NEW r \in DOMAIN requests PROVE ReqMove(t, z, r, requests[r], requests[r])
    <2>1. HttpFine(requests[r])
      BY FineNow
    <2>2. requests[r] \in Requests
      BY Typed
    <2>3. requests[r].count \in Int /\ requests[r].below \in Nat /\ requests[r].there \in BOOLEAN
      BY <2>2 DEF Requests
    <2> QED BY <2>1, <2>3 DEF ReqMove, One
  <1>2. requests' \in Seq(Requests)
    BY Typed
  <1> QED BY <1>1, <1>2 DEF ReqMoves

\* The handles stay.
LEMMA HdlStays ==
    ASSUME Inv, NEW t, NEW z, handles' = handles, z.pc # "drainHandle"
    PROVE  HdlMoves(t, z)
  BY Typed DEF HdlMoves

\* How many contexts there are, are being counted and uncounted are numbers.
LEMMA LedgerNat ==
    ASSUME Inv
    PROVE  /\ IsFiniteSet(There) /\ Cardinality(There) \in Nat
           /\ Cardinality(Counting) \in Nat /\ Cardinality(Uncounting) \in Nat
  <1>1. There \in SUBSET (1 .. Len(contexts)) /\ Len(contexts) \in Nat
    BY Typed DEF There
  <1>2. IsFiniteSet(1 .. Len(contexts))
    BY <1>1, FS_Interval
  <1>3. IsFiniteSet(There)
    BY <1>1, <1>2, FS_Subset
  <1>4. Counting \in SUBSET Threads /\ Uncounting \in SUBSET Threads
    BY DEF Counting, Uncounting
  <1> QED BY <1>3, <1>4, FS_CardinalityType, Counted

\* What the library counts stays.
LEMMA LibStays ==
    ASSUME Inv, NEW t, UNCHANGED library, DOMAIN contexts' = DOMAIN contexts,
           \A c \in DOMAIN contexts : contexts'[c].there = contexts[c].there
    PROVE  LibMoves(t)
  <1>1. There' = There
    BY DEF There
  <1>2. /\ active' = active /\ early' = early /\ initialized' = initialized
        /\ outer' = outer /\ torn' = torn /\ overlapped' = overlapped
    BY DEF library
  <1>3. LibraryFits
    BY DEF Inv
  <1>4. ActiveIsTrue'
    <2>1. Counting' = Counting /\ Uncounting' = Uncounting /\ (AtRest' <=> AtRest)
      BY <1>2 DEF Counting, Uncounting, AtRest
    <2> QED BY <1>1, <1>2, <1>3, <2>1 DEF LibraryFits, ActiveIsTrue
  <1>5. TornFits' /\ OneOuter' /\ ReadFits' /\ MarkFits'
    BY <1>2, <1>3 DEF LibraryFits, TornFits, OneOuter, ReadFits, MarkFits, MarkAt
  <1> QED BY <1>2, <1>4, <1>5, Typed DEF LibMoves, LibraryFits

\* What a place of a thread weighs in the ledger of the contexts
Entering(x) == x.pc \in {"count", "counted"}
Exiting(x) == x.pc \in {"uncount", "uncounted"}

\* The count and the mark fit again after a step in which one thread moved from x to y
\* and d contexts were made.
LEMMA LibStep ==
    ASSUME Inv, NEW t \in Threads, NEW x, x = outer[t], NEW y \in Outers,
           outer' = [outer EXCEPT ![t] = y],
           NEW d \in Int, Cardinality(There)' = Cardinality(There) + d,
           active' \in Int, early' \in Nat, initialized' \in BOOLEAN, torn' \in BOOLEAN,
           overlapped' \in BOOLEAN, overlapped => overlapped', torn => torn', torn' => overlapped',
           ~torn' => active' - active = d - early' + early - One(Entering(y)) + One(Entering(x))
                                          + One(Exiting(y)) - One(Exiting(x)),
           x.pc = "none" /\ ~overlapped' => \A u \in Threads \ {t} : outer[u].pc = "none",
           ~overlapped' /\ y.pc \in {"counted", "uncounted", "written"} => y.n = active',
           ~overlapped' /\ early' = 0 => MarkAt(y, active', initialized'),
           call'[t].pc = "idle"
    PROVE  LibMoves(t)
  <1>1. /\ outer' \in [Threads -> Outers] /\ outer'[t] = y
        /\ \A u \in Threads : u # t => outer'[u] = outer[u]
    BY Typed
  <1>2. LibraryFits
    BY DEF Inv
  <1>3. ~overlapped' => \A u \in Threads \ {t} : outer'[u].pc = "none"
    <2>1. ASSUME ~overlapped', x.pc # "none", NEW u \in Threads \ {t} PROVE outer[u].pc = "none"
      BY <1>2, <2>1 DEF LibraryFits, OneOuter
    <2> QED BY <1>1, <2>1
  <1>4. /\ Cardinality(Counting)' = Cardinality(Counting) + One(Entering(y)) - One(Entering(x))
        /\ Cardinality(Counting)' \in Nat
    <2>1. PICK S : S = Counting
      OBVIOUS
    <2>2. PICK R : R = Counting'
      OBVIOUS
    <2>3. S \in SUBSET Threads /\ R \in SUBSET Threads /\ S \ {t} = R \ {t}
      BY <1>1, <2>1, <2>2 DEF Counting
    <2>4. (t \in R <=> Entering(y)) /\ (t \in S <=> Entering(x))
      BY <1>1, <2>1, <2>2 DEF Counting, Entering
    <2>5. /\ Cardinality(R) = Cardinality(S) + One(t \in R) - One(t \in S)
          /\ Cardinality(R) \in Nat /\ Cardinality(S) \in Nat
      BY <2>3, BoundsNat, SizeMoves
    <2>6. One(t \in R) = One(Entering(y)) /\ One(t \in S) = One(Entering(x))
      BY <2>4 DEF One
    <2> QED BY <2>1, <2>2, <2>5, <2>6
  <1>5. /\ Cardinality(Uncounting)' = Cardinality(Uncounting) + One(Exiting(y)) - One(Exiting(x))
        /\ Cardinality(Uncounting)' \in Nat
    <2>1. PICK S : S = Uncounting
      OBVIOUS
    <2>2. PICK R : R = Uncounting'
      OBVIOUS
    <2>3. S \in SUBSET Threads /\ R \in SUBSET Threads /\ S \ {t} = R \ {t}
      BY <1>1, <2>1, <2>2 DEF Uncounting
    <2>4. (t \in R <=> Exiting(y)) /\ (t \in S <=> Exiting(x))
      BY <1>1, <2>1, <2>2 DEF Uncounting, Exiting
    <2>5. /\ Cardinality(R) = Cardinality(S) + One(t \in R) - One(t \in S)
          /\ Cardinality(R) \in Nat /\ Cardinality(S) \in Nat
      BY <2>3, BoundsNat, SizeMoves
    <2>6. One(t \in R) = One(Exiting(y)) /\ One(t \in S) = One(Exiting(x))
      BY <2>4 DEF One
    <2> QED BY <2>1, <2>2, <2>5, <2>6
  <1>6. ~torn' => active' = Cardinality(There)' - early' - Cardinality(Counting)' + Cardinality(Uncounting)'
    <2>1. ASSUME ~torn'
          PROVE  active = Cardinality(There) - early - Cardinality(Counting) + Cardinality(Uncounting)
      BY <1>2, <2>1 DEF LibraryFits, ActiveIsTrue
    <2>2. \A b : One(b) \in {0, 1}
      BY DEF One
    <2>3. active \in Int /\ early \in Nat
      BY Typed
    <2> QED BY <1>4, <1>5, <2>1, <2>2, <2>3, LedgerNat
  <1>7. ~overlapped' /\ early' = 0 /\ AtRest' => (initialized' <=> active' > 0)
    <2>1. AtRest' => y.pc = "none"
      BY <1>1 DEF AtRest
    <2> QED BY <2>1 DEF MarkAt
  <1>8. ActiveIsTrue'
    BY <1>6, <1>7 DEF ActiveIsTrue
  <1>9. TornFits' /\ OneOuter' /\ ReadFits'
    BY <1>1, <1>3 DEF TornFits, OneOuter, ReadFits
  <1>10. MarkFits'
    <2> SUFFICES ASSUME ~overlapped', early' = 0, NEW u \in Threads,
                        \A v \in Threads \ {u} : outer'[v].pc = "none"
                 PROVE  MarkAt(outer'[u], active', initialized')
      BY DEF MarkFits, MarkAt
    <2>1. MarkAt(y, active', initialized')
      OBVIOUS
    <2>2. u # t => y.pc = "none" /\ outer'[u].pc = "none"
      BY <1>1, <1>3
    <2>3. CASE u = t
      BY <1>1, <2>1, <2>3
    <2>4. CASE u # t
      BY <2>1, <2>2, <2>4 DEF MarkAt
    <2> QED BY <2>3, <2>4
  <1>11. \A u \in Threads : outer'[u].pc # outer[u].pc => call'[u].pc = "idle"
    BY <1>1
  <1> QED BY <1>1, <1>8, <1>9, <1>10, <1>11 DEF LibMoves, LibraryFits

\* What is known where a thread counts or marks,
LEMMA OuterNow ==
    ASSUME Inv, NEW t \in Threads, NEW x, x = outer[t], x.pc # "none"
    PROVE  /\ x \in Outers /\ call[t].pc = "idle" /\ (torn => overlapped)
           /\ ~overlapped /\ x.pc \in {"counted", "uncounted", "written"} => x.n = active
           /\ ~overlapped /\ early = 0 => MarkAt(x, active, initialized)
  <1>1. LibraryFits /\ OuterIsIdle
    BY DEF Inv
  <1>2. ~overlapped => \A u \in Threads \ {t} : outer[u].pc = "none"
    BY <1>1 DEF LibraryFits, OneOuter
  <1>3. ~overlapped /\ early = 0 => MarkAt(x, active, initialized)
    BY <1>1, <1>2 DEF LibraryFits, MarkFits
  <1> QED BY <1>1, <1>3, Typed DEF LibraryFits, OuterIsIdle, TornFits, ReadFits

\* and when nobody does.
LEMMA RestNow ==
    ASSUME Inv, NEW t \in Threads, outer[t].pc = "none",
           \A u \in Threads \ {t} : outer[u].pc = "none", ~overlapped
    PROVE  /\ early = 0 => active >= 0 /\ (initialized <=> active > 0)
           /\ active = Cardinality(There) - early
  <1>1. LibraryFits
    BY DEF Inv
  <1>2. early = 0 => MarkAt(outer[t], active, initialized)
    BY <1>1 DEF LibraryFits, MarkFits
  <1>3. Counting = {} /\ Uncounting = {}
    BY DEF Counting, Uncounting
  <1>4. Cardinality(Counting) = 0 /\ Cardinality(Uncounting) = 0
    BY <1>3, FS_EmptySet
  <1>5. active = Cardinality(There) - early - Cardinality(Counting) + Cardinality(Uncounting)
    BY <1>1 DEF LibraryFits, TornFits, ActiveIsTrue
  <1>6. active = Cardinality(There) - early
    BY <1>4, <1>5, LedgerNat, Typed
  <1> QED BY <1>2, <1>6 DEF MarkAt

\* One element of a table changes.
LEMMA CtxOne ==
    ASSUME NEW t \in Threads, NEW z, Inv, NEW c \in DOMAIN contexts, NEW y \in Contexts,
           contexts' = [contexts EXCEPT ![c] = y], CtxMove(t, z, c, contexts[c], y),
           call[t].c = c, z.c = c \/ z = Idle
    PROVE  /\ CtxMoves(t, z)
           /\ DOMAIN contexts' = DOMAIN contexts
           /\ y.there = contexts[c].there =>
                 \A i \in DOMAIN contexts : contexts'[i].there = contexts[i].there
  <1>1. contexts \in Seq(Contexts)
    BY Typed
  <1>2. DOMAIN contexts' = DOMAIN contexts /\ contexts' \in Seq(Contexts) /\ Len(contexts') = Len(contexts)
    BY <1>1
  <1>3. contexts'[c] = y /\ \A i \in DOMAIN contexts : i # c => contexts'[i] = contexts[i]
    BY <1>1
  <1>4. ASSUME NEW i \in DOMAIN contexts PROVE CtxMove(t, z, i, contexts[i], contexts'[i])
    <2>1. CASE i = c
      BY <1>3, <2>1
    <2>2. CASE i # c
      <3>1. ~InC(z, i) /\ ~Nst(z, i) /\ ~InC(call[t], i) /\ ~Nst(call[t], i)
        BY <2>2, IdleIs DEF InC, Nst
      <3>2. z.c = i => z.pc = "idle"
        BY <2>2, IdleIs
      <3>3. contexts[i].owner = None <=> contexts[i].depth = 0
        BY DEF Inv, LocksFit
      <3>4. W(z, i) = W(call[t], i)
        BY <3>1 DEF W, One
      <3>5. contexts[i].there \in BOOLEAN
        BY Typed DEF Contexts
      <3>6. CtxMove(t, z, i, contexts[i], contexts[i])
        BY <3>1, <3>2, <3>3, <3>4, <3>5 DEF CtxMove
      <3> QED BY <1>3, <2>2, <3>6
    <2> QED BY <2>1, <2>2
  <1>5. Len(contexts') <= MaxContexts
    BY <1>2, Typed
  <1> QED BY <1>2, <1>3, <1>4, <1>5 DEF CtxMoves

\* One user context changes.
LEMMA UsrOne ==
    ASSUME NEW t \in Threads, NEW z, Inv, NEW k \in DOMAIN users, NEW y \in UserContexts,
           users' = [users EXCEPT ![k] = y],
           y.count - One(InU(z, k)) = users[k].count - One(InU(call[t], k)),
           users[k].deleted => y.deleted,
           \A i : i # k => (InU(z, i) <=> InU(call[t], i)),
           z.pc = "drainUser" => z.u = k /\ ~users[k].deleted /\ y.deleted
    PROVE  UsrMoves(t, z)
  <1>1. users \in [DOMAIN users -> UserContexts] /\ DOMAIN users \subseteq Keys
    BY Typed
  <1>2. DOMAIN users' = DOMAIN users /\ users' \in [DOMAIN users' -> UserContexts]
    BY <1>1
  <1>3. users'[k] = y /\ \A i \in DOMAIN users : i # k => users'[i] = users[i]
    BY <1>1
  <1>4. ASSUME NEW i \in DOMAIN users
        PROVE  /\ users'[i].count - One(InU(z, i)) = users[i].count - One(InU(call[t], i))
               /\ users[i].deleted => users'[i].deleted
    <2>1. CASE i = k
      BY <1>3, <2>1
    <2>2. CASE i # k
      <3>1. users'[i] = users[i] /\ (InU(z, i) <=> InU(call[t], i))
        BY <1>3, <2>2
      <3> QED BY <3>1 DEF One
    <2> QED BY <2>1, <2>2
  <1>5. z.pc \in InsideUser => z.u \in DOMAIN users
    <2>1. ASSUME z.pc \in InsideUser, z.u # k PROVE z.u \in DOMAIN users
      <3>1. InU(call[t], z.u)
        BY <2>1 DEF InU
      <3> QED BY <3>1 DEF InU, Inv, DeletionsWait, InUseStays
    <2> QED BY <2>1
  <1> QED BY <1>1, <1>2, <1>3, <1>4, <1>5 DEF UsrMoves

\* Every request changes as it may.
LEMMA ReqEach ==
    ASSUME NEW t \in Threads, NEW z, Inv, DOMAIN requests' = DOMAIN requests,
           requests' = [r \in DOMAIN requests' |-> requests'[r]],
           \A r \in DOMAIN requests :
              requests'[r] \in Requests /\ ReqMove(t, z, r, requests[r], requests'[r])
    PROVE  ReqMoves(t, z)
  <1>1. requests \in Seq(Requests)
    BY Typed
  <1>2. requests' \in Seq(Requests)
    BY <1>1, Mapped
  <1> QED BY <1>2 DEF ReqMoves

\* One request changes.
LEMMA ReqOne ==
    ASSUME NEW t \in Threads, NEW z, Inv, NEW r \in DOMAIN requests, NEW y \in Requests,
           requests' = [requests EXCEPT ![r] = y], ReqMove(t, z, r, requests[r], y),
           \A i : i # r => (InR(z, i) <=> InR(call[t], i))
    PROVE  ReqMoves(t, z)
  <1>1. requests \in Seq(Requests)
    BY Typed
  <1>2. DOMAIN requests' = DOMAIN requests /\ requests' \in Seq(Requests)
    BY <1>1
  <1>3. requests'[r] = y /\ \A i \in DOMAIN requests : i # r => requests'[i] = requests[i]
    BY <1>1
  <1>4. ASSUME NEW i \in DOMAIN requests PROVE ReqMove(t, z, i, requests[i], requests'[i])
    <2>1. CASE i = r
      BY <1>3, <2>1
    <2>2. CASE i # r
      <3>1. HttpFine(requests[i])
        BY FineNow
      <3>2. requests[i] \in Requests /\ (InR(z, i) <=> InR(call[t], i))
        BY <2>2, Typed
      <3>3. /\ requests[i].count \in Int /\ requests[i].below \in Nat
            /\ requests[i].there \in BOOLEAN
        BY <3>2 DEF Requests
      <3>4. ReqMove(t, z, i, requests[i], requests[i])
        BY <3>1, <3>2, <3>3 DEF ReqMove, One
      <3> QED BY <1>3, <2>2, <3>4
    <2> QED BY <2>1, <2>2
  <1> QED BY <1>2, <1>4 DEF ReqMoves

\* One handle changes.
LEMMA HdlOne ==
    ASSUME NEW t \in Threads, NEW z, Inv, NEW h \in DOMAIN handles, NEW y \in Handles,
           handles' = [handles EXCEPT ![h] = y], y.c = handles[h].c,
           handles[h].deleted => y.deleted,
           z.pc = "drainHandle" => z.h = h /\ ~handles[h].deleted /\ y.deleted
    PROVE  HdlMoves(t, z)
  <1>1. handles \in Seq(Handles)
    BY Typed
  <1>2. DOMAIN handles' = DOMAIN handles /\ handles' \in Seq(Handles)
    BY <1>1
  <1>3. handles'[h] = y /\ \A i \in DOMAIN handles : i # h => handles'[i] = handles[i]
    BY <1>1
  <1> QED BY <1>2, <1>3 DEF HdlMoves

\* A call that fits now fits what the tables become.
LEMMA FitsLater ==
    ASSUME Inv, NEW t, NEW z, Fits(z), CtxMoves(t, z), ReqMoves(t, z), HdlMoves(t, z)
    PROVE  Fits(z)'
  <1>1. DOMAIN contexts \subseteq DOMAIN contexts'
    BY DEF CtxMoves
  <1>2. /\ DOMAIN requests \subseteq DOMAIN requests'
        /\ \A r \in DOMAIN requests : requests'[r].u = requests[r].u
    BY DEF ReqMoves, ReqMove
  <1>3. DOMAIN handles \subseteq DOMAIN handles'
    BY DEF HdlMoves
  <1> QED BY <1>1, <1>2, <1>3 DEF Fits

\* What is left of the state stays, but that g_global_mutex may change hands.
LEMMA RestStays ==
    ASSUME Inv, NEW t \in Threads, sdk' = sdk, userCount' = userCount, calls' = calls,
           glock' \in {glock, t, None}
    PROVE  RestMoves(t)
  BY Typed DEF RestMoves

-----------------------------------------------------------------------------
(* What is done to a request.                                              *)

Touched(x, y) ==
    /\ y \in Requests /\ HttpFine(y)
    /\ y.u = x.u /\ y.there = x.there /\ y.count = x.count /\ y.below = x.below

\* Touching a request is a move the relation allows.
LEMMA TouchedMoves ==
    ASSUME NEW t \in Threads, NEW z, NEW r, NEW x \in Requests, NEW y, Touched(x, y),
           InR(z, r) <=> InR(call[t], r)
    PROVE  y \in Requests /\ ReqMove(t, z, r, x, y)
  <1>1. /\ x.count \in Int /\ x.below \in Nat /\ x.there \in BOOLEAN
    BY DEF Requests
  <1> QED BY <1>1 DEF Touched, ReqMove, One

\* Setting, starting or stopping the timer only touches a request.
LEMMA TimerTouches ==
    ASSUME NEW x \in Requests, HttpFine(x), NEW timer \in {"off", "set", "runs"}
    PROVE  Touched(x, [x EXCEPT !.timer = timer])
  <1>1. PICK y : y = [x EXCEPT !.timer = timer]
    OBVIOUS
  <1>2. /\ y \in Requests
        /\ y.u = x.u /\ y.there = x.there /\ y.count = x.count /\ y.below = x.below
        /\ y.http = x.http /\ y.bad = x.bad /\ y.aborted = x.aborted /\ y.told = x.told
        /\ y.late = x.late /\ y.orphan = x.orphan /\ y.twice = x.twice /\ y.cleared = x.cleared
    BY <1>1 DEF Requests
  <1>3. HttpFine(y)
    BY <1>2 DEF HttpFine
  <1> QED BY <1>1, <1>2, <1>3 DEF Touched

\* So does marking that it has timed out.
LEMMA TimedTouches ==
    ASSUME NEW x \in Requests, HttpFine(x)
    PROVE  Touched(x, [x EXCEPT !.timed = TRUE])
  <1>1. PICK y : y = [x EXCEPT !.timed = TRUE]
    OBVIOUS
  <1>2. /\ y \in Requests
        /\ y.u = x.u /\ y.there = x.there /\ y.count = x.count /\ y.below = x.below
        /\ y.http = x.http /\ y.bad = x.bad /\ y.aborted = x.aborted /\ y.told = x.told
        /\ y.late = x.late /\ y.orphan = x.orphan /\ y.twice = x.twice /\ y.cleared = x.cleared
    BY <1>1 DEF Requests
  <1>3. HttpFine(y)
    BY <1>2 DEF HttpFine
  <1> QED BY <1>1, <1>2, <1>3 DEF Touched

\* Whoever aborts a request tells the HTTP library of what has been made.
LEMMA AbortTouches ==
    ASSUME NEW x \in Requests, HttpFine(x)
    PROVE  Touched(x, Aborted(x))
  <1>1. PICK y : y = Aborted(x)
    OBVIOUS
  <1>2. CASE x.aborted
    BY <1>1, <1>2 DEF Aborted, Touched
  <1>3. CASE ~x.aborted
    <2>1. PICK w \in BOOLEAN : w = (x.http = "whole")
      OBVIOUS
    <2>2. y = [x EXCEPT !.aborted = TRUE, !.told = w]
      BY <1>1, <1>3, <2>1 DEF Aborted
    <2>3. /\ y \in Requests
          /\ y.u = x.u /\ y.there = x.there /\ y.count = x.count /\ y.below = x.below
          /\ y.http = x.http /\ y.bad = x.bad /\ y.told = w
          /\ y.late = x.late /\ y.orphan = x.orphan /\ y.twice = x.twice /\ y.cleared = x.cleared
      BY <2>2 DEF Requests
    <2>4. HttpFine(y)
      BY <2>1, <2>3 DEF HttpFine
    <2> QED BY <1>1, <2>3, <2>4 DEF Touched
  <1> QED BY <1>2, <1>3

\* What a send makes is over what there is; a request that is gone is made none
\* unless the calls were miscounted.
LEMMA MadeTouches ==
    ASSUME NEW x \in Requests, HttpFine(x), NEW what \in {"none", "partial", "whole"},
           what = "partial" => x.bad, x.there \/ x.below > 0
    PROVE  Touched(x, Made(x, what))
  <1>1. PICK y : y = Made(x, what)
    OBVIOUS
  <1>2. PICK o \in BOOLEAN : o = (x.orphan \/ x.http # "none")
    OBVIOUS
  <1>3. PICK w \in BOOLEAN : w = (x.twice \/ x.http = "whole")
    OBVIOUS
  <1>4. x.aborted \in BOOLEAN
    BY DEF Requests
  <1>5. y = [x EXCEPT !.http = what, !.orphan = o, !.twice = w, !.told = FALSE, !.late = x.aborted]
    BY <1>1, <1>2, <1>3 DEF Made
  <1>6. /\ y \in Requests
        /\ y.u = x.u /\ y.there = x.there /\ y.count = x.count /\ y.below = x.below
        /\ y.http = what /\ y.bad = x.bad /\ y.aborted = x.aborted
        /\ y.late = x.aborted /\ y.orphan = o /\ y.twice = w /\ y.cleared = x.cleared
    BY <1>4, <1>5 DEF Requests
  <1>7. x.http \in {"none", "partial", "whole"}
    BY DEF Requests
  <1>8. o => x.bad \/ w
    BY <1>2, <1>3, <1>7 DEF HttpFine
  <1>9. HttpFine(y)
    BY <1>6, <1>8 DEF HttpFine
  <1> QED BY <1>1, <1>6, <1>9 DEF Touched

\* Two touches are one.
LEMMA TouchedAgain ==
    ASSUME NEW x, NEW y, NEW w, Touched(x, y), Touched(y, w)
    PROVE  Touched(x, w)
  BY DEF Touched

\* A step of a call that only touches requests and stays where it is counted
LEMMA TouchStep ==
    ASSUME NEW t \in Threads, NEW p \in Places, Inv, Go(t, p), call[t].pc # "idle",
           SameClass(call[t].pc, p, call[t].api), p \notin Marking, FitsAt(p, call[t].api, call[t].nested),
           UNCHANGED <<contexts, users, handles, library>>, RestMoves(t),
           DOMAIN requests' = DOMAIN requests,
           requests' = [r \in DOMAIN requests' |-> requests'[r]],
           \A r \in DOMAIN requests : Touched(requests[r], requests'[r])
    PROVE  \E z : Moves(t, z)
  <1>1. PICK z \in Calls : /\ call' = [call EXCEPT ![t] = z] /\ z.pc = p
                           /\ SameCall(call[t], z)
    BY GoIs
  <1>2. Fits(z)
    BY <1>1, Typed, FitsSame
  <1>3. \A i : /\ InC(z, i) <=> InC(call[t], i)
               /\ Nst(z, i) <=> Nst(call[t], i)
               /\ InU(z, i) <=> InU(call[t], i)
               /\ InR(z, i) <=> InR(call[t], i)
    BY <1>1, ClassWeighs
  <1>4. CtxMoves(t, z)
    <2>1. \A c : /\ W(z, c) = W(call[t], c)
                 /\ InC(z, c) \/ Nst(z, c) => InC(call[t], c) \/ Nst(call[t], c)
      BY <1>3 DEF W, One
    <2> QED BY <1>1, <2>1, CtxStays DEF Marking
  <1>5. UsrMoves(t, z)
    BY <1>1, <1>3, UsrStays DEF Marking
  <1>6. ReqMoves(t, z)
    <2>1. ASSUME NEW r \in DOMAIN requests
          PROVE  requests'[r] \in Requests /\ ReqMove(t, z, r, requests[r], requests'[r])
      BY <1>3, Typed, TouchedMoves
    <2> QED BY <2>1, ReqEach
  <1>7. HdlMoves(t, z)
    BY <1>1, HdlStays DEF Marking
  <1>8. LibMoves(t)
    BY LibStays
  <1>9. Fits(z)'
    BY <1>2, <1>4, <1>6, <1>7, FitsLater
  <1> QED BY <1>1, <1>4, <1>5, <1>6, <1>7, <1>8, <1>9 DEF Moves

\* A step that touches nothing
LEMMA QuietStep ==
    ASSUME NEW t \in Threads, NEW p \in Places, Inv, Go(t, p), call[t].pc # "idle",
           SameClass(call[t].pc, p, call[t].api), p \notin Marking, FitsAt(p, call[t].api, call[t].nested),
           UNCHANGED <<contexts, users, handles, library>>, RestMoves(t), requests' = requests
    PROVE  \E z : Moves(t, z)
  <1>1. \A r \in DOMAIN requests : Touched(requests[r], requests'[r])
    BY Typed, FineNow DEF Touched
  <1>2. requests' = [r \in DOMAIN requests' |-> requests'[r]]
    <2>1. requests \in Seq(Requests)
      BY Typed
    <2> QED BY <2>1
  <1> QED BY <1>1, <1>2, TouchStep

\* A step that touches the call's own request
LEMMA OwnTouchStep ==
    ASSUME NEW t \in Threads, NEW p \in Places, Inv, Go(t, p), call[t].pc # "idle",
           SameClass(call[t].pc, p, call[t].api), p \notin Marking, FitsAt(p, call[t].api, call[t].nested),
           UNCHANGED <<contexts, users, handles, library>>, RestMoves(t),
           NEW r \in DOMAIN requests, NEW y, requests' = [requests EXCEPT ![r] = y],
           Touched(requests[r], y)
    PROVE  \E z : Moves(t, z)
  <1>0. requests \in Seq(Requests)
    BY Typed
  <1>1. \A i \in DOMAIN requests : Touched(requests[i], requests'[i])
    <2>1. \A i \in DOMAIN requests : Touched(requests[i], requests[i])
      BY Typed, FineNow DEF Touched
    <2> QED BY <1>0, <2>1
  <1>2. requests' = [i \in DOMAIN requests' |-> requests'[i]] /\ DOMAIN requests' = DOMAIN requests
    BY <1>0
  <1> QED BY <1>1, <1>2, TouchStep

-----------------------------------------------------------------------------
(* The steps that stay where they are counted.                             *)

\* What a step that leaves the tables alone leaves alone
LEMMA Unchanged ==
    /\ (UNCHANGED tables => contexts' = contexts /\ users' = users /\ userCount' = userCount
                            /\ requests' = requests /\ handles' = handles)
    /\ (UNCHANGED library => /\ active' = active /\ initialized' = initialized /\ outer' = outer
                              /\ early' = early /\ torn' = torn /\ overlapped' = overlapped)
  BY DEF tables, library

\* Where a call on a request may be, by its place
LEMMA InsideIs ==
    ASSUME Inv, NEW t \in Threads, call[t].pc \in InsideRequest
    PROVE  /\ call[t].api \in RequestCalls \cup {"deleteRequest"} /\ ~call[t].nested
           /\ call[t].r \in DOMAIN requests /\ call[t].u = requests[call[t].r].u
           /\ call[t].c \in DOMAIN contexts /\ call[t].u \in DOMAIN users
           /\ call[t].pc # "idle"
           /\ Mark(call[t].api) = 1 =>
                 requests[call[t].r].there \/ requests[call[t].r].below > 0
  <1>1. PICK x : x = call[t]
    OBVIOUS
  <1>2. Fits(x) /\ x.pc \in InsideRequest
    BY <1>1, Typed
  <1>3. /\ x.api \in RequestCalls \cup {"deleteRequest"} /\ ~x.nested /\ x.c \in DOMAIN contexts
        /\ x.r \in DOMAIN requests /\ x.u = requests[x.r].u /\ x.pc # "idle"
    BY <1>2 DEF Fits, Terminating, InsideRequest, Nesting, RequestCalls, MultipartCalls
  <1>4. /\ call[t].u \in DOMAIN users
        /\ Mark(call[t].api) = 1 => requests[call[t].r].there \/ requests[call[t].r].below > 0
    BY DEF Inv, DeletionsWait, InUseStays, InsideUser, Marks
  <1> QED BY <1>1, <1>3, <1>4

\* Taking g_global_mutex moves only the call.
LEMMA LockGlobalMoves ==
    ASSUME Inv, NEW t \in Threads, LockGlobal(t) PROVE \E z : Moves(t, z)
  <1>1. call[t].pc = "find" /\ glock' = t /\ Go(t, "global")
    BY DEF LockGlobal
  <1>2. /\ UNCHANGED <<contexts, users, handles, library>> /\ requests' = requests /\ sdk' = sdk
        /\ userCount' = userCount /\ calls' = calls
    BY Unchanged DEF LockGlobal
  <1>3. RestMoves(t)
    BY <1>1, <1>2, RestStays
  <1>4. SameClass("find", "global", call[t].api) /\ "global" \in Places \ Marking
    BY DEF SameClass, InsideContext, InsideUser, InsideRequest, Places, Marking
  <1>5. FitsAt("global", call[t].api, call[t].nested)
    BY DEF FitsAt, Terminating, Nesting, InsideRequest
  <1> QED BY <1>1, <1>2, <1>3, <1>4, <1>5, QuietStep

\* Registering a callback moves only the call.
LEMMA SetNotificationCallbackMoves ==
    ASSUME Inv, NEW t \in Threads, SetNotificationCallback(t) PROVE \E z : Moves(t, z)
  <1>1. call[t].pc = "inUser" /\ Go(t, "leaveUser") /\ call[t].api # "checkTimeout"
    BY DEF SetNotificationCallback
  <1>2. /\ UNCHANGED <<contexts, users, handles, library>> /\ requests' = requests /\ RestMoves(t)
    BY Unchanged, RestStays DEF SetNotificationCallback
  <1>3. SameClass("inUser", "leaveUser", call[t].api) /\ "leaveUser" \in Places \ Marking
    BY DEF SameClass, InsideContext, InsideUser, InsideRequest, Places, Marking
  <1>4. FitsAt("leaveUser", call[t].api, call[t].nested)
    <2>1. Fits(call[t])
      BY Typed
    <2> QED BY <1>1, <2>1 DEF FitsAt, Terminating, Fits, Nesting, InsideRequest
  <1> QED BY <1>1, <1>2, <1>3, <1>4, QuietStep

\* The steps of a call at its request that leave the tables alone
LEMMA AtRequest ==
    ASSUME Inv, NEW t \in Threads, call[t].pc \in InsideRequest \ {"drainRequest"},
           NEW p \in InsideRequest \ {"drainRequest"},
           p \in {"sendCheck", "create", "make"} => call[t].api = "sendRequest",
           p \in {"http", "readDone", "leaveRequest"} => call[t].api # "abortRequest"
    PROVE  /\ p \in Places \ Marking /\ SameClass(call[t].pc, p, call[t].api)
           /\ FitsAt(p, call[t].api, call[t].nested)
  <1>1. p \in Places \ Marking
    BY DEF InsideContext, InsideUser, InsideRequest, Places, Marking
  <1>2. SameClass(call[t].pc, p, call[t].api)
    BY DEF SameClass, InsideContext, InsideUser
  <1>3. call[t].api \in RequestCalls \cup {"deleteRequest"} /\ ~call[t].nested
    BY InsideIs
  <1>4. FitsAt(p, call[t].api, call[t].nested)
    BY <1>3 DEF FitsAt, Terminating, InsideRequest, RequestCalls, MultipartCalls
  <1> QED BY <1>1, <1>2, <1>4

\* A step at the request that changes no table
LEMMA QuietAtRequest ==
    ASSUME Inv, NEW t \in Threads, call[t].pc \in InsideRequest \ {"drainRequest"},
           NEW p \in InsideRequest \ {"drainRequest"}, Go(t, p),
           p \in {"sendCheck", "create", "make"} => call[t].api = "sendRequest",
           p \in {"http", "readDone", "leaveRequest"} => call[t].api # "abortRequest",
           UNCHANGED <<tables, sdk, glock, library, calls>>
    PROVE  \E z : Moves(t, z)
  <1>1. p \in Places /\ p \notin Marking /\ SameClass(call[t].pc, p, call[t].api)
        /\ FitsAt(p, call[t].api, call[t].nested)
    BY AtRequest
  <1>2. UNCHANGED <<contexts, users, handles, library>> /\ requests' = requests /\ RestMoves(t)
    BY Unchanged, RestStays
  <1>3. call[t].pc # "idle"
    BY DEF InsideRequest
  <1> QED BY <1>1, <1>2, <1>3, QuietStep

\* Adding a header or a part moves only the call.
LEMMA AddToRequestMoves ==
    ASSUME Inv, NEW t \in Threads, AddToRequest(t) PROVE \E z : Moves(t, z)
  <1>1. call[t].pc = "inRequest" /\ call[t].api # "abortRequest" /\ Go(t, "leaveRequest")
    BY DEF AddToRequest, InRequest, MultipartCalls
  <1>2. UNCHANGED <<tables, sdk, glock, library, calls>>
    BY DEF AddToRequest
  <1>3. "inRequest" \in InsideRequest \ {"drainRequest"} /\ "leaveRequest" \in InsideRequest \ {"drainRequest"}
    BY DEF InsideRequest
  <1> QED BY <1>1, <1>2, <1>3, QuietAtRequest

\* The check before a send moves only the call.
LEMMA CheckSendMoves ==
    ASSUME Inv, NEW t \in Threads, CheckSend(t) PROVE \E z : Moves(t, z)
  <1>1. call[t].pc = "sendCheck" /\ (Go(t, "leaveRequest") \/ Go(t, "create"))
    BY DEF CheckSend
  <1>2. UNCHANGED <<tables, sdk, glock, library, calls>>
    BY DEF CheckSend
  <1>3. {"sendCheck", "leaveRequest", "create"} \subseteq InsideRequest \ {"drainRequest"}
    BY DEF InsideRequest
  <1>4. call[t].api = "sendRequest"
    BY <1>1, Typed DEF Fits
  <1> QED BY <1>1, <1>2, <1>3, <1>4, QuietAtRequest

\* So does the decision whether to make the HTTP objects,
LEMMA DecideHttpMoves ==
    ASSUME Inv, NEW t \in Threads, DecideHttp(t) PROVE \E z : Moves(t, z)
  <1>1. call[t].pc = "create" /\ (Go(t, "http") \/ Go(t, "make"))
    BY DEF DecideHttp
  <1>2. UNCHANGED <<tables, sdk, glock, library, calls>>
    BY DEF DecideHttp
  <1>3. {"create", "http", "make"} \subseteq InsideRequest \ {"drainRequest"}
    BY DEF InsideRequest
  <1>4. call[t].api = "sendRequest"
    BY <1>1, Typed DEF Fits
  <1> QED BY <1>1, <1>2, <1>3, <1>4, QuietAtRequest

\* the call for the status code or a header,
LEMMA AskMoves ==
    ASSUME Inv, NEW t \in Threads, Ask(t) PROVE \E z : Moves(t, z)
  <1>1. call[t].pc = "inRequest" /\ call[t].api # "abortRequest" /\ Go(t, "http")
    BY DEF Ask, InRequest
  <1>2. UNCHANGED <<tables, sdk, glock, library, calls>>
    BY DEF Ask
  <1>3. {"inRequest", "http"} \subseteq InsideRequest \ {"drainRequest"}
    BY DEF InsideRequest
  <1> QED BY <1>1, <1>2, <1>3, QuietAtRequest

\* and the return from the HTTP library.
LEMMA HttpReturnsMoves ==
    ASSUME Inv, NEW t \in Threads, HttpReturns(t) PROVE \E z : Moves(t, z)
  <1>1. call[t].pc = "http" /\ (Go(t, "readDone") \/ Go(t, "leaveRequest"))
    BY DEF HttpReturns
  <1>2. UNCHANGED <<tables, sdk, glock, library, calls>>
    BY DEF HttpReturns
  <1>3. {"http", "readDone", "leaveRequest"} \subseteq InsideRequest \ {"drainRequest"}
    BY DEF InsideRequest
  <1>4. call[t].api # "abortRequest"
    BY <1>1, Typed DEF Fits
  <1> QED BY <1>1, <1>2, <1>3, <1>4, QuietAtRequest

\* The steps of a call at its request that touch it
LEMMA TouchAtRequest ==
    ASSUME Inv, NEW t \in Threads, call[t].pc \in InsideRequest \ {"drainRequest"},
           NEW p \in InsideRequest \ {"drainRequest"}, Go(t, p),
           p \in {"sendCheck", "create", "make"} => call[t].api = "sendRequest",
           p \in {"http", "readDone", "leaveRequest"} => call[t].api # "abortRequest",
           UNCHANGED <<contexts, users, userCount, handles, sdk, glock, library, calls>>,
           NEW y, requests' = [requests EXCEPT ![call[t].r] = y], Touched(requests[call[t].r], y)
    PROVE  \E z : Moves(t, z)
  <1>1. p \in Places /\ p \notin Marking /\ SameClass(call[t].pc, p, call[t].api)
        /\ FitsAt(p, call[t].api, call[t].nested)
    BY AtRequest
  <1>2. UNCHANGED <<contexts, users, handles, library>> /\ RestMoves(t)
    BY RestStays
  <1>3. call[t].pc # "idle" /\ call[t].r \in DOMAIN requests
    BY InsideIs
  <1> QED BY <1>1, <1>2, <1>3, OwnTouchStep

\* The request a call is at
LEMMA AtIs ==
    ASSUME Inv, NEW t \in Threads, call[t].pc \in InsideRequest
    PROVE  /\ call[t].r \in DOMAIN requests /\ requests[call[t].r] \in Requests
           /\ HttpFine(requests[call[t].r])
           /\ requests[call[t].r].timer \in {"off", "set", "runs"}
  <1>1. call[t].r \in DOMAIN requests
    BY InsideIs
  <1>2. requests[call[t].r] \in Requests /\ HttpFine(requests[call[t].r])
    BY <1>1, Typed, FineNow
  <1> QED BY <1>1, <1>2 DEF Requests

\* Setting a timeout touches the request.
LEMMA SetRequestTimeoutMoves ==
    ASSUME Inv, NEW t \in Threads, NEW timer \in {"set", "off"}, SetRequestTimeout(t, timer)
    PROVE  \E z : Moves(t, z)
  <1>1. /\ call[t].pc = "inRequest" /\ call[t].api # "abortRequest" /\ Go(t, "leaveRequest")
        /\ UNCHANGED <<contexts, users, userCount, handles, sdk, glock, library, calls>>
    BY DEF SetRequestTimeout, InRequest
  <1>2. {"inRequest", "leaveRequest"} \subseteq InsideRequest \ {"drainRequest"}
    BY DEF InsideRequest
  <1>3. PICK x : x = requests[call[t].r]
    OBVIOUS
  <1>4. x \in Requests /\ HttpFine(x) /\ x.timer \in {"off", "set", "runs"} /\ requests \in Seq(Requests)
    BY <1>1, <1>2, <1>3, AtIs, Typed
  <1>5. PICK v \in {"off", "set", "runs"} : v = IF x.timer = "runs" THEN x.timer ELSE timer
    BY <1>4
  <1>6. requests' = [requests EXCEPT ![call[t].r] = [x EXCEPT !.timer = v]]
    BY <1>3, <1>5 DEF SetRequestTimeout
  <1>7. Touched(x, [x EXCEPT !.timer = v])
    BY <1>4, TimerTouches
  <1> QED BY <1>1, <1>2, <1>3, <1>6, <1>7, TouchAtRequest

\* Starting a send touches the request: its timer may start.
LEMMA StartSendMoves ==
    ASSUME Inv, NEW t \in Threads, StartSend(t)
    PROVE  \E z : Moves(t, z)
  <1>1. /\ call[t].pc = "inRequest" /\ call[t].api = "sendRequest"
        /\ Go(t, "leaveRequest") \/ Go(t, "sendCheck")
        /\ UNCHANGED <<contexts, users, userCount, handles, sdk, glock, library, calls>>
    BY DEF StartSend, InRequest
  <1>2. {"inRequest", "leaveRequest", "sendCheck"} \subseteq InsideRequest \ {"drainRequest"}
    BY DEF InsideRequest
  <1>3. PICK x : x = requests[call[t].r]
    OBVIOUS
  <1>4. x \in Requests /\ HttpFine(x) /\ x.timer \in {"off", "set", "runs"} /\ requests \in Seq(Requests)
    BY <1>1, <1>2, <1>3, AtIs, Typed
  <1>5. PICK v \in {"off", "set", "runs"} : v = Started(x.timer)
    BY <1>4 DEF Started
  <1>6. requests' = [requests EXCEPT ![call[t].r] = [x EXCEPT !.timer = v]]
    BY <1>3, <1>5 DEF StartSend
  <1>7. Touched(x, [x EXCEPT !.timer = v])
    BY <1>4, TimerTouches
  <1> QED BY <1>1, <1>2, <1>3, <1>6, <1>7, TouchAtRequest

\* So does starting a read,
LEMMA StartReadMoves ==
    ASSUME Inv, NEW t \in Threads, StartRead(t)
    PROVE  \E z : Moves(t, z)
  <1>1. /\ call[t].pc = "inRequest" /\ call[t].api = "readData"
        /\ Go(t, "readDone") \/ Go(t, "http")
        /\ UNCHANGED <<contexts, users, userCount, handles, sdk, glock, library, calls>>
    BY DEF StartRead, InRequest
  <1>2. {"inRequest", "readDone", "http"} \subseteq InsideRequest \ {"drainRequest"}
    BY DEF InsideRequest
  <1>3. PICK x : x = requests[call[t].r]
    OBVIOUS
  <1>4. x \in Requests /\ HttpFine(x) /\ x.timer \in {"off", "set", "runs"} /\ requests \in Seq(Requests)
    BY <1>1, <1>2, <1>3, AtIs, Typed
  <1>5. PICK v \in {"off", "set", "runs"} : v = Started(x.timer)
    BY <1>4 DEF Started
  <1>6. requests' = [requests EXCEPT ![call[t].r] = [x EXCEPT !.timer = v]]
    BY <1>3, <1>5 DEF StartRead
  <1>7. Touched(x, [x EXCEPT !.timer = v])
    BY <1>4, TimerTouches
  <1> QED BY <1>1, <1>2, <1>3, <1>6, <1>7, TouchAtRequest

\* and ending it, which stops the timer.
LEMMA EndReadMoves ==
    ASSUME Inv, NEW t \in Threads, EndRead(t)
    PROVE  \E z : Moves(t, z)
  <1>1. /\ call[t].pc = "readDone" /\ Go(t, "leaveRequest")
        /\ UNCHANGED <<contexts, users, userCount, handles, sdk, glock, library, calls>>
    BY DEF EndRead
  <1>2. {"leaveRequest", "readDone"} \subseteq InsideRequest \ {"drainRequest"}
    BY DEF InsideRequest
  <1>3. PICK x : x = requests[call[t].r]
    OBVIOUS
  <1>4. x \in Requests /\ HttpFine(x) /\ x.timer \in {"off", "set", "runs"} /\ requests \in Seq(Requests)
    BY <1>1, <1>2, <1>3, AtIs, Typed
  <1>5. PICK v \in {"off", "set", "runs"} : v = IF x.timer = "runs" THEN "set" ELSE x.timer
    BY <1>4
  <1>6. requests' = [requests EXCEPT ![call[t].r] = [x EXCEPT !.timer = v]]
    BY <1>3, <1>5 DEF EndRead
  <1>7. Touched(x, [x EXCEPT !.timer = v])
    BY <1>4, TimerTouches
  <1>8. call[t].api # "abortRequest"
    BY <1>1, Typed DEF Fits
  <1> QED BY <1>1, <1>2, <1>3, <1>6, <1>7, <1>8, TouchAtRequest

\* Making the HTTP objects, or failing to, touches the request.
LEMMA MakeHttpMoves ==
    ASSUME Inv, NEW t \in Threads, MakeHttp(t)
    PROVE  \E z : Moves(t, z)
  <1>1. /\ call[t].pc = "make" /\ call[t].api = "sendRequest"
        /\ UNCHANGED <<contexts, users, userCount, handles, sdk, glock, library, calls>>
    BY Typed DEF MakeHttp, Fits
  <1>2. {"make", "leaveRequest", "http"} \subseteq InsideRequest \ {"drainRequest"}
    BY DEF InsideRequest
  <1>3. PICK x : x = requests[call[t].r]
    OBVIOUS
  <1>4. x \in Requests /\ HttpFine(x) /\ requests \in Seq(Requests)
    BY <1>1, <1>2, <1>3, AtIs, Typed
  <1>5. x.there \/ x.below > 0
    <2>1. Mark("sendRequest") = 1
      BY DEF Mark, MultipartCalls
    <2> QED BY <1>1, <1>2, <1>3, <2>1, InsideIs
  <1>6. \E p \in {"leaveRequest", "http"} : \E y :
           Go(t, p) /\ requests' = [requests EXCEPT ![call[t].r] = y] /\ Touched(x, y)
    <2>1. CASE /\ requests' = [requests EXCEPT ![call[t].r] = Made(x, IF x.bad THEN "partial" ELSE "whole")]
               /\ Go(t, IF x.bad THEN "leaveRequest" ELSE "http")
      <3>1. PICK what \in {"none", "partial", "whole"} : what = IF x.bad THEN "partial" ELSE "whole"
        OBVIOUS
      <3>2. Touched(x, Made(x, what))
        BY <1>4, <1>5, <3>1, MadeTouches
      <3>3. PICK p \in {"leaveRequest", "http"} : p = IF x.bad THEN "leaveRequest" ELSE "http"
        OBVIOUS
      <3>4. Go(t, p) /\ requests' = [requests EXCEPT ![call[t].r] = Made(x, what)]
        BY <2>1, <3>1, <3>3
      <3> QED BY <3>2, <3>4
    <2>2. CASE requests' = requests /\ Go(t, "leaveRequest")
      <3>1. Touched(x, x)
        BY <1>4 DEF Touched
      <3>2. requests' = [requests EXCEPT ![call[t].r] = x]
        BY <2>2, <1>3, <1>4
      <3> QED BY <2>2, <3>1, <3>2
    <2>3. CASE requests' = [requests EXCEPT ![call[t].r] = Unmade(x)] /\ Go(t, "leaveRequest")
      <3>1. PICK what \in {"none", "partial", "whole"} : what = IF x.http = "whole" THEN "whole" ELSE "none"
        OBVIOUS
      <3>2. Unmade(x) = Made(x, what) /\ what # "partial"
        BY <3>1 DEF Unmade
      <3>3. Touched(x, Made(x, what))
        BY <1>4, <1>5, <3>2, MadeTouches
      <3> QED BY <2>3, <3>2, <3>3
    <2> QED BY <1>3, <2>1, <2>2, <2>3 DEF MakeHttp
  <1>7. PICK p \in {"leaveRequest", "http"} : \E y :
           Go(t, p) /\ requests' = [requests EXCEPT ![call[t].r] = y] /\ Touched(x, y)
    BY <1>6
  <1> QED BY <1>1, <1>2, <1>3, <1>7, TouchAtRequest

\* Aborting touches the request, by a call that is not counted in at it.
LEMMA AbortRequestMoves ==
    ASSUME Inv, NEW t \in Threads, AbortRequest(t)
    PROVE  \E z : Moves(t, z)
  <1>1. /\ call[t].pc = "inRequest" /\ call[t].api = "abortRequest" /\ Go(t, "leaveUser")
        /\ UNCHANGED <<contexts, users, userCount, handles, sdk, glock, library, calls>>
    BY DEF AbortRequest, InRequest
  <1>2. "inRequest" \in InsideRequest
    BY DEF InsideRequest
  <1>3. PICK x : x = requests[call[t].r]
    OBVIOUS
  <1>4. x \in Requests /\ HttpFine(x) /\ requests \in Seq(Requests) /\ call[t].r \in DOMAIN requests
    BY <1>1, <1>2, <1>3, AtIs, Typed
  <1>5. requests' = [requests EXCEPT ![call[t].r] = Aborted(x)]
    BY <1>3 DEF AbortRequest
  <1>6. Touched(x, Aborted(x))
    BY <1>4, AbortTouches
  <1>7. RestMoves(t) /\ ~call[t].nested
    BY <1>1, <1>2, RestStays, InsideIs
  <1>8. SameClass("inRequest", "leaveUser", call[t].api)
    BY <1>1 DEF SameClass, InsideContext, InsideUser, InsideRequest, Mark, MultipartCalls
  <1>9. FitsAt("leaveUser", call[t].api, call[t].nested) /\ "leaveUser" \in Places \ Marking
    BY <1>1, <1>7 DEF FitsAt, Terminating, InsideRequest, Places, InsideContext, InsideUser, Marking
  <1> QED BY <1>1, <1>3, <1>4, <1>5, <1>6, <1>7, <1>8, <1>9, OwnTouchStep

-----------------------------------------------------------------------------
(* The game's calls begin.                                                 *)

\* A context that stays as it is moves as the relation says.
LEMMA CtxSame ==
    ASSUME NEW t \in Threads, NEW z, Inv, NEW c \in DOMAIN contexts, W(z, c) = W(call[t], c),
           InC(z, c) \/ Nst(z, c) => InC(call[t], c) \/ Nst(call[t], c),
           z.c = c => z.pc \notin Marking
    PROVE  CtxMove(t, z, c, contexts[c], contexts[c])
  <1>1. contexts[c].owner = None <=> contexts[c].depth = 0
    BY DEF Inv, LocksFit
  <1>2. contexts[c] \in Contexts
    BY Typed
  <1>3. contexts[c].there \in BOOLEAN
    BY <1>2 DEF Contexts
  <1> QED BY <1>1, <1>3 DEF CtxMove, Marking

\* A call that is not inside weighs nothing.
LEMMA OutsideWeighs ==
    ASSUME NEW x, x.pc \notin InsideContext, ~x.nested
    PROVE  \A i : /\ ~InC(x, i) /\ ~Nst(x, i) /\ ~InU(x, i) /\ ~InR(x, i) /\ W(x, i) = 0
  BY DEF InC, Nst, InU, InR, W, One, InsideContext, InsideUser

\* A thread outside the library is in no context and nested in none.
LEMMA IdleNow ==
    ASSUME Inv, NEW t \in Threads, call[t].pc = "idle"
    PROVE  ~call[t].nested /\ call[t].pc \notin InsideContext
  BY Typed DEF Fits, Nesting, InsideContext, InsideUser, InsideRequest

\* A thread between two calls changes no call, and of the tables the contexts at most.
LEMMA OutsideMoves ==
    ASSUME Inv, NEW t \in Threads, call[t].pc = "idle", call' = call,
           UNCHANGED <<users, userCount, requests, handles, sdk, glock>>, calls' \in 0 .. MaxCalls,
           CtxMoves(t, call[t]), LibMoves(t)
    PROVE  Moves(t, call[t])
  <1>0. PICK z : z = call[t]
    OBVIOUS
  <1>1. /\ z \in Calls /\ Fits(z) /\ z.pc = "idle" /\ ~z.nested /\ z.pc \notin InsideContext
        /\ call' = [call EXCEPT ![t] = z]
    BY <1>0, Typed, IdleNow
  <1>2. UsrMoves(t, z)
    BY <1>0, <1>1, UsrStays
  <1>3. ReqMoves(t, z)
    BY <1>0, ReqStays
  <1>4. HdlMoves(t, z)
    BY <1>1, HdlStays
  <1>5. RestMoves(t)
    BY Typed DEF RestMoves
  <1>6. Fits(z)'
    BY <1>0, <1>1, <1>3, <1>4, FitsLater
  <1> QED BY <1>0, <1>1, <1>2, <1>3, <1>4, <1>5, <1>6 DEF Moves

\* Most change no table.
LEMMA OutsideStays ==
    ASSUME Inv, NEW t \in Threads, call[t].pc = "idle", call' = call,
           UNCHANGED <<tables, sdk, glock>>, calls' \in 0 .. MaxCalls, LibMoves(t)
    PROVE  Moves(t, call[t])
  <1>1. UNCHANGED <<contexts, users, userCount, requests, handles, sdk, glock>>
    BY DEF tables
  <1>2. CtxMoves(t, call[t])
    BY <1>1, CtxStays
  <1> QED BY <1>1, <1>2, OutsideMoves

\* The contexts there are stay where no table changes.
LEMMA ThereStays ==
    ASSUME Inv, UNCHANGED tables
    PROVE  Cardinality(There)' = Cardinality(There) + 0
  <1>1. There' = There
    BY DEF There, tables
  <1> QED BY <1>1, LedgerNat

\* sceNpWebApiInitialize begins with the mark, read
LEMMA InitializeMoves ==
    ASSUME Inv, NEW t \in Threads, MayCall(t), Initialize(t) PROVE Moves(t, call[t])
  <1>1. PICK x : x = outer[t]
    OBVIOUS
  <1>2. PICK y : y = [x EXCEPT !.pc = IF initialized THEN "create" ELSE "set"]
    OBVIOUS
  <1>3. /\ x \in Outers /\ x.pc = "none" /\ call[t].pc = "idle" /\ calls < MaxCalls /\ calls' = calls + 1
        /\ UNCHANGED <<tables, sdk, glock>> /\ UNCHANGED <<active, initialized, early, torn>> /\ call' = call
        /\ overlapped' = (overlapped \/ \E u \in Threads \ {t} : outer[u].pc # "none")
        /\ outer' = [outer EXCEPT ![t] = y]
    BY <1>1, <1>2, Typed DEF MayCall, Initialize, Enters
  <1>4. /\ y \in Outers /\ y.pc \in {"create", "set"} /\ (y.pc = "create" => initialized)
    BY <1>2, <1>3 DEF Outers, OuterPlaces
  <1>5. overlapped' \in BOOLEAN /\ (torn => overlapped)
    BY <1>3 DEF Inv, LibraryFits, TornFits
  <1>6. ~overlapped' /\ early' = 0 => MarkAt(y, active', initialized')
    <2>1. ~overlapped' => ~overlapped /\ \A u \in Threads \ {t} : outer[u].pc = "none"
      BY <1>3
    <2>2. ~overlapped' /\ early = 0 => active >= 0
      BY <1>1, <1>3, <2>1, RestNow
    <2> QED BY <1>3, <1>4, <2>2 DEF MarkAt
  <1>7. PICK d : d = 0
    OBVIOUS
  <1>a. active' - active = d - early' + early - One(Entering(y)) + One(Entering(x))
                             + One(Exiting(y)) - One(Exiting(x))
    BY <1>3, <1>4, <1>7, Typed DEF One, Entering, Exiting
  <1>b. d \in Int /\ Cardinality(There)' = Cardinality(There) + d
    BY <1>3, <1>7, ThereStays
  <1>c. /\ active' \in Int /\ early' \in Nat /\ initialized' \in BOOLEAN /\ torn' \in BOOLEAN
        /\ overlapped => overlapped'
        /\ torn => torn'
        /\ torn' => overlapped'
        /\ call'[t].pc = "idle"
    BY <1>3, <1>5, Typed
  <1>d. /\ ~overlapped' => \A u \in Threads \ {t} : outer[u].pc = "none"
        /\ y.pc \notin {"counted", "uncounted", "written"}
    BY <1>3, <1>4
  <1>8. LibMoves(t)
    BY <1>1, <1>3, <1>4, <1>5, <1>6, <1>a, <1>b, <1>c, <1>d, LibStep
  <1>9. calls' \in 0 .. MaxCalls
    BY <1>3, Typed, BoundsNat
  <1> QED BY <1>3, <1>8, <1>9, OutsideStays

\* and goes on, or sceNpWebApiTerminate ends, with the count and the mark as they then are.
LEMMA OuterStep ==
    ASSUME Inv, NEW t \in Threads, NEW x, x = outer[t], x.pc # "none",
           NEW y \in Outers, outer' = [outer EXCEPT ![t] = y],
           UNCHANGED <<tables, sdk, glock, early, overlapped, call, calls>>,
           active' \in Int, initialized' \in BOOLEAN, torn' \in BOOLEAN, torn => torn', torn' => overlapped,
           ~torn' => active' - active = One(Entering(x)) - One(Entering(y)) + One(Exiting(y)) - One(Exiting(x)),
           ~overlapped /\ y.pc \in {"counted", "uncounted", "written"} => y.n = active',
           ~overlapped /\ early = 0 => MarkAt(y, active', initialized')
    PROVE  Moves(t, call[t])
  <1>1. x \in Outers /\ call[t].pc = "idle" /\ call'[t].pc = "idle"
    BY OuterNow
  <1>2. /\ early' = early /\ overlapped' = overlapped /\ early \in Nat /\ overlapped \in BOOLEAN
        /\ active \in Int
    BY Typed
  <1>3. \A b : One(b) \in {0, 1}
    BY DEF One
  <1>4. PICK d : d = 0
    OBVIOUS
  <1>5. ~torn' => active' - active = d - early' + early - One(Entering(y)) + One(Entering(x))
                                        + One(Exiting(y)) - One(Exiting(x))
    BY <1>2, <1>3, <1>4
  <1>6. d \in Int /\ Cardinality(There)' = Cardinality(There) + d
    BY <1>4, ThereStays
  <1>7. /\ early' \in Nat /\ overlapped' \in BOOLEAN /\ (overlapped => overlapped')
        /\ torn' => overlapped'
        /\ ~overlapped' /\ y.pc \in {"counted", "uncounted", "written"} => y.n = active'
        /\ ~overlapped' /\ early' = 0 => MarkAt(y, active', initialized')
    BY <1>2
  <1>8. LibMoves(t)
    BY <1>1, <1>5, <1>6, <1>7, LibStep
  <1> QED BY <1>1, <1>8, Typed, OutsideStays

LEMMA SetInitializedMoves ==
    ASSUME Inv, NEW t \in Threads, SetInitialized(t) PROVE Moves(t, call[t])
  <1>1. PICK x : x = outer[t]
    OBVIOUS
  <1>2. PICK y : y = [x EXCEPT !.pc = "create"]
    OBVIOUS
  <1>3. /\ x.pc = "set" /\ initialized' = TRUE /\ outer' = [outer EXCEPT ![t] = y]
        /\ UNCHANGED <<tables, sdk, glock, early, overlapped, call, calls>> /\ UNCHANGED <<active, torn>>
    BY <1>1, <1>2 DEF SetInitialized, AtOuter, GoOuter
  <1>4. /\ x \in Outers /\ (torn => overlapped) /\ (~overlapped /\ early = 0 => active >= 0)
    BY <1>1, <1>3, OuterNow DEF MarkAt
  <1>5. y \in Outers /\ y.pc = "create"
    BY <1>2, <1>4 DEF Outers, OuterPlaces
  <1>6. ~Entering(x) /\ ~Exiting(x) /\ ~Entering(y) /\ ~Exiting(y)
    BY <1>3, <1>5 DEF Entering, Exiting
  <1>7. active' - active = One(Entering(x)) - One(Entering(y)) + One(Exiting(y)) - One(Exiting(x))
    BY <1>3, <1>6, Typed DEF One
  <1>8. ~overlapped /\ early = 0 => MarkAt(y, active', initialized')
    BY <1>3, <1>4, <1>5 DEF MarkAt
  <1>9. initialized' \in BOOLEAN /\ active' \in Int /\ torn' \in BOOLEAN
    BY <1>3, Typed
  <1> QED BY <1>1, <1>3, <1>4, <1>5, <1>7, <1>8, <1>9, OuterStep

\* The new context is there before it is counted.
LEMMA CreateLibraryContextMoves ==
    ASSUME Inv, NEW t \in Threads, CreateLibraryContext(t) PROVE Moves(t, call[t])
  <1>0. PICK z : z = call[t]
    OBVIOUS
  <1>a. PICK x : x = outer[t]
    OBVIOUS
  <1>b. PICK y : y = [x EXCEPT !.pc = "count", !.c = Len(contexts) + 1]
    OBVIOUS
  <1>1. /\ z \in Calls /\ z.pc = "idle" /\ ~z.nested /\ z.pc \notin InsideContext /\ call' = call
        /\ x.pc = "create" /\ outer' = [outer EXCEPT ![t] = y]
    BY <1>0, <1>a, <1>b, Typed, IdleNow DEF CreateLibraryContext, AtOuter
  <1>2. \A i : ~InC(z, i) /\ ~Nst(z, i)
    BY <1>1 DEF InC, Nst
  <1>3. /\ contexts' = Append(contexts, NewContext)
        /\ UNCHANGED <<users, userCount, requests, handles, sdk, glock, calls>>
        /\ UNCHANGED <<active, initialized, early, torn, overlapped>> /\ Len(contexts) < MaxContexts
    BY DEF CreateLibraryContext
  <1>4. NewContext \in Contexts
    BY DEF NewContext, Contexts
  <1>5. PICK n : n = Len(contexts) + 1
    OBVIOUS
  <1>6. /\ contexts' \in Seq(Contexts) /\ Len(contexts') = n
        /\ DOMAIN contexts' = DOMAIN contexts \cup {n}
        /\ contexts'[n] = NewContext /\ n \notin DOMAIN contexts
        /\ \A c \in DOMAIN contexts : contexts'[c] = contexts[c]
    BY <1>3, <1>4, <1>5, Typed, Longer
  <1>7. CtxMoves(t, z)
    <2>1. ASSUME NEW c \in DOMAIN contexts PROVE CtxMove(t, z, c, contexts[c], contexts'[c])
      <3>1. CtxMove(t, z, c, contexts[c], contexts[c])
        BY <1>0, <1>1, CtxSame DEF Marking
      <3> QED BY <1>6, <3>1
    <2>2. Len(contexts') <= MaxContexts
      BY <1>3, <1>5, <1>6, Typed, BoundsNat
    <2> QED BY <1>1, <1>6, <2>1, <2>2 DEF CtxMoves
  <1>8. Cardinality(There)' = Cardinality(There) + 1
    <2>1. There' = There \cup {n} /\ n \notin There
      BY <1>6 DEF There, NewContext
    <2> QED BY <2>1, LedgerNat, FS_AddElement
  <1>9. /\ x \in Outers /\ (torn => overlapped)
        /\ (~overlapped /\ early = 0 => active >= 0 /\ initialized)
    BY <1>a, <1>1, OuterNow DEF MarkAt
  <1>10. y \in Outers /\ y.pc = "count"
    <2>1. Len(contexts) + 1 \in Nat
      BY Typed
    <2> QED BY <1>b, <1>9, <2>1 DEF Outers, OuterPlaces
  <1>c. PICK d : d = 1
    OBVIOUS
  <1>11. active' - active = d - early' + early - One(Entering(y)) + One(Entering(x))
                              + One(Exiting(y)) - One(Exiting(x))
    <2>1. Entering(y) /\ ~Entering(x) /\ ~Exiting(y) /\ ~Exiting(x)
      BY <1>1, <1>10 DEF Entering, Exiting
    <2> QED BY <1>3, <1>c, <2>1, Typed DEF One
  <1>d. d \in Int /\ Cardinality(There)' = Cardinality(There) + d
    BY <1>c, <1>8
  <1>e. /\ active' \in Int /\ early' \in Nat /\ initialized' \in BOOLEAN /\ torn' \in BOOLEAN
        /\ overlapped' \in BOOLEAN /\ overlapped' = overlapped /\ torn' = torn /\ call'[t].pc = "idle"
    BY <1>0, <1>1, <1>3, Typed
  <1>12. ~overlapped' /\ early' = 0 => MarkAt(y, active', initialized')
    BY <1>3, <1>9, <1>10 DEF MarkAt
  <1>13. LibMoves(t)
    BY <1>a, <1>1, <1>9, <1>10, <1>11, <1>12, <1>d, <1>e, LibStep
  <1> QED BY <1>0, <1>1, <1>3, <1>7, <1>13, Typed, OutsideMoves

LEMMA ReadCountMoves ==
    ASSUME Inv, NEW t \in Threads,
           NEW pc, NEW read, <<pc, read>> \in {<<"count", "counted">>, <<"uncount", "uncounted">>},
           ReadCount(t, pc, read)
    PROVE  Moves(t, call[t])
  <1>1. PICK x : x = outer[t]
    OBVIOUS
  <1>2. PICK y : y = [x EXCEPT !.pc = read, !.n = active]
    OBVIOUS
  <1>3. /\ x.pc = pc /\ outer' = [outer EXCEPT ![t] = y]
        /\ UNCHANGED <<tables, sdk, glock, early, overlapped, call, calls>>
        /\ UNCHANGED <<active, initialized, torn>>
    BY <1>1, <1>2 DEF ReadCount, AtOuter
  <1>4. /\ x \in Outers /\ (torn => overlapped) /\ (~overlapped /\ early = 0 => MarkAt(x, active, initialized))
    BY <1>1, <1>3, OuterNow
  <1>5. y \in Outers /\ y.pc = read /\ y.n = active
    BY <1>2, <1>4, Typed DEF Outers, OuterPlaces
  <1>6. Entering(y) = Entering(x) /\ Exiting(y) = Exiting(x)
    BY <1>3, <1>5 DEF Entering, Exiting
  <1>7. active' - active = One(Entering(x)) - One(Entering(y)) + One(Exiting(y)) - One(Exiting(x))
    BY <1>3, <1>6, Typed DEF One
  <1>8. ~overlapped /\ early = 0 => MarkAt(y, active', initialized')
    BY <1>3, <1>4, <1>5 DEF MarkAt
  <1> QED BY <1>1, <1>3, <1>4, <1>5, <1>7, <1>8, Typed, OuterStep

\* Alone, a thread writes one more or one less than there still is.
LEMMA CountUpMoves ==
    ASSUME Inv, NEW t \in Threads, CountUp(t) PROVE Moves(t, call[t])
  <1>1. PICK x : x = outer[t]
    OBVIOUS
  <1>2. /\ x.pc = "counted" /\ outer' = [outer EXCEPT ![t] = Outside]
        /\ active' = x.n + 1 /\ torn' = (torn \/ active # x.n)
        /\ UNCHANGED <<tables, sdk, glock, early, overlapped, call, calls>> /\ initialized' = initialized
    BY <1>1 DEF CountUp, AtOuter, WriteCount
  <1>3. /\ x \in Outers /\ (torn => overlapped) /\ (~overlapped => x.n = active)
        /\ (~overlapped /\ early = 0 => MarkAt(x, active, initialized))
    BY <1>1, <1>2, OuterNow
  <1>a. x.n \in Int /\ active \in Int
    BY <1>3, Typed DEF Outers
  <1>4. Outside \in Outers /\ Outside.pc = "none"
    BY DEF Outside, Outers, OuterPlaces
  <1>5. active' \in Int /\ torn' \in BOOLEAN /\ (torn' => overlapped)
    BY <1>2, <1>3, Typed DEF Outers
  <1>6. Entering(x) /\ ~Exiting(x) /\ ~Entering(Outside) /\ ~Exiting(Outside)
    BY <1>2, <1>4 DEF Entering, Exiting
  <1>7. ~torn' => active' - active = One(Entering(x)) - One(Entering(Outside)) + One(Exiting(Outside)) - One(Exiting(x))
    <2>1. ~torn' => x.n = active
      BY <1>2
    <2>2. active' = x.n + 1
      BY <1>2
    <2> QED BY <2>1, <2>2, <1>6, <1>a DEF One
  <1>8. ~overlapped /\ early = 0 => MarkAt(Outside, active', initialized')
    BY <1>2, <1>3, <1>4, Typed DEF MarkAt
  <1> QED BY <1>1, <1>2, <1>3, <1>4, <1>5, <1>7, <1>8, Typed, OuterStep

LEMMA CountDownMoves ==
    ASSUME Inv, NEW t \in Threads, CountDown(t) PROVE Moves(t, call[t])
  <1>1. PICK x : x = outer[t]
    OBVIOUS
  <1>2. PICK y : y = [x EXCEPT !.pc = "written", !.n = @ - 1]
    OBVIOUS
  <1>3. /\ x.pc = "uncounted" /\ outer' = [outer EXCEPT ![t] = y]
        /\ active' = x.n - 1 /\ torn' = (torn \/ active # x.n)
        /\ UNCHANGED <<tables, sdk, glock, early, overlapped, call, calls>> /\ initialized' = initialized
    BY <1>1, <1>2 DEF CountDown, AtOuter, WriteCount
  <1>4. /\ x \in Outers /\ (torn => overlapped) /\ (~overlapped => x.n = active)
        /\ (~overlapped /\ early = 0 => MarkAt(x, active, initialized))
    BY <1>1, <1>3, OuterNow
  <1>a. x.n \in Int /\ x.n - 1 \in Int /\ active \in Int
    BY <1>4, Typed DEF Outers
  <1>5. y \in Outers /\ y.pc = "written" /\ y.n = x.n - 1
    BY <1>2, <1>4, <1>a DEF Outers, OuterPlaces
  <1>6. active' \in Int /\ torn' \in BOOLEAN /\ (torn' => overlapped)
    BY <1>3, <1>4, Typed DEF Outers
  <1>7. ~Entering(x) /\ Exiting(x) /\ ~Entering(y) /\ ~Exiting(y)
    BY <1>3, <1>5 DEF Entering, Exiting
  <1>8. ~torn' => active' - active = One(Entering(x)) - One(Entering(y)) + One(Exiting(y)) - One(Exiting(x))
    <2>1. ~torn' => x.n = active
      BY <1>3
    <2>2. active' = x.n - 1
      BY <1>3
    <2> QED BY <2>1, <2>2, <1>7, <1>a DEF One
  <1>9. ~overlapped /\ early = 0 => MarkAt(y, active', initialized')
    BY <1>3, <1>4, <1>5, Typed DEF MarkAt
  <1> QED BY <1>1, <1>3, <1>4, <1>5, <1>6, <1>8, <1>9, Typed, OuterStep

\* What it then finds is what it has written.
LEMMA TestCountMoves ==
    ASSUME Inv, NEW t \in Threads, TestCount(t) PROVE Moves(t, call[t])
  <1>1. PICK x : x = outer[t]
    OBVIOUS
  <1>2. /\ x.pc = "written" /\ UNCHANGED <<tables, sdk, glock, early, overlapped, call, calls>>
        /\ UNCHANGED <<active, initialized, torn>>
    BY <1>1 DEF TestCount, AtOuter
  <1>3. PICK n \in {x.n, active} :
           outer' = [outer EXCEPT ![t] = IF n = 0 THEN [Outside EXCEPT !.pc = "clear"] ELSE Outside]
    BY <1>1 DEF TestCount
  <1>4. PICK y : y = IF n = 0 THEN [Outside EXCEPT !.pc = "clear"] ELSE Outside
    OBVIOUS
  <1>5. /\ x \in Outers /\ (torn => overlapped) /\ (~overlapped => x.n = active)
        /\ (~overlapped /\ early = 0 => MarkAt(x, active, initialized))
    BY <1>1, <1>2, OuterNow
  <1>6. y \in Outers /\ y.pc = (IF n = 0 THEN "clear" ELSE "none")
    BY <1>4 DEF Outside, Outers, OuterPlaces
  <1>7. outer' = [outer EXCEPT ![t] = y]
    BY <1>3, <1>4
  <1>8. ~Entering(x) /\ ~Exiting(x) /\ ~Entering(y) /\ ~Exiting(y)
    BY <1>2, <1>6 DEF Entering, Exiting
  <1>9. active' - active = One(Entering(x)) - One(Entering(y)) + One(Exiting(y)) - One(Exiting(x))
    BY <1>2, <1>8, Typed DEF One
  <1>10. ~overlapped /\ early = 0 => MarkAt(y, active', initialized')
    BY <1>2, <1>5, <1>6, Typed DEF MarkAt
  <1>11. y.pc \notin {"counted", "uncounted", "written"}
    BY <1>6
  <1> QED BY <1>1, <1>2, <1>5, <1>6, <1>7, <1>9, <1>10, <1>11, Typed, OuterStep

LEMMA ClearInitializedMoves ==
    ASSUME Inv, NEW t \in Threads, ClearInitialized(t) PROVE Moves(t, call[t])
  <1>1. PICK x : x = outer[t]
    OBVIOUS
  <1>2. /\ x.pc = "clear" /\ initialized' = FALSE /\ outer' = [outer EXCEPT ![t] = Outside]
        /\ UNCHANGED <<tables, sdk, glock, early, overlapped, call, calls>> /\ UNCHANGED <<active, torn>>
    BY <1>1 DEF ClearInitialized, AtOuter
  <1>3. x \in Outers /\ (torn => overlapped) /\ (~overlapped /\ early = 0 => active = 0)
    BY <1>1, <1>2, OuterNow DEF MarkAt
  <1>4. Outside \in Outers /\ Outside.pc = "none"
    BY DEF Outside, Outers, OuterPlaces
  <1>5. ~Entering(x) /\ ~Exiting(x) /\ ~Entering(Outside) /\ ~Exiting(Outside)
    BY <1>2, <1>4 DEF Entering, Exiting
  <1>6. active' - active = One(Entering(x)) - One(Entering(Outside)) + One(Exiting(Outside)) - One(Exiting(x))
    BY <1>2, <1>5, Typed DEF One
  <1>7. ~overlapped /\ early = 0 => MarkAt(Outside, active', initialized')
    BY <1>2, <1>3, <1>4 DEF MarkAt
  <1>8. initialized' \in BOOLEAN /\ active' \in Int /\ torn' \in BOOLEAN
    BY <1>2, Typed
  <1> QED BY <1>1, <1>2, <1>3, <1>4, <1>6, <1>7, <1>8, OuterStep

LEMMA WorkOuterMoves ==
    ASSUME Inv, NEW t \in Threads, WorkOuter(t) PROVE Moves(t, call[t])
  BY SetInitializedMoves, CreateLibraryContextMoves, ReadCountMoves, CountUpMoves, CountDownMoves,
     TestCountMoves, ClearInitializedMoves DEF WorkOuter

\* A call that begins changes nothing but itself.
LEMMA BeginsMoves ==
    ASSUME Inv, NEW t \in Threads, MayCall(t), NEW z \in Calls, Begins(t, z), z.pc = "find",
           ~z.nested, Fits(z)
    PROVE  Moves(t, z)
  <1>1. call[t].pc = "idle" /\ calls < MaxCalls /\ calls' = calls + 1 /\ call' = [call EXCEPT ![t] = z]
    BY DEF Begins, MayCall
  <1>2. /\ UNCHANGED <<contexts, users, requests, handles, library>>
        /\ userCount' = userCount /\ sdk' = sdk /\ glock' = glock
    BY Unchanged DEF Begins
  <1>3. z.pc \notin InsideContext /\ z.pc \notin Marking
    BY DEF InsideContext, InsideUser, InsideRequest, Marking
  <1>4. \A i : /\ ~InC(z, i) /\ ~Nst(z, i) /\ ~InU(z, i) /\ ~InR(z, i) /\ W(z, i) = 0
    BY <1>3, OutsideWeighs
  <1>5. \A i : /\ ~InC(call[t], i) /\ ~Nst(call[t], i) /\ ~InU(call[t], i) /\ ~InR(call[t], i)
               /\ W(call[t], i) = 0
    BY <1>1, IdleNow, OutsideWeighs
  <1>6. CtxMoves(t, z)
    BY <1>2, <1>3, <1>4, <1>5, CtxStays DEF Marking
  <1>7. UsrMoves(t, z)
    BY <1>2, <1>3, <1>4, <1>5, UsrStays
  <1>8. ReqMoves(t, z)
    BY <1>2, <1>4, <1>5, ReqStays
  <1>9. HdlMoves(t, z)
    BY <1>2, HdlStays
  <1>10. LibMoves(t)
    BY <1>2, LibStays
  <1>11. RestMoves(t)
    BY <1>1, <1>2, Typed, BoundsNat DEF RestMoves
  <1>12. Fits(z)'
    BY <1>6, <1>8, <1>9, FitsLater
  <1> QED BY <1>1, <1>6, <1>7, <1>8, <1>9, <1>10, <1>11, <1>12 DEF Moves

\* The names of the calls are apart.
LEMMA NoRequestCalls ==
    /\ \A api \in {"createHandle", "terminateContext", "createUserContext", "createRequest",
                   "registerNotificationCallback", "deleteUserContext", "checkTimeout",
                   "abortHandle", "deleteHandle"} :
          api \notin RequestCalls \cup {"deleteRequest"} /\ api \in GameCalls
    /\ Apis \cup {"deleteRequest"} \subseteq GameCalls
    /\ Apis \cup {"deleteRequest"} \subseteq RequestCalls \cup {"deleteRequest"}
    /\ \A api \in RequestCalls \cup {"deleteRequest"} :
          api \notin {"checkTimeout", "createRequest", "createUserContext", "terminateContext"} \cup HandleCalls
  BY BoundsNat DEF RequestCalls, MultipartCalls, GameCalls, HandleCalls

\* What a call is when it begins
LEMMA BegunFits ==
    ASSUME NEW z, z.pc = "find", ~z.nested,
           z.api # "checkTimeout" => z.c \in DOMAIN contexts,
           z.api \in RequestCalls \cup {"deleteRequest"} =>
              z.r \in DOMAIN requests /\ z.u = requests[z.r].u,
           z.api \in HandleCalls => z.h \in DOMAIN handles,
           z.api = "createRequest" => z.u[1] = z.c,
           z.api = "createUserContext" => z.user \in Users
    PROVE  Fits(z)
  BY DEF Fits, Terminating, InsideRequest

\* Every call of the game moves as the relation says.
LEMMA BeginMoves ==
    ASSUME Inv, NEW t \in Threads, Begin(t) PROVE \E z : Moves(t, z)
  <1>0. "find" \in Places /\ MaxContexts \in Nat /\ UserIdLimit \in Nat
    BY BoundsNat DEF Places
  <1>a. MayCall(t)
    BY DEF Begin
  <1>1. CASE Initialize(t)
    BY <1>a, <1>1, InitializeMoves
  <1>2. CASE BeginCheckTimeout(t)
    <2>1. PICK z : z = [Idle EXCEPT !.pc = "find", !.api = "checkTimeout"]
      OBVIOUS
    <2>2. z \in Calls /\ z.pc = "find" /\ ~z.nested /\ z.api = "checkTimeout"
      BY <2>1, <1>0, NoRequestCalls DEF Idle, Calls
    <2>3. Begins(t, z) /\ Fits(z)
      BY <1>2, <2>1, <2>2, NoRequestCalls, BegunFits DEF BeginCheckTimeout, HandleCalls
    <2> QED BY <2>2, <2>3, <1>a, BeginsMoves
  <1>3. ASSUME NEW c \in DOMAIN contexts, NEW api \in {"createHandle", "terminateContext"},
               BeginContextCall(t, api, c)
        PROVE  \E z : Moves(t, z)
    <2>1. PICK z : z = [Idle EXCEPT !.pc = "find", !.api = api, !.c = c]
      OBVIOUS
    <2>2. z \in Calls /\ z.pc = "find" /\ ~z.nested /\ z.api = api /\ z.c = c
      <3>1. c \in Nat
        BY Typed
      <3> QED BY <2>1, <1>0, <3>1, NoRequestCalls DEF Idle, Calls
    <2>3. Begins(t, z) /\ Fits(z)
      BY <1>3, <2>1, <2>2, NoRequestCalls, BegunFits DEF BeginContextCall, HandleCalls
    <2> QED BY <2>2, <2>3, <1>a, BeginsMoves
  <1>4. ASSUME NEW c \in DOMAIN contexts, NEW x \in Users, BeginCreateUserContext(t, c, x)
        PROVE  \E z : Moves(t, z)
    <2>1. PICK z : z = [Idle EXCEPT !.pc = "find", !.api = "createUserContext", !.c = c, !.user = x]
      OBVIOUS
    <2>2. z \in Calls /\ z.pc = "find" /\ ~z.nested /\ z.api = "createUserContext" /\ z.c = c /\ z.user = x
      <3>1. c \in Nat
        BY Typed
      <3> QED BY <2>1, <1>0, <3>1, NoRequestCalls DEF Idle, Calls
    <2>3. Begins(t, z) /\ Fits(z)
      BY <1>4, <2>1, <2>2, NoRequestCalls, BegunFits DEF BeginCreateUserContext, HandleCalls
    <2> QED BY <2>2, <2>3, <1>a, BeginsMoves
  <1>5. ASSUME NEW k \in Keys, NEW api \in {"createRequest", "registerNotificationCallback", "deleteUserContext"},
               BeginUserCall(t, api, k)
        PROVE  \E z : Moves(t, z)
    <2>1. PICK z : z = [Idle EXCEPT !.pc = "find", !.api = api, !.c = k[1], !.u = k]
      OBVIOUS
    <2>2. z \in Calls /\ z.pc = "find" /\ ~z.nested /\ z.api = api /\ z.c = k[1] /\ z.u = k
      <3>1. k \in Nat \X Nat /\ k[1] \in Nat
        BY <1>0 DEF Keys
      <3> QED BY <2>1, <1>0, <3>1, NoRequestCalls DEF Idle, Calls
    <2>3. Begins(t, z) /\ Fits(z)
      BY <1>5, <2>1, <2>2, NoRequestCalls, BegunFits DEF BeginUserCall, HandleCalls
    <2> QED BY <2>2, <2>3, <1>a, BeginsMoves
  <1>6. ASSUME NEW r \in DOMAIN requests, NEW api \in Apis \cup {"deleteRequest"}, BeginRequestCall(t, api, r)
        PROVE  \E z : Moves(t, z)
    <2>0. PICK k : k = requests[r].u
      OBVIOUS
    <2>1. PICK z : z = [Idle EXCEPT !.pc = "find", !.api = api, !.c = k[1], !.u = k, !.r = r]
      OBVIOUS
    <2>2. z \in Calls /\ z.pc = "find" /\ ~z.nested /\ z.api = api /\ z.c = k[1] /\ z.u = k /\ z.r = r
      <3>1. k \in Keys /\ r \in Nat
        BY <2>0, Typed DEF Requests
      <3>2. k \in Nat \X Nat /\ k[1] \in Nat
        BY <1>0, <3>1 DEF Keys
      <3>3. api \in GameCalls
        BY NoRequestCalls
      <3> QED BY <2>1, <1>0, <3>1, <3>2, <3>3 DEF Idle, Calls
    <2>3. Begins(t, z)
      BY <1>6, <2>0, <2>1 DEF BeginRequestCall
    <2>4. z.c \in DOMAIN contexts
      BY <2>0, <2>2, Typed
    <2>5. Fits(z)
      <3>1. z.api \in RequestCalls \cup {"deleteRequest"}
        BY <2>2, NoRequestCalls
      <3>2. z.api \notin {"checkTimeout", "createRequest", "createUserContext", "terminateContext"} \cup HandleCalls
        BY <3>1, NoRequestCalls
      <3> QED BY <2>0, <2>2, <2>4, <3>1, <3>2, BegunFits
    <2> QED BY <2>2, <2>3, <2>5, <1>a, BeginsMoves
  <1>7. ASSUME NEW h \in DOMAIN handles, NEW api \in {"abortHandle", "deleteHandle"}, BeginHandleCall(t, api, h)
        PROVE  \E z : Moves(t, z)
    <2>0. PICK c : c = handles[h].c
      OBVIOUS
    <2>1. PICK z : z = [Idle EXCEPT !.pc = "find", !.api = api, !.c = c, !.h = h]
      OBVIOUS
    <2>2. z \in Calls /\ z.pc = "find" /\ ~z.nested /\ z.api = api /\ z.c = c /\ z.h = h
      <3>1. c \in Nat /\ h \in Nat
        BY <2>0, <1>0, Typed
      <3> QED BY <2>1, <1>0, <3>1, NoRequestCalls DEF Idle, Calls
    <2>3. Begins(t, z)
      BY <1>7, <2>0, <2>1 DEF BeginHandleCall
    <2>4. z.c \in DOMAIN contexts
      BY <2>0, <2>2, Typed
    <2>5. Fits(z)
      BY <2>2, <2>4, NoRequestCalls, BegunFits
    <2> QED BY <2>2, <2>3, <2>5, <1>a, BeginsMoves
  <1> QED BY <1>1, <1>2, <1>3, <1>4, <1>5, <1>6, <1>7 DEF Begin, Known

-----------------------------------------------------------------------------
(* The way in and the way out.                                             *)

\* A step that only moves the call, to a place where it weighs the same
LEMMA StayStep ==
    ASSUME Inv, NEW t \in Threads, NEW z \in Calls, call' = [call EXCEPT ![t] = z], Fits(z),
           UNCHANGED <<contexts, users, requests, handles, library>>, RestMoves(t),
           z.pc \notin Marking,
           \A i : /\ W(z, i) = W(call[t], i)
                  /\ InC(z, i) \/ Nst(z, i) => InC(call[t], i) \/ Nst(call[t], i)
                  /\ InU(z, i) <=> InU(call[t], i)
                  /\ InR(z, i) <=> InR(call[t], i)
    PROVE  Moves(t, z)
  <1>1. CtxMoves(t, z)
    BY CtxStays DEF Marking
  <1>2. UsrMoves(t, z)
    BY UsrStays DEF Marking
  <1>3. ReqMoves(t, z)
    BY ReqStays
  <1>4. HdlMoves(t, z)
    BY HdlStays DEF Marking
  <1>5. LibMoves(t)
    BY LibStays
  <1>6. Fits(z)'
    BY <1>1, <1>3, <1>4, FitsLater
  <1> QED BY <1>1, <1>2, <1>3, <1>4, <1>5, <1>6 DEF Moves

\* A step that changes the call's context only
LEMMA CtxStep ==
    ASSUME Inv, NEW t \in Threads, NEW z \in Calls, call' = [call EXCEPT ![t] = z], Fits(z),
           NEW c \in DOMAIN contexts, NEW y \in Contexts,
           contexts' = [contexts EXCEPT ![c] = y], CtxMove(t, z, c, contexts[c], y),
           y.there = contexts[c].there, call[t].c = c, z.c = c \/ z = Idle,
           UNCHANGED <<users, requests, handles, library>>, RestMoves(t),
           z.pc \notin {"drainUser", "drainHandle"},
           \A i : (InU(z, i) <=> InU(call[t], i)) /\ (InR(z, i) <=> InR(call[t], i))
    PROVE  Moves(t, z)
  <1>1. /\ CtxMoves(t, z) /\ DOMAIN contexts' = DOMAIN contexts
        /\ \A i \in DOMAIN contexts : contexts'[i].there = contexts[i].there
    BY CtxOne
  <1>2. UsrMoves(t, z)
    BY UsrStays
  <1>3. ReqMoves(t, z)
    BY ReqStays
  <1>4. HdlMoves(t, z)
    BY HdlStays
  <1>5. LibMoves(t)
    BY <1>1, LibStays
  <1>6. Fits(z)'
    BY <1>1, <1>3, <1>4, FitsLater
  <1> QED BY <1>1, <1>2, <1>3, <1>4, <1>5, <1>6 DEF Moves

\* The context counts what the call weighs more or less.
LEMMA CountMoves ==
    ASSUME Inv, NEW t \in Threads, NEW z, NEW c \in DOMAIN contexts, NEW n \in Int,
           CountContext(c, n), W(z, c) = W(call[t], c) + n,
           InC(z, c) => InC(call[t], c) \/ Nst(call[t], c) \/ (contexts[c].there /\ ~contexts[c].terminated),
           Nst(z, c) => InC(call[t], c) \/ Nst(call[t], c),
           z.pc \notin {"abortHandles", "drainContext"},
           z.pc = "erase" /\ sdk >= 400 => contexts[c].terminated /\ contexts[c].count <= 1 /\ InC(call[t], c)
    PROVE  \E y \in Contexts : /\ contexts' = [contexts EXCEPT ![c] = y]
                               /\ y.there = contexts[c].there
                               /\ CtxMove(t, z, c, contexts[c], y)
  <1>1. PICK x : x = contexts[c]
    OBVIOUS
  <1>2. x \in Contexts /\ contexts \in Seq(Contexts) /\ (x.owner = None <=> x.depth = 0)
    BY <1>1, Typed DEF Inv, LocksFit
  <1>3. x.count \in Int /\ x.kept \in Nat /\ x.there \in BOOLEAN
    BY <1>2 DEF Contexts
  <1>4. PICK m \in Int : m = x.count + n
    BY <1>3
  <1>5. PICK y : y = [x EXCEPT !.count = m]
    OBVIOUS
  <1>6. /\ y \in Contexts /\ y.count = x.count + n /\ y.kept = x.kept /\ y.there = x.there
        /\ y.terminated = x.terminated /\ y.owner = x.owner /\ y.depth = x.depth
    BY <1>2, <1>4, <1>5 DEF Contexts
  <1>7. contexts' = [contexts EXCEPT ![c] = y]
    BY <1>1, <1>2, <1>4, <1>5 DEF CountContext
  <1>8. W(z, c) \in Int /\ W(call[t], c) \in Int
    BY DEF W, One
  <1>9. y.count - y.kept - W(z, c) = x.count - x.kept - W(call[t], c)
    BY <1>3, <1>4, <1>6, <1>8
  <1>10. CtxMove(t, z, c, x, y)
    BY <1>1, <1>2, <1>3, <1>6, <1>9 DEF CtxMove
  <1> QED BY <1>1, <1>6, <1>7, <1>10

\* What a call becomes when it returns
LEMMA ReturnedWeighs ==
    ASSUME Inv, NEW t \in Threads, call[t].pc \in {"global", "leaveContext"},
           NEW res \in {"ok", "noUser", "other"}, call' = Returned(t, res)
    PROVE  \E z \in Calls :
              /\ call' = [call EXCEPT ![t] = z] /\ Fits(z) /\ z.pc \in {"idle", "deleted"}
              /\ z.c = call[t].c \/ z = Idle
              /\ \A i : /\ ~InC(z, i) /\ (Nst(z, i) <=> Nst(call[t], i))
                        /\ ~InU(z, i) /\ ~InR(z, i) /\ ~InU(call[t], i) /\ ~InR(call[t], i)
  <1>1. PICK z \in Calls :
              /\ call' = [call EXCEPT ![t] = z]
              /\ call[t].nested => z.pc = "deleted" /\ SameCall(call[t], z)
              /\ ~call[t].nested => z = Idle
    BY ReturnedIs
  <1>2. \A i : ~InU(call[t], i) /\ ~InR(call[t], i)
    BY DEF InU, InR, InsideUser, InsideRequest
  <1>3. CASE call[t].nested
    <2>1. z.pc = "deleted" /\ SameCall(call[t], z)
      BY <1>1, <1>3
    <2>2. FitsAt("deleted", call[t].api, call[t].nested)
      <3>1. Fits(call[t])
        BY Typed
      <3> QED BY <1>3, <3>1 DEF FitsAt, Terminating, Fits, Nesting, InsideRequest
    <2>3. Fits(z)
      <3>1. Fits(call[t]) /\ call[t].pc # "idle"
        BY Typed
      <3> QED BY <2>1, <2>2, <3>1, FitsSame
    <2>4. \A i : ~InC(z, i) /\ (Nst(z, i) <=> Nst(call[t], i)) /\ ~InU(z, i) /\ ~InR(z, i)
      BY <2>1 DEF SameCall, InC, Nst, InU, InR, InsideContext, InsideUser, InsideRequest
    <2> QED BY <1>1, <1>2, <2>1, <2>3, <2>4 DEF SameCall
  <1>4. CASE ~call[t].nested
    <2>1. z = Idle /\ \A i : ~Nst(call[t], i)
      BY <1>1, <1>4 DEF Nst
    <2> QED BY <1>1, <1>2, <2>1, IdleIs
  <1> QED BY <1>3, <1>4

\* findAndValidateContext counts the call in at its context, or sends it back.
LEMMA FindAndValidateContextMoves ==
    ASSUME Inv, NEW t \in Threads, FindAndValidateContext(t) PROVE \E z : Moves(t, z)
  <1>1. PICK c : c = call[t].c
    OBVIOUS
  <1>2. /\ call[t].pc = "global" /\ call[t].api # "checkTimeout" /\ glock' = None
        /\ UNCHANGED <<users, userCount, requests, handles, sdk, library, calls>>
    BY DEF FindAndValidateContext
  <1>3. c \in DOMAIN contexts
    BY <1>1, <1>2, Typed DEF Fits
  <1>4. RestMoves(t)
    BY <1>2, RestStays
  <1>5. CASE call' = Returned(t, "other") /\ contexts' = contexts
    <2>1. PICK z \in Calls :
              /\ call' = [call EXCEPT ![t] = z] /\ Fits(z) /\ z.pc \in {"idle", "deleted"}
              /\ z.c = call[t].c \/ z = Idle
              /\ \A i : /\ ~InC(z, i) /\ (Nst(z, i) <=> Nst(call[t], i))
                        /\ ~InU(z, i) /\ ~InR(z, i) /\ ~InU(call[t], i) /\ ~InR(call[t], i)
      BY <1>2, <1>5, ReturnedWeighs
    <2>2. \A i : ~InC(call[t], i)
      BY <1>2 DEF InC, InsideContext, InsideUser, InsideRequest
    <2>3. \A i : W(z, i) = W(call[t], i)
      BY <2>1, <2>2 DEF W, One
    <2>4. z.pc \notin Marking
      BY <2>1 DEF Marking
    <2>5. Moves(t, z)
      BY <1>2, <1>4, <1>5, <2>1, <2>2, <2>3, <2>4, StayStep
    <2> QED BY <2>5
  <1>6. CASE contexts[c].there /\ ~contexts[c].terminated /\ Go(t, "inContext") /\ CountContext(c, 1)
    <2>1. "inContext" \in Places
      BY DEF Places, InsideContext
    <2>2. PICK z \in Calls : /\ call' = [call EXCEPT ![t] = z] /\ z.pc = "inContext"
                             /\ SameCall(call[t], z)
      BY <1>6, <2>1, GoIs
    <2>3. FitsAt("inContext", call[t].api, call[t].nested)
      BY <1>2 DEF FitsAt, Terminating, Nesting, InsideRequest
    <2>4. Fits(z)
      BY <1>2, <2>2, <2>3, Typed, FitsSame
    <2>5. \A i : /\ InC(z, i) <=> i = c
                 /\ ~InC(call[t], i)
                 /\ Nst(z, i) <=> Nst(call[t], i)
                 /\ ~InU(z, i) /\ ~InR(z, i) /\ ~InU(call[t], i) /\ ~InR(call[t], i)
      BY <1>1, <1>2, <2>2 DEF SameCall, InC, Nst, InU, InR, InsideContext, InsideUser, InsideRequest
    <2>6. W(z, c) = W(call[t], c) + 1
      BY <2>5 DEF W, One
    <2>7. PICK y \in Contexts : /\ contexts' = [contexts EXCEPT ![c] = y]
                                /\ y.there = contexts[c].there
                                /\ CtxMove(t, z, c, contexts[c], y)
      <3>1. /\ CountContext(c, 1) /\ 1 \in Int /\ z.pc \notin {"abortHandles", "drainContext", "erase"}
            /\ InC(z, c) => InC(call[t], c) \/ Nst(call[t], c) \/ (contexts[c].there /\ ~contexts[c].terminated)
            /\ Nst(z, c) => InC(call[t], c) \/ Nst(call[t], c)
        BY <1>6, <2>2, <2>5
      <3> QED BY <1>3, <2>6, <3>1, CountMoves
    <2>8. Moves(t, z)
      BY <1>1, <1>2, <1>3, <1>4, <2>2, <2>4, <2>5, <2>7, CtxStep DEF SameCall
    <2> QED BY <2>8
  <1> QED BY <1>1, <1>5, <1>6 DEF FindAndValidateContext

\* releaseContext counts it out.
LEMMA ReleaseContextMoves ==
    ASSUME Inv, NEW t \in Threads, ReleaseContext(t) PROVE \E z : Moves(t, z)
  <1>1. PICK c : c = call[t].c
    OBVIOUS
  <1>2. /\ call[t].pc = "leaveContext" /\ CountContext(c, -1) /\ call' = Returned(t, call[t].res)
        /\ UNCHANGED <<users, userCount, requests, handles, sdk, glock, library, calls>>
    BY <1>1 DEF ReleaseContext
  <1>3. c \in DOMAIN contexts /\ call[t].res \in {"ok", "noUser", "other"}
    BY <1>1, <1>2, Typed DEF Fits, Calls
  <1>4. RestMoves(t)
    BY <1>2, RestStays
  <1>5. PICK z \in Calls :
            /\ call' = [call EXCEPT ![t] = z] /\ Fits(z) /\ z.pc \in {"idle", "deleted"}
            /\ z.c = call[t].c \/ z = Idle
            /\ \A i : /\ ~InC(z, i) /\ (Nst(z, i) <=> Nst(call[t], i))
                      /\ ~InU(z, i) /\ ~InR(z, i) /\ ~InU(call[t], i) /\ ~InR(call[t], i)
    BY <1>2, <1>3, ReturnedWeighs
  <1>6. InC(call[t], c)
    BY <1>1, <1>2 DEF InC, InsideContext
  <1>7. W(z, c) = W(call[t], c) + (-1)
    BY <1>5, <1>6 DEF W, One
  <1>8. PICK y \in Contexts : /\ contexts' = [contexts EXCEPT ![c] = y]
                              /\ y.there = contexts[c].there
                              /\ CtxMove(t, z, c, contexts[c], y)
    BY <1>2, <1>3, <1>5, <1>6, <1>7, CountMoves
  <1>9. Moves(t, z)
    BY <1>1, <1>2, <1>3, <1>4, <1>5, <1>8, CtxStep
  <1> QED BY <1>9

\* A step that changes the call's user context only
LEMMA UsrStep ==
    ASSUME Inv, NEW t \in Threads, NEW z \in Calls, call' = [call EXCEPT ![t] = z], Fits(z),
           NEW k \in DOMAIN users, NEW y \in UserContexts,
           users' = [users EXCEPT ![k] = y],
           y.count - One(InU(z, k)) = users[k].count - One(InU(call[t], k)),
           users[k].deleted => y.deleted,
           \A i : i # k => (InU(z, i) <=> InU(call[t], i)),
           z.pc \notin Marking,
           UNCHANGED <<contexts, requests, handles, library>>, RestMoves(t),
           \A i : /\ W(z, i) = W(call[t], i)
                  /\ InC(z, i) \/ Nst(z, i) => InC(call[t], i) \/ Nst(call[t], i)
                  /\ InR(z, i) <=> InR(call[t], i)
    PROVE  Moves(t, z)
  <1>1. CtxMoves(t, z)
    BY CtxStays DEF Marking
  <1>2. UsrMoves(t, z)
    BY UsrOne DEF Marking
  <1>3. ReqMoves(t, z)
    BY ReqStays
  <1>4. HdlMoves(t, z)
    BY HdlStays DEF Marking
  <1>5. LibMoves(t)
    BY LibStays
  <1>6. Fits(z)'
    BY <1>1, <1>3, <1>4, FitsLater
  <1> QED BY <1>1, <1>2, <1>3, <1>4, <1>5, <1>6 DEF Moves

\* A step that changes the call's request only
LEMMA ReqStep ==
    ASSUME Inv, NEW t \in Threads, NEW z \in Calls, call' = [call EXCEPT ![t] = z], Fits(z),
           NEW r \in DOMAIN requests, NEW y \in Requests,
           requests' = [requests EXCEPT ![r] = y], ReqMove(t, z, r, requests[r], y),
           \A i : i # r => (InR(z, i) <=> InR(call[t], i)),
           z.pc \notin Marking,
           UNCHANGED <<contexts, users, handles, library>>, RestMoves(t),
           \A i : /\ W(z, i) = W(call[t], i)
                  /\ InC(z, i) \/ Nst(z, i) => InC(call[t], i) \/ Nst(call[t], i)
                  /\ InU(z, i) <=> InU(call[t], i)
    PROVE  Moves(t, z)
  <1>1. CtxMoves(t, z)
    BY CtxStays DEF Marking
  <1>2. UsrMoves(t, z)
    BY UsrStays DEF Marking
  <1>3. ReqMoves(t, z)
    BY ReqOne
  <1>4. HdlMoves(t, z)
    BY HdlStays DEF Marking
  <1>5. LibMoves(t)
    BY LibStays
  <1>6. Fits(z)'
    BY <1>1, <1>3, <1>4, FitsLater
  <1> QED BY <1>1, <1>2, <1>3, <1>4, <1>5, <1>6 DEF Moves

\* A call that goes to a place that fits its name fits.
LEMMA GoFits ==
    ASSUME Inv, NEW t \in Threads, NEW p \in Places, Go(t, p), call[t].pc # "idle",
           FitsAt(p, call[t].api, call[t].nested)
    PROVE  \E z \in Calls : /\ call' = [call EXCEPT ![t] = z] /\ z.pc = p
                            /\ SameCall(call[t], z) /\ Fits(z)
  <1>1. PICK z \in Calls : /\ call' = [call EXCEPT ![t] = z] /\ z.pc = p
                           /\ SameCall(call[t], z)
    BY GoIs
  <1>2. Fits(z)
    BY <1>1, Typed, FitsSame
  <1> QED BY <1>1, <1>2

\* Two places inside the context weigh the same there.
LEMMA InsideWeighs ==
    ASSUME NEW x, NEW z, SameCall(x, z), x.pc \in InsideContext, z.pc \in InsideContext
    PROVE  \A i : /\ W(z, i) = W(x, i)
                  /\ InC(z, i) \/ Nst(z, i) => InC(x, i) \/ Nst(x, i)
  BY DEF SameCall, InC, Nst, W

\* A call that is inside its context
LEMMA InContextIs ==
    ASSUME Inv, NEW t \in Threads, call[t].pc \in InsideContext
    PROVE  /\ call[t].c \in DOMAIN contexts /\ call[t].pc # "idle" /\ call[t].api # "checkTimeout"
           /\ call[t].pc \in InsideUser => call[t].u \in DOMAIN users
  <1>1. PICK x : x = call[t]
    OBVIOUS
  <1>2. Fits(x)
    BY <1>1, Typed
  <1>3. x.c \in DOMAIN contexts /\ x.pc # "idle" /\ x.api # "checkTimeout"
    BY <1>1, <1>2 DEF Fits, InsideContext, InsideUser, InsideRequest
  <1>4. call[t].pc \in InsideUser => call[t].u \in DOMAIN users
    BY DEF Inv, DeletionsWait, InUseStays
  <1> QED BY <1>1, <1>3, <1>4

\* Which places are inside what
LEMMA InsidePlaces ==
    /\ {"inContext", "leaveContext", "makeUser", "inHandle", "drainHandle", "list", "next",
        "abortHandles", "drainContext", "inUser", "leaveUser", "drainUser", "inRequest",
        "leaveRequest", "drainRequest"} \subseteq InsideContext
    /\ {"inUser", "leaveUser", "drainUser", "inRequest", "leaveRequest", "drainRequest"} \subseteq InsideUser
    /\ {"inRequest", "leaveRequest", "drainRequest"} \subseteq InsideRequest
    /\ InsideContext \subseteq Places
    /\ \A p \in {"inContext", "leaveContext", "makeUser", "inHandle", "drainHandle", "list", "next",
                 "abortHandles", "drainContext"} : p \notin InsideUser
    /\ \A p \in {"inUser", "leaveUser", "drainUser"} : p \notin InsideRequest
    /\ InsideRequest \subseteq InsideUser
  BY DEF InsideContext, InsideUser, InsideRequest, Places

\* findUserContext counts the call in at its user context, or sends it back.
LEMMA FindUserContextMoves ==
    ASSUME Inv, NEW t \in Threads, FindUserContext(t) PROVE \E z : Moves(t, z)
  <1>1. PICK k : k = call[t].u
    OBVIOUS
  <1>2. /\ call[t].pc = "inContext" /\ ~call[t].nested
        /\ UNCHANGED <<contexts, userCount, requests, handles, sdk, glock, library, calls>>
    BY DEF FindUserContext, InContext, UserCalls, RequestCalls, MultipartCalls
  <1>3. RestMoves(t)
    BY <1>2, RestStays
  <1>4. call[t].pc \in InsideContext /\ call[t].pc # "idle" /\ call[t].api # "checkTimeout"
    BY <1>2, InsidePlaces, InContextIs
  <1>5. CASE Finds(k) /\ users' = [users EXCEPT ![k].count = @ + 1] /\ Go(t, "inUser")
    <2>1. FitsAt("inUser", call[t].api, call[t].nested)
      BY <1>2, <1>4 DEF FitsAt, Terminating, InsideRequest
    <2>2. PICK z \in Calls : /\ call' = [call EXCEPT ![t] = z] /\ z.pc = "inUser"
                             /\ SameCall(call[t], z) /\ Fits(z)
      BY <1>4, <1>5, <2>1, InsidePlaces, GoFits
    <2>3. PICK x : x = users[k]
      OBVIOUS
    <2>4. k \in DOMAIN users /\ x \in UserContexts /\ users \in [DOMAIN users -> UserContexts]
      BY <1>5, <2>3, Typed DEF Finds
    <2>5. PICK m \in Int : m = x.count + 1
      BY <2>4 DEF UserContexts
    <2>6. PICK y : y = [x EXCEPT !.count = m]
      OBVIOUS
    <2>7. y \in UserContexts /\ y.count = x.count + 1 /\ y.deleted = x.deleted
      BY <2>4, <2>5, <2>6 DEF UserContexts
    <2>8. users' = [users EXCEPT ![k] = y]
      BY <1>5, <2>3, <2>4, <2>5, <2>6
    <2>9. \A i : /\ InU(z, i) <=> i = k
                 /\ ~InU(call[t], i) /\ ~InR(call[t], i) /\ ~InR(z, i)
      BY <1>1, <1>2, <2>2, InsidePlaces DEF SameCall, InU, InR
    <2>10. x.count \in Int
      BY <2>4 DEF UserContexts
    <2>11. y.count - One(InU(z, k)) = users[k].count - One(InU(call[t], k))
      BY <2>3, <2>7, <2>9, <2>10 DEF One
    <2>12. \A i : /\ W(z, i) = W(call[t], i)
                  /\ InC(z, i) \/ Nst(z, i) => InC(call[t], i) \/ Nst(call[t], i)
      BY <1>4, <2>2, InsidePlaces, InsideWeighs
    <2>13. z.pc \notin Marking
      BY <2>2 DEF Marking
    <2>14. UNCHANGED <<contexts, requests, handles, library>>
      BY <1>2
    <2>15. (users[k].deleted => y.deleted) /\ \A i : i # k => (InU(z, i) <=> InU(call[t], i))
      BY <2>3, <2>7, <2>9
    <2>16. Moves(t, z)
      BY <1>3, <2>2, <2>4, <2>7, <2>8, <2>9, <2>11, <2>12, <2>13, <2>14, <2>15, UsrStep
    <2> QED BY <2>16
  <1>6. CASE Go(t, "leaveContext") /\ users' = users
    <2>1. FitsAt("leaveContext", call[t].api, call[t].nested)
      BY <1>2, <1>4 DEF FitsAt, Terminating, InsideRequest
    <2>2. SameClass(call[t].pc, "leaveContext", call[t].api)
      BY <1>2, InsidePlaces DEF SameClass
    <2>3. "leaveContext" \in Places /\ "leaveContext" \notin Marking
      BY InsidePlaces DEF Marking
    <2> QED BY <1>2, <1>3, <1>4, <1>6, <2>1, <2>2, <2>3, QuietStep
  <1> QED BY <1>1, <1>5, <1>6 DEF FindUserContext

\* releaseUserContext counts it out.
LEMMA ReleaseUserContextMoves ==
    ASSUME Inv, NEW t \in Threads, ReleaseUserContext(t) PROVE \E z : Moves(t, z)
  <1>1. PICK k : k = call[t].u
    OBVIOUS
  <1>2. /\ call[t].pc = "leaveUser" /\ users' = [users EXCEPT ![k].count = @ - 1]
        /\ Go(t, "leaveContext")
        /\ UNCHANGED <<contexts, userCount, requests, handles, sdk, glock, library, calls>>
    BY <1>1 DEF ReleaseUserContext
  <1>3. RestMoves(t)
    BY <1>2, RestStays
  <1>4. /\ call[t].pc \in InsideContext /\ call[t].pc # "idle" /\ call[t].api # "checkTimeout"
        /\ ~call[t].nested
    <2>1. Fits(call[t])
      BY Typed
    <2> QED BY <1>2, <2>1, InsidePlaces, InContextIs DEF Fits, Nesting
  <1>5. FitsAt("leaveContext", call[t].api, call[t].nested)
    BY <1>4 DEF FitsAt, Terminating, InsideRequest
  <1>6. PICK z \in Calls : /\ call' = [call EXCEPT ![t] = z] /\ z.pc = "leaveContext"
                           /\ SameCall(call[t], z) /\ Fits(z)
    BY <1>2, <1>4, <1>5, InsidePlaces, GoFits
  <1>7. PICK x : x = users[k]
    OBVIOUS
  <1>8. k \in DOMAIN users /\ x \in UserContexts /\ users \in [DOMAIN users -> UserContexts]
    BY <1>1, <1>2, <1>4, <1>7, InContextIs, InsidePlaces, Typed
  <1>9. PICK m \in Int : m = x.count - 1
    BY <1>8 DEF UserContexts
  <1>10. PICK y : y = [x EXCEPT !.count = m]
    OBVIOUS
  <1>11. y \in UserContexts /\ y.count = x.count - 1 /\ y.deleted = x.deleted /\ x.count \in Int
    BY <1>8, <1>9, <1>10 DEF UserContexts
  <1>12. users' = [users EXCEPT ![k] = y]
    BY <1>2, <1>7, <1>8, <1>9, <1>10
  <1>13. \A i : /\ InU(call[t], i) <=> i = k
                /\ ~InU(z, i) /\ ~InR(call[t], i) /\ ~InR(z, i)
    BY <1>1, <1>2, <1>6, InsidePlaces DEF SameCall, InU, InR
  <1>14. y.count - One(InU(z, k)) = users[k].count - One(InU(call[t], k))
    BY <1>7, <1>11, <1>13 DEF One
  <1>15. \A i : /\ W(z, i) = W(call[t], i)
                /\ InC(z, i) \/ Nst(z, i) => InC(call[t], i) \/ Nst(call[t], i)
    BY <1>4, <1>6, InsidePlaces, InsideWeighs
  <1>16. z.pc \notin Marking /\ UNCHANGED <<contexts, requests, handles, library>>
    BY <1>2, <1>6 DEF Marking
  <1>17. (users[k].deleted => y.deleted) /\ \A i : i # k => (InU(z, i) <=> InU(call[t], i))
    BY <1>7, <1>11, <1>13
  <1>18. Moves(t, z)
    BY <1>3, <1>6, <1>8, <1>11, <1>12, <1>13, <1>14, <1>15, <1>16, <1>17, UsrStep
  <1> QED BY <1>18

\* Who is in its user context or in the place of a call on a request
LEMMA AtUserIs ==
    ASSUME Inv, NEW t \in Threads, call[t].pc = "inUser"
    PROVE  /\ ~call[t].nested /\ call[t].api # "checkTimeout" /\ call[t].pc # "idle"
           /\ call[t].pc \in InsideContext /\ call[t].pc \in InsideUser
           /\ call[t].api \in RequestCalls =>
                 call[t].r \in DOMAIN requests /\ call[t].u = requests[call[t].r].u
           /\ call[t].u \in DOMAIN users /\ call[t].c \in DOMAIN contexts
  <1>1. PICK x : x = call[t]
    OBVIOUS
  <1>2. Fits(x) /\ x.pc = "inUser"
    BY <1>1, Typed
  <1>3. /\ ~x.nested /\ x.api # "checkTimeout"
        /\ x.api \in RequestCalls => x.r \in DOMAIN requests /\ x.u = requests[x.r].u
    BY <1>2 DEF Fits, Nesting
  <1>4. call[t].pc \in InsideContext /\ call[t].pc \in InsideUser
    BY InsidePlaces
  <1> QED BY <1>1, <1>3, <1>4, InContextIs

\* findRequestAndMarkBusy counts the call in at its request, findRequest does not.
LEMMA FindRequestMoves ==
    ASSUME Inv, NEW t \in Threads, FindRequest(t) PROVE \E z : Moves(t, z)
  <1>1. PICK r : r = call[t].r
    OBVIOUS
  <1>2. /\ call[t].pc = "inUser" /\ call[t].api \in RequestCalls
        /\ UNCHANGED <<contexts, users, userCount, handles, sdk, glock, library, calls>>
    BY DEF FindRequest
  <1>3. RestMoves(t)
    BY <1>2, RestStays
  <1>4. /\ ~call[t].nested /\ call[t].api # "checkTimeout" /\ call[t].pc # "idle"
        /\ call[t].pc \in InsideContext /\ r \in DOMAIN requests
    BY <1>1, <1>2, AtUserIs
  <1>5. CASE /\ requests[r].there /\ Go(t, "inRequest")
             /\ requests' = [requests EXCEPT ![r].count = @ + Mark(call[t].api)]
    <2>1. FitsAt("inRequest", call[t].api, call[t].nested)
      BY <1>2, <1>4 DEF FitsAt, Terminating
    <2>2. PICK z \in Calls : /\ call' = [call EXCEPT ![t] = z] /\ z.pc = "inRequest"
                             /\ SameCall(call[t], z) /\ Fits(z)
      BY <1>4, <1>5, <2>1, InsidePlaces, GoFits
    <2>3. PICK x : x = requests[r]
      OBVIOUS
    <2>4. x \in Requests /\ HttpFine(x) /\ requests \in Seq(Requests) /\ x.there
      BY <1>4, <1>5, <2>3, Typed, FineNow
    <2>5. PICK n \in {0, 1} : n = Mark(call[t].api)
      BY DEF Mark
    <2>6. PICK m \in Int : m = x.count + n
      BY <2>4 DEF Requests
    <2>7. PICK y : y = [x EXCEPT !.count = m]
      OBVIOUS
    <2>8. /\ y \in Requests /\ y.count = x.count + n /\ y.u = x.u /\ y.there = x.there
          /\ y.below = x.below /\ y.http = x.http /\ y.bad = x.bad /\ y.aborted = x.aborted
          /\ y.told = x.told /\ y.late = x.late /\ y.orphan = x.orphan /\ y.twice = x.twice
          /\ y.cleared = x.cleared /\ x.count \in Int /\ x.below \in Nat
      BY <2>4, <2>6, <2>7 DEF Requests
    <2>9. requests' = [requests EXCEPT ![r] = y]
      BY <1>5, <2>3, <2>4, <2>5, <2>6, <2>7
    <2>10. \A i : /\ InR(z, i) <=> i = r /\ n = 1
                  /\ ~InR(call[t], i)
                  /\ InU(z, i) <=> InU(call[t], i)
      BY <1>1, <1>2, <2>2, <2>5, InsidePlaces DEF SameCall, InU, InR
    <2>11. HttpFine(y)
      BY <2>4, <2>8 DEF HttpFine
    <2>12. ReqMove(t, z, r, x, y)
      BY <2>4, <2>5, <2>8, <2>10, <2>11 DEF ReqMove, One
    <2>13. \A i : /\ W(z, i) = W(call[t], i)
                  /\ InC(z, i) \/ Nst(z, i) => InC(call[t], i) \/ Nst(call[t], i)
      BY <1>4, <2>2, InsidePlaces, InsideWeighs
    <2>14. z.pc \notin Marking /\ UNCHANGED <<contexts, users, handles, library>>
      BY <1>2, <2>2 DEF Marking
    <2>15. \A i : i # r => (InR(z, i) <=> InR(call[t], i))
      BY <2>10
    <2>16. Moves(t, z)
      BY <1>3, <1>4, <2>2, <2>3, <2>8, <2>9, <2>10, <2>12, <2>13, <2>14, <2>15, ReqStep
    <2> QED BY <2>16
  <1>6. CASE Go(t, "leaveUser") /\ requests' = requests
    <2>1. FitsAt("leaveUser", call[t].api, call[t].nested)
      BY <1>4, InsidePlaces DEF FitsAt, Terminating, InsideRequest
    <2>2. SameClass(call[t].pc, "leaveUser", call[t].api)
      BY <1>2, InsidePlaces DEF SameClass
    <2>3. "leaveUser" \in Places /\ "leaveUser" \notin Marking
      BY InsidePlaces DEF Marking
    <2> QED BY <1>2, <1>3, <1>4, <1>6, <2>1, <2>2, <2>3, QuietStep
  <1> QED BY <1>1, <1>5, <1>6 DEF FindRequest

\* releaseRequest counts it out, or takes the count below what is in use.
LEMMA ReleaseRequestMoves ==
    ASSUME Inv, NEW t \in Threads, ReleaseRequest(t) PROVE \E z : Moves(t, z)
  <1>1. PICK r : r = call[t].r
    OBVIOUS
  <1>2. /\ call[t].pc = "leaveRequest" /\ Go(t, "leaveUser")
        /\ UNCHANGED <<contexts, users, userCount, handles, sdk, glock, library, calls>>
    BY DEF ReleaseRequest
  <1>3. RestMoves(t)
    BY <1>2, RestStays
  <1>4. /\ call[t].pc \in InsideRequest /\ call[t].pc \in InsideContext
    BY <1>2, InsidePlaces
  <1>5. /\ ~call[t].nested /\ call[t].pc # "idle" /\ r \in DOMAIN requests
        /\ call[t].api \in RequestCalls \cup {"deleteRequest"}
        /\ call[t].api # "checkTimeout" /\ call[t].api # "abortRequest"
    <2>1. call[t].api # "abortRequest"
      BY <1>2, Typed DEF Fits
    <2> QED BY <1>1, <1>4, <2>1, InsideIs, InContextIs
  <1>6. PICK n \in {0, 1} : n = Mark(call[t].api)
    BY DEF Mark
  <1>7. Release(call[t].api) = 1
    BY <1>5 DEF Release
  <1>8. FitsAt("leaveUser", call[t].api, call[t].nested)
    BY <1>5 DEF FitsAt, Terminating, InsideRequest
  <1>9. PICK z \in Calls : /\ call' = [call EXCEPT ![t] = z] /\ z.pc = "leaveUser"
                           /\ SameCall(call[t], z) /\ Fits(z)
    BY <1>2, <1>5, <1>8, InsidePlaces, GoFits
  <1>10. PICK x : x = requests[r]
    OBVIOUS
  <1>11. x \in Requests /\ HttpFine(x) /\ requests \in Seq(Requests)
    BY <1>5, <1>10, Typed, FineNow
  <1>12. PICK m \in Int : m = x.count - 1
    BY <1>11 DEF Requests
  <1>13. PICK b \in Nat : b = IF n = 0 THEN x.below + 1 ELSE x.below
    <2>1. x.below \in Nat
      BY <1>11 DEF Requests
    <2> QED BY <2>1
  <1>14. PICK y : y = [x EXCEPT !.count = m, !.below = b]
    OBVIOUS
  <1>15. /\ y \in Requests /\ y.count = x.count - 1 /\ y.u = x.u /\ y.there = x.there
         /\ y.below = b /\ y.http = x.http /\ y.bad = x.bad /\ y.aborted = x.aborted
         /\ y.told = x.told /\ y.late = x.late /\ y.orphan = x.orphan /\ y.twice = x.twice
         /\ y.cleared = x.cleared /\ x.count \in Int /\ x.below \in Nat
    BY <1>11, <1>12, <1>14 DEF Requests
  <1>16. requests' = [requests EXCEPT ![r] = y]
    <2>1. requests' = [requests EXCEPT ![r].count = @ - 1, ![r].below = IF n = 0 THEN @ + 1 ELSE @]
      BY <1>1, <1>6, <1>7 DEF ReleaseRequest
    <2> QED BY <2>1, <1>10, <1>11, <1>12, <1>13, <1>14
  <1>17. \A i : /\ InR(call[t], i) <=> i = r /\ n = 1
                /\ ~InR(z, i)
                /\ InU(z, i) <=> InU(call[t], i)
    BY <1>1, <1>2, <1>6, <1>9, InsidePlaces DEF SameCall, InU, InR
  <1>18. HttpFine(y)
    BY <1>11, <1>13, <1>15 DEF HttpFine
  <1>19. ReqMove(t, z, r, x, y)
    <2>1. One(InR(z, r)) = 0 /\ One(InR(call[t], r)) = n
      BY <1>6, <1>17 DEF One
    <2>2. y.count + y.below - One(InR(z, r)) = x.count + x.below - One(InR(call[t], r))
      BY <2>1, <1>6, <1>13, <1>15
    <2>3. y.below >= x.below /\ y.u = x.u /\ (y.there <=> x.there) /\ ~InR(z, r)
      BY <1>13, <1>15, <1>17
    <2> QED BY <2>2, <2>3, <1>18 DEF ReqMove
  <1>20. \A i : /\ W(z, i) = W(call[t], i)
                /\ InC(z, i) \/ Nst(z, i) => InC(call[t], i) \/ Nst(call[t], i)
    BY <1>4, <1>9, InsidePlaces, InsideWeighs
  <1>21. z.pc \notin Marking /\ UNCHANGED <<contexts, users, handles, library>>
    BY <1>2, <1>9 DEF Marking
  <1>22. \A i : i # r => (InR(z, i) <=> InR(call[t], i))
    BY <1>17
  <1>23. Moves(t, z)
    BY <1>3, <1>5, <1>9, <1>10, <1>15, <1>16, <1>17, <1>19, <1>20, <1>21, <1>22, ReqStep
  <1> QED BY <1>23

-----------------------------------------------------------------------------
(* User contexts.                                                          *)

\* Inside the library at "inContext", by the call's name or nested
LEMMA NamedIs ==
    ASSUME Inv, NEW t \in Threads, NEW api, InContext(t, api)
    PROVE  /\ call[t].pc = "inContext" /\ call[t].pc \in InsideContext /\ call[t].pc # "idle"
           /\ call[t].c \in DOMAIN contexts /\ call[t].api # "checkTimeout"
           /\ api # "deleteUserContext" => ~call[t].nested /\ call[t].api = api
           /\ ~call[t].nested => call[t].api = api
           /\ \A i : ~InU(call[t], i) /\ ~InR(call[t], i)
  <1>1. call[t].pc = "inContext"
    BY DEF InContext
  <1>2. call[t].pc \in InsideContext
    BY <1>1, InsidePlaces
  <1>3. \A i : ~InU(call[t], i) /\ ~InR(call[t], i)
    BY <1>1, InsidePlaces DEF InU, InR
  <1>4. /\ api # "deleteUserContext" => ~call[t].nested /\ call[t].api = api
        /\ ~call[t].nested => call[t].api = api
    BY DEF InContext
  <1> QED BY <1>1, <1>2, <1>3, <1>4, InContextIs

\* createUserContext counts itself in at a user context there already is.
LEMMA CheckUserMoves ==
    ASSUME Inv, NEW t \in Threads, CheckUser(t) PROVE \E z : Moves(t, z)
  <1>1. PICK same : same = {k \in UsersOf(call[t].c) : users[k].user = call[t].user}
    OBVIOUS
  <1>2. /\ InContext(t, "createUserContext")
        /\ UNCHANGED <<contexts, userCount, requests, handles, sdk, glock, library, calls>>
    BY DEF CheckUser
  <1>3. RestMoves(t)
    BY <1>2, RestStays
  <1>4. /\ call[t].pc = "inContext" /\ call[t].pc \in InsideContext /\ call[t].pc # "idle"
        /\ call[t].api = "createUserContext" /\ ~call[t].nested
        /\ \A i : ~InU(call[t], i) /\ ~InR(call[t], i)
    BY <1>2, NamedIs
  <1>5. CASE Go(t, "makeUser") /\ users' = users
    <2>1. FitsAt("makeUser", call[t].api, call[t].nested)
      BY <1>4 DEF FitsAt, Terminating, InsideRequest
    <2>2. SameClass(call[t].pc, "makeUser", call[t].api)
      BY <1>4, InsidePlaces DEF SameClass, InsideUser, InsideRequest
    <2>3. "makeUser" \in Places /\ "makeUser" \notin Marking
      BY InsidePlaces DEF Marking
    <2> QED BY <1>2, <1>3, <1>4, <1>5, <2>1, <2>2, <2>3, QuietStep
  <1>6. ASSUME NEW k \in same, users' = [users EXCEPT ![k].count = @ + 1],
               call' = [call EXCEPT ![t].pc = "leaveUser", ![t].u = k]
        PROVE  \E z : Moves(t, z)
    <2>1. k \in DOMAIN users /\ users \in [DOMAIN users -> UserContexts] /\ k \in Nat \X Nat
      <3>1. k \in DOMAIN users
        BY <1>1, <1>6 DEF UsersOf
      <3> QED BY <3>1, Typed, BoundsNat DEF Keys
    <2>2. PICK x : x = call[t]
      OBVIOUS
    <2>3. x \in Calls /\ Fits(x) /\ call \in [Threads -> Calls]
      BY <2>2, Typed
    <2>4. PICK z : z = [x EXCEPT !.pc = "leaveUser", !.u = k]
      OBVIOUS
    <2>5. /\ z \in Calls /\ z.pc = "leaveUser" /\ z.api = x.api /\ z.c = x.c /\ z.u = k /\ z.r = x.r
          /\ z.user = x.user /\ z.nested = x.nested
      BY <2>1, <2>3, <2>4, InsidePlaces DEF Calls
    <2>6. call' = [call EXCEPT ![t] = z]
      BY <1>6, <2>2, <2>3, <2>4
    <2>7. x.c \in DOMAIN contexts /\ x.user \in Users
      BY <1>4, <2>2, <2>3 DEF Fits
    <2>8. Fits(z)
      BY <1>4, <2>2, <2>5, <2>7 DEF Fits, Terminating, RequestCalls, MultipartCalls, HandleCalls, InsideRequest
    <2>9. PICK w : w = users[k]
      OBVIOUS
    <2>10. w \in UserContexts
      BY <2>1, <2>9
    <2>11. PICK m \in Int : m = w.count + 1
      BY <2>10 DEF UserContexts
    <2>12. PICK y : y = [w EXCEPT !.count = m]
      OBVIOUS
    <2>13. y \in UserContexts /\ y.count = w.count + 1 /\ y.deleted = w.deleted /\ w.count \in Int
      BY <2>10, <2>11, <2>12 DEF UserContexts
    <2>14. users' = [users EXCEPT ![k] = y]
      BY <1>6, <2>1, <2>9, <2>11, <2>12
    <2>15. \A i : (InU(z, i) <=> i = k) /\ ~InR(z, i)
      BY <2>5, InsidePlaces DEF InU, InR
    <2>16. y.count - One(InU(z, k)) = users[k].count - One(InU(call[t], k))
      BY <1>4, <2>9, <2>13, <2>15 DEF One
    <2>17. \A i : /\ W(z, i) = W(call[t], i)
                  /\ InC(z, i) \/ Nst(z, i) => InC(call[t], i) \/ Nst(call[t], i)
      BY <1>4, <2>2, <2>5, InsidePlaces DEF W, InC, Nst
    <2>18. z.pc \notin Marking /\ UNCHANGED <<contexts, requests, handles, library>>
      BY <1>2, <2>5 DEF Marking
    <2>19. /\ users[k].deleted => y.deleted
           /\ \A i : i # k => (InU(z, i) <=> InU(call[t], i))
           /\ \A i : InR(z, i) <=> InR(call[t], i)
      BY <1>4, <2>9, <2>13, <2>15
    <2>20. Moves(t, z)
      BY <1>3, <2>1, <2>5, <2>6, <2>8, <2>13, <2>14, <2>16, <2>17, <2>18, <2>19, UsrStep
    <2> QED BY <2>20
  <1>7. CASE same # {}
    <2>1. PICK k : k = CHOOSE j \in same : \A l \in same : j[2] <= l[2]
      OBVIOUS
    <2>2. same \in SUBSET (Nat \X Nat)
      BY <1>1, Typed, BoundsNat DEF UsersOf, Keys
    <2>3. k \in same
      BY <1>7, <2>1, <2>2, FirstUser
    <2>4. /\ users' = [users EXCEPT ![k].count = @ + 1]
          /\ call' = [call EXCEPT ![t].pc = "leaveUser", ![t].u = k]
      BY <1>1, <1>7, <2>1 DEF CheckUser
    <2> QED BY <1>6, <2>3, <2>4
  <1>8. CASE same = {}
    BY <1>1, <1>5, <1>8 DEF CheckUser
  <1> QED BY <1>7, <1>8

\* A step is what it does to each table.
LEMMA Assembled ==
    ASSUME Inv, NEW t \in Threads, NEW z \in Calls, call' = [call EXCEPT ![t] = z], Fits(z),
           CtxMoves(t, z), UsrMoves(t, z), ReqMoves(t, z), HdlMoves(t, z), LibMoves(t), RestMoves(t)
    PROVE  Moves(t, z)
  BY FitsLater DEF Moves

\* A call that returns without counting itself out of its context
LEMMA KeptMoves ==
    ASSUME Inv, NEW t \in Threads, NEW c \in DOMAIN contexts, call[t].c = c,
           contexts' = [contexts EXCEPT ![c].kept = @ + 1], W(call[t], c) = 1
    PROVE  /\ CtxMoves(t, Idle) /\ DOMAIN contexts' = DOMAIN contexts
           /\ \A i \in DOMAIN contexts : contexts'[i].there = contexts[i].there
  <1>1. PICK x : x = contexts[c]
    OBVIOUS
  <1>2. x \in Contexts /\ contexts \in Seq(Contexts) /\ (x.owner = None <=> x.depth = 0)
    BY <1>1, Typed DEF Inv, LocksFit
  <1>3. x.count \in Int /\ x.kept \in Nat /\ x.there \in BOOLEAN
    BY <1>2 DEF Contexts
  <1>4. PICK m \in Nat : m = x.kept + 1
    BY <1>3
  <1>5. PICK y : y = [x EXCEPT !.kept = m]
    OBVIOUS
  <1>6. /\ y \in Contexts /\ y.count = x.count /\ y.kept = x.kept + 1 /\ y.there = x.there
        /\ y.terminated = x.terminated /\ y.owner = x.owner /\ y.depth = x.depth
    BY <1>2, <1>4, <1>5 DEF Contexts
  <1>7. contexts' = [contexts EXCEPT ![c] = y]
    BY <1>1, <1>2, <1>4, <1>5
  <1>8. W(Idle, c) = 0
    <2>1. ~InC(Idle, c) /\ ~Nst(Idle, c)
      BY IdleIs
    <2> QED BY <2>1 DEF W, One
  <1>9. y.count - y.kept - W(Idle, c) = x.count - x.kept - W(call[t], c)
    BY <1>3, <1>6, <1>8
  <1>10. Idle.pc = "idle" /\ ~InC(Idle, c) /\ ~Nst(Idle, c)
    BY IdleIs
  <1>11. CtxMove(t, Idle, c, x, y)
    BY <1>2, <1>3, <1>6, <1>9, <1>10 DEF CtxMove
  <1> QED BY <1>1, <1>6, <1>7, <1>11, CtxOne

\* A call that returns counting itself out
LEMMA CountedOut ==
    ASSUME Inv, NEW t \in Threads, NEW c \in DOMAIN contexts, call[t].c = c,
           CountContext(c, -1), W(call[t], c) = 1
    PROVE  /\ CtxMoves(t, Idle) /\ DOMAIN contexts' = DOMAIN contexts
           /\ \A i \in DOMAIN contexts : contexts'[i].there = contexts[i].there
  <1>1. W(Idle, c) = W(call[t], c) + (-1) /\ ~InC(Idle, c) /\ ~Nst(Idle, c) /\ Idle.pc = "idle"
    <2>1. ~InC(Idle, c) /\ ~Nst(Idle, c) /\ Idle.pc = "idle"
      BY IdleIs
    <2>2. W(Idle, c) = 0
      BY <2>1 DEF W, One
    <2> QED BY <2>1, <2>2
  <1>2. PICK y \in Contexts : /\ contexts' = [contexts EXCEPT ![c] = y]
                              /\ y.there = contexts[c].there
                              /\ CtxMove(t, Idle, c, contexts[c], y)
    BY <1>1, CountMoves
  <1> QED BY <1>2, CtxOne

\* The number the search for a user context's number starts from, and what it finds
NextNumber == IF userCount + 1 >= UserIdLimit THEN 1 ELSE userCount + 1
Unused(c) == {n \in 1 .. NextNumber : <<c, n>> \notin DOMAIN users}
NewKey(c) == <<c, CHOOSE n \in Unused(c) : \A m \in Unused(c) : m <= n>>

\* What createUserContext does, by whether a number is unused
LEMMA MakeUserIs ==
    ASSUME NEW t, MakeUser(t)
    PROVE  /\ userCount' = NextNumber
           /\ Unused(call[t].c) = {} =>
                 contexts' = [contexts EXCEPT ![call[t].c].kept = @ + 1] /\ users' = users
           /\ Unused(call[t].c) # {} =>
                 /\ users' = [l \in DOMAIN users \cup {NewKey(call[t].c)} |->
                                IF l = NewKey(call[t].c) THEN NewUser(call[t].user) ELSE users[l]]
                 /\ CountContext(call[t].c, -1)
  BY Zenon DEF MakeUser, NextNumber, Unused, NewKey

\* It adds a user context, or leaves its count behind.
LEMMA MakeUserMoves ==
    ASSUME Inv, NEW t \in Threads, MakeUser(t) PROVE \E z : Moves(t, z)
  <1>1. PICK c : c = call[t].c
    OBVIOUS
  <1>2. PICK next : next = NextNumber
    OBVIOUS
  <1>3. PICK unused : unused = Unused(c)
    OBVIOUS
  <1>4. /\ call[t].pc = "makeUser" /\ userCount' = next /\ call' = [call EXCEPT ![t] = Idle]
        /\ UNCHANGED <<requests, handles, sdk, glock, library, calls>>
    BY <1>2, MakeUserIs DEF MakeUser
  <1>5. next \in 1 .. UserIdLimit - 1 /\ next \in Nat
    BY <1>2, Typed, BoundsNat DEF NextNumber
  <1>6. RestMoves(t)
    BY <1>4, <1>5, Typed DEF RestMoves
  <1>7. /\ c \in DOMAIN contexts /\ c \in 1 .. MaxContexts /\ ~call[t].nested /\ call[t].user \in Users
        /\ call[t].pc \in InsideContext
        /\ \A i : ~InU(call[t], i) /\ ~InR(call[t], i) /\ ~Nst(call[t], i)
    <2>1. call[t].pc \in InsideContext /\ \A i : ~InU(call[t], i) /\ ~InR(call[t], i)
      BY <1>4, InsidePlaces DEF InU, InR, InsideUser
    <2>2. ~call[t].nested /\ call[t].user \in Users
      BY <1>4, Typed DEF Fits, Nesting
    <2>3. c \in DOMAIN contexts
      BY <1>1, <2>1, InContextIs
    <2> QED BY <2>1, <2>2, <2>3, Typed DEF Nst
  <1>8. W(call[t], c) = 1
    BY <1>1, <1>7 DEF W, One, InC
  <1>9. ReqMoves(t, Idle)
    BY <1>4, <1>7, IdleIs, ReqStays
  <1>10. HdlMoves(t, Idle)
    BY <1>4, IdleIs, HdlStays
  <1>11. CASE unused = {}
    <2>1. contexts' = [contexts EXCEPT ![c].kept = @ + 1] /\ users' = users
      BY <1>1, <1>3, <1>11, MakeUserIs
    <2>2. /\ CtxMoves(t, Idle) /\ DOMAIN contexts' = DOMAIN contexts
          /\ \A i \in DOMAIN contexts : contexts'[i].there = contexts[i].there
      BY <1>1, <1>7, <1>8, <2>1, KeptMoves
    <2>3. UsrMoves(t, Idle)
      BY <1>7, <2>1, IdleIs, UsrStays
    <2>4. LibMoves(t)
      BY <1>4, <2>2, LibStays
    <2> QED BY <1>4, <1>6, <1>9, <1>10, <2>2, <2>3, <2>4, IdleIs, Assembled
  <1>12. CASE unused # {}
    <2>1. PICK n : n = CHOOSE j \in unused : \A m \in unused : m <= j
      OBVIOUS
    <2>2. n \in unused
      <3>1. unused \in SUBSET (1 .. next)
        BY <1>2, <1>3 DEF Unused
      <3> QED BY <1>5, <1>12, <2>1, <3>1, LastNumber
    <2>3. PICK k : k = NewKey(c)
      OBVIOUS
    <2>10. k = <<c, n>>
      BY <1>3, <2>1, <2>3 DEF NewKey
    <2>4. /\ users' = [l \in DOMAIN users \cup {k} |->
                          IF l = k THEN NewUser(call[t].user) ELSE users[l]]
          /\ CountContext(c, -1)
      <3>1. Unused(call[t].c) # {} /\ k = NewKey(call[t].c)
        BY <1>1, <1>3, <1>12, <2>3
      <3>2. /\ users' = [l \in DOMAIN users \cup {NewKey(call[t].c)} |->
                            IF l = NewKey(call[t].c) THEN NewUser(call[t].user) ELSE users[l]]
            /\ CountContext(call[t].c, -1)
        BY <3>1, MakeUserIs
      <3> QED BY <1>1, <3>1, <3>2, Zenon
    <2>5. k \in Keys /\ k \notin DOMAIN users
      BY <1>2, <1>3, <1>5, <1>7, <2>2, <2>10, BoundsNat DEF Keys, Unused
    <2>6. NewUser(call[t].user) \in UserContexts /\ NewUser(call[t].user).count = 0
      BY <1>7 DEF NewUser, UserContexts
    <2>7. UsrMoves(t, Idle)
      <3>1. DOMAIN users' = DOMAIN users \cup {k} /\ DOMAIN users' \subseteq Keys
        BY <2>4, <2>5, Typed
      <3>2. users'[k] = NewUser(call[t].user) /\ \A l \in DOMAIN users : users'[l] = users[l]
        BY <2>4, <2>5
      <3>3. users' \in [DOMAIN users' -> UserContexts]
        BY <2>4, <2>6, Typed
      <3>4. \A i : ~InU(Idle, i) /\ ~InU(call[t], i)
        BY <1>7, IdleIs
      <3>5. \A l \in DOMAIN users : users'[l].count - One(InU(Idle, l)) = users[l].count - One(InU(call[t], l))
        BY <3>2, <3>4 DEF One
      <3>6. Idle.pc \notin InsideUser
        BY IdleIs DEF InsideUser, InsideRequest
      <3>7. DOMAIN users \ DOMAIN users' = {} /\ DOMAIN users' \ DOMAIN users = {k}
            /\ DOMAIN users' \cap DOMAIN users = DOMAIN users
        BY <2>5, <3>1
      <3>8. Idle.pc # "drainUser"
        BY IdleIs
      <3> QED BY <2>6, <3>1, <3>2, <3>3, <3>4, <3>5, <3>6, <3>7, <3>8 DEF UsrMoves
    <2>8. /\ CtxMoves(t, Idle) /\ DOMAIN contexts' = DOMAIN contexts
          /\ \A i \in DOMAIN contexts : contexts'[i].there = contexts[i].there
      BY <1>1, <1>7, <1>8, <2>4, CountedOut
    <2>9. LibMoves(t)
      BY <1>4, <2>8, LibStays
    <2> QED BY <1>4, <1>6, <1>9, <1>10, <2>7, <2>8, <2>9, IdleIs, Assembled
  <1> QED BY <1>11, <1>12

\* A user context leaves the table, and its requests with it.
LEMMA UserLeaves ==
    ASSUME Inv, NEW t \in Threads, NEW z, NEW k \in DOMAIN users,
           users' = Restrict(users, DOMAIN users \ {k}), requests' = Cleared(k),
           users[k].count <= One(InU(call[t], k)), call[t].u = k,
           z.pc \notin InsideUser, \A i : ~InR(call[t], i)
    PROVE  UsrMoves(t, z) /\ ReqMoves(t, z)
  <1>1. users \in [DOMAIN users -> UserContexts] /\ DOMAIN users \subseteq Keys
    BY Typed
  <1>2. /\ DOMAIN users' = DOMAIN users \ {k} /\ users' \in [DOMAIN users' -> UserContexts]
        /\ \A i \in DOMAIN users' : users'[i] = users[i]
    BY <1>1 DEF Restrict
  <1>3. \A i : ~InU(z, i) /\ ~InR(z, i) /\ (i # k => ~InU(call[t], i))
    BY InsidePlaces DEF InU, InR
  <1>4. z.pc # "drainUser"
    BY InsidePlaces
  <1>5. \A i \in DOMAIN users' : users'[i].count - One(InU(z, i)) = users[i].count - One(InU(call[t], i))
    BY <1>2, <1>3 DEF One
  <1>6. UsrMoves(t, z)
    BY <1>1, <1>2, <1>3, <1>4, <1>5 DEF UsrMoves
  <1>7. DOMAIN requests' = DOMAIN requests /\ requests' = [r \in DOMAIN requests' |-> requests'[r]]
    BY DEF Cleared
  <1>8. ASSUME NEW r \in DOMAIN requests
        PROVE  requests'[r] \in Requests /\ ReqMove(t, z, r, requests[r], requests'[r])
    <2>1. PICK x : x = requests[r]
      OBVIOUS
    <2>2. x \in Requests /\ HttpFine(x) /\ ~InR(z, r) /\ ~InR(call[t], r)
      BY <1>3, <2>1, Typed, FineNow
    <2>3. x.count \in Int /\ x.below \in Nat /\ x.there \in BOOLEAN
      BY <2>2 DEF Requests
    <2>4. CASE r \in RequestsOf(k)
      <3>1. PICK y : y = [x EXCEPT !.there = FALSE, !.cleared = TRUE]
        OBVIOUS
      <3>2. requests'[r] = y
        BY <2>1, <2>4, <3>1 DEF Cleared
      <3>3. /\ y \in Requests /\ y.count = x.count /\ y.u = x.u /\ y.there = FALSE
            /\ y.below = x.below /\ y.http = x.http /\ y.bad = x.bad /\ y.aborted = x.aborted
            /\ y.told = x.told /\ y.late = x.late /\ y.orphan = x.orphan /\ y.twice = x.twice
            /\ y.cleared = TRUE
        BY <2>2, <3>1 DEF Requests
      <3>4. HttpFine(y)
        BY <2>2, <3>3 DEF HttpFine
      <3>5. x.u \in DOMAIN users \ DOMAIN users'
        BY <1>2, <2>1, <2>4 DEF RequestsOf
      <3>6. ReqMove(t, z, r, x, y)
        BY <2>2, <2>3, <3>3, <3>4, <3>5 DEF ReqMove, One
      <3> QED BY <2>1, <3>2, <3>3, <3>6
    <2>5. CASE r \notin RequestsOf(k)
      <3>1. requests'[r] = x
        BY <2>1, <2>5 DEF Cleared
      <3>2. ReqMove(t, z, r, x, x)
        BY <2>2, <2>3 DEF ReqMove, One
      <3> QED BY <2>1, <2>2, <3>1, <3>2
    <2> QED BY <2>4, <2>5
  <1> QED BY <1>6, <1>7, <1>8, ReqEach

\* What is aborted together is each touched.
LEMMA AbortedAllTouches ==
    ASSUME Inv, NEW rs
    PROVE  /\ DOMAIN AbortedAll(rs) = DOMAIN requests
           /\ AbortedAll(rs) = [r \in DOMAIN requests |-> AbortedAll(rs)[r]]
           /\ \A r \in DOMAIN requests : Touched(requests[r], AbortedAll(rs)[r])
  <1>1. ASSUME NEW r \in DOMAIN requests PROVE Touched(requests[r], AbortedAll(rs)[r])
    <2>1. requests[r] \in Requests /\ HttpFine(requests[r])
      BY Typed, FineNow
    <2>2. Touched(requests[r], requests[r])
      BY <2>1 DEF Touched
    <2>3. Touched(requests[r], Aborted(requests[r]))
      BY <2>1, AbortTouches
    <2> QED BY <2>2, <2>3 DEF AbortedAll
  <1>2. DOMAIN AbortedAll(rs) = DOMAIN requests
    BY DEF AbortedAll
  <1>3. AbortedAll(rs) = [r \in DOMAIN requests |-> AbortedAll(rs)[r]]
    BY DEF AbortedAll
  <1> QED BY <1>1, <1>2, <1>3

\* What a deletion becomes that is on its way out
LEMMA LeavingFits ==
    ASSUME Inv, NEW t \in Threads, NEW res \in {"ok", "noUser", "other"}, Leaving(t, res),
           call[t].pc \in InsideContext
    PROVE  \E z \in Calls : /\ call' = [call EXCEPT ![t] = z] /\ z.pc = "leaveContext"
                            /\ SameCall(call[t], z) /\ Fits(z)
                            /\ \A i : /\ W(z, i) = W(call[t], i)
                                      /\ InC(z, i) \/ Nst(z, i) => InC(call[t], i) \/ Nst(call[t], i)
                                      /\ ~InU(z, i) /\ ~InR(z, i)
  <1>1. PICK z \in Calls : /\ call' = [call EXCEPT ![t] = z] /\ z.pc = "leaveContext"
                           /\ SameCall(call[t], z)
    BY LeavingIs
  <1>2. call[t].pc # "idle" /\ call[t].api # "checkTimeout"
    BY InContextIs
  <1>3. FitsAt("leaveContext", call[t].api, call[t].nested)
    BY <1>2 DEF FitsAt, Terminating, Nesting, InsideRequest
  <1>4. Fits(z)
    BY <1>1, <1>2, <1>3, Typed, FitsSame
  <1>5. \A i : /\ W(z, i) = W(call[t], i)
               /\ InC(z, i) \/ Nst(z, i) => InC(call[t], i) \/ Nst(call[t], i)
    BY <1>1, InsidePlaces, InsideWeighs
  <1>6. \A i : ~InU(z, i) /\ ~InR(z, i)
    BY <1>1, InsidePlaces DEF InU, InR
  <1> QED BY <1>1, <1>4, <1>5, <1>6

\* The last of deleteUserContext takes the user context and its requests away.
LEMMA UserContextDrainedMoves ==
    ASSUME Inv, NEW t \in Threads, UserContextDrained(t) PROVE \E z : Moves(t, z)
  <1>1. PICK k : k = call[t].u
    OBVIOUS
  <1>2. /\ call[t].pc = "drainUser" /\ ~UserBusy(users[k])
        /\ users' = Restrict(users, DOMAIN users \ {k}) /\ requests' = Cleared(k)
        /\ Leaving(t, "ok")
        /\ UNCHANGED <<contexts, userCount, handles, sdk, glock, library, calls>>
    BY <1>1 DEF UserContextDrained
  <1>3. call[t].pc \in InsideContext /\ call[t].pc \in InsideUser /\ call[t].pc \notin InsideRequest
    BY <1>2, InsidePlaces
  <1>4. PICK z \in Calls : /\ call' = [call EXCEPT ![t] = z] /\ z.pc = "leaveContext"
                           /\ SameCall(call[t], z) /\ Fits(z)
                           /\ \A i : /\ W(z, i) = W(call[t], i)
                                     /\ InC(z, i) \/ Nst(z, i) => InC(call[t], i) \/ Nst(call[t], i)
                                     /\ ~InU(z, i) /\ ~InR(z, i)
    BY <1>2, <1>3, LeavingFits
  <1>5. k \in DOMAIN users
    BY <1>1, <1>3, InContextIs
  <1>6. users[k].count <= One(InU(call[t], k))
    <2>1. users[k].count \in Int
      BY <1>5, Typed DEF UserContexts
    <2>2. users[k].count <= 1
      BY <1>2, <2>1 DEF UserBusy
    <2>3. InU(call[t], k)
      BY <1>1, <1>3 DEF InU
    <2> QED BY <2>2, <2>3 DEF One
  <1>7. z.pc \notin InsideUser /\ z.pc \notin Marking /\ \A i : ~InR(call[t], i)
    BY <1>3, <1>4, InsidePlaces DEF InR, Marking
  <1>8. UsrMoves(t, z) /\ ReqMoves(t, z)
    BY <1>1, <1>2, <1>5, <1>6, <1>7, UserLeaves
  <1>9. CtxMoves(t, z)
    BY <1>2, <1>4, CtxStays
  <1>10. HdlMoves(t, z) /\ LibMoves(t) /\ RestMoves(t)
    BY <1>2, <1>4, HdlStays, LibStays, RestStays
  <1> QED BY <1>4, <1>8, <1>9, <1>10, Assembled

\* deleteUserContext refuses, deletes at once, or aborts, marks and waits.
LEMMA DeleteUserContextMoves ==
    ASSUME Inv, NEW t \in Threads, DeleteUserContext(t) PROVE \E z : Moves(t, z)
  <1>1. PICK k : k = call[t].u
    OBVIOUS
  <1>2. /\ InContext(t, "deleteUserContext")
        /\ UNCHANGED <<contexts, userCount, handles, sdk, glock, library, calls>>
    BY DEF DeleteUserContext
  <1>3. /\ call[t].pc = "inContext" /\ call[t].pc \in InsideContext /\ call[t].pc # "idle"
        /\ call[t].api # "checkTimeout" /\ \A i : ~InU(call[t], i) /\ ~InR(call[t], i)
    BY <1>2, NamedIs
  <1>4. RestMoves(t) /\ LibMoves(t)
    BY <1>2, RestStays, LibStays
  <1>5. ASSUME NEW res \in {"ok", "noUser", "other"}, Leaving(t, res), users' = users, requests' = requests
        PROVE  \E z : Moves(t, z)
    <2>1. PICK z \in Calls : /\ call' = [call EXCEPT ![t] = z] /\ z.pc = "leaveContext"
                             /\ SameCall(call[t], z) /\ Fits(z)
                             /\ \A i : /\ W(z, i) = W(call[t], i)
                                       /\ InC(z, i) \/ Nst(z, i) => InC(call[t], i) \/ Nst(call[t], i)
                                       /\ ~InU(z, i) /\ ~InR(z, i)
      BY <1>3, <1>5, LeavingFits
    <2>2. z.pc \notin Marking
      BY <2>1 DEF Marking
    <2>3. Moves(t, z)
      BY <1>2, <1>3, <1>4, <1>5, <2>1, <2>2, StayStep
    <2> QED BY <2>3
  <1>6. CASE /\ Finds(k) /\ users[k].count = 0 /\ Leaving(t, "ok")
             /\ users' = Restrict(users, DOMAIN users \ {k}) /\ requests' = Cleared(k)
    <2>1. PICK z \in Calls : /\ call' = [call EXCEPT ![t] = z] /\ z.pc = "leaveContext"
                             /\ SameCall(call[t], z) /\ Fits(z)
                             /\ \A i : /\ W(z, i) = W(call[t], i)
                                       /\ InC(z, i) \/ Nst(z, i) => InC(call[t], i) \/ Nst(call[t], i)
                                       /\ ~InU(z, i) /\ ~InR(z, i)
      BY <1>3, <1>6, LeavingFits
    <2>2. k \in DOMAIN users /\ users[k].count <= One(InU(call[t], k))
      BY <1>6 DEF Finds, One
    <2>3. z.pc \notin InsideUser /\ z.pc \notin Marking
      BY <2>1, InsidePlaces DEF Marking
    <2>4. UsrMoves(t, z) /\ ReqMoves(t, z)
      BY <1>1, <1>3, <1>6, <2>2, <2>3, UserLeaves
    <2>5. CtxMoves(t, z)
      BY <1>2, <2>1, CtxStays
    <2>6. HdlMoves(t, z)
      BY <1>2, <2>1, HdlStays
    <2> QED BY <1>4, <2>1, <2>4, <2>5, <2>6, Assembled
  <1>7. CASE /\ Finds(k) /\ requests' = AbortedAll(RequestsOf(k)) /\ Go(t, "drainUser")
             /\ users' = [users EXCEPT ![k].deleted = TRUE, ![k].count = @ + 1]
    <2>1. FitsAt("drainUser", call[t].api, call[t].nested)
      BY <1>3, InsidePlaces DEF FitsAt, Terminating, Nesting, InsideRequest
    <2>2. PICK z \in Calls : /\ call' = [call EXCEPT ![t] = z] /\ z.pc = "drainUser"
                             /\ SameCall(call[t], z) /\ Fits(z)
      BY <1>3, <1>7, <2>1, InsidePlaces, GoFits
    <2>3. PICK x : x = users[k]
      OBVIOUS
    <2>4. k \in DOMAIN users /\ x \in UserContexts /\ ~x.deleted /\ users \in [DOMAIN users -> UserContexts]
      BY <1>7, <2>3, Typed DEF Finds
    <2>5. PICK m \in Int : m = x.count + 1
      BY <2>4 DEF UserContexts
    <2>6. PICK y : y = [x EXCEPT !.deleted = TRUE, !.count = m]
      OBVIOUS
    <2>7. y \in UserContexts /\ y.count = x.count + 1 /\ y.deleted = TRUE /\ x.count \in Int
      BY <2>4, <2>5, <2>6 DEF UserContexts
    <2>8. users' = [users EXCEPT ![k] = y]
      BY <1>7, <2>3, <2>4, <2>5, <2>6
    <2>9. \A i : (InU(z, i) <=> i = k) /\ ~InR(z, i)
      BY <1>1, <2>2, InsidePlaces DEF SameCall, InU, InR
    <2>10. y.count - One(InU(z, k)) = users[k].count - One(InU(call[t], k))
      BY <1>3, <2>3, <2>7, <2>9 DEF One
    <2>11. z.u = k /\ ~users[k].deleted /\ y.deleted /\ \A i : i # k => (InU(z, i) <=> InU(call[t], i))
      BY <1>1, <1>3, <2>2, <2>3, <2>4, <2>7, <2>9 DEF SameCall
    <2>12. UsrMoves(t, z)
      BY <2>4, <2>7, <2>8, <2>10, <2>11, UsrOne
    <2>13. ReqMoves(t, z)
      <3>1. /\ DOMAIN requests' = DOMAIN requests
            /\ requests' = [r \in DOMAIN requests' |-> requests'[r]]
            /\ \A r \in DOMAIN requests : Touched(requests[r], requests'[r])
        BY <1>7, AbortedAllTouches
      <3>2. ASSUME NEW r \in DOMAIN requests
            PROVE  requests'[r] \in Requests /\ ReqMove(t, z, r, requests[r], requests'[r])
        BY <1>3, <2>9, <3>1, Typed, TouchedMoves
      <3> QED BY <3>1, <3>2, ReqEach
    <2>14. CtxMoves(t, z)
      <3>1. \A i : /\ W(z, i) = W(call[t], i)
                   /\ InC(z, i) \/ Nst(z, i) => InC(call[t], i) \/ Nst(call[t], i)
        BY <1>3, <2>2, InsidePlaces, InsideWeighs
      <3>2. z.pc \notin {"abortHandles", "drainContext", "erase"}
        BY <2>2
      <3> QED BY <1>2, <3>1, <3>2, CtxStays
    <2>15. HdlMoves(t, z)
      BY <1>2, <2>2, HdlStays
    <2> QED BY <1>4, <2>2, <2>12, <2>13, <2>14, <2>15, Assembled
  <1> QED BY <1>1, <1>5, <1>6, <1>7 DEF DeleteUserContext

-----------------------------------------------------------------------------
(* Requests.                                                               *)

\* A step inside the context that leaves the contexts alone
LEMMA InsideStep ==
    ASSUME Inv, NEW t \in Threads, NEW p \in InsideContext, Go(t, p), call[t].pc \in InsideContext,
           FitsAt(p, call[t].api, call[t].nested), p \notin {"abortHandles", "drainContext", "erase"},
           contexts' = contexts
    PROVE  \E z \in Calls : /\ call' = [call EXCEPT ![t] = z] /\ z.pc = p
                            /\ SameCall(call[t], z) /\ Fits(z) /\ CtxMoves(t, z)
  <1>1. p \in Places /\ call[t].pc # "idle"
    BY InsidePlaces, InContextIs
  <1>2. PICK z \in Calls : /\ call' = [call EXCEPT ![t] = z] /\ z.pc = p
                           /\ SameCall(call[t], z) /\ Fits(z)
    BY <1>1, GoFits
  <1>3. \A i : /\ W(z, i) = W(call[t], i)
               /\ InC(z, i) \/ Nst(z, i) => InC(call[t], i) \/ Nst(call[t], i)
    BY <1>2, InsideWeighs
  <1>4. CtxMoves(t, z)
    BY <1>2, <1>3, CtxStays
  <1> QED BY <1>2, <1>4

\* A request that stays as it is
LEMMA ReqSame ==
    ASSUME Inv, NEW t \in Threads, NEW z, NEW r \in DOMAIN requests, InR(z, r) <=> InR(call[t], r)
    PROVE  ReqMove(t, z, r, requests[r], requests[r])
  <1>1. HttpFine(requests[r]) /\ requests[r] \in Requests
    BY FineNow, Typed
  <1>2. requests[r].count \in Int /\ requests[r].below \in Nat /\ requests[r].there \in BOOLEAN
    BY <1>1 DEF Requests
  <1> QED BY <1>1, <1>2 DEF ReqMove, One

\* createRequest adds a request nobody uses, to a context there has been.
LEMMA CreateRequestMoves ==
    ASSUME Inv, NEW t \in Threads, NEW bad \in BOOLEAN, CreateRequest(t, bad) PROVE \E z : Moves(t, z)
  <1>1. PICK k : k = call[t].u
    OBVIOUS
  <1>2. /\ call[t].pc = "inUser" /\ call[t].api = "createRequest" /\ Go(t, "leaveUser")
        /\ requests' = requests \/ requests' = Append(requests, NewRequest(k, bad))
        /\ UNCHANGED <<contexts, users, userCount, handles, sdk, glock, library, calls>>
    BY <1>1 DEF CreateRequest
  <1>3. /\ ~call[t].nested /\ call[t].api # "checkTimeout" /\ call[t].pc # "idle"
        /\ call[t].pc \in InsideContext /\ k \in DOMAIN users /\ call[t].c \in DOMAIN contexts
    BY <1>1, <1>2, AtUserIs
  <1>4. FitsAt("leaveUser", call[t].api, call[t].nested)
    BY <1>2, <1>3, InsidePlaces DEF FitsAt, Terminating, InsideRequest
  <1>5. PICK z \in Calls : /\ call' = [call EXCEPT ![t] = z] /\ z.pc = "leaveUser"
                           /\ SameCall(call[t], z) /\ Fits(z) /\ CtxMoves(t, z)
    BY <1>2, <1>3, <1>4, InsidePlaces, InsideStep
  <1>6. \A i : /\ InU(z, i) <=> InU(call[t], i)
               /\ ~InR(z, i) /\ ~InR(call[t], i)
    BY <1>2, <1>5, InsidePlaces DEF SameCall, InU, InR
  <1>7. UsrMoves(t, z)
    BY <1>2, <1>5, <1>6, UsrStays
  <1>8. HdlMoves(t, z) /\ LibMoves(t) /\ RestMoves(t)
    BY <1>2, <1>5, HdlStays, LibStays, RestStays
  <1>9. CASE requests' = requests
    <2>1. ReqMoves(t, z)
      BY <1>6, <1>9, ReqStays
    <2> QED BY <1>5, <1>7, <1>8, <2>1, Assembled
  <1>10. CASE requests' = Append(requests, NewRequest(k, bad))
    <2>1. k \in Keys /\ k[1] \in DOMAIN contexts
      <3>1. Fits(call[t])
        BY Typed
      <3>2. k[1] = call[t].c
        BY <1>1, <1>2, <3>1 DEF Fits
      <3> QED BY <1>3, <3>2, Typed
    <2>2. NewRequest(k, bad) \in Requests
      BY <2>1 DEF NewRequest, Requests
    <2>3. PICK n : n = Len(requests) + 1
      OBVIOUS
    <2>4. /\ requests' \in Seq(Requests) /\ DOMAIN requests' = DOMAIN requests \cup {n}
          /\ requests'[n] = NewRequest(k, bad) /\ n \notin DOMAIN requests
          /\ \A r \in DOMAIN requests : requests'[r] = requests[r]
      BY <1>10, <2>2, <2>3, Typed, Longer
    <2>5. \A r \in DOMAIN requests : ReqMove(t, z, r, requests[r], requests'[r])
      BY <1>6, <2>4, ReqSame
    <2>6. ReqMoves(t, z)
      BY <1>1, <1>6, <2>1, <2>4, <2>5 DEF ReqMoves
    <2> QED BY <1>5, <1>7, <1>8, <2>6, Assembled
  <1> QED BY <1>2, <1>9, <1>10

\* What is erased is gone, with one call less; the HTTP objects with it.
LEMMA ErasedIs ==
    ASSUME NEW x \in Requests, HttpFine(x)
    PROVE  /\ Erased(x) \in Requests /\ HttpFine(Erased(x))
           /\ Erased(x).count = x.count - 1 /\ Erased(x).u = x.u /\ Erased(x).there = FALSE
           /\ Erased(x).below = x.below
  <1>1. PICK m \in Int : m = x.count - 1
    BY DEF Requests
  <1>2. PICK y : y = [x EXCEPT !.there = FALSE, !.count = m, !.http = "none"]
    OBVIOUS
  <1>3. y = Erased(x)
    BY <1>1, <1>2 DEF Erased
  <1>4. /\ y \in Requests /\ y.count = x.count - 1 /\ y.u = x.u /\ y.there = FALSE
        /\ y.below = x.below /\ y.http = "none" /\ y.bad = x.bad /\ y.aborted = x.aborted
        /\ y.told = x.told /\ y.late = x.late /\ y.orphan = x.orphan /\ y.twice = x.twice
        /\ y.cleared = x.cleared
    BY <1>1, <1>2 DEF Requests
  <1>5. HttpFine(y)
    BY <1>4 DEF HttpFine
  <1> QED BY <1>3, <1>4, <1>5

\* What deleteRequest does first: abort, and count itself in.
Held(x) == [Aborted(x) EXCEPT !.count = @ + 1]

\* What has been aborted and counted is otherwise as it was.
LEMMA HeldIs ==
    ASSUME NEW x \in Requests, HttpFine(x)
    PROVE  /\ Held(x) \in Requests /\ HttpFine(Held(x))
           /\ Held(x).count = x.count + 1 /\ Held(x).u = x.u /\ Held(x).there = x.there
           /\ Held(x).below = x.below
  <1>1. PICK w : w = Aborted(x)
    OBVIOUS
  <1>2. w \in Requests /\ HttpFine(w) /\ w.u = x.u /\ w.there = x.there /\ w.count = x.count /\ w.below = x.below
    BY <1>1, AbortTouches DEF Touched
  <1>3. PICK m \in Int : m = w.count + 1
    BY <1>2 DEF Requests
  <1>4. PICK y : y = [w EXCEPT !.count = m]
    OBVIOUS
  <1>5. y = Held(x)
    BY <1>1, <1>3, <1>4 DEF Held
  <1>6. /\ y \in Requests /\ y.count = w.count + 1 /\ y.u = w.u /\ y.there = w.there
        /\ y.below = w.below /\ y.http = w.http /\ y.bad = w.bad /\ y.aborted = w.aborted
        /\ y.told = w.told /\ y.late = w.late /\ y.orphan = w.orphan /\ y.twice = w.twice
        /\ y.cleared = w.cleared
    BY <1>2, <1>3, <1>4 DEF Requests
  <1>7. HttpFine(y)
    BY <1>2, <1>6 DEF HttpFine
  <1> QED BY <1>2, <1>5, <1>6, <1>7

\* A user context is counted by one more or one less.
LEMMA UserCounts ==
    ASSUME Inv, NEW k \in DOMAIN users, NEW n, n = users[k].count + 1 \/ n = users[k].count - 1,
           users' = [users EXCEPT ![k].count = n]
    PROVE  \E y \in UserContexts : /\ users' = [users EXCEPT ![k] = y] /\ users[k].count \in Int
                                   /\ y.count = n /\ y.deleted = users[k].deleted
  <1>1. PICK x : x = users[k]
    OBVIOUS
  <1>2. x \in UserContexts /\ x.count \in Int
    BY <1>1, Typed DEF UserContexts
  <1>3. n \in Int
    BY <1>1, <1>2
  <1>4. PICK y : y = [x EXCEPT !.count = n]
    OBVIOUS
  <1>5. y \in UserContexts /\ y.count = n /\ y.deleted = x.deleted
    BY <1>2, <1>3, <1>4 DEF UserContexts
  <1>6. users' = [users EXCEPT ![k] = y]
    BY <1>1, <1>3, <1>4
  <1> QED BY <1>1, <1>2, <1>5, <1>6
\* A call that takes the lock of its context and keeps it
LEMMA LostMoves ==
    ASSUME Inv, NEW t \in Threads, NEW z, NEW c \in DOMAIN contexts, Free(t, c),
           contexts' = [contexts EXCEPT ![c] = LeftLocked(@, t)],
           W(z, c) = W(call[t], c), InC(z, c) \/ Nst(z, c) => InC(call[t], c) \/ Nst(call[t], c),
           z.pc \notin Marking
    PROVE  \E y \in Contexts : /\ contexts' = [contexts EXCEPT ![c] = y]
                               /\ y.there = contexts[c].there
                               /\ CtxMove(t, z, c, contexts[c], y)
  <1>1. PICK x : x = contexts[c]
    OBVIOUS
  <1>2. x \in Contexts /\ contexts \in Seq(Contexts) /\ (x.owner = None <=> x.depth = 0) /\ x.owner \in {t, None}
    BY <1>1, Typed DEF Inv, LocksFit, Free
  <1>3. x.count \in Int /\ x.kept \in Nat /\ x.there \in BOOLEAN /\ x.depth \in Nat /\ x.lost \in Nat
    BY <1>2 DEF Contexts
  <1>4. PICK m \in Nat : m = x.depth + 1
    BY <1>3
  <1>5. PICK l \in Nat : l = x.lost + 1
    BY <1>3
  <1>6. PICK y : y = [x EXCEPT !.owner = t, !.depth = m, !.lost = l]
    OBVIOUS
  <1>7. /\ y \in Contexts /\ y.count = x.count /\ y.kept = x.kept /\ y.there = x.there
        /\ y.terminated = x.terminated /\ y.owner = t /\ y.depth = m
    BY <1>2, <1>4, <1>5, <1>6 DEF Contexts
  <1>8. y = LeftLocked(x, t)
    BY <1>4, <1>5, <1>6 DEF LeftLocked
  <1>9. contexts' = [contexts EXCEPT ![c] = y]
    BY <1>1, <1>8
  <1>10. t # None /\ m # 0
    BY <1>3, <1>4, BoundsNat
  <1>11. CtxMove(t, z, c, x, y)
    BY <1>2, <1>3, <1>7, <1>10 DEF CtxMove, Marking
  <1> QED BY <1>1, <1>7, <1>9, <1>11

\* A deletion that finds a request nobody uses erases it.
LEMMA ErasedMoves ==
    ASSUME Inv, NEW t \in Threads, NEW z, NEW r \in DOMAIN requests, ~InR(z, r),
           \A i : i # r => (InR(z, i) <=> InR(call[t], i)),
           requests[r].count <= One(InR(call[t], r)), NEW y \in Requests, HttpFine(y),
           requests' = [requests EXCEPT ![r] = y], y.u = requests[r].u, y.there = FALSE,
           y.below = requests[r].below,
           y.count = requests[r].count - One(InR(call[t], r))
    PROVE  ReqMoves(t, z)
  <1>1. PICK x : x = requests[r]
    OBVIOUS
  <1>2. x \in Requests
    BY <1>1, Typed
  <1>3. x.count \in Int /\ x.below \in Nat /\ x.there \in BOOLEAN
    BY <1>2 DEF Requests
  <1>4. One(InR(z, r)) = 0 /\ One(InR(call[t], r)) \in Int
    BY DEF One
  <1>5. y.count + y.below - One(InR(z, r)) = x.count + x.below - One(InR(call[t], r))
    BY <1>1, <1>3, <1>4
  <1>6. y.below >= x.below
    BY <1>1, <1>3
  <1>7. ReqMove(t, z, r, x, y)
    BY <1>1, <1>5, <1>6 DEF ReqMove
  <1> QED BY <1>1, <1>7, ReqOne

\* deleteRequest keeps the lock, erases, or aborts, counts itself in and waits.
LEMMA DeleteRequestMoves ==
    ASSUME Inv, NEW t \in Threads, DeleteRequest(t) PROVE \E z : Moves(t, z)
  <1>1. PICK r, k, c : r = call[t].r /\ k = call[t].u /\ c = call[t].c
    OBVIOUS
  <1>2. PICK x : x = requests[r]
    OBVIOUS
  <1>3. /\ InContext(t, "deleteRequest")
        /\ UNCHANGED <<userCount, handles, sdk, glock, library, calls>>
    BY DEF DeleteRequest
  <1>4. \/ /\ contexts' = [contexts EXCEPT ![c] = LeftLocked(@, t)]
           /\ Go(t, "leaveContext") /\ UNCHANGED <<users, requests>>
        \/ /\ ~RequestBusy(x)
           /\ requests' = [requests EXCEPT ![r] = Erased(Held(x))]
           /\ Go(t, "leaveContext") /\ UNCHANGED <<contexts, users>>
        \/ /\ Finds(k) /\ x.there
           /\ requests' = [requests EXCEPT ![r] = Held(x)]
           /\ users' = [users EXCEPT ![k].count = @ + 1]
           /\ Go(t, "drainRequest") /\ UNCHANGED contexts
    BY <1>1, <1>2 DEF DeleteRequest, Held
  <1>5. /\ call[t].pc = "inContext" /\ call[t].pc \in InsideContext /\ call[t].pc # "idle"
        /\ call[t].api = "deleteRequest" /\ ~call[t].nested /\ c \in DOMAIN contexts
        /\ \A i : ~InU(call[t], i) /\ ~InR(call[t], i)
    BY <1>1, <1>3, NamedIs
  <1>6. r \in DOMAIN requests /\ x \in Requests /\ HttpFine(x)
    <2>1. Fits(call[t])
      BY Typed
    <2>2. r \in DOMAIN requests
      BY <1>1, <1>5, <2>1 DEF Fits
    <2> QED BY <1>2, <2>2, Typed, FineNow
  <1>7. RestMoves(t)
    BY <1>3, RestStays
  <1>8. PICK h : h = Held(x)
    OBVIOUS
  <1>9. /\ h \in Requests /\ HttpFine(h) /\ h.count = x.count + 1 /\ h.u = x.u
        /\ h.there = x.there /\ h.below = x.below
    BY <1>6, <1>8, HeldIs
  <1>10. FitsAt("leaveContext", call[t].api, call[t].nested)
    BY <1>5 DEF FitsAt, Terminating, InsideRequest
  <1>11. x.count \in Int /\ x.below \in Nat
    BY <1>6 DEF Requests
  <1>12. CASE /\ contexts' = [contexts EXCEPT ![c] = LeftLocked(@, t)]
              /\ Go(t, "leaveContext") /\ UNCHANGED <<users, requests>>
    <2>1. PICK z \in Calls : /\ call' = [call EXCEPT ![t] = z] /\ z.pc = "leaveContext"
                             /\ SameCall(call[t], z) /\ Fits(z)
      BY <1>5, <1>10, <1>12, InsidePlaces, GoFits
    <2>2. \A i : /\ W(z, i) = W(call[t], i)
                 /\ InC(z, i) \/ Nst(z, i) => InC(call[t], i) \/ Nst(call[t], i)
      BY <1>5, <2>1, InsidePlaces, InsideWeighs
    <2>3. \A i : ~InU(z, i) /\ ~InR(z, i)
      BY <2>1, InsidePlaces DEF InU, InR
    <2>4. z.pc \notin Marking /\ Free(t, c)
      BY <1>1, <1>3, <2>1 DEF Marking, InContext
    <2>5. PICK y \in Contexts : /\ contexts' = [contexts EXCEPT ![c] = y]
                                /\ y.there = contexts[c].there
                                /\ CtxMove(t, z, c, contexts[c], y)
      BY <1>5, <1>12, <2>2, <2>4, LostMoves
    <2>6. z.pc \notin {"drainUser", "drainHandle"} /\ z.c = c /\ call[t].c = c
      BY <1>1, <2>1 DEF SameCall
    <2>7. Moves(t, z)
      BY <1>3, <1>5, <1>7, <1>12, <2>1, <2>3, <2>5, <2>6, CtxStep
    <2> QED BY <2>7
  <1>13. CASE /\ ~RequestBusy(x)
              /\ requests' = [requests EXCEPT ![r] = Erased(Held(x))]
              /\ Go(t, "leaveContext") /\ UNCHANGED <<contexts, users>>
    <2>1. PICK z \in Calls : /\ call' = [call EXCEPT ![t] = z] /\ z.pc = "leaveContext"
                             /\ SameCall(call[t], z) /\ Fits(z) /\ CtxMoves(t, z)
      BY <1>5, <1>10, <1>13, InsidePlaces, InsideStep
    <2>2. PICK y : y = Erased(h)
      OBVIOUS
    <2>3. /\ y \in Requests /\ HttpFine(y) /\ y.count = h.count - 1 /\ y.u = h.u
          /\ y.there = FALSE /\ y.below = h.below
      BY <1>9, <2>2, ErasedIs
    <2>4. requests' = [requests EXCEPT ![r] = y]
      BY <1>8, <1>13, <2>2
    <2>5. \A i : ~InU(z, i) /\ ~InR(z, i)
      BY <2>1, InsidePlaces DEF InU, InR
    <2>6. One(InR(call[t], r)) = 0
      BY <1>5 DEF One
    <2>7. requests[r].count <= One(InR(call[t], r)) /\ y.count = requests[r].count - One(InR(call[t], r))
      BY <1>2, <1>9, <1>11, <1>13, <2>3, <2>6 DEF RequestBusy
    <2>8. y.u = requests[r].u /\ y.below = requests[r].below
      BY <1>2, <1>9, <2>3
    <2>9. ReqMoves(t, z)
      BY <1>5, <1>6, <2>3, <2>4, <2>5, <2>7, <2>8, ErasedMoves
    <2>10. UsrMoves(t, z)
      BY <1>5, <1>13, <2>1, <2>5, UsrStays
    <2>11. HdlMoves(t, z) /\ LibMoves(t)
      BY <1>3, <1>13, <2>1, HdlStays, LibStays
    <2> QED BY <1>7, <2>1, <2>9, <2>10, <2>11, Assembled
  <1>14. CASE /\ Finds(k) /\ x.there
              /\ requests' = [requests EXCEPT ![r] = Held(x)]
              /\ users' = [users EXCEPT ![k].count = @ + 1]
              /\ Go(t, "drainRequest") /\ UNCHANGED contexts
    <2>1. FitsAt("drainRequest", call[t].api, call[t].nested)
      BY <1>5 DEF FitsAt, Terminating, InsideRequest
    <2>2. PICK z \in Calls : /\ call' = [call EXCEPT ![t] = z] /\ z.pc = "drainRequest"
                             /\ SameCall(call[t], z) /\ Fits(z) /\ CtxMoves(t, z)
      BY <1>5, <1>14, <2>1, InsidePlaces, InsideStep
    <2>3. Mark("deleteRequest") = 1
      BY DEF Mark, MultipartCalls
    <2>4. \A i : (InU(z, i) <=> i = k) /\ (InR(z, i) <=> i = r)
      BY <1>1, <1>5, <2>2, <2>3, InsidePlaces DEF SameCall, InU, InR
    <2>5. k \in DOMAIN users
      BY <1>14 DEF Finds
    <2>6. PICK u \in UserContexts : /\ users' = [users EXCEPT ![k] = u] /\ users[k].count \in Int
                                    /\ u.count = users[k].count + 1 /\ u.deleted = users[k].deleted
      <3>1. PICK n : n = users[k].count + 1
        OBVIOUS
      <3>2. users' = [users EXCEPT ![k].count = n]
        BY <1>14, <3>1
      <3> QED BY <2>5, <3>1, <3>2, UserCounts
    <2>7. u.count - One(InU(z, k)) = users[k].count - One(InU(call[t], k))
      BY <1>5, <2>4, <2>6 DEF One
    <2>8. \A i : i # k => (InU(z, i) <=> InU(call[t], i))
      BY <1>5, <2>4
    <2>9. UsrMoves(t, z)
      BY <2>2, <2>5, <2>6, <2>7, <2>8, UsrOne
    <2>10. ReqMove(t, z, r, x, h)
      <3>1. One(InR(z, r)) = 1 /\ One(InR(call[t], r)) = 0
        BY <1>5, <2>4 DEF One
      <3>2. h.count + h.below - One(InR(z, r)) = x.count + x.below - One(InR(call[t], r))
        BY <1>9, <1>11, <3>1
      <3>3. h.below >= x.below
        BY <1>9, <1>11
      <3> QED BY <1>9, <1>14, <3>2, <3>3 DEF ReqMove
    <2>11. ReqMoves(t, z)
      <3>1. \A i : i # r => (InR(z, i) <=> InR(call[t], i))
        BY <1>5, <2>4
      <3> QED BY <1>2, <1>6, <1>8, <1>9, <1>14, <2>10, <3>1, ReqOne
    <2>12. HdlMoves(t, z) /\ LibMoves(t)
      BY <1>3, <1>14, <2>2, HdlStays, LibStays
    <2> QED BY <1>7, <2>2, <2>9, <2>11, <2>12, Assembled
  <1> QED BY <1>4, <1>12, <1>13, <1>14

\* The last of deleteRequest erases the request, alone with it.
LEMMA RequestDrainedMoves ==
    ASSUME Inv, NEW t \in Threads, RequestDrained(t) PROVE \E z : Moves(t, z)
  <1>1. PICK r, k : r = call[t].r /\ k = call[t].u
    OBVIOUS
  <1>2. PICK x : x = requests[r]
    OBVIOUS
  <1>3. /\ call[t].pc = "drainRequest" /\ x.count <= 1
        /\ requests' = [requests EXCEPT ![r] = Erased(@)]
        /\ users' = [users EXCEPT ![k].count = @ - 1] /\ Go(t, "leaveContext")
        /\ UNCHANGED <<contexts, userCount, handles, sdk, glock, library, calls>>
    BY <1>1, <1>2 DEF RequestDrained
  <1>4. call[t].pc \in InsideContext /\ call[t].pc \in InsideRequest /\ call[t].pc \in InsideUser
    BY <1>3, InsidePlaces
  <1>5. /\ ~call[t].nested /\ r \in DOMAIN requests /\ call[t].c \in DOMAIN contexts
        /\ k \in DOMAIN users /\ call[t].pc # "idle" /\ call[t].api = "deleteRequest"
    <2>1. Fits(call[t])
      BY Typed
    <2> QED BY <1>1, <1>3, <1>4, <2>1, InsideIs DEF Fits
  <1>6. x \in Requests /\ HttpFine(x) /\ requests \in Seq(Requests)
    BY <1>2, <1>5, Typed, FineNow
  <1>7. FitsAt("leaveContext", call[t].api, call[t].nested)
    BY <1>5 DEF FitsAt, Terminating, InsideRequest
  <1>8. PICK z \in Calls : /\ call' = [call EXCEPT ![t] = z] /\ z.pc = "leaveContext"
                           /\ SameCall(call[t], z) /\ Fits(z) /\ CtxMoves(t, z)
    BY <1>3, <1>4, <1>7, InsidePlaces, InsideStep
  <1>9. PICK y : y = Erased(x)
    OBVIOUS
  <1>10. /\ y \in Requests /\ HttpFine(y) /\ y.count = x.count - 1 /\ y.u = x.u
         /\ y.there = FALSE /\ y.below = x.below
    BY <1>6, <1>9, ErasedIs
  <1>11. requests' = [requests EXCEPT ![r] = y]
    BY <1>2, <1>3, <1>9
  <1>12. Mark("deleteRequest") = 1
    BY DEF Mark, MultipartCalls
  <1>13. /\ \A i : ~InU(z, i) /\ ~InR(z, i)
         /\ \A i : (InU(call[t], i) <=> i = k) /\ (InR(call[t], i) <=> i = r)
    BY <1>1, <1>4, <1>5, <1>8, <1>12, InsidePlaces DEF InU, InR
  <1>14. One(InR(call[t], r)) = 1
    BY <1>13 DEF One
  <1>15. /\ requests[r].count <= One(InR(call[t], r)) /\ y.count = requests[r].count - One(InR(call[t], r))
         /\ y.u = requests[r].u /\ y.below = requests[r].below
    BY <1>2, <1>3, <1>10, <1>14
  <1>16. ReqMoves(t, z)
    BY <1>5, <1>10, <1>11, <1>13, <1>15, ErasedMoves
  <1>17. PICK u \in UserContexts : /\ users' = [users EXCEPT ![k] = u] /\ users[k].count \in Int
                                   /\ u.count = users[k].count - 1 /\ u.deleted = users[k].deleted
    <2>1. PICK n : n = users[k].count - 1
      OBVIOUS
    <2>2. users' = [users EXCEPT ![k].count = n]
      BY <1>3, <2>1
    <2>3. k \in DOMAIN users /\ (n = users[k].count + 1 \/ n = users[k].count - 1)
      BY <1>5, <2>1
    <2>4. PICK u \in UserContexts : /\ users' = [users EXCEPT ![k] = u] /\ users[k].count \in Int
                                    /\ u.count = n /\ u.deleted = users[k].deleted
      BY <2>2, <2>3, UserCounts
    <2> QED BY <2>1, <2>4
  <1>18. u.count - One(InU(z, k)) = users[k].count - One(InU(call[t], k))
    BY <1>13, <1>17 DEF One
  <1>19. \A i : i # k => (InU(z, i) <=> InU(call[t], i))
    BY <1>13
  <1>20. UsrMoves(t, z)
    BY <1>5, <1>8, <1>17, <1>18, <1>19, UsrOne
  <1>21. HdlMoves(t, z) /\ LibMoves(t) /\ RestMoves(t)
    BY <1>3, <1>8, HdlStays, LibStays, RestStays
  <1> QED BY <1>8, <1>16, <1>20, <1>21, Assembled

\* checkTimeout touches requests, those it can reach by aborting them too.
LEMMA CheckTimeoutMoves ==
    ASSUME Inv, NEW t \in Threads, NEW rs \in SUBSET DOMAIN requests, CheckTimeout(t, rs)
    PROVE  \E z : Moves(t, z)
  <1>1. PICK reached : reached = {r \in rs : ~contexts[requests[r].u[1]].terminated /\ Finds(requests[r].u)}
    OBVIOUS
  <1>2. PICK a : a = AbortedAll(reached)
    OBVIOUS
  <1>3. /\ call[t].pc = "global" /\ call[t].api = "checkTimeout" /\ glock' = None
        /\ requests' = [r \in DOMAIN requests |->
                           IF r \in rs THEN [a[r] EXCEPT !.timed = TRUE] ELSE requests[r]]
        /\ call' = [call EXCEPT ![t] = Idle]
        /\ UNCHANGED <<contexts, users, userCount, handles, sdk, library, calls>>
    BY <1>1, <1>2 DEF CheckTimeout
  <1>4. ~call[t].nested /\ call[t].pc \notin InsideContext
    BY <1>3, Typed DEF Fits, InsideContext, InsideUser, InsideRequest
  <1>5. \A i : /\ ~InC(call[t], i) /\ ~Nst(call[t], i) /\ ~InU(call[t], i) /\ ~InR(call[t], i)
               /\ W(call[t], i) = 0
    BY <1>4, OutsideWeighs
  <1>6. \A i : ~InC(Idle, i) /\ ~Nst(Idle, i) /\ ~InU(Idle, i) /\ ~InR(Idle, i)
    BY IdleIs
  <1>7. \A i : W(Idle, i) = 0
    BY <1>6 DEF W, One
  <1>8. Idle \in Calls /\ Fits(Idle) /\ Idle.pc = "idle"
    BY IdleIs
  <1>9. CtxMoves(t, Idle)
    BY <1>3, <1>5, <1>6, <1>7, <1>8, CtxStays
  <1>10. UsrMoves(t, Idle)
    BY <1>3, <1>5, <1>6, <1>8, UsrStays
  <1>11. ReqMoves(t, Idle)
    <2>1. ASSUME NEW r \in DOMAIN requests PROVE Touched(requests[r], requests'[r])
      <3>1. Touched(requests[r], a[r])
        BY <1>2, AbortedAllTouches
      <3>2. Touched(a[r], [a[r] EXCEPT !.timed = TRUE])
        BY <3>1, TimedTouches DEF Touched
      <3>3. Touched(requests[r], [a[r] EXCEPT !.timed = TRUE])
        BY <3>1, <3>2, TouchedAgain
      <3>4. Touched(requests[r], requests[r])
        BY Typed, FineNow DEF Touched
      <3> QED BY <1>3, <3>3, <3>4
    <2>2. ASSUME NEW r \in DOMAIN requests
          PROVE  requests'[r] \in Requests /\ ReqMove(t, Idle, r, requests[r], requests'[r])
      BY <1>5, <1>6, <2>1, Typed, TouchedMoves
    <2>3. DOMAIN requests' = DOMAIN requests /\ requests' = [r \in DOMAIN requests' |-> requests'[r]]
      BY <1>3
    <2> QED BY <2>2, <2>3, ReqEach
  <1>12. HdlMoves(t, Idle) /\ LibMoves(t) /\ RestMoves(t)
    BY <1>3, <1>8, HdlStays, LibStays, RestStays
  <1> QED BY <1>3, <1>8, <1>9, <1>10, <1>11, <1>12, Assembled
-----------------------------------------------------------------------------
(* Handles.                                                                *)

\* A step of a call that changes handles only
LEMMA HandlesStep ==
    ASSUME Inv, NEW t \in Threads, NEW p \in {"leaveContext", "inHandle", "drainHandle"}, Go(t, p),
           call[t].pc \in InsideContext \ InsideUser, FitsAt(p, call[t].api, call[t].nested),
           UNCHANGED <<contexts, users, requests, library>>, RestMoves(t),
           \A z : z.pc = p /\ SameCall(call[t], z) => HdlMoves(t, z)
    PROVE  \E z : Moves(t, z)
  <1>1. /\ p \in InsideContext /\ p \notin {"abortHandles", "drainContext", "erase"} /\ contexts' = contexts
        /\ p \notin InsideUser /\ p # "drainUser"
    BY InsidePlaces
  <1>2. PICK z \in Calls : /\ call' = [call EXCEPT ![t] = z] /\ z.pc = p
                           /\ SameCall(call[t], z) /\ Fits(z) /\ CtxMoves(t, z)
    BY <1>1, InsideStep
  <1>3. \A i : /\ ~InU(z, i) /\ ~InR(z, i) /\ ~InU(call[t], i) /\ ~InR(call[t], i)
    BY <1>1, <1>2, InsidePlaces DEF InU, InR
  <1>4. UsrMoves(t, z) /\ ReqMoves(t, z)
    BY <1>1, <1>2, <1>3, UsrStays, ReqStays
  <1>5. HdlMoves(t, z) /\ LibMoves(t)
    BY <1>2, LibStays
  <1> QED BY <1>2, <1>4, <1>5, Assembled

\* A call that changes a handle and leaves it unmarked
LEMMA HandleMoves ==
    ASSUME Inv, NEW t \in Threads, NEW h \in DOMAIN handles, NEW y \in Handles,
           handles' = [handles EXCEPT ![h] = y], y.c = handles[h].c, handles[h].deleted => y.deleted
    PROVE  \A z : z.pc # "drainHandle" => HdlMoves(t, z)
  <1>1. ASSUME NEW z, z.pc # "drainHandle" PROVE HdlMoves(t, z)
    BY <1>1, HdlOne
  <1> QED BY <1>1

\* A handle counted by one more or less, deleted, or marked
LEMMA HandleChanges ==
    ASSUME NEW x \in Handles, NEW y,
           \/ y = [x EXCEPT !.count = @ + 1] \/ y = [x EXCEPT !.count = @ - 1]
           \/ y = [x EXCEPT !.there = FALSE] \/ y = [x EXCEPT !.deleted = TRUE]
    PROVE  y \in Handles /\ y.c = x.c /\ (x.deleted => y.deleted)
  <1>1. CASE y = [x EXCEPT !.count = @ + 1]
    BY <1>1 DEF Handles
  <1>2. CASE y = [x EXCEPT !.count = @ - 1]
    BY <1>2 DEF Handles
  <1>3. CASE y = [x EXCEPT !.there = FALSE]
    BY <1>3 DEF Handles
  <1>4. CASE y = [x EXCEPT !.deleted = TRUE]
    BY <1>4 DEF Handles
  <1> QED BY <1>1, <1>2, <1>3, <1>4

\* The handle of a call on one, and that such a call is not nested
LEMMA HandleIs ==
    ASSUME Inv, NEW t \in Threads, call[t].pc \in InsideContext, call[t].api \in HandleCalls
    PROVE  /\ call[t].h \in DOMAIN handles /\ handles[call[t].h] \in Handles /\ handles \in Seq(Handles)
           /\ ~call[t].nested
  <1>1. Fits(call[t])
    BY Typed
  <1>2. call[t].h \in DOMAIN handles /\ ~call[t].nested
    BY <1>1 DEF Fits, HandleCalls
  <1> QED BY <1>2, Typed

\* A call on a handle that leaves it
LEMMA HandleFits ==
    ASSUME NEW p \in {"leaveContext", "inHandle", "drainHandle"}, NEW api \in HandleCalls
    PROVE  FitsAt(p, api, FALSE)
  BY DEF FitsAt, Terminating, InsideRequest, HandleCalls

\* createHandle adds a handle of its context.
LEMMA CreateHandleMoves ==
    ASSUME Inv, NEW t \in Threads, CreateHandle(t) PROVE \E z : Moves(t, z)
  <1>1. PICK c : c = call[t].c
    OBVIOUS
  <1>2. /\ InContext(t, "createHandle") /\ handles' = Append(handles, NewHandle(c))
        /\ Go(t, "leaveContext")
        /\ UNCHANGED <<contexts, users, userCount, requests, sdk, glock, library, calls>>
    BY <1>1 DEF CreateHandle
  <1>3. /\ call[t].pc = "inContext" /\ call[t].pc \in InsideContext \ InsideUser
        /\ call[t].api = "createHandle" /\ ~call[t].nested /\ c \in DOMAIN contexts
    BY <1>1, <1>2, NamedIs, InsidePlaces
  <1>4. FitsAt("leaveContext", call[t].api, call[t].nested)
    BY <1>3 DEF FitsAt, Terminating, InsideRequest
  <1>5. NewHandle(c) \in Handles
    <2>1. c \in 1 .. MaxContexts
      BY <1>3, Typed
    <2> QED BY <2>1 DEF NewHandle, Handles
  <1>6. PICK n : n = Len(handles) + 1
    OBVIOUS
  <1>7. /\ handles' \in Seq(Handles) /\ DOMAIN handles' = DOMAIN handles \cup {n}
        /\ handles'[n] = NewHandle(c) /\ n \notin DOMAIN handles
        /\ \A h \in DOMAIN handles : handles'[h] = handles[h]
    BY <1>2, <1>5, <1>6, Typed, Longer
  <1>8. NewHandle(c).c = c
    BY DEF NewHandle
  <1>9. ASSUME NEW z, z.pc = "leaveContext" PROVE HdlMoves(t, z)
    BY <1>3, <1>7, <1>8, <1>9 DEF HdlMoves
  <1>10. RestMoves(t)
    BY <1>2, RestStays
  <1> QED BY <1>2, <1>3, <1>4, <1>9, <1>10, HandlesStep

\* A call that leaves without touching its handle
LEMMA HandleLeft ==
    ASSUME Inv, NEW t \in Threads, Go(t, "leaveContext"), handles' = handles,
           call[t].pc \in InsideContext \ InsideUser, FitsAt("leaveContext", call[t].api, call[t].nested),
           UNCHANGED <<contexts, users, requests, library>>, RestMoves(t)
    PROVE  \E z : Moves(t, z)
  <1>1. ASSUME NEW z, z.pc = "leaveContext" PROVE HdlMoves(t, z)
    BY <1>1, HdlStays
  <1> QED BY <1>1, HandlesStep

\* abortHandle counts itself in at its handle,
LEMMA GetHandleMoves ==
    ASSUME Inv, NEW t \in Threads, GetHandle(t) PROVE \E z : Moves(t, z)
  <1>1. PICK h : h = call[t].h
    OBVIOUS
  <1>2. /\ InContext(t, "abortHandle")
        /\ UNCHANGED <<contexts, users, userCount, requests, sdk, glock, library, calls>>
        /\ \/ handles' = [handles EXCEPT ![h].count = @ + 1] /\ Go(t, "inHandle")
           \/ Go(t, "leaveContext") /\ handles' = handles
    BY <1>1 DEF GetHandle
  <1>3. /\ call[t].pc = "inContext" /\ call[t].pc \in InsideContext \ InsideUser
        /\ call[t].api \in HandleCalls
    BY <1>2, NamedIs, InsidePlaces DEF HandleCalls
  <1>4. /\ h \in DOMAIN handles /\ handles[h] \in Handles /\ handles \in Seq(Handles) /\ call[t].nested = FALSE
    BY <1>1, <1>3, HandleIs, Typed DEF Calls
  <1>5. /\ FitsAt("leaveContext", call[t].api, call[t].nested)
        /\ FitsAt("inHandle", call[t].api, call[t].nested)
    BY <1>3, <1>4, HandleFits
  <1>6. RestMoves(t)
    BY <1>2, RestStays
  <1>7. CASE handles' = [handles EXCEPT ![h].count = @ + 1] /\ Go(t, "inHandle")
    <2>1. PICK y : y = [handles[h] EXCEPT !.count = @ + 1]
      OBVIOUS
    <2>2. y \in Handles /\ y.c = handles[h].c /\ (handles[h].deleted => y.deleted)
      BY <1>4, <2>1, HandleChanges
    <2>3. handles' = [handles EXCEPT ![h] = y]
      BY <1>7, <2>1
    <2>4. \A z : z.pc = "inHandle" /\ SameCall(call[t], z) => HdlMoves(t, z)
      BY <1>4, <2>2, <2>3, HandleMoves
    <2> QED BY <1>2, <1>3, <1>5, <1>6, <1>7, <2>4, HandlesStep
  <1>8. CASE Go(t, "leaveContext") /\ handles' = handles
    BY <1>2, <1>3, <1>5, <1>6, <1>8, HandleLeft
  <1> QED BY <1>2, <1>7, <1>8

\* and out.
LEMMA ReleaseHandleMoves ==
    ASSUME Inv, NEW t \in Threads, ReleaseHandle(t) PROVE \E z : Moves(t, z)
  <1>1. PICK h : h = call[t].h
    OBVIOUS
  <1>2. /\ call[t].pc = "inHandle" /\ Go(t, "leaveContext")
        /\ handles' = [handles EXCEPT ![h].count = @ - 1]
        /\ UNCHANGED <<contexts, users, userCount, requests, sdk, glock, library, calls>>
    BY <1>1 DEF ReleaseHandle
  <1>3. /\ call[t].pc \in InsideContext \ InsideUser /\ call[t].api \in HandleCalls
    BY <1>2, Typed, InsidePlaces DEF Fits
  <1>4. /\ h \in DOMAIN handles /\ handles[h] \in Handles /\ handles \in Seq(Handles) /\ call[t].nested = FALSE
    BY <1>1, <1>3, HandleIs, Typed DEF Calls
  <1>5. FitsAt("leaveContext", call[t].api, call[t].nested)
    BY <1>3, <1>4, HandleFits
  <1>6. RestMoves(t)
    BY <1>2, RestStays
  <1>7. PICK y : y = [handles[h] EXCEPT !.count = @ - 1]
    OBVIOUS
  <1>8. y \in Handles /\ y.c = handles[h].c /\ (handles[h].deleted => y.deleted)
    BY <1>4, <1>7, HandleChanges
  <1>9. handles' = [handles EXCEPT ![h] = y]
    BY <1>2, <1>7
  <1>10. \A z : z.pc = "leaveContext" /\ SameCall(call[t], z) => HdlMoves(t, z)
    BY <1>4, <1>8, <1>9, HandleMoves
  <1> QED BY <1>2, <1>3, <1>5, <1>6, <1>10, HandlesStep

\* deleteHandle leaves, deletes, or marks the handle and waits.
LEMMA DeleteHandleMoves ==
    ASSUME Inv, NEW t \in Threads, DeleteHandle(t) PROVE \E z : Moves(t, z)
  <1>1. PICK h : h = call[t].h
    OBVIOUS
  <1>2. /\ InContext(t, "deleteHandle")
        /\ UNCHANGED <<contexts, users, userCount, requests, sdk, glock, library, calls>>
        /\ \/ Go(t, "leaveContext") /\ handles' = handles
           \/ handles' = [handles EXCEPT ![h].there = FALSE] /\ Go(t, "leaveContext")
           \/ /\ ~handles[h].deleted
              /\ handles' = [handles EXCEPT ![h].deleted = TRUE] /\ Go(t, "drainHandle")
    BY <1>1 DEF DeleteHandle
  <1>3. /\ call[t].pc = "inContext" /\ call[t].pc \in InsideContext \ InsideUser
        /\ call[t].api \in HandleCalls
    BY <1>2, NamedIs, InsidePlaces DEF HandleCalls
  <1>4. /\ h \in DOMAIN handles /\ handles[h] \in Handles /\ handles \in Seq(Handles) /\ call[t].nested = FALSE
    BY <1>1, <1>3, HandleIs, Typed DEF Calls
  <1>5. /\ FitsAt("leaveContext", call[t].api, call[t].nested)
        /\ FitsAt("drainHandle", call[t].api, call[t].nested)
    BY <1>3, <1>4, HandleFits
  <1>6. RestMoves(t)
    BY <1>2, RestStays
  <1>7. CASE Go(t, "leaveContext") /\ handles' = handles
    BY <1>2, <1>3, <1>5, <1>6, <1>7, HandleLeft
  <1>8. CASE handles' = [handles EXCEPT ![h].there = FALSE] /\ Go(t, "leaveContext")
    <2>1. PICK y : y = [handles[h] EXCEPT !.there = FALSE]
      OBVIOUS
    <2>2. y \in Handles /\ y.c = handles[h].c /\ (handles[h].deleted => y.deleted)
      BY <1>4, <2>1, HandleChanges
    <2>3. handles' = [handles EXCEPT ![h] = y]
      BY <1>8, <2>1
    <2>4. \A z : z.pc = "leaveContext" /\ SameCall(call[t], z) => HdlMoves(t, z)
      BY <1>4, <2>2, <2>3, HandleMoves
    <2> QED BY <1>2, <1>3, <1>5, <1>6, <1>8, <2>4, HandlesStep
  <1>9. CASE /\ ~handles[h].deleted
             /\ handles' = [handles EXCEPT ![h].deleted = TRUE] /\ Go(t, "drainHandle")
    <2>1. PICK y : y = [handles[h] EXCEPT !.deleted = TRUE]
      OBVIOUS
    <2>2. y \in Handles /\ y.c = handles[h].c /\ y.deleted /\ ~handles[h].deleted
      BY <1>4, <1>9, <2>1, HandleChanges DEF Handles
    <2>3. handles' = [handles EXCEPT ![h] = y]
      BY <1>9, <2>1
    <2>4. ASSUME NEW z, z.pc = "drainHandle", SameCall(call[t], z) PROVE HdlMoves(t, z)
      <3>1. z.h = h
        BY <1>1, <2>4 DEF SameCall
      <3> QED BY <1>4, <2>2, <2>3, <3>1, HdlOne
    <2> QED BY <1>2, <1>3, <1>5, <1>6, <1>9, <2>4, HandlesStep
  <1> QED BY <1>2, <1>7, <1>8, <1>9

\* The last of deleteHandle takes the handle away.
LEMMA HandleDrainedMoves ==
    ASSUME Inv, NEW t \in Threads, HandleDrained(t) PROVE \E z : Moves(t, z)
  <1>1. PICK h : h = call[t].h
    OBVIOUS
  <1>2. /\ call[t].pc = "drainHandle" /\ Go(t, "leaveContext")
        /\ handles' = [handles EXCEPT ![h].there = FALSE]
        /\ UNCHANGED <<contexts, users, userCount, requests, sdk, glock, library, calls>>
    BY <1>1 DEF HandleDrained
  <1>3. /\ call[t].pc \in InsideContext \ InsideUser /\ call[t].api \in HandleCalls
    BY <1>2, Typed, InsidePlaces DEF Fits
  <1>4. /\ h \in DOMAIN handles /\ handles[h] \in Handles /\ handles \in Seq(Handles) /\ call[t].nested = FALSE
    BY <1>1, <1>3, HandleIs, Typed DEF Calls
  <1>5. FitsAt("leaveContext", call[t].api, call[t].nested)
    BY <1>3, <1>4, HandleFits
  <1>6. RestMoves(t)
    BY <1>2, RestStays
  <1>7. PICK y : y = [handles[h] EXCEPT !.there = FALSE]
    OBVIOUS
  <1>8. y \in Handles /\ y.c = handles[h].c /\ (handles[h].deleted => y.deleted)
    BY <1>4, <1>7, HandleChanges
  <1>9. handles' = [handles EXCEPT ![h] = y]
    BY <1>2, <1>7
  <1>10. \A z : z.pc = "leaveContext" /\ SameCall(call[t], z) => HdlMoves(t, z)
    BY <1>4, <1>8, <1>9, HandleMoves
  <1> QED BY <1>2, <1>3, <1>5, <1>6, <1>10, HandlesStep
-----------------------------------------------------------------------------
(* Library contexts.                                                       *)

\* A call that is ending a context, and no longer before its first user context
LEMMA TerminatingIs ==
    ASSUME Inv, NEW t \in Threads, call[t].pc \in Terminating
    PROVE  /\ call[t].api = "terminateContext" /\ ~call[t].nested /\ call[t].pc # "idle"
           /\ call[t].c \in DOMAIN contexts /\ contexts[call[t].c] \in Contexts
           /\ call[t].pc \notin InsideUser /\ \A i : ~InU(call[t], i) /\ ~InR(call[t], i) /\ ~Nst(call[t], i)
           /\ call[t].pc \notin {"erase"} => call[t].pc \in InsideContext
           /\ call[t].pc = "erase" => call[t].pc \notin InsideContext
  <1>1. PICK x : x = call[t]
    OBVIOUS
  <1>2. Fits(x) /\ x.pc \in Terminating
    BY <1>1, Typed
  <1>3. x.api = "terminateContext" /\ ~x.nested /\ x.pc # "idle" /\ x.c \in DOMAIN contexts
    BY <1>2 DEF Fits, Terminating, Nesting
  <1>4. x.pc \notin InsideUser /\ x.pc \notin InsideRequest
    BY <1>2 DEF Terminating, InsideUser, InsideRequest
  <1>5. \A i : ~InU(x, i) /\ ~InR(x, i) /\ ~Nst(x, i)
    BY <1>3, <1>4 DEF InU, InR, Nst
  <1>6. (x.pc # "erase" => x.pc \in InsideContext) /\ (x.pc = "erase" => x.pc \notin InsideContext)
    BY <1>2, <1>4 DEF Terminating, InsideContext
  <1>7. contexts[x.c] \in Contexts
    BY <1>3, Typed
  <1> QED BY <1>1, <1>3, <1>4, <1>5, <1>6, <1>7

\* A call that ends a context fits wherever it is in doing so.
LEMMA TerminatingFits ==
    ASSUME NEW p \in Terminating \cup {"leaveContext"}
    PROVE  /\ FitsAt(p, "terminateContext", FALSE)
           /\ p \in Places /\ p \notin InsideUser
  <1>1. p \in Places /\ p \notin InsideUser
    BY DEF Terminating, Places, InsideContext, InsideUser, InsideRequest
  <1>2. FitsAt(p, "terminateContext", FALSE)
    BY DEF Terminating, FitsAt, InsideRequest
  <1> QED BY <1>1, <1>2

\* terminateContext leaves a context in use, or goes on to its user contexts.
LEMMA TerminateContextMoves ==
    ASSUME Inv, NEW t \in Threads, TerminateContext(t) PROVE \E z : Moves(t, z)
  <1>1. /\ InContext(t, "terminateContext") /\ UNCHANGED <<tables, sdk, glock, library, calls>>
        /\ Go(t, "leaveContext") \/ Go(t, "list")
    BY DEF TerminateContext
  <1>2. /\ call[t].pc = "inContext" /\ call[t].pc # "idle" /\ call[t].api = "terminateContext"
        /\ call[t].nested = FALSE
    BY <1>1, NamedIs, Typed DEF Calls
  <1>3. ASSUME NEW p \in {"leaveContext", "list"}, Go(t, p) PROVE \E z : Moves(t, z)
    <2>1. FitsAt(p, call[t].api, call[t].nested) /\ p \in Places
      BY <1>2, TerminatingFits DEF Terminating
    <2>2. SameClass(call[t].pc, p, call[t].api) /\ p \notin Marking
      BY <1>2 DEF SameClass, Marking, InsideContext, InsideUser, InsideRequest
    <2>3. UNCHANGED <<contexts, users, handles, library>> /\ requests' = requests /\ RestMoves(t)
      BY <1>1, Unchanged, RestStays
    <2> QED BY <1>2, <1>3, <2>1, <2>2, <2>3, QuietStep
  <1> QED BY <1>1, <1>3

\* A call that ends a context at another place
LEMMA EndsFits ==
    ASSUME Inv, NEW z, z.pc \in {"list", "next"}, z.api = "terminateContext", ~z.nested,
           z.c \in DOMAIN contexts
    PROVE  /\ Fits(z) /\ z.pc \notin Marking
           /\ \A i : /\ ~InU(z, i) /\ ~InR(z, i) /\ ~Nst(z, i)
                     /\ InC(z, i) <=> z.c = i
  <1>1. Fits(z)
    BY DEF Fits, InsideRequest, RequestCalls, MultipartCalls, HandleCalls, Terminating
  <1>2. \A i : ~InU(z, i) /\ ~InR(z, i) /\ ~Nst(z, i) /\ (InC(z, i) <=> z.c = i)
    BY DEF InU, InR, Nst, InC, InsideContext, InsideUser, InsideRequest
  <1> QED BY <1>1, <1>2 DEF Marking

\* It lists them,
LEMMA ListUsersMoves ==
    ASSUME Inv, NEW t \in Threads, ListUsers(t) PROVE \E z : Moves(t, z)
  <1>1. PICK x : x = call[t]
    OBVIOUS
  <1>2. PICK ids : ids = UsersOf(x.c)
    OBVIOUS
  <1>3. /\ x.pc = "list" /\ call' = [call EXCEPT ![t].pc = "next", ![t].ids = ids]
        /\ UNCHANGED <<tables, sdk, glock, library, calls>>
    BY <1>1, <1>2 DEF ListUsers
  <1>4. x \in Calls /\ Fits(x) /\ call \in [Threads -> Calls]
    BY <1>1, Typed
  <1>5. /\ x.api = "terminateContext" /\ ~x.nested /\ x.c \in DOMAIN contexts /\ x.pc \in InsideContext
        /\ \A i : ~InU(x, i) /\ ~InR(x, i) /\ ~Nst(x, i)
    BY <1>1, <1>3, TerminatingIs DEF Terminating
  <1>6. ids \in SUBSET Keys
    BY <1>2, Typed DEF UsersOf
  <1>7. PICK z : z = [x EXCEPT !.pc = "next", !.ids = ids]
    OBVIOUS
  <1>8. z \in Calls /\ z.pc = "next" /\ z.api = x.api /\ z.c = x.c /\ z.nested = x.nested
    BY <1>4, <1>6, <1>7, InsidePlaces DEF Calls
  <1>9. call' = [call EXCEPT ![t] = z]
    BY <1>1, <1>3, <1>4, <1>7
  <1>10. /\ Fits(z) /\ z.pc \notin Marking
         /\ \A i : ~InU(z, i) /\ ~InR(z, i) /\ ~Nst(z, i) /\ (InC(z, i) <=> z.c = i)
    BY <1>5, <1>8, EndsFits
  <1>11. \A i : InC(x, i) <=> z.c = i
    BY <1>5, <1>8 DEF InC
  <1>12. \A i : /\ W(z, i) = W(call[t], i)
                /\ InC(z, i) \/ Nst(z, i) => InC(call[t], i) \/ Nst(call[t], i)
                /\ InU(z, i) <=> InU(call[t], i)
                /\ InR(z, i) <=> InR(call[t], i)
    BY <1>1, <1>5, <1>10, <1>11 DEF W, One
  <1>13. UNCHANGED <<contexts, users, requests, handles, library>> /\ RestMoves(t)
    BY <1>3, Unchanged, RestStays
  <1> QED BY <1>8, <1>9, <1>10, <1>12, <1>13, StayStep

\* and deletes the next, counted at the context as nested instead of inside.
LEMMA DeleteNextUserMoves ==
    ASSUME Inv, NEW t \in Threads, DeleteNextUser(t) PROVE \E z : Moves(t, z)
  <1>1. PICK x, left : x = call[t] /\ left = call[t].ids
    OBVIOUS
  <1>2. PICK k : k = CHOOSE j \in left : \A l \in left : j[2] <= l[2]
    OBVIOUS
  <1>3. /\ x.pc = "next" /\ left # {}
        /\ call' = [call EXCEPT ![t].pc = "find", ![t].nested = TRUE, ![t].u = k, ![t].ids = left \ {k}]
        /\ UNCHANGED <<tables, sdk, glock, library, calls>>
    BY <1>1, <1>2 DEF DeleteNextUser
  <1>4. x \in Calls /\ Fits(x) /\ call \in [Threads -> Calls]
    BY <1>1, Typed
  <1>5. /\ x.api = "terminateContext" /\ ~x.nested /\ x.c \in DOMAIN contexts /\ x.pc \in InsideContext
        /\ \A i : ~InU(x, i) /\ ~InR(x, i) /\ ~Nst(x, i)
    BY <1>1, <1>3, TerminatingIs DEF Terminating
  <1>6. left \in SUBSET Keys /\ left \in SUBSET (Nat \X Nat)
    BY <1>1, <1>4, BoundsNat DEF Calls, Keys
  <1>7. k \in left /\ k \in Nat \X Nat
    BY <1>2, <1>3, <1>6, FirstUser
  <1>8. PICK z : z = [x EXCEPT !.pc = "find", !.nested = TRUE, !.u = k, !.ids = left \ {k}]
    OBVIOUS
  <1>9. z \in Calls /\ z.pc = "find" /\ z.api = x.api /\ z.c = x.c /\ z.nested = TRUE
    BY <1>4, <1>6, <1>7, <1>8 DEF Calls, Places
  <1>10. call' = [call EXCEPT ![t] = z]
    BY <1>1, <1>3, <1>4, <1>8
  <1>11. Fits(z)
    BY <1>5, <1>9 DEF Fits, InsideRequest, RequestCalls, MultipartCalls, HandleCalls, Terminating, Nesting
  <1>12. \A i : /\ ~InU(z, i) /\ ~InR(z, i) /\ ~InC(z, i)
                /\ Nst(z, i) <=> z.c = i
    BY <1>9 DEF InU, InR, Nst, InC, InsideContext, InsideUser, InsideRequest
  <1>13. \A i : InC(x, i) <=> z.c = i
    BY <1>5, <1>9 DEF InC
  <1>14. \A i : /\ W(z, i) = W(call[t], i)
                /\ InC(z, i) \/ Nst(z, i) => InC(call[t], i) \/ Nst(call[t], i)
                /\ InU(z, i) <=> InU(call[t], i)
                /\ InR(z, i) <=> InR(call[t], i)
    BY <1>1, <1>5, <1>12, <1>13 DEF W, One
  <1>15. UNCHANGED <<contexts, users, requests, handles, library>> /\ RestMoves(t) /\ z.pc \notin Marking
    BY <1>3, <1>9, Unchanged, RestStays DEF Marking
  <1> QED BY <1>9, <1>10, <1>11, <1>14, <1>15, StayStep

\* A context less to count, or a success that came too early
LEMMA UncountMoves ==
    ASSUME Inv, NEW t \in Threads, call[t].pc # "idle", Enters(t, "uncount"),
           UNCHANGED <<active, initialized, torn>>, NEW d \in Int,
           Cardinality(There)' = Cardinality(There) + d, early' \in Nat, early' = early + d + 1,
           d = 0 \/ (d = -1 /\ Cardinality(There) > 0), call'[t].pc = "idle"
    PROVE  LibMoves(t)
  <1>1. PICK x : x = outer[t]
    OBVIOUS
  <1>2. PICK y : y = [x EXCEPT !.pc = "uncount"]
    OBVIOUS
  <1>3. x \in Outers /\ x.pc = "none"
    BY <1>1, Typed DEF Inv, OuterIsIdle
  <1>4. /\ y \in Outers /\ y.pc = "uncount" /\ outer' = [outer EXCEPT ![t] = y]
        /\ overlapped' = (overlapped \/ \E u \in Threads \ {t} : outer[u].pc # "none")
    BY <1>1, <1>2, <1>3, Typed DEF Enters, Outers, OuterPlaces
  <1>5. overlapped' \in BOOLEAN /\ (torn => overlapped)
    BY <1>4 DEF Inv, LibraryFits, TornFits
  <1>6. ~overlapped' /\ early' = 0 => MarkAt(y, active', initialized')
    <2> SUFFICES ASSUME ~overlapped', early' = 0 PROVE MarkAt(y, active', initialized')
      OBVIOUS
    <2>1. d = -1 /\ early = 0 /\ Cardinality(There) > 0
      BY Typed
    <2>2. active >= 0 /\ (initialized <=> active > 0) /\ active = Cardinality(There)
      <3>1. ~overlapped /\ \A u \in Threads \ {t} : outer[u].pc = "none"
        BY <1>4
      <3>2. active = Cardinality(There) - early /\ active >= 0 /\ (initialized <=> active > 0)
        BY <1>1, <1>3, <2>1, <3>1, RestNow
      <3> QED BY <2>1, <3>2, LedgerNat
    <2> QED BY <1>4, <2>1, <2>2, Typed DEF MarkAt
  <1>7. active' - active = d - early' + early - One(Entering(y)) + One(Entering(x))
                             + One(Exiting(y)) - One(Exiting(x))
    BY <1>3, <1>4, Typed DEF One, Entering, Exiting
  <1> QED BY <1>1, <1>3, <1>4, <1>5, <1>6, <1>7, Typed, LibStep

\* Success counted too early, or not at all
LEMMA EarlyMoves ==
    ASSUME Inv, NEW t \in Threads, call[t].pc # "idle", call'[t].pc = "idle",
           DOMAIN contexts' = DOMAIN contexts,
           \A c \in DOMAIN contexts : contexts'[c].there = contexts[c].there,
           NEW res, early' = IF res = "ok" THEN early + 1 ELSE early,
           IF Succeeded(res) THEN Enters(t, "uncount") ELSE UNCHANGED <<outer, overlapped>>,
           UNCHANGED <<active, initialized, torn>>
    PROVE  LibMoves(t)
  <1>1. CASE res = "ok"
    <2>1. There' = There
      BY DEF There
    <2>2. Cardinality(There)' = Cardinality(There) + 0
      BY <2>1, LedgerNat
    <2>3. early' \in Nat /\ early' = early + 0 + 1
      BY <1>1, Typed
    <2>4. Enters(t, "uncount")
      BY <1>1 DEF Succeeded
    <2> QED BY <2>2, <2>3, <2>4, UncountMoves
  <1>2. CASE res # "ok"
    <2>1. UNCHANGED library
      BY <1>2 DEF Succeeded, library
    <2> QED BY <2>1, LibStays
  <1> QED BY <1>1, <1>2

\* What became of it lets the loop go on, or ends the call and leaves a count.
LEMMA UserDeletedMoves ==
    ASSUME Inv, NEW t \in Threads, UserDeleted(t) PROVE \E z : Moves(t, z)
  <1>1. PICK x : x = call[t]
    OBVIOUS
  <1>2. /\ x.pc = "deleted" /\ UNCHANGED <<users, userCount, requests, handles, sdk, glock, calls>>
        /\ \/ /\ call' = [call EXCEPT ![t].pc = "next", ![t].nested = FALSE, ![t].res = "ok"]
              /\ UNCHANGED <<contexts, library>>
           \/ /\ call' = [call EXCEPT ![t] = Idle]
              /\ contexts' = [contexts EXCEPT ![x.c].kept = @ + 1]
              /\ early' = IF x.res = "ok" THEN early + 1 ELSE early
              /\ IF Succeeded(x.res) THEN Enters(t, "uncount") ELSE UNCHANGED <<outer, overlapped>>
              /\ UNCHANGED <<active, initialized, torn>>
    BY <1>1 DEF UserDeleted
  <1>3. x \in Calls /\ Fits(x) /\ call \in [Threads -> Calls]
    BY <1>1, Typed
  <1>4. x.nested /\ x.api = "terminateContext" /\ x.c \in DOMAIN contexts
    BY <1>2, <1>3 DEF Fits
  <1>5. \A i : ~InU(x, i) /\ ~InR(x, i) /\ ~InC(x, i) /\ (Nst(x, i) <=> x.c = i)
    BY <1>2, <1>4 DEF InU, InR, Nst, InC, InsideContext, InsideUser, InsideRequest
  <1>6. RestMoves(t)
    BY <1>2, RestStays
  <1>7. CASE /\ call' = [call EXCEPT ![t].pc = "next", ![t].nested = FALSE, ![t].res = "ok"]
             /\ UNCHANGED <<contexts, library>>
    <2>1. PICK z : z = [x EXCEPT !.pc = "next", !.nested = FALSE, !.res = "ok"]
      OBVIOUS
    <2>2. z \in Calls /\ z.pc = "next" /\ z.api = x.api /\ z.c = x.c /\ z.nested = FALSE
      BY <1>3, <2>1, InsidePlaces DEF Calls
    <2>3. call' = [call EXCEPT ![t] = z]
      BY <1>1, <1>3, <1>7, <2>1
    <2>4. /\ Fits(z) /\ z.pc \notin Marking
          /\ \A i : ~InU(z, i) /\ ~InR(z, i) /\ ~Nst(z, i) /\ (InC(z, i) <=> z.c = i)
      BY <1>4, <2>2, EndsFits
    <2>5. \A i : /\ W(z, i) = W(call[t], i)
                 /\ InC(z, i) \/ Nst(z, i) => InC(call[t], i) \/ Nst(call[t], i)
                 /\ InU(z, i) <=> InU(call[t], i)
                 /\ InR(z, i) <=> InR(call[t], i)
      BY <1>1, <1>5, <2>2, <2>4 DEF W, One
    <2>6. UNCHANGED <<contexts, users, requests, handles, library>>
      BY <1>2, <1>7
    <2> QED BY <1>6, <2>2, <2>3, <2>4, <2>5, <2>6, StayStep
  <1>8. CASE /\ call' = [call EXCEPT ![t] = Idle]
             /\ contexts' = [contexts EXCEPT ![x.c].kept = @ + 1]
             /\ early' = IF x.res = "ok" THEN early + 1 ELSE early
             /\ IF Succeeded(x.res) THEN Enters(t, "uncount") ELSE UNCHANGED <<outer, overlapped>>
             /\ UNCHANGED <<active, initialized, torn>>
    <2>1. W(call[t], x.c) = 1
      BY <1>1, <1>5 DEF W, One
    <2>2. PICK c : c = x.c
      OBVIOUS
    <2>3. /\ CtxMoves(t, Idle) /\ DOMAIN contexts' = DOMAIN contexts
          /\ \A i \in DOMAIN contexts : contexts'[i].there = contexts[i].there
      BY <1>1, <1>4, <1>8, <2>1, <2>2, KeptMoves
    <2>4. LibMoves(t)
      BY <1>1, <1>2, <1>3, <1>8, <2>3, IdleIs, EarlyMoves
    <2>5. \A i : ~InU(Idle, i) /\ ~InR(Idle, i)
      BY IdleIs
    <2>6. UsrMoves(t, Idle) /\ ReqMoves(t, Idle)
      BY <1>1, <1>2, <1>5, <2>5, IdleIs, UsrStays, ReqStays
    <2>7. HdlMoves(t, Idle)
      BY <1>2, IdleIs, HdlStays
    <2> QED BY <1>6, <1>8, <2>3, <2>4, <2>6, <2>7, IdleIs, Assembled
  <1> QED BY <1>2, <1>7, <1>8
\* How the end of a context goes on, with the lock in hand that w still says is held
LEMMA TerminatedMoves ==
    ASSUME Inv, NEW t \in Threads, NEW c \in DOMAIN contexts, call[t].c = c,
           call[t].pc \in {"next", "abortHandles"}, NEW w \in Contexts, Terminated(t, c, w),
           w.there = contexts[c].there, w.count = contexts[c].count, w.kept = contexts[c].kept,
           w.terminated = contexts[c].terminated, w.owner = None <=> w.depth = 0,
           contexts[c].owner \notin {t, None} => w.owner = contexts[c].owner,
           UNCHANGED <<users, requests, handles, library>>, RestMoves(t)
    PROVE  \E z : Moves(t, z)
  <1>1. PICK x : x = contexts[c]
    OBVIOUS
  <1>2. x \in Contexts /\ x.count \in Int /\ x.kept \in Nat /\ x.there \in BOOLEAN /\ x.terminated \in BOOLEAN
    BY <1>1, Typed DEF Contexts
  <1>3. /\ call[t].api = "terminateContext" /\ call[t].nested = FALSE /\ call[t].pc # "idle"
        /\ call[t].pc \in InsideContext
        /\ \A i : ~InU(call[t], i) /\ ~InR(call[t], i) /\ ~Nst(call[t], i)
    BY TerminatingIs, Typed DEF Terminating, Calls
  <1>4. InC(call[t], c) /\ W(call[t], c) = 1
    <2>1. InC(call[t], c)
      BY <1>3 DEF InC
    <2>2. ~Nst(call[t], c)
      BY <1>3
    <2> QED BY <2>1, <2>2 DEF W, One
  <1>5. ASSUME NEW p \in {"leaveContext", "drainContext", "erase"}, Go(t, p)
        PROVE  \E z \in Calls : /\ call' = [call EXCEPT ![t] = z] /\ z.pc = p /\ Fits(z) /\ z.c = c
                                /\ z.pc \notin {"drainUser", "drainHandle"}
                                /\ \A i : /\ InU(z, i) <=> InU(call[t], i)
                                          /\ InR(z, i) <=> InR(call[t], i)
                                          /\ ~Nst(z, i)
    <2>1. FitsAt(p, call[t].api, call[t].nested) /\ p \in Places /\ p \notin InsideUser
      BY <1>3, TerminatingFits DEF Terminating
    <2>2. PICK z \in Calls : /\ call' = [call EXCEPT ![t] = z] /\ z.pc = p
                             /\ SameCall(call[t], z) /\ Fits(z)
      BY <1>3, <1>5, <2>1, GoFits
    <2>3. \A i : ~InU(z, i) /\ ~InR(z, i) /\ ~Nst(z, i)
      BY <1>3, <2>1, <2>2, InsidePlaces DEF InU, InR, Nst, SameCall
    <2> QED BY <1>3, <2>2, <2>3 DEF SameCall
  <1>6. ASSUME NEW p \in {"leaveContext", "drainContext", "erase"}, Go(t, p), NEW y \in Contexts,
               contexts' = [contexts EXCEPT ![c] = y], y.there = x.there, y.kept = x.kept,
               y.count = IF p = "erase" THEN x.count - 1 ELSE x.count,
               y.owner = w.owner, y.depth = w.depth,
               sdk >= 400 /\ x.terminated => y.terminated,
               p = "drainContext" => sdk >= 400 /\ ~x.terminated /\ y.terminated,
               p = "erase" /\ sdk >= 400 => y.terminated /\ x.count <= 1
        PROVE  \E z : Moves(t, z)
    <2>1. PICK z \in Calls : /\ call' = [call EXCEPT ![t] = z] /\ z.pc = p /\ Fits(z) /\ z.c = c
                             /\ z.pc \notin {"drainUser", "drainHandle"}
                             /\ \A i : /\ InU(z, i) <=> InU(call[t], i)
                                       /\ InR(z, i) <=> InR(call[t], i)
                                       /\ ~Nst(z, i)
      BY <1>5, <1>6
    <2>2. W(z, c) = IF p = "erase" THEN 0 ELSE 1
      <3>1. InC(z, c) <=> p # "erase"
        BY <2>1 DEF InC, InsideContext, InsideUser, InsideRequest
      <3>2. ~Nst(z, c)
        BY <2>1
      <3> QED BY <3>1, <3>2 DEF W, One
    <2>3. y.count - y.kept - W(z, c) = x.count - x.kept - W(call[t], c)
      BY <1>2, <1>4, <1>6, <2>2
    <2>4. CtxMove(t, z, c, x, y)
      BY <1>1, <1>4, <1>6, <2>1, <2>3 DEF CtxMove
    <2>5. y.there = contexts[c].there /\ CtxMove(t, z, c, contexts[c], y)
      BY <1>1, <1>6, <2>4
    <2>6. Moves(t, z)
      BY <1>6, <2>1, <2>5, CtxStep
    <2> QED BY <2>6
  <1>7. CASE sdk >= 400 /\ x.terminated
    <2>1. Go(t, "leaveContext") /\ contexts' = [contexts EXCEPT ![c] = w]
      BY <1>1, <1>7 DEF Terminated
    <2> QED BY <1>1, <1>6, <1>7, <2>1
  <1>8. CASE ~(sdk >= 400 /\ x.terminated) /\ sdk >= 400 /\ (ContextBusy(c) \/ HandlesBusy(c))
    <2>1. PICK y : y = [w EXCEPT !.terminated = TRUE]
      OBVIOUS
    <2>2. Go(t, "drainContext") /\ contexts' = [contexts EXCEPT ![c] = y]
      BY <1>1, <1>8, <2>1 DEF Terminated
    <2>3. /\ y \in Contexts /\ y.there = w.there /\ y.kept = w.kept /\ y.count = w.count
          /\ y.owner = w.owner /\ y.depth = w.depth /\ y.terminated = TRUE
      BY <2>1 DEF Contexts
    <2> QED BY <1>1, <1>6, <1>8, <2>2, <2>3
  <1>9. CASE ~(sdk >= 400 /\ x.terminated) /\ ~(sdk >= 400 /\ (ContextBusy(c) \/ HandlesBusy(c)))
    <2>1. PICK b \in BOOLEAN : b = (sdk >= 400)
      <3>1. sdk \in Int
        BY Typed, BoundsNat
      <3>2. (sdk >= 400) \in BOOLEAN
        BY <3>1
      <3> QED BY <3>2, Zenon
    <2>2. PICK m \in Int : m = w.count - 1
      BY DEF Contexts
    <2>3. PICK y : y = [w EXCEPT !.terminated = b, !.count = m]
      OBVIOUS
    <2>4. Go(t, "erase") /\ contexts' = [contexts EXCEPT ![c] = y]
      <3>1. Go(t, "erase") /\ contexts' = [contexts EXCEPT ![c] =
                [w EXCEPT !.terminated = sdk >= 400, !.count = @ - 1]]
        BY <1>1, <1>9 DEF Terminated
      <3>2. y = [w EXCEPT !.terminated = sdk >= 400, !.count = @ - 1]
        BY <2>1, <2>2, <2>3
      <3> QED BY <3>1, <3>2
    <2>5. /\ y \in Contexts /\ y.there = w.there /\ y.kept = w.kept /\ y.count = w.count - 1
          /\ y.owner = w.owner /\ y.depth = w.depth /\ y.terminated = b
      BY <2>2, <2>3 DEF Contexts
    <2>6. sdk >= 400 => b /\ x.count <= 1
      <3>1. sdk >= 400 => b
        BY <2>1, Zenon
      <3>2. ASSUME sdk >= 400 PROVE x.count <= 1
        <4>1. ~(contexts[c].count > 1)
          BY <1>9, <3>2 DEF ContextBusy
        <4> QED BY <1>1, <1>2, <4>1
      <3> QED BY <3>1, <3>2
    <2>7. sdk >= 400 /\ x.terminated => y.terminated
      BY <1>9
    <2> QED BY <1>1, <1>6, <2>4, <2>5, <2>6, <2>7
  <1> QED BY <1>7, <1>8, <1>9

\* terminateContext takes the lock; with handles to abort it keeps it.
LEMMA LockToTerminateMoves ==
    ASSUME Inv, NEW t \in Threads, LockToTerminate(t) PROVE \E z : Moves(t, z)
  <1>1. PICK c : c = call[t].c
    OBVIOUS
  <1>2. PICK x : x = contexts[c]
    OBVIOUS
  <1>3. /\ call[t].pc = "next" /\ Free(t, c)
        /\ UNCHANGED <<users, userCount, requests, handles, sdk, glock, library, calls>>
        /\ \/ contexts' = [contexts EXCEPT ![c] = Locked(@, t)] /\ Go(t, "abortHandles")
           \/ Terminated(t, c, contexts[c])
    BY <1>1 DEF LockToTerminate
  <1>4. /\ call[t].api = "terminateContext" /\ call[t].nested = FALSE /\ call[t].pc # "idle"
        /\ call[t].pc \in InsideContext /\ c \in DOMAIN contexts
        /\ \A i : ~InU(call[t], i) /\ ~InR(call[t], i) /\ ~Nst(call[t], i)
    BY <1>1, <1>3, TerminatingIs, Typed DEF Terminating, Calls
  <1>5. x \in Contexts /\ (x.owner = None <=> x.depth = 0) /\ x.owner \in {t, None}
    BY <1>2, <1>3, <1>4, Typed DEF Inv, LocksFit, Free
  <1>6. RestMoves(t)
    BY <1>3, RestStays
  <1>7. CASE Terminated(t, c, contexts[c])
    BY <1>1, <1>2, <1>3, <1>4, <1>5, <1>6, <1>7, TerminatedMoves
  <1>8. CASE contexts' = [contexts EXCEPT ![c] = Locked(@, t)] /\ Go(t, "abortHandles")
    <2>1. FitsAt("abortHandles", call[t].api, call[t].nested) /\ "abortHandles" \in Places
      BY <1>4, TerminatingFits DEF Terminating
    <2>2. PICK z \in Calls : /\ call' = [call EXCEPT ![t] = z] /\ z.pc = "abortHandles"
                             /\ SameCall(call[t], z) /\ Fits(z)
      BY <1>4, <1>8, <2>1, GoFits
    <2>3. \A i : /\ W(z, i) = W(call[t], i)
                 /\ InC(z, i) \/ Nst(z, i) => InC(call[t], i) \/ Nst(call[t], i)
      BY <1>4, <2>2, InsidePlaces, InsideWeighs
    <2>4. \A i : (InU(z, i) <=> InU(call[t], i)) /\ (InR(z, i) <=> InR(call[t], i))
      BY <1>4, <2>2, InsidePlaces DEF InU, InR
    <2>5. x.depth \in Nat /\ x.count \in Int /\ x.kept \in Nat /\ x.there \in BOOLEAN
      BY <1>5 DEF Contexts
    <2>6. PICK m \in Nat : m = x.depth + 1
      BY <2>5
    <2>7. PICK y : y = [x EXCEPT !.owner = t, !.depth = m]
      OBVIOUS
    <2>8. /\ y \in Contexts /\ y.count = x.count /\ y.kept = x.kept /\ y.there = x.there
          /\ y.terminated = x.terminated /\ y.owner = t /\ y.depth = m
      BY <1>5, <2>6, <2>7 DEF Contexts
    <2>9. contexts' = [contexts EXCEPT ![c] = y]
      BY <1>2, <1>8, <2>6, <2>7 DEF Locked
    <2>10. t # None /\ m # 0
      BY <2>5, <2>6, BoundsNat
    <2>11. /\ W(z, c) = W(call[t], c)
           /\ InC(z, c) => InC(call[t], c) \/ Nst(call[t], c)
           /\ Nst(z, c) => InC(call[t], c) \/ Nst(call[t], c)
      BY <2>3
    <2>12. CtxMove(t, z, c, x, y)
      BY <1>5, <2>2, <2>5, <2>8, <2>10, <2>11 DEF CtxMove
    <2>13. z.c = c /\ z.pc \notin {"drainUser", "drainHandle"}
      BY <1>1, <2>2 DEF SameCall
    <2>14. CtxMove(t, z, c, contexts[c], y) /\ y.there = contexts[c].there
      BY <1>2, <2>8, <2>12
    <2>15. Moves(t, z)
      BY <1>1, <1>3, <1>4, <1>6, <2>2, <2>4, <2>8, <2>9, <2>13, <2>14, CtxStep
    <2> QED BY <2>15
  <1> QED BY <1>3, <1>7, <1>8

\* It gives the lock back as it found it.
LEMMA AbortHandlesMoves ==
    ASSUME Inv, NEW t \in Threads, AbortHandles(t) PROVE \E z : Moves(t, z)
  <1>1. PICK c : c = call[t].c
    OBVIOUS
  <1>2. PICK x : x = contexts[c]
    OBVIOUS
  <1>3. /\ call[t].pc = "abortHandles" /\ Terminated(t, c, Unlocked(contexts[c]))
        /\ UNCHANGED <<users, userCount, requests, handles, sdk, glock, library, calls>>
    BY <1>1 DEF AbortHandles
  <1>4. c \in DOMAIN contexts
    BY <1>1, <1>3, TerminatingIs DEF Terminating
  <1>5. x \in Contexts /\ (x.owner = None <=> x.depth = 0) /\ x.owner = t
    BY <1>1, <1>2, <1>3, <1>4, Typed DEF Inv, LocksFit
  <1>6. x.depth \in Nat /\ x.depth # 0 /\ t # None
    BY <1>5, BoundsNat DEF Contexts
  <1>7. PICK m \in Nat : m = x.depth - 1
    BY <1>6
  <1>8. PICK o \in Threads \cup {None} : o = IF x.depth = 1 THEN None ELSE x.owner
    BY <1>5 DEF Contexts
  <1>9. PICK w : w = [x EXCEPT !.owner = o, !.depth = m]
    OBVIOUS
  <1>10. /\ w \in Contexts /\ w.count = x.count /\ w.kept = x.kept /\ w.there = x.there
         /\ w.terminated = x.terminated /\ w.owner = o /\ w.depth = m
    BY <1>5, <1>7, <1>8, <1>9 DEF Contexts
  <1>11. w = Unlocked(contexts[c])
    BY <1>2, <1>7, <1>8, <1>9 DEF Unlocked
  <1>12. w.owner = None <=> w.depth = 0
    BY <1>5, <1>6, <1>7, <1>8, <1>10
  <1>13. RestMoves(t)
    BY <1>3, RestStays
  <1>14. Terminated(t, c, w)
    BY <1>3, <1>11
  <1> QED BY <1>1, <1>2, <1>3, <1>4, <1>5, <1>10, <1>12, <1>13, <1>14, TerminatedMoves

\* Its wait ends when it is alone in a context it has marked.
LEMMA ContextDrainedMoves ==
    ASSUME Inv, NEW t \in Threads, ContextDrained(t) PROVE \E z : Moves(t, z)
  <1>1. PICK c : c = call[t].c
    OBVIOUS
  <1>2. /\ call[t].pc = "drainContext" /\ ~ContextBusy(c) /\ CountContext(c, -1) /\ Go(t, "erase")
        /\ UNCHANGED <<users, userCount, requests, handles, sdk, glock, library, calls>>
    BY <1>1 DEF ContextDrained
  <1>3. /\ call[t].api = "terminateContext" /\ call[t].nested = FALSE /\ call[t].pc # "idle"
        /\ call[t].pc \in InsideContext /\ c \in DOMAIN contexts /\ contexts[c] \in Contexts
        /\ \A i : ~InU(call[t], i) /\ ~InR(call[t], i) /\ ~Nst(call[t], i)
    BY <1>1, <1>2, TerminatingIs, Typed DEF Terminating, Calls
  <1>4. FitsAt("erase", call[t].api, call[t].nested) /\ "erase" \in Places /\ "erase" \notin InsideContext
    BY <1>3, TerminatingFits DEF Terminating, InsideContext, InsideUser, InsideRequest
  <1>5. PICK z \in Calls : /\ call' = [call EXCEPT ![t] = z] /\ z.pc = "erase"
                           /\ SameCall(call[t], z) /\ Fits(z)
    BY <1>2, <1>3, <1>4, GoFits
  <1>6. \A i : ~InU(z, i) /\ ~InR(z, i) /\ ~Nst(z, i) /\ ~InC(z, i)
    <2>1. z.pc \notin InsideContext /\ ~z.nested
      BY <1>3, <1>4, <1>5 DEF SameCall
    <2> QED BY <2>1, OutsideWeighs
  <1>7. InC(call[t], c)
    BY <1>1, <1>3 DEF InC
  <1>8. W(z, c) = W(call[t], c) + (-1)
    BY <1>3, <1>6, <1>7 DEF W, One
  <1>9. contexts[c].terminated /\ contexts[c].count <= 1
    <2>1. contexts[c].terminated
      BY <1>1, <1>2 DEF Inv, DeletersMark
    <2>2. contexts[c].count \in Int
      BY <1>3 DEF Contexts
    <2> QED BY <1>2, <2>1, <2>2 DEF ContextBusy
  <1>10. PICK y \in Contexts : /\ contexts' = [contexts EXCEPT ![c] = y]
                               /\ y.there = contexts[c].there
                               /\ CtxMove(t, z, c, contexts[c], y)
    BY <1>2, <1>3, <1>5, <1>6, <1>7, <1>8, <1>9, CountMoves
  <1>11. z.c = c /\ call[t].c = c /\ z.pc \notin {"drainUser", "drainHandle"} /\ RestMoves(t)
    BY <1>1, <1>2, <1>5, RestStays DEF SameCall
  <1>12. Moves(t, z)
    BY <1>2, <1>3, <1>5, <1>6, <1>10, <1>11, CtxStep
  <1> QED BY <1>12

\* deleteContext takes the context and its handles away, and counts it out.
LEMMA DeleteContextMoves ==
    ASSUME Inv, NEW t \in Threads, DeleteContext(t) PROVE \E z : Moves(t, z)
  <1>1. PICK c : c = call[t].c
    OBVIOUS
  <1>2. PICK x : x = contexts[c]
    OBVIOUS
  <1>3. /\ call[t].pc = "erase" /\ call' = [call EXCEPT ![t] = Idle]
        /\ UNCHANGED <<users, userCount, requests, sdk, glock, calls>>
        /\ \/ /\ x.there /\ contexts' = [contexts EXCEPT ![c].there = FALSE]
              /\ handles' = [h \in DOMAIN handles |->
                    IF h \in HandlesOf(c) THEN [handles[h] EXCEPT !.there = FALSE] ELSE handles[h]]
              /\ Enters(t, "uncount") /\ UNCHANGED <<active, initialized, early, torn>>
           \/ UNCHANGED <<contexts, handles, library>>
    BY <1>1, <1>2 DEF DeleteContext
  <1>4. /\ c \in DOMAIN contexts /\ x \in Contexts /\ call[t].pc \notin InsideContext /\ ~call[t].nested
    BY <1>1, <1>2, <1>3, TerminatingIs DEF Terminating
  <1>5. \A i : /\ ~InC(call[t], i) /\ ~Nst(call[t], i) /\ ~InU(call[t], i) /\ ~InR(call[t], i)
               /\ W(call[t], i) = 0
    BY <1>4, OutsideWeighs
  <1>6. \A i : ~InC(Idle, i) /\ ~Nst(Idle, i) /\ ~InU(Idle, i) /\ ~InR(Idle, i)
    BY IdleIs
  <1>7. \A i : W(Idle, i) = 0
    BY <1>6 DEF W, One
  <1>8. Idle \in Calls /\ Fits(Idle) /\ Idle.pc = "idle"
    BY IdleIs
  <1>9. UsrMoves(t, Idle) /\ ReqMoves(t, Idle) /\ RestMoves(t)
    BY <1>3, <1>5, <1>6, <1>8, UsrStays, ReqStays, RestStays
  <1>10. CASE UNCHANGED <<contexts, handles, library>>
    <2>1. CtxMoves(t, Idle)
      BY <1>5, <1>6, <1>7, <1>8, <1>10, CtxStays
    <2>2. HdlMoves(t, Idle) /\ LibMoves(t)
      BY <1>8, <1>10, HdlStays, LibStays
    <2> QED BY <1>3, <1>8, <1>9, <2>1, <2>2, Assembled
  <1>11. CASE /\ x.there /\ contexts' = [contexts EXCEPT ![c].there = FALSE]
              /\ handles' = [h \in DOMAIN handles |->
                    IF h \in HandlesOf(c) THEN [handles[h] EXCEPT !.there = FALSE] ELSE handles[h]]
              /\ Enters(t, "uncount") /\ UNCHANGED <<active, initialized, early, torn>>
    <2>1. PICK y : y = [x EXCEPT !.there = FALSE]
      OBVIOUS
    <2>2. /\ y \in Contexts /\ y.there = FALSE /\ y.count = x.count /\ y.kept = x.kept
          /\ y.terminated = x.terminated /\ y.owner = x.owner /\ y.depth = x.depth
          /\ x.count \in Int /\ x.kept \in Nat
      BY <1>4, <2>1 DEF Contexts
    <2>3. contexts' = [contexts EXCEPT ![c] = y]
      BY <1>2, <1>11, <2>1
    <2>4. x.owner = None <=> x.depth = 0
      BY <1>2, <1>4 DEF Inv, LocksFit
    <2>5. CtxMove(t, Idle, c, x, y)
      <3>1. y.count - y.kept - W(Idle, c) = x.count - x.kept - W(call[t], c)
        BY <1>5, <1>7, <2>2
      <3> QED BY <1>1, <1>3, <1>6, <1>8, <2>2, <2>4, <3>1 DEF CtxMove
    <2>6. CtxMoves(t, Idle) /\ DOMAIN contexts' = DOMAIN contexts
      BY <1>1, <1>2, <1>4, <2>2, <2>3, <2>5, CtxOne
    <2>7. HdlMoves(t, Idle)
      <3>1. DOMAIN handles' = DOMAIN handles /\ handles' = [h \in DOMAIN handles' |-> handles'[h]]
        BY <1>11
      <3>2. ASSUME NEW h \in DOMAIN handles
            PROVE  /\ handles'[h] \in Handles /\ handles'[h].c = handles[h].c
                   /\ handles[h].deleted => handles'[h].deleted
        <4>1. handles[h] \in Handles
          BY Typed
        <4>2. PICK v : v = [handles[h] EXCEPT !.there = FALSE]
          OBVIOUS
        <4>3. v \in Handles /\ v.c = handles[h].c /\ (handles[h].deleted => v.deleted)
          BY <4>1, <4>2, HandleChanges
        <4>4. handles'[h] = v \/ handles'[h] = handles[h]
          BY <1>11, <4>2
        <4> QED BY <4>1, <4>3, <4>4
      <3>3. handles \in Seq(Handles)
        BY Typed
      <3>4. handles' \in Seq(Handles)
        BY <3>1, <3>2, <3>3, Mapped
      <3> QED BY <1>8, <3>1, <3>2, <3>4 DEF HdlMoves
    <2>8. LibMoves(t)
      <3>1. contexts'[c] = y /\ \A i \in DOMAIN contexts : i # c => contexts'[i] = contexts[i]
        BY <1>4, <2>3, Typed
      <3>2. There' = There \ {c} /\ c \in There
        BY <1>2, <1>4, <1>11, <2>2, <2>6, <3>1 DEF There
      <3>3. There \in SUBSET (1 .. Len(contexts)) /\ Len(contexts) \in Nat
        BY Typed DEF There
      <3>4. IsFiniteSet(1 .. Len(contexts))
        BY <3>3, FS_Interval
      <3>5. IsFiniteSet(There)
        BY <3>3, <3>4, FS_Subset
      <3>6. Cardinality(There) \in Int
        BY <3>5, FS_CardinalityType
      <3>7. Cardinality(There)' = Cardinality(There) - 1
        BY <3>2, <3>5, FS_RemoveElement
      <3>8. Cardinality(There) > 0
        BY <3>2, <3>5, <3>6, <3>7, FS_EmptySet, FS_CardinalityType
      <3>9. Enters(t, "uncount") /\ UNCHANGED <<active, initialized, early, torn>> /\ call'[t].pc = "idle"
        BY <1>3, <1>8, <1>11, Typed
      <3>10. PICK d : d = -1
        OBVIOUS
      <3>11. /\ d \in Int /\ Cardinality(There)' = Cardinality(There) + d
             /\ early' \in Nat /\ early' = early + d + 1 /\ call[t].pc # "idle"
        BY <1>3, <3>6, <3>7, <3>9, <3>10, Typed
      <3> QED BY <3>8, <3>9, <3>10, <3>11, UncountMoves
    <2> QED BY <1>3, <1>8, <1>9, <2>6, <2>7, <2>8, Assembled
  <1> QED BY <1>3, <1>10, <1>11
-----------------------------------------------------------------------------
(* The invariant holds at the beginning and every step keeps it.           *)

\* Every step of a call inside the library moves as the relation says.
LEMMA WorkMoves ==
    ASSUME Inv, NEW t \in Threads, Work(t), ~WorkOuter(t) PROVE \E z : Moves(t, z)
  <1>1. CASE Enter(t)
    BY <1>1, LockGlobalMoves, FindAndValidateContextMoves, FindUserContextMoves, FindRequestMoves DEF Enter
  <1>2. CASE Leave(t)
    BY <1>2, ReleaseRequestMoves, ReleaseUserContextMoves, ReleaseContextMoves DEF Leave
  <1>3. CASE WorkOnUser(t)
    BY <1>3, CheckUserMoves, MakeUserMoves, SetNotificationCallbackMoves, DeleteUserContextMoves,
       UserContextDrainedMoves DEF WorkOnUser
  <1>4. CASE WorkOnRequest(t)
    <2>1. CASE \E bad \in BOOLEAN : CreateRequest(t, bad)
      BY <2>1, CreateRequestMoves
    <2>2. CASE \E timer \in {"set", "off"} : SetRequestTimeout(t, timer)
      BY <2>2, SetRequestTimeoutMoves
    <2>3. CASE AddToRequest(t) \/ AbortRequest(t) \/ StartSend(t) \/ CheckSend(t)
      BY <2>3, AddToRequestMoves, AbortRequestMoves, StartSendMoves, CheckSendMoves
    <2>4. CASE DecideHttp(t) \/ MakeHttp(t) \/ StartRead(t) \/ EndRead(t)
      BY <2>4, DecideHttpMoves, MakeHttpMoves, StartReadMoves, EndReadMoves
    <2>5. CASE Ask(t) \/ HttpReturns(t) \/ DeleteRequest(t) \/ RequestDrained(t)
      BY <2>5, AskMoves, HttpReturnsMoves, DeleteRequestMoves, RequestDrainedMoves
    <2>6. CASE \E rs \in SUBSET DOMAIN requests : CheckTimeout(t, rs)
      BY <2>6, CheckTimeoutMoves
    <2> QED BY <1>4, <2>1, <2>2, <2>3, <2>4, <2>5, <2>6 DEF WorkOnRequest
  <1>5. CASE WorkOnHandle(t)
    BY <1>5, CreateHandleMoves, GetHandleMoves, ReleaseHandleMoves, DeleteHandleMoves,
       HandleDrainedMoves DEF WorkOnHandle
  <1>6. CASE WorkOnContext(t)
    <2>1. CASE TerminateContext(t) \/ ListUsers(t) \/ DeleteNextUser(t) \/ UserDeleted(t)
      BY <2>1, TerminateContextMoves, ListUsersMoves, DeleteNextUserMoves, UserDeletedMoves
    <2>2. CASE LockToTerminate(t) \/ AbortHandles(t) \/ ContextDrained(t) \/ DeleteContext(t)
      BY <2>2, LockToTerminateMoves, AbortHandlesMoves, ContextDrainedMoves, DeleteContextMoves
    <2> QED BY <1>6, <2>1, <2>2 DEF WorkOnContext
  <1> QED BY <1>1, <1>2, <1>3, <1>4, <1>5, <1>6 DEF Work

\* A thread that does so is in a call.
LEMMA WorkIsInside ==
    ASSUME NEW t \in Threads, Work(t), ~WorkOuter(t) PROVE call[t].pc # "idle"
  <1>1. CASE Enter(t)
    BY <1>1 DEF Enter, LockGlobal, FindAndValidateContext, FindUserContext, FindRequest, InContext
  <1>2. CASE Leave(t)
    BY <1>2 DEF Leave, ReleaseRequest, ReleaseUserContext, ReleaseContext
  <1>3. CASE WorkOnUser(t)
    BY <1>3 DEF WorkOnUser, CheckUser, MakeUser, SetNotificationCallback, DeleteUserContext,
                UserContextDrained, InContext
  <1>4. CASE WorkOnRequest(t)
    <2>1. CASE \E bad \in BOOLEAN : CreateRequest(t, bad)
      BY <2>1 DEF CreateRequest
    <2>2. CASE \E timer \in {"set", "off"} : SetRequestTimeout(t, timer)
      BY <2>2 DEF SetRequestTimeout, InRequest
    <2>3. CASE AddToRequest(t) \/ AbortRequest(t) \/ StartSend(t) \/ CheckSend(t)
      BY <2>3 DEF AddToRequest, AbortRequest, StartSend, CheckSend, InRequest
    <2>4. CASE DecideHttp(t) \/ MakeHttp(t) \/ StartRead(t) \/ EndRead(t)
      BY <2>4 DEF DecideHttp, MakeHttp, StartRead, EndRead, InRequest
    <2>5. CASE Ask(t) \/ HttpReturns(t) \/ DeleteRequest(t) \/ RequestDrained(t)
      BY <2>5 DEF Ask, HttpReturns, DeleteRequest, RequestDrained, InRequest, InContext
    <2>6. CASE \E rs \in SUBSET DOMAIN requests : CheckTimeout(t, rs)
      BY <2>6 DEF CheckTimeout
    <2> QED BY <1>4, <2>1, <2>2, <2>3, <2>4, <2>5, <2>6 DEF WorkOnRequest
  <1>5. CASE WorkOnHandle(t)
    BY <1>5 DEF WorkOnHandle, CreateHandle, GetHandle, ReleaseHandle, DeleteHandle, HandleDrained, InContext
  <1>6. CASE WorkOnContext(t)
    BY <1>6 DEF WorkOnContext, TerminateContext, ListUsers, DeleteNextUser, UserDeleted, LockToTerminate,
                AbortHandles, ContextDrained, DeleteContext, InContext
  <1> QED BY <1>1, <1>2, <1>3, <1>4, <1>5, <1>6 DEF Work

\* Before the first call every table is empty and every thread outside.
LEMMA InitInv == Init => Inv
  <1> SUFFICES ASSUME Init PROVE Inv
    OBVIOUS
  <1>1. /\ contexts = <<>> /\ requests = <<>> /\ handles = <<>> /\ users = <<>> /\ userCount = 0
        /\ sdk \in Sdks /\ glock = None /\ active = 0 /\ initialized = FALSE /\ early = 0
        /\ outer = [t \in Threads |-> Outside] /\ torn = FALSE /\ overlapped = FALSE
        /\ call = [t \in Threads |-> Idle] /\ calls = 0
    BY DEF Init
  <1>2. DOMAIN contexts = {} /\ DOMAIN requests = {} /\ DOMAIN handles = {} /\ DOMAIN users = {}
    BY <1>1
  <1>3. \A t \in Threads : call[t] = Idle
    BY <1>1
  <1>4. Idle.pc = "idle" /\ ~Idle.nested /\ Idle \in Calls /\ Fits(Idle)
    BY IdleIs
  <1>5. "idle" \notin InsideContext /\ "idle" \notin InsideUser /\ "idle" \notin InsideRequest
    BY DEF InsideContext, InsideUser, InsideRequest
  <1>6. TypeOK
    <2>1. contexts \in Seq(Contexts) /\ Len(contexts) <= MaxContexts
      BY <1>1, BoundsNat
    <2>2. DOMAIN users \subseteq Keys /\ users \in [DOMAIN users -> UserContexts]
      BY <1>1, <1>2
    <2>3. userCount \in 0 .. UserIdLimit - 1 /\ calls \in 0 .. MaxCalls
      BY <1>1, BoundsNat
    <2>4. requests \in Seq(Requests) /\ handles \in Seq(Handles)
      BY <1>1
    <2>5. call \in [Threads -> Calls]
      BY <1>1, <1>4
    <2>6. /\ sdk \in Sdks /\ glock \in Threads \cup {None}
          /\ active \in Int /\ early \in Nat /\ initialized \in BOOLEAN
      <3>1. sdk \in Sdks /\ glock \in Threads \cup {None} /\ active \in Int /\ early \in Nat
        BY <1>1
      <3>2. initialized \in BOOLEAN
        <4>1. initialized = FALSE
          BY <1>1
        <4> QED BY <4>1
      <3> QED BY <3>1, <3>2
    <2>7. /\ \A r \in DOMAIN requests : requests[r].u[1] \in DOMAIN contexts
          /\ \A h \in DOMAIN handles : handles[h].c \in DOMAIN contexts
      BY <1>2
    <2>8. outer \in [Threads -> Outers]
      BY <1>1 DEF Outside, Outers, OuterPlaces
    <2>9. torn \in BOOLEAN /\ overlapped \in BOOLEAN
      <3>1. torn = FALSE /\ overlapped = FALSE
        BY <1>1
      <3> QED BY <3>1
    <2> QED BY <2>1, <2>2, <2>3, <2>4, <2>5, <2>6, <2>7, <2>8, <2>9 DEF TypeOK
  <1>7. CallsFit
    BY <1>3, <1>4 DEF CallsFit
  <1>8. LocksFit /\ CountsAreExact
    BY <1>2, <1>3, <1>4 DEF LocksFit, CountsAreExact
  <1>9. OuterIsIdle /\ LibraryFits
    <2>1. \A t \in Threads : outer[t].pc = "none"
      BY <1>1 DEF Outside
    <2>2. There = {} /\ Counting = {} /\ Uncounting = {}
      BY <1>2, <2>1 DEF There, Counting, Uncounting
    <2>3. Cardinality(There) = 0 /\ Cardinality(Counting) = 0 /\ Cardinality(Uncounting) = 0
      BY <2>2, FS_EmptySet
    <2>4. ActiveIsTrue
      BY <1>1, <2>3 DEF ActiveIsTrue
    <2>5. OuterIsIdle /\ TornFits /\ OneOuter /\ ReadFits
      BY <1>1, <2>1 DEF OuterIsIdle, TornFits, OneOuter, ReadFits
    <2>6. MarkFits
      BY <1>1, <2>1 DEF MarkFits, MarkAt
    <2> QED BY <2>4, <2>5, <2>6 DEF LibraryFits
  <1>10. DeletersMark /\ EraserIsAlone /\ NestingStays
    BY <1>3, <1>4 DEF DeletersMark, EraserIsAlone, NestingStays
  <1>11. DeletionsWait
    BY <1>3, <1>4, <1>5 DEF DeletionsWait, InUseStays, ContextOutlivesItsCalls, OneDeleterEach
  <1>12. PartialIsBad /\ HttpGoesWithRequest
    BY <1>2 DEF PartialIsBad, HttpGoesWithRequest, AbortIsHeard, NothingLeftBehind
  <1> QED BY <1>6, <1>7, <1>8, <1>9, <1>10, <1>11, <1>12 DEF Inv

\* A step that changes nothing keeps the invariant.
LEMMA StutterInv == Inv /\ UNCHANGED vars => Inv'
  <1> SUFFICES ASSUME Inv, UNCHANGED vars PROVE Inv'
    OBVIOUS
  <1>1. /\ UNCHANGED <<sdk, contexts, users, userCount, requests, handles, glock, active,
                       initialized, outer, early, torn, overlapped, call, calls>>
    BY DEF vars, tables, library
  <1>2. TypeOK'
    BY <1>1 DEF Inv, TypeOK
  <1>3. CallsFit' /\ LocksFit'
    BY <1>1 DEF Inv, CallsFit, Fits, LocksFit
  <1>4. CountsAreExact' /\ OuterIsIdle'
    BY <1>1 DEF Inv, CountsAreExact, OuterIsIdle, UsingContext, NestedIn, UsingUser, UsingRequest, Marks
  <1>5. DeletersMark' /\ EraserIsAlone' /\ NestingStays'
    BY <1>1 DEF Inv, DeletersMark, EraserIsAlone, NestingStays, UsingContext, NestedIn
  <1>6. DeletionsWait'
    BY <1>1 DEF Inv, DeletionsWait, InUseStays, ContextOutlivesItsCalls, OneDeleterEach, Marks
  <1>7. PartialIsBad' /\ HttpGoesWithRequest'
    BY <1>1 DEF Inv, PartialIsBad, HttpGoesWithRequest, AbortIsHeard, NothingLeftBehind
  <1>8. ActiveIsTrue'
    BY <1>1 DEF Inv, LibraryFits, ActiveIsTrue, There, Counting, Uncounting, AtRest
  <1>9. TornFits' /\ OneOuter' /\ ReadFits' /\ MarkFits'
    BY <1>1 DEF Inv, LibraryFits, TornFits, OneOuter, ReadFits, MarkFits, MarkAt
  <1> QED BY <1>2, <1>3, <1>4, <1>5, <1>6, <1>7, <1>8, <1>9 DEF Inv, LibraryFits

\* So does every step of the game or of the library.
LEMMA NextInv == Inv /\ [Next]_vars => Inv'
  <1>1. ASSUME Inv, NEW t \in Threads, Begin(t) \/ Work(t) PROVE Inv'
    <2>1. CASE Begin(t)
      BY <1>1, <2>1, BeginMoves, MovesKeep DEF Begin, MayCall
    <2>2. CASE WorkOuter(t)
      BY <1>1, <2>2, WorkOuterMoves, MovesKeep
    <2>3. CASE Work(t) /\ ~WorkOuter(t)
      BY <1>1, <2>3, WorkMoves, WorkIsInside, MovesKeep
    <2> QED BY <1>1, <2>1, <2>2, <2>3
  <1>2. ASSUME Inv, UNCHANGED vars PROVE Inv'
    BY <1>2, StutterInv
  <1> QED BY <1>1, <1>2 DEF Next

\* The invariant holds of every state that can be reached.
LEMMA InvAlways == Spec => []Inv
  BY InitInv, NextInv, PTL DEF Spec

-----------------------------------------------------------------------------
(* Theorems.                                                               *)

\* What the library keeps is what its structures declare: every count a number, every
\* context, user context and request one that there has been, every call at a place
\* its function has.
THEOREM TypeCorrect == Spec => []TypeOK
  <1>1. Inv => TypeOK
    BY DEF Inv
  <1> QED BY <1>1, InvAlways, PTL

\* The counts of a library context, a user context and a request are the calls that
\* use it, on every way through np_web_api_internal.cpp, but for the calls that return
\* without releaseContext and the releases without a mark.  The library counts the
\* contexts there are, but for those that are being made or have just been erased, for the
\* sceNpWebApiTerminate that reports success too early, and for a count written over
\* another; and it is marked as initialized while it counts any, unless two threads
\* counted or marked at once.
THEOREM CountsAreTrueHolds == Spec => []CountsAreTrue
  <1>1. Inv => CountsAreTrue
    BY DEF Inv, LibraryFits, CountsAreTrue
  <1> QED BY <1>1, InvAlways, PTL

\* deleteUserContext, deleteRequest, deleteHandle and terminateContext delete nothing
\* that a call is using (from 4.00 on, for a library context), and no two of them wait
\* to delete the same user context, handle or library context.
THEOREM DeletionsWaitHolds == Spec => []DeletionsWait
  <1>1. Inv => DeletionsWait
    BY DEF Inv
  <1> QED BY <1>1, InvAlways, PTL

\* What sendRequest makes with the HTTP library is aborted with its request, unless it
\* was made after the abort, and not left behind without one of the reasons the
\* property names.
THEOREM HttpGoesWithRequestHolds == Spec => []HttpGoesWithRequest
  <1>1. Inv => HttpGoesWithRequest
    BY DEF Inv
  <1> QED BY <1>1, InvAlways, PTL
=============================================================================
