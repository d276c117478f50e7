--------------------------- MODULE Matching2_Proofs ---------------------------
(***************************************************************************)
(* What the runs of MCMatching2 check on two threads and two contexts is   *)
(* proved here for every number of threads, requests, contexts, slots,     *)
(* clients, packets and lives.                                             *)
(*                                                                         *)
(*   Typed      what a thread, a packet, an entry or an event carries, and *)
(*              that its request or context has been made                  *)
(*   Callbacks  what is parked and carried: OwnCallback                    *)
(*   OnePlace, Waits                                                       *)
(*              where the end of a request is prepared: OneAnswerOrLost    *)
(*   Covered    the references on signaling: RefsCover                     *)
(*   Contexts   what a stop knows of its context: GoesWithItsStop          *)
(***************************************************************************)
EXTENDS Matching2, FiniteSetTheorems, WellFoundedInduction, TLAPS

-----------------------------------------------------------------------------
(* The inductive invariant, in parts.                                      *)

\* What a thread carries, by how far it has come in its call
Free(x) == x.op = None /\ x.obj = None /\ x.asker = None /\ x.cb = None /\ x.arg = None
Named(x) == x.id \in Ids /\ x.op \in Ops /\ (x.op \in Requests => x.op \in asked)
Empty(x) == x.cb = None /\ x.arg = None

\* Before the callback is taken: a stop has its asker and may have lost its context
Early(x) ==
    /\ Named(x) /\ Empty(x)
    /\ x.op = Stopping => x.asker \in created /\ x.obj \in created \cup {None}
    /\ x.op # Stopping => x.asker = None /\ x.obj \in created

\* After it
Taken(x) == Named(x) /\ x.obj \in created /\ x.asker \in created /\ x.client \in 1 .. mm

Stage(x) ==
    /\ x.pc = "idle" => x = Idle
    /\ x.pc \in {"add_ref", "release_ref", "terminate", "reset"} => Free(x)
    /\ x.pc = "find" => Named(x) /\ Empty(x) /\ x.op = Stopping /\ x.asker \in created
    /\ x.pc = "complete_stop" => Early(x) /\ x.op = Stopping
    /\ x.pc = "store_arg" => Early(x) /\ x.op \in Own
    /\ x.pc = "check" => Early(x)
    /\ x.pc = "consume" => Early(x) /\ x.client \in 1 .. mm
    /\ x.pc = "read_arg" => Taken(x) /\ x.cb # None
    /\ x.pc = "answer" => Taken(x) /\ x.op \in Requests
    /\ x.pc = "submit" => Taken(x)
    /\ x.pc = "register" => Taken(x) /\ x.pkt \in 1 .. MaxPkt

Stages == \A t \in Threads : Stage(call[t])

\* Contexts and requests that appear anywhere have been made, and a context has one id.
Placed(x) == x.asker \in created /\ (x.op \in Requests => x.op \in asked)
Slotted ==
    /\ Live \subseteq created /\ IsFiniteSet(created)
    /\ \A i, j \in Ids : slots[i] = slots[j] /\ slots[i] # None => i = j
    /\ started \cap stopping = {}
AllPlaced ==
    /\ \A p \in inFlight : Placed(p) /\ p.client \in 1 .. mm
    /\ \A n \in 1 .. MaxPkt : pending[n] # None => Placed(pending[n])
    /\ \A c \in Clients : reader[c] # None => Placed(reader[c])
    /\ \A i \in 1 .. Len(queue) : Placed(queue[i])
    /\ firing # None => Placed(firing) /\ firing.op = Stopping
Known == Slotted /\ AllPlaced

Typed == TypeOK /\ Stages /\ Known

-----------------------------------------------------------------------------
\* Callback and argument of a request: parked, taken, and carried along
OwnOf(r) == IF r \in Own THEN r ELSE None
Carries(x) == x.op \in Requests \ raced => x.cb = OwnOf(x.op) /\ x.arg = OwnOf(x.op)
Parks(x) ==
    x.op \in Requests \ raced =>
        /\ x.pc = "store_arg" => parked[x.obj].cb = x.op
        /\ x.pc \in {"check", "consume", "read_arg"} =>
             parked[x.obj].cb = OwnOf(x.op) /\ parked[x.obj].arg = OwnOf(x.op)
        /\ x.pc = "read_arg" => x.cb = OwnOf(x.op)
        /\ x.pc \in {"answer", "submit", "register"} => Carries(x)

Carried ==
    /\ \A n \in 1 .. MaxPkt : pending[n] # None => Carries(pending[n])
    /\ \A c \in Clients : reader[c] # None => Carries(reader[c])
    /\ \A i \in 1 .. Len(queue) : Carries(queue[i])
Callbacks == (\A t \in Threads : Parks(call[t])) /\ Carried

-----------------------------------------------------------------------------
\* What an operation is told apart by: a request by itself, a stop by its context.
Tok(x) == IF x.op = Stopping THEN x.asker ELSE x.op

\* The places in which the end of operation k may be prepared
AtCall(t, k) == Tok(call[t]) = k
AtEntry(n, k) == pending[n] # None /\ Tok(pending[n]) = k
AtReader(c, k) == reader[c] # None /\ Tok(reader[c]) = k
AtQueue(i, k) == Tok(queue[i]) = k
Ended(k) == (firing # None /\ Tok(firing) = k) \/ k \in answered

OnePlace(k) ==
    /\ \A t, u \in Threads : AtCall(t, k) /\ AtCall(u, k) => t = u
    /\ \A m, n \in 1 .. MaxPkt : AtEntry(m, k) /\ AtEntry(n, k) => m = n
    /\ \A c, d \in Clients : AtReader(c, k) /\ AtReader(d, k) => c = d
    /\ \A i, j \in 1 .. Len(queue) : AtQueue(i, k) /\ AtQueue(j, k) => i = j
    /\ \A t \in Threads : AtCall(t, k) =>
         /\ \A n \in 1 .. MaxPkt : ~AtEntry(n, k)
         /\ \A c \in Clients : ~AtReader(c, k)
         /\ \A i \in 1 .. Len(queue) : ~AtQueue(i, k)
         /\ ~Ended(k)
    /\ \A n \in 1 .. MaxPkt : AtEntry(n, k) =>
         /\ \A c \in Clients : ~AtReader(c, k)
         /\ \A i \in 1 .. Len(queue) : ~AtQueue(i, k)
         /\ ~Ended(k)
    /\ \A c \in Clients : AtReader(c, k) =>
         /\ \A i \in 1 .. Len(queue) : ~AtQueue(i, k)
         /\ ~Ended(k)
    /\ \A i \in 1 .. Len(queue) : AtQueue(i, k) => ~Ended(k)

\* Nothing has happened yet that could confuse the stop of o with another.
Plain(o) == o \notin overtaken \cup lost /\ mm = 1 /\ life = 1 /\ ~unpaired

\* A request that is registered, or about to be, is on the network.
About(r) == \E t \in Threads : call[t].pc = "register" /\ call[t].op = r
Waits ==
    /\ \A r \in Requests \ lost : Listed(r) \/ About(r) => Sent(r)
    /\ RequestsWait

-----------------------------------------------------------------------------
\* The stop of a context knows its id, and completes no other context.
HasId(x) == \A i \in Ids : slots[i] = x.asker => i = x.id
Aims(x, more) ==
    /\ x.asker \in Live => x.obj = x.asker
    /\ x.obj \in {x.asker} \cup more \cup overtaken
StopCall(x) ==
    x.op = Stopping => HasId(x) /\ (x.pc \in {"check", "consume", "complete_stop"} => Aims(x, {None}))
StopEntry(x) == x.op = Stopping => HasId(x)
StopEvent(x) == x.op = Stopping => HasId(x) /\ Aims(x, {})
Stops ==
    /\ \A t \in Threads : StopCall(call[t])
    /\ \A n \in 1 .. MaxPkt : pending[n] # None => StopEntry(pending[n])
    /\ \A c \in Clients : reader[c] # None => StopEntry(reader[c])
    /\ \A i \in 1 .. Len(queue) : StopEvent(queue[i])
    /\ firing # None => StopEvent(firing)

\* The stop of a context that is there will be completed, or was lost.
Calling(o) == \E t \in Threads : call[t].op = Stopping /\ call[t].asker = o /\ call[t].pc # "register"
Travelling(o) == \E p \in inFlight : p.op = Stopping /\ p.asker = o
Reading(o) == \E c \in Clients : reader[c] # None /\ reader[c].op = Stopping /\ reader[c].asker = o
Queued(o) == \E i \in 1 .. Len(queue) : queue[i].op = Stopping /\ queue[i].asker = o
Firing(o) == firing # None /\ firing.asker = o
StopToCome(o) == Calling(o) \/ Travelling(o) \/ Reading(o) \/ Queued(o) \/ Firing(o)
StopsEnd == \A o \in stopping \cap Live : o \in lost \/ StopToCome(o)

\* As long as nothing confuses it, a stop has a context that is stopping.
SomePlace(o) ==
    \/ \E t \in Threads : AtCall(t, o)
    \/ \E n \in 1 .. MaxPkt : AtEntry(n, o)
    \/ \E c \in Clients : AtReader(c, o)
    \/ \E i \in 1 .. Len(queue) : AtQueue(i, o)
    \/ firing # None /\ Tok(firing) = o
Meant == \A o \in Objects : Plain(o) /\ SomePlace(o) => o \in stopping \cap Live

-----------------------------------------------------------------------------
(* The operators.                                                          *)

\* A set of ids that is not empty has a least: the ids below it are the fewest.
LEMMA LeastId ==
    ASSUME NEW S \in SUBSET Ids, S # {}
    PROVE  Min(S) \in S
  <1> DEFINE below(x) == {y \in Ids : y < x}
             T == {below(x) : x \in S}
             R == StrictSubsetOrdering(Ids)
  <1>1. IsFiniteSet(Ids) /\ S \subseteq Int
    BY Matching2Assumption, FS_Interval DEF Ids
  <1>2. IsWellFoundedOn(R, SUBSET Ids)
    BY <1>1, FS_StrictSubsetOrderingWellFounded, FS_FiniteSubsetsOfFinite
  <1>3. T \subseteq SUBSET Ids /\ T # {}
    OBVIOUS
  <1> HIDE DEF R, T
  <1>4. PICK X \in T : \A Y \in T : ~(<<Y, X>> \in R)
    BY <1>2, <1>3, WFMin
  <1>5. PICK x \in S : X = below(x)
    BY <1>4 DEF T
  <1>6. ASSUME NEW y \in S PROVE x <= y
    <2>1. SUFFICES ASSUME y < x PROVE FALSE
      BY <1>1
    <2>2. below(y) \subseteq below(x) /\ y \in below(x) /\ y \notin below(y)
      BY <1>1, <2>1 DEF Ids
    <2>3. <<below(y), below(x)>> \in R
      BY <2>2 DEF R, StrictSubsetOrdering
    <2> QED BY <2>3, <1>4, <1>5 DEF T
  <1> QED BY <1>6 DEF Min

\* A new context gets an id that is free.
LEMMA FirstFreeIsFree ==
    ASSUME \E id \in Ids : slots[id] = None
    PROVE  FirstFree \in Ids /\ slots[FirstFree] = None
  <1> DEFINE free == {id \in Ids : slots[id] = None}
             later == {id \in free : id >= nextId}
  <1>1. Min(later) \in later \/ later = {}
    <2>1. later \in SUBSET Ids
      OBVIOUS
    <2> QED BY <2>1, LeastId
  <1>2. Min(free) \in free
    <2>1. free \in SUBSET Ids /\ free # {}
      OBVIOUS
    <2> QED BY <2>1, LeastId
  <1> QED BY <1>1, <1>2 DEF FirstFree

-----------------------------------------------------------------------------
(* Types, and what a thread carries.                                       *)

Grows == asked \subseteq asked' /\ created \subseteq created' /\ mm <= mm'

\* What a thread carries stays right as contexts, requests and clients are added.
LEMMA StageStays ==
    ASSUME TypeOK, TypeOK' \/ mm' \in Nat, Grows, NEW x, Stage(x)
    PROVE  Stage(x)'
  BY DEF TypeOK, Clients, Grows, Stage, Free, Named, Empty, Early, Taken, Idle

\* One thread's step leaves what the others carry alone.
LEMMA OneCall ==
    ASSUME Typed, Grows, mm' \in Nat, NEW t \in Threads, NEW x \in Calls, Becomes(t, x), Stage(x)'
    PROVE  call' \in [Threads -> Calls] /\ call'[t] = x /\ Stages'
           /\ \A u \in Threads \ {t} : call'[u] = call[u]
  <1>1. call' \in [Threads -> Calls] /\ call'[t] = x /\ \A u \in Threads \ {t} : call'[u] = call[u]
    BY DEF Becomes, Typed, TypeOK
  <1>2. ASSUME NEW u \in Threads PROVE Stage(call[u])'
    <2>1. CASE u = t
      BY <1>1, <2>1 DEF Stage, Free, Named, Empty, Early, Taken
    <2>2. CASE u # t
      <3>1. Stage(call[u])
        BY DEF Typed, Stages
      <3>3. PICK y : y = call[u]
        OBVIOUS
      <3>2. Stage(y)'
        BY <3>1, <3>3, StageStays DEF Typed
      <3> QED BY <1>1, <2>2, <3>2, <3>3 DEF Stage, Free, Named, Empty, Early, Taken
    <2> QED BY <2>1, <2>2
  <1> QED BY <1>1, <1>2 DEF Stages

\* A step of something else leaves all calls alone.
LEMMA CallsStay ==
    ASSUME Typed, Grows, mm' \in Nat, UNCHANGED call
    PROVE  call' \in [Threads -> Calls] /\ Stages'
  <1>1. ASSUME NEW u \in Threads PROVE Stage(call[u])'
    <2>1. PICK y : y = call[u]
      OBVIOUS
    <2>2. Stage(y)
      BY <2>1 DEF Typed, Stages
    <2>3. Stage(y)'
      BY <2>2, StageStays DEF Typed
    <2> QED BY <2>1, <2>3 DEF Stage, Free, Named, Empty, Early, Taken
  <1> QED BY <1>1 DEF Typed, TypeOK, Stages

\* What a step adds is never taken back.
LEMMA Grown ==
    ASSUME TypeOK, [Next]_vars
    PROVE  Grows /\ mm' \in Nat
  <1>1. ASSUME NEW t \in Threads, NEW o \in Objects, CreateContext(t, o)
       PROVE  Grows /\ mm' \in Nat
    BY <1>1 DEF Grows, TypeOK, Clients, CreateContext, contextVars, clientVars, packetVars, eventVars, stateVars, refVars
  <1>2. ASSUME NEW t \in Threads, AddContextRef(t)
       PROVE  Grows /\ mm' \in Nat
    BY <1>2 DEF Grows, TypeOK, Clients, AddContextRef, contextVars, clientVars, packetVars, eventVars, stateVars, refVars
  <1>3. ASSUME NEW t \in Threads, ReleaseContextRef(t)
       PROVE  Grows /\ mm' \in Nat
    BY <1>3 DEF Grows, TypeOK, Clients, ReleaseContextRef, contextVars, clientVars, packetVars, eventVars, stateVars, refVars
  <1>4. ASSUME NEW t \in Threads, NEW id \in Ids, DestroyContext(t, id)
       PROVE  Grows /\ mm' \in Nat
    BY <1>4 DEF Grows, TypeOK, Clients, DestroyContext, contextVars, clientVars, packetVars, eventVars, stateVars, refVars
  <1>5. ASSUME NEW t \in Threads, NEW id \in Ids, ContextStart(t, id)
       PROVE  Grows /\ mm' \in Nat
    BY <1>5 DEF Grows, TypeOK, Clients, ContextStart, contextVars, clientVars, packetVars, eventVars, stateVars, refVars
  <1>6. ASSUME NEW t \in Threads, NEW id \in Ids, ContextStop(t, id)
       PROVE  Grows /\ mm' \in Nat
    BY <1>6 DEF Grows, TypeOK, Clients, ContextStop, contextVars, clientVars, packetVars, eventVars, stateVars, refVars
  <1>7. ASSUME NEW t \in Threads, FindStopping(t)
       PROVE  Grows /\ mm' \in Nat
    BY <1>7 DEF Grows, TypeOK, Clients, FindStopping, contextVars, clientVars, packetVars, eventVars, stateVars, refVars
  <1>8. ASSUME NEW t \in Threads, StopAtOnce(t)
       PROVE  Grows /\ mm' \in Nat
    BY <1>8 DEF Grows, TypeOK, Clients, StopAtOnce, contextVars, clientVars, packetVars, eventVars, stateVars, refVars
  <1>9. ASSUME NEW t \in Threads, NEW id \in Ids, NEW r \in Requests, Request(t, id, r)
       PROVE  Grows /\ mm' \in Nat
    BY <1>9 DEF Grows, TypeOK, Clients, Request, contextVars, clientVars, packetVars, eventVars, stateVars, refVars
  <1>10. ASSUME NEW t \in Threads, StoreArgument(t)
       PROVE  Grows /\ mm' \in Nat
    BY <1>10 DEF Grows, TypeOK, Clients, StoreArgument, contextVars, clientVars, packetVars, eventVars, stateVars, refVars
  <1>11. ASSUME NEW t \in Threads, CheckClient(t)
       PROVE  Grows /\ mm' \in Nat
    BY <1>11 DEF Grows, TypeOK, Clients, CheckClient, contextVars, clientVars, packetVars, eventVars, stateVars, refVars
  <1>12. ASSUME NEW t \in Threads, ConsumeCallback(t)
       PROVE  Grows /\ mm' \in Nat
    BY <1>12 DEF Grows, TypeOK, Clients, ConsumeCallback, contextVars, clientVars, packetVars, eventVars, stateVars, refVars
  <1>13. ASSUME NEW t \in Threads, ConsumeArgument(t)
       PROVE  Grows /\ mm' \in Nat
    BY <1>13 DEF Grows, TypeOK, Clients, ConsumeArgument, contextVars, clientVars, packetVars, eventVars, stateVars, refVars
  <1>14. ASSUME NEW t \in Threads, AnswerInCall(t)
       PROVE  Grows /\ mm' \in Nat
    BY <1>14 DEF Grows, TypeOK, Clients, AnswerInCall, contextVars, clientVars, packetVars, eventVars, stateVars, refVars
  <1>15. ASSUME NEW t \in Threads, SubmitRequest(t)
       PROVE  Grows /\ mm' \in Nat
    BY <1>15 DEF Grows, TypeOK, Clients, SubmitRequest, contextVars, clientVars, packetVars, eventVars, stateVars, refVars
  <1>16. ASSUME NEW t \in Threads, Register(t)
       PROVE  Grows /\ mm' \in Nat
    BY <1>16 DEF Grows, TypeOK, Clients, Register, contextVars, clientVars, packetVars, eventVars, stateVars, refVars
  <1>17. ASSUME NEW t \in Threads, TermEventDispatcher(t)
       PROVE  Grows /\ mm' \in Nat
    BY <1>17 DEF Grows, TypeOK, Clients, TermEventDispatcher, contextVars, clientVars, packetVars, eventVars, stateVars, refVars
  <1>18. ASSUME NEW t \in Threads, Reset(t)
       PROVE  Grows /\ mm' \in Nat
    BY <1>18 DEF Grows, TypeOK, Clients, Reset, contextVars, clientVars, packetVars, eventVars, stateVars, refVars
  <1>19. ASSUME NEW t \in Threads, Terminate(t)
       PROVE  Grows /\ mm' \in Nat
    BY <1>19 DEF Grows, TypeOK, Clients, Terminate, contextVars, clientVars, packetVars, eventVars, stateVars, refVars
  <1>20. ASSUME NEW c \in Clients, DispatchRequestComplete(c)
       PROVE  Grows /\ mm' \in Nat
    BY <1>20 DEF Grows, TypeOK, Clients, DispatchRequestComplete, contextVars, clientVars, packetVars, eventVars, stateVars, refVars
  <1>21. ASSUME NEW p \in inFlight, OnMatching2Reply(p)
       PROVE  Grows /\ mm' \in Nat
    BY <1>21 DEF Grows, TypeOK, Clients, OnMatching2Reply, contextVars, clientVars, packetVars, eventVars, stateVars, refVars
  <1>22. ASSUME NEW c \in Clients, LoseConnection(c)
       PROVE  Grows /\ mm' \in Nat
    BY <1>22 DEF Grows, TypeOK, Clients, LoseConnection, contextVars, clientVars, packetVars, eventVars, stateVars, refVars
  <1>23. ASSUME SetMmShadNetClient
       PROVE  Grows /\ mm' \in Nat
    BY <1>23 DEF Grows, TypeOK, Clients, SetMmShadNetClient, contextVars, clientVars, packetVars, eventVars, stateVars, refVars
  <1>24. ASSUME FireEvent
       PROVE  Grows /\ mm' \in Nat
    BY <1>24 DEF Grows, TypeOK, Clients, FireEvent, contextVars, clientVars, packetVars, eventVars, stateVars, refVars
  <1>25. ASSUME CompleteStop
       PROVE  Grows /\ mm' \in Nat
    BY <1>25 DEF Grows, TypeOK, Clients, CompleteStop, contextVars, clientVars, packetVars, eventVars, stateVars, refVars
  <1>26. ASSUME Initialize
       PROVE  Grows /\ mm' \in Nat
    BY <1>26 DEF Grows, TypeOK, Clients, Initialize, contextVars, clientVars, packetVars, eventVars, stateVars, refVars
  <1>27. CASE UNCHANGED vars
    BY <1>27 DEF Grows, TypeOK, Clients, vars, contextVars, clientVars, packetVars, eventVars, stateVars, refVars
  <1> QED
    BY <1>1, <1>2, <1>3, <1>4, <1>5, <1>6, <1>7, <1>8, <1>9, <1>10, <1>11, <1>12, <1>13, <1>14, <1>15, <1>16, <1>17, <1>18, <1>19, <1>20, <1>21, <1>22, <1>23, <1>24, <1>25, <1>26, <1>27 DEF Next, CallStep, ReaderStep, DispatcherStep

\* A thread goes from one stage to the next with what that stage needs.
LEMMA StagesStep ==
    ASSUME Typed, [Next]_vars
    PROVE  call' \in [Threads -> Calls] /\ Stages'
  <1> DEFINE Kept == call' \in [Threads -> Calls] /\ Stages'
  <1>g. Grows /\ mm' \in Nat
    BY Grown DEF Typed
  <1>1. ASSUME NEW t \in Threads, NEW o \in Objects, CreateContext(t, o)
       PROVE  Kept
    <2>1. PICK x : x = [call[t] EXCEPT !.pc = "add_ref"]
      OBVIOUS
    <2>s. Stage(call[t]) /\ call[t] \in Calls
      BY DEF Typed, TypeOK, Stages
    <2>2. x \in Calls
      BY <1>1, <2>1, <2>s, Matching2Assumption DEF Typed, TypeOK, Calls, Pcs, Idle, CreateContext
    <2>3. Stage(x)'
      BY <1>1, <1>g, <2>1, <2>s, Matching2Assumption DEF Typed, Known, Slotted, AllPlaced, Grows, CreateContext, Stage, Free, Named, Empty, Early, Taken, Placed, Live, Pcs, Ops, Idle, Submits, TypeOK, Calls
    <2>4. Becomes(t, x)
      BY <1>1, <2>1 DEF CreateContext, Goto
    <2> QED BY <1>g, <2>2, <2>3, <2>4, OneCall
  <1>2. ASSUME NEW t \in Threads, AddContextRef(t)
       PROVE  Kept
    <2>1. PICK x : x = Idle
      OBVIOUS
    <2>s. Stage(call[t]) /\ call[t] \in Calls
      BY DEF Typed, TypeOK, Stages
    <2>2. x \in Calls
      BY <1>2, <2>1, <2>s, Matching2Assumption DEF TypeOK, Typed, Ids, Ops, Clients, Calls, Pcs, Idle, AddContextRef
    <2>3. Stage(x)'
      BY <1>2, <1>g, <2>1, <2>s, Matching2Assumption DEF Typed, Known, Slotted, AllPlaced, Grows, AddContextRef, Stage, Free, Named, Empty, Early, Taken, Placed, Live, Pcs, Ops, Idle, Submits, TypeOK, Calls
    <2>4. Becomes(t, x)
      BY <1>2, <2>1 DEF AddContextRef, Return
    <2> QED BY <1>g, <2>2, <2>3, <2>4, OneCall
  <1>3. ASSUME NEW t \in Threads, ReleaseContextRef(t)
       PROVE  Kept
    <2>1. PICK x : x = Idle
      OBVIOUS
    <2>s. Stage(call[t]) /\ call[t] \in Calls
      BY DEF Typed, TypeOK, Stages
    <2>2. x \in Calls
      BY <1>3, <2>1, <2>s, Matching2Assumption DEF TypeOK, Typed, Ids, Ops, Clients, Calls, Pcs, Idle, ReleaseContextRef
    <2>3. Stage(x)'
      BY <1>3, <1>g, <2>1, <2>s, Matching2Assumption DEF Typed, Known, Slotted, AllPlaced, Grows, ReleaseContextRef, Stage, Free, Named, Empty, Early, Taken, Placed, Live, Pcs, Ops, Idle, Submits, TypeOK, Calls
    <2>4. Becomes(t, x)
      BY <1>3, <2>1 DEF ReleaseContextRef, LowerRefs, Return
    <2> QED BY <1>g, <2>2, <2>3, <2>4, OneCall
  <1>4. ASSUME NEW t \in Threads, NEW id \in Ids, DestroyContext(t, id)
       PROVE  Kept
    <2>1. PICK x : x = [call[t] EXCEPT !.pc = "release_ref"]
      OBVIOUS
    <2>s. Stage(call[t]) /\ call[t] \in Calls
      BY DEF Typed, TypeOK, Stages
    <2>2. x \in Calls
      BY <1>4, <2>1, <2>s, Matching2Assumption DEF Typed, TypeOK, Calls, Pcs, Idle, DestroyContext
    <2>3. Stage(x)'
      BY <1>4, <1>g, <2>1, <2>s, Matching2Assumption DEF Typed, Known, Slotted, AllPlaced, Grows, DestroyContext, Stage, Free, Named, Empty, Early, Taken, Placed, Live, Pcs, Ops, Idle, Submits, TypeOK, Calls
    <2>4. Becomes(t, x)
      BY <1>4, <2>1 DEF DestroyContext, Goto, Remove
    <2> QED BY <1>g, <2>2, <2>3, <2>4, OneCall
  <1>5. ASSUME NEW t \in Threads, NEW id \in Ids, ContextStart(t, id)
       PROVE  Kept
    <2>1. PICK x : x = [Idle EXCEPT !.pc = "check", !.id = id, !.obj = slots[id], !.op = Starting]
      OBVIOUS
    <2>s. Stage(call[t]) /\ call[t] \in Calls
      BY DEF Typed, TypeOK, Stages
    <2>2. x \in Calls
      BY <1>5, <2>1, <2>s, Matching2Assumption DEF TypeOK, Typed, Ids, Ops, Clients, Calls, Pcs, Idle, ContextStart
    <2>3. Stage(x)'
      BY <1>5, <1>g, <2>1, <2>s, Matching2Assumption DEF Typed, Known, Slotted, AllPlaced, Grows, ContextStart, Stage, Free, Named, Empty, Early, Taken, Placed, Live, Pcs, Ops, Idle, Submits, TypeOK, Calls
    <2>4. Becomes(t, x)
      BY <1>5, <2>1 DEF ContextStart
    <2> QED BY <1>g, <2>2, <2>3, <2>4, OneCall
  <1>6. ASSUME NEW t \in Threads, NEW id \in Ids, ContextStop(t, id)
       PROVE  Kept
    <2>1. PICK x : x = [Idle EXCEPT !.pc = "find", !.id = id, !.asker = slots[id], !.op = Stopping]
      OBVIOUS
    <2>s. Stage(call[t]) /\ call[t] \in Calls
      BY DEF Typed, TypeOK, Stages
    <2>2. x \in Calls
      BY <1>6, <2>1, <2>s, Matching2Assumption DEF TypeOK, Typed, Ids, Ops, Clients, Calls, Pcs, Idle, ContextStop
    <2>3. Stage(x)'
      BY <1>6, <1>g, <2>1, <2>s, Matching2Assumption DEF Typed, Known, Slotted, AllPlaced, Grows, ContextStop, Stage, Free, Named, Empty, Early, Taken, Placed, Live, Pcs, Ops, Idle, Submits, TypeOK, Calls
    <2>4. Becomes(t, x)
      BY <1>6, <2>1 DEF ContextStop
    <2> QED BY <1>g, <2>2, <2>3, <2>4, OneCall
  <1>7. ASSUME NEW t \in Threads, FindStopping(t)
       PROVE  Kept
    <2>1. PICK x : x = [call[t] EXCEPT !.pc = "check", !.obj = slots[call[t].id]]
      OBVIOUS
    <2>s. Stage(call[t]) /\ call[t] \in Calls
      BY DEF Typed, TypeOK, Stages
    <2>f. call[t].id \in Ids
      BY <1>7, <2>s, Matching2Assumption DEF Typed, TypeOK, Known, Slotted, AllPlaced, FindStopping, Stage, Early, Taken, Named, Live, Ids, Clients
    <2>2. x \in Calls
      BY <1>7, <2>1, <2>s, <2>f, Matching2Assumption DEF TypeOK, Typed, Ids, Ops, Clients, Calls, Pcs, Idle, FindStopping
    <2>3. Stage(x)'
      BY <1>7, <1>g, <2>1, <2>s, <2>f, Matching2Assumption DEF Typed, Known, Slotted, AllPlaced, Grows, FindStopping, Stage, Free, Named, Empty, Early, Taken, Placed, Live, Pcs, Ops, Idle, Submits, TypeOK, Calls
    <2>4. Becomes(t, x)
      BY <1>7, <2>1 DEF FindStopping
    <2> QED BY <1>g, <2>2, <2>3, <2>4, OneCall
  <1>8. ASSUME NEW t \in Threads, StopAtOnce(t)
       PROVE  Kept
    <2>1. PICK x : x = Idle
      OBVIOUS
    <2>s. Stage(call[t]) /\ call[t] \in Calls
      BY DEF Typed, TypeOK, Stages
    <2>2. x \in Calls
      BY <1>8, <2>1, <2>s, Matching2Assumption DEF TypeOK, Typed, Ids, Ops, Clients, Calls, Pcs, Idle, StopAtOnce
    <2>3. Stage(x)'
      BY <1>8, <1>g, <2>1, <2>s, Matching2Assumption DEF Typed, Known, Slotted, AllPlaced, Grows, StopAtOnce, Stage, Free, Named, Empty, Early, Taken, Placed, Live, Pcs, Ops, Idle, Submits, TypeOK, Calls
    <2>4. Becomes(t, x)
      BY <1>8, <2>1 DEF StopAtOnce, Complete, Return
    <2> QED BY <1>g, <2>2, <2>3, <2>4, OneCall
  <1>9. ASSUME NEW t \in Threads, NEW id \in Ids, NEW r \in Requests, Request(t, id, r)
       PROVE  Kept
    <2>1. PICK x : x = [Idle EXCEPT !.pc = IF r \in Own THEN "store_arg" ELSE "check",
                               !.id = id, !.obj = slots[id], !.op = r]
      OBVIOUS
    <2>2. x \in Calls
      BY <1>9, <2>1, Matching2Assumption DEF TypeOK, Typed, Ids, Ops, Clients, Calls, Pcs, Idle, Request
    <2>3. /\ x.pc = IF r \in Own THEN "store_arg" ELSE "check"
          /\ x.id = id /\ x.obj = slots[id] /\ x.op = r /\ x.asker = None /\ Empty(x)
      BY <2>1 DEF Idle, Empty
    <2>4. r \in asked' /\ slots[id] \in created' /\ r # Stopping
      BY <1>9, <1>g, Matching2Assumption DEF Request, Typed, Known, Slotted, AllPlaced, Live, Grows
    <2>5. Early(x)'
      BY <2>3, <2>4 DEF Early, Named, Empty, Ops
    <2>6. Stage(x)'
      BY <2>3, <2>5 DEF Stage
    <2>7. Becomes(t, x)
      BY <1>9, <2>1 DEF Request, Park
    <2> QED BY <1>g, <2>2, <2>6, <2>7, OneCall
  <1>10. ASSUME NEW t \in Threads, StoreArgument(t)
       PROVE  Kept
    <2>1. PICK x : x = [call[t] EXCEPT !.pc = "check"]
      OBVIOUS
    <2>s. Stage(call[t]) /\ call[t] \in Calls
      BY DEF Typed, TypeOK, Stages
    <2>2. x \in Calls
      BY <1>10, <2>1, <2>s, Matching2Assumption DEF  Calls, Pcs, Idle, StoreArgument
    <2>3. Stage(x)'
      BY <1>10, <1>g, <2>1, <2>s, Matching2Assumption DEF Typed, Known, Slotted, AllPlaced, Grows, StoreArgument, Stage, Free, Named, Empty, Early, Taken, Placed, Live, Pcs, Ops, Idle, Submits, TypeOK, Calls
    <2>4. Becomes(t, x)
      BY <1>10, <2>1 DEF StoreArgument, Goto
    <2> QED BY <1>g, <2>2, <2>3, <2>4, OneCall
  <1>11. ASSUME NEW t \in Threads, CheckClient(t)
       PROVE  Kept
    <2>s. Stage(call[t]) /\ call[t] \in Calls
      BY DEF Typed, TypeOK, Stages
    <2>m. CASE Fails(t)
      <3>1. PICK x : x = IF call[t].op = Stopping THEN [call[t] EXCEPT !.pc = "complete_stop"] ELSE Idle
        OBVIOUS
      <3>2. x \in Calls
        BY <2>s, <3>1, Matching2Assumption DEF Calls, Pcs, Idle, Ids, Ops, Clients
      <3>3. ASSUME call[t].op = Stopping PROVE Stage(x)'
        <4>1. x.pc = "complete_stop" /\ x.op = Stopping /\ x.id = call[t].id /\ x.asker = call[t].asker
              /\ x.obj = call[t].obj /\ x.cb = call[t].cb /\ x.arg = call[t].arg
          BY <2>s, <3>1, <3>3 DEF Calls
        <4>2. Early(call[t])
          BY <1>11, <2>s DEF CheckClient, Stage
        <4>3. Early(x)'
          BY <1>g, <3>3, <4>1, <4>2 DEF Early, Named, Empty, Grows
        <4> QED BY <4>1, <4>3 DEF Stage
      <3>4. ASSUME call[t].op # Stopping PROVE Stage(x)'
        BY <3>1, <3>4 DEF Stage, Idle
      <3>5. Becomes(t, x)
        BY <2>m, <3>1 DEF Fails, Goto, Return
      <3>6. Stage(x)'
        BY <3>3, <3>4
      <3> QED BY <1>g, <3>2, <3>6, <3>5, OneCall
    <2>1. CASE mm \in connected
      <3>1. PICK x : x = [call[t] EXCEPT !.pc = "consume", !.client = mm]
        OBVIOUS
      <3>2. x \in Calls
        BY <2>s, <3>1 DEF Typed, TypeOK, Calls, Pcs
      <3>3. x.pc = "consume" /\ x.client = mm /\ x.op = call[t].op /\ x.id = call[t].id
            /\ x.asker = call[t].asker /\ x.obj = call[t].obj /\ x.cb = call[t].cb /\ x.arg = call[t].arg
        BY <2>s, <3>1 DEF Calls
      <3>4. Early(call[t])
        BY <1>11, <2>s DEF CheckClient, Stage
      <3>5. Early(x)' /\ mm \in 1 .. mm'
        BY <1>g, <3>3, <3>4 DEF Early, Named, Empty, Grows, Typed, TypeOK, Clients
      <3>6. Stage(x)'
        BY <3>3, <3>5 DEF Stage
      <3>7. Becomes(t, x)
        BY <1>11, <2>1, <3>1 DEF CheckClient
      <3> QED BY <1>g, <3>2, <3>6, <3>7, OneCall
    <2> QED BY <1>11, <2>m, <2>1 DEF CheckClient
  <1>12. ASSUME NEW t \in Threads, ConsumeCallback(t)
       PROVE  Kept
    <2>s. Stage(call[t]) /\ call[t] \in Calls
      BY DEF Typed, TypeOK, Stages
    <2>m. CASE Fails(t)
      <3>1. PICK x : x = IF call[t].op = Stopping THEN [call[t] EXCEPT !.pc = "complete_stop"] ELSE Idle
        OBVIOUS
      <3>2. x \in Calls
        BY <2>s, <3>1, Matching2Assumption DEF Calls, Pcs, Idle, Ids, Ops, Clients
      <3>3. ASSUME call[t].op = Stopping PROVE Stage(x)'
        <4>1. x.pc = "complete_stop" /\ x.op = Stopping /\ x.id = call[t].id /\ x.asker = call[t].asker
              /\ x.obj = call[t].obj /\ x.cb = call[t].cb /\ x.arg = call[t].arg
          BY <2>s, <3>1, <3>3 DEF Calls
        <4>2. Early(call[t])
          BY <1>12, <2>s DEF ConsumeCallback, Stage
        <4>3. Early(x)'
          BY <1>g, <3>3, <4>1, <4>2 DEF Early, Named, Empty, Grows
        <4> QED BY <4>1, <4>3 DEF Stage
      <3>4. ASSUME call[t].op # Stopping PROVE Stage(x)'
        BY <3>1, <3>4 DEF Stage, Idle
      <3>5. Becomes(t, x)
        BY <2>m, <3>1 DEF Fails, Goto, Return
      <3>6. Stage(x)'
        BY <3>3, <3>4
      <3> QED BY <1>g, <3>2, <3>6, <3>5, OneCall
    <2> DEFINE o == slots[call[t].id]
    <2>1. CASE o # None
      <3>1. PICK x : x = [call[t] EXCEPT
                            !.obj = o, !.cb = parked[o].cb,
                            !.asker = IF call[t].op = Stopping THEN @ ELSE o,
                            !.pc = IF parked[o].cb # None THEN "read_arg" ELSE Submits(call[t].op)]
        OBVIOUS
      <3>2. Early(call[t]) /\ call[t].client \in 1 .. mm
        BY <1>12, <2>s DEF ConsumeCallback, Stage
      <3>3. o \in Objects /\ o \in created /\ parked[o].cb \in Own \cup {None}
        BY <2>1, <3>2 DEF Early, Named, Typed, TypeOK, Known, Slotted, AllPlaced, Live
      <3>4. x \in Calls
        <4>1. PICK p \in Pcs : p = IF parked[o].cb # None THEN "read_arg" ELSE Submits(call[t].op)
          BY DEF Pcs, Submits
        <4>2. PICK a \in Objects \cup {None} : a = IF call[t].op = Stopping THEN call[t].asker ELSE o
          BY <2>s, <3>3 DEF Calls
        <4>3. x = [call[t] EXCEPT !.obj = o, !.cb = parked[o].cb, !.asker = a, !.pc = p]
          BY <3>1, <4>1, <4>2
        <4>4. PICK b \in Own \cup {None} : b = parked[o].cb
          BY <3>3
        <4> QED BY <2>s, <3>3, <4>3, <4>4 DEF Calls
      <3>5. x.pc = (IF parked[o].cb # None THEN "read_arg" ELSE Submits(call[t].op))
            /\ x.client = call[t].client /\ x.op = call[t].op /\ x.id = call[t].id
            /\ x.asker = (IF call[t].op = Stopping THEN call[t].asker ELSE o) /\ x.obj = o
            /\ x.cb = parked[o].cb /\ x.arg = call[t].arg
        BY <2>s, <3>1 DEF Calls
      <3>6. Taken(x)'
        BY <1>g, <3>2, <3>3, <3>5 DEF Early, Taken, Named, Grows, Typed, TypeOK, Clients
      <3>7. Stage(x)'
        BY <3>5, <3>6 DEF Stage, Submits
      <3>8. Becomes(t, x)
        BY <1>12, <2>1, <3>1 DEF ConsumeCallback
      <3> QED BY <1>g, <3>4, <3>7, <3>8, OneCall
    <2> QED BY <1>12, <2>m, <2>1 DEF ConsumeCallback
  <1>13. ASSUME NEW t \in Threads, ConsumeArgument(t)
       PROVE  Kept
    <2>s. Stage(call[t]) /\ call[t] \in Calls
      BY DEF Typed, TypeOK, Stages
    <2>1. PICK x : x = [call[t] EXCEPT !.arg = parked[call[t].obj].arg, !.pc = Submits(call[t].op)]
      OBVIOUS
    <2>2. Taken(call[t])
      BY <1>13, <2>s DEF ConsumeArgument, Stage
    <2>3. parked[call[t].obj].arg \in Own \cup {None}
      BY <2>2 DEF Taken, Typed, TypeOK
    <2>4. x \in Calls
      BY <2>s, <2>1, <2>3 DEF Calls, Pcs, Submits
    <2>5. x.pc = Submits(call[t].op) /\ x.client = call[t].client /\ x.op = call[t].op
          /\ x.id = call[t].id /\ x.asker = call[t].asker /\ x.obj = call[t].obj
      BY <2>s, <2>1 DEF Calls
    <2>6. Taken(x)'
      BY <1>g, <2>2, <2>5 DEF Taken, Named, Grows, Typed, TypeOK, Clients
    <2>7. Stage(x)'
      BY <2>5, <2>6 DEF Stage, Submits
    <2>8. Becomes(t, x)
      BY <1>13, <2>1 DEF ConsumeArgument
    <2> QED BY <1>g, <2>4, <2>7, <2>8, OneCall
  <1>14. ASSUME NEW t \in Threads, AnswerInCall(t)
       PROVE  Kept
    <2>1. PICK x : x = Idle
      OBVIOUS
    <2>s. Stage(call[t]) /\ call[t] \in Calls
      BY DEF Typed, TypeOK, Stages
    <2>2. x \in Calls
      BY <1>14, <2>1, <2>s, Matching2Assumption DEF TypeOK, Typed, Ids, Ops, Clients, Calls, Pcs, Idle, AnswerInCall
    <2>3. Stage(x)'
      BY <1>14, <1>g, <2>1, <2>s, Matching2Assumption DEF Typed, Known, Slotted, AllPlaced, Grows, AnswerInCall, Stage, Free, Named, Empty, Early, Taken, Placed, Live, Pcs, Ops, Idle, Submits, TypeOK, Calls
    <2>4. Becomes(t, x)
      BY <1>14, <2>1 DEF AnswerInCall, Entry, Event, Return
    <2> QED BY <1>g, <2>2, <2>3, <2>4, OneCall
  <1>15. ASSUME NEW t \in Threads, SubmitRequest(t)
       PROVE  Kept
    <2>s. Stage(call[t]) /\ call[t] \in Calls
      BY DEF Typed, TypeOK, Stages
    <2>1. PICK x : x = [call[t] EXCEPT !.pc = "register", !.pkt = counter[call[t].client] + 1]
      OBVIOUS
    <2>2. Taken(call[t])
      BY <1>15, <2>s DEF SubmitRequest, Stage
    <2>3. counter[call[t].client] + 1 \in 1 .. MaxPkt
      BY <1>15, <2>2, Matching2Assumption DEF SubmitRequest, Taken, Typed, TypeOK, Clients
    <2>4. x \in Calls
      <3>1. "register" \in Pcs /\ counter[call[t].client] + 1 \in 0 .. MaxPkt
        BY <2>3, Matching2Assumption DEF Pcs
      <3> QED BY <2>s, <2>1, <3>1 DEF Calls
    <2>5. x.pc = "register" /\ x.pkt \in 1 .. MaxPkt /\ x.client = call[t].client /\ x.op = call[t].op
          /\ x.id = call[t].id /\ x.asker = call[t].asker /\ x.obj = call[t].obj
      BY <2>s, <2>1, <2>3 DEF Calls
    <2>6. Taken(x)'
      BY <1>g, <2>2, <2>5 DEF Taken, Named, Grows, Typed, TypeOK, Clients
    <2>7. Stage(x)'
      BY <2>5, <2>6 DEF Stage
    <2>8. Becomes(t, x)
      BY <1>15, <2>1 DEF SubmitRequest
    <2> QED BY <1>g, <2>4, <2>7, <2>8, OneCall
  <1>16. ASSUME NEW t \in Threads, Register(t)
       PROVE  Kept
    <2>1. PICK x : x = Idle
      OBVIOUS
    <2>s. Stage(call[t]) /\ call[t] \in Calls
      BY DEF Typed, TypeOK, Stages
    <2>2. x \in Calls
      BY <1>16, <2>1, <2>s, Matching2Assumption DEF TypeOK, Typed, Ids, Ops, Clients, Calls, Pcs, Idle, Register
    <2>3. Stage(x)'
      BY <1>16, <1>g, <2>1, <2>s, Matching2Assumption DEF Typed, Known, Slotted, AllPlaced, Grows, Register, Stage, Free, Named, Empty, Early, Taken, Placed, Live, Pcs, Ops, Idle, Submits, TypeOK, Calls
    <2>4. Becomes(t, x)
      BY <1>16, <2>1 DEF Register, Entry, Token, Return
    <2> QED BY <1>g, <2>2, <2>3, <2>4, OneCall
  <1>17. ASSUME NEW t \in Threads, TermEventDispatcher(t)
       PROVE  Kept
    <2>1. PICK x : x = [call[t] EXCEPT !.pc = "reset"]
      OBVIOUS
    <2>s. Stage(call[t]) /\ call[t] \in Calls
      BY DEF Typed, TypeOK, Stages
    <2>2. x \in Calls
      BY <1>17, <2>1, <2>s, Matching2Assumption DEF  Calls, Pcs, Idle, TermEventDispatcher
    <2>3. Stage(x)'
      BY <1>17, <1>g, <2>1, <2>s, Matching2Assumption DEF Typed, Known, Slotted, AllPlaced, Grows, TermEventDispatcher, Stage, Free, Named, Empty, Early, Taken, Placed, Live, Pcs, Ops, Idle, Submits, TypeOK, Calls
    <2>4. Becomes(t, x)
      BY <1>17, <2>1 DEF TermEventDispatcher, Goto, Token
    <2> QED BY <1>g, <2>2, <2>3, <2>4, OneCall
  <1>18. ASSUME NEW t \in Threads, Reset(t)
       PROVE  Kept
    <2>1. PICK x : x = [call[t] EXCEPT !.pc = "release_ref"]
      OBVIOUS
    <2>s. Stage(call[t]) /\ call[t] \in Calls
      BY DEF Typed, TypeOK, Stages
    <2>2. x \in Calls
      BY <1>18, <2>1, <2>s, Matching2Assumption DEF  Calls, Pcs, Idle, Reset
    <2>3. Stage(x)'
      BY <1>18, <1>g, <2>1, <2>s, Matching2Assumption DEF Typed, Known, Slotted, AllPlaced, Grows, Reset, Stage, Free, Named, Empty, Early, Taken, Placed, Live, Pcs, Ops, Idle, Submits, TypeOK, Calls
    <2>4. Becomes(t, x)
      BY <1>18, <2>1 DEF Reset, Goto
    <2> QED BY <1>g, <2>2, <2>3, <2>4, OneCall
  <1>19. ASSUME NEW t \in Threads, Terminate(t)
       PROVE  Kept
    <2>1. PICK x : x = [call[t] EXCEPT !.pc = "terminate"]
      OBVIOUS
    <2>s. Stage(call[t]) /\ call[t] \in Calls
      BY DEF Typed, TypeOK, Stages
    <2>2. x \in Calls
      BY <1>19, <2>1, <2>s, Matching2Assumption DEF Typed, TypeOK, Calls, Pcs, Idle, Terminate
    <2>3. Stage(x)'
      BY <1>19, <1>g, <2>1, <2>s, Matching2Assumption DEF Typed, Known, Slotted, AllPlaced, Grows, Terminate, Stage, Free, Named, Empty, Early, Taken, Placed, Live, Pcs, Ops, Idle, Submits, TypeOK, Calls
    <2>4. Becomes(t, x)
      BY <1>19, <2>1 DEF Terminate, Goto
    <2> QED BY <1>g, <2>2, <2>3, <2>4, OneCall
  <1>20. ASSUME NEW c \in Clients, DispatchRequestComplete(c)
       PROVE  Kept
    BY <1>g, <1>20, CallsStay DEF DispatchRequestComplete, Typed
  <1>21. ASSUME NEW p \in inFlight, OnMatching2Reply(p)
       PROVE  Kept
    BY <1>g, <1>21, CallsStay DEF OnMatching2Reply, Typed
  <1>22. ASSUME NEW c \in Clients, LoseConnection(c)
       PROVE  Kept
    BY <1>g, <1>22, CallsStay DEF LoseConnection, Typed
  <1>23. ASSUME SetMmShadNetClient
       PROVE  Kept
    BY <1>g, <1>23, CallsStay DEF SetMmShadNetClient, Typed
  <1>24. ASSUME FireEvent
       PROVE  Kept
    BY <1>g, <1>24, CallsStay DEF FireEvent, Typed
  <1>25. ASSUME CompleteStop
       PROVE  Kept
    BY <1>g, <1>25, CallsStay DEF CompleteStop, Typed
  <1>26. ASSUME Initialize
       PROVE  Kept
    BY <1>g, <1>26, CallsStay DEF Initialize, Typed
  <1>27. CASE UNCHANGED vars
    BY <1>g, <1>27, CallsStay DEF vars, Typed
  <1> QED
    BY <1>1, <1>2, <1>3, <1>4, <1>5, <1>6, <1>7, <1>8, <1>9, <1>10, <1>11, <1>12, <1>13, <1>14, <1>15, <1>16, <1>17, <1>18, <1>19, <1>20, <1>21, <1>22, <1>23, <1>24, <1>25, <1>26, <1>27 DEF Next, CallStep, ReaderStep, DispatcherStep

\* Whatever a thread is about has been made: its request, or the context it stops.
LEMMA CallsKnown ==
    ASSUME Typed, NEW u \in Threads
    PROVE  /\ call[u] \in Calls /\ Stage(call[u])
           /\ call[u].op \in Requests => call[u].op \in asked
           /\ call[u].op = Stopping => call[u].asker \in created /\ call[u].id \in Ids
  <1>1. call[u] \in Calls /\ Stage(call[u])
    BY DEF Typed, TypeOK, Stages
  <1>2. call[u].pc \in Pcs
    BY <1>1 DEF Calls
  <1>3. Free(call[u]) \/ (Named(call[u]) /\ (call[u].op = Stopping => call[u].asker \in created))
    <2>1. CASE call[u].pc = "idle"
      BY <1>1, <2>1 DEF Stage, Free, Idle
    <2>2. CASE call[u].pc \in {"add_ref", "release_ref", "terminate", "reset"}
      BY <1>1, <2>2 DEF Stage
    <2>3. CASE call[u].pc \in {"find", "complete_stop", "store_arg", "check", "consume"}
      BY <1>1, <2>3 DEF Stage, Early
    <2>4. CASE call[u].pc \in {"read_arg", "answer", "submit", "register"}
      BY <1>1, <2>4 DEF Stage, Taken
    <2> QED BY <1>2, <2>1, <2>2, <2>3, <2>4 DEF Pcs
  <1> QED BY <1>1, <1>3, Matching2Assumption DEF Free, Named

\* Only requests that have been made race.
LEMMA RacedAsked ==
    ASSUME Typed, NEW t \in Threads, NEW o, NEW op, op \in Requests => op \in asked'
    PROVE  (({op} \cup {call[u].op : u \in Others(t, o)}) \cap Requests) \subseteq asked \cup asked'
  BY CallsKnown DEF Others

\* Every variable keeps its type.
LEMMA TypeStep ==
    ASSUME Typed, [Next]_vars
    PROVE  TypeOK'
  <1>g. call' \in [Threads -> Calls]
    BY StagesStep
  <1>h. TypeOK
    BY DEF Typed
  <1>1. ASSUME NEW t \in Threads, NEW o \in Objects, CreateContext(t, o)
       PROVE  TypeOK'
    <2>1. FirstFree \in Ids /\ slots' = [slots EXCEPT ![FirstFree] = o]
          /\ nextId' = (FirstFree % kMaxContexts) + 1
      BY <1>1, FirstFreeIsFree DEF CreateContext
    <2>2. slots' \in [Ids -> Objects \cup {None}]
      BY <1>h, <2>1 DEF TypeOK
    <2>3. nextId' \in Ids
      BY <2>1, Matching2Assumption DEF Ids
    <2> QED BY <1>1, <1>g, <1>h, <2>2, <2>3, Matching2Assumption DEF TypeOK, CreateContext, contextVars, clientVars, packetVars, eventVars, stateVars, refVars
  <1>2. ASSUME NEW t \in Threads, AddContextRef(t)
       PROVE  TypeOK'
    BY <1>2, <1>g, <1>h, Matching2Assumption DEF TypeOK, Typed, Known, Slotted, AllPlaced, Live, Ids, AddContextRef, contextVars, clientVars, packetVars, eventVars, stateVars, refVars
  <1>3. ASSUME NEW t \in Threads, ReleaseContextRef(t)
       PROVE  TypeOK'
    BY <1>3, <1>g, <1>h, Matching2Assumption DEF TypeOK, Typed, Known, Slotted, AllPlaced, Live, Ids, ReleaseContextRef, LowerRefs, contextVars, clientVars, packetVars, eventVars, stateVars, refVars
  <1>4. ASSUME NEW t \in Threads, NEW id \in Ids, DestroyContext(t, id)
       PROVE  TypeOK'
    BY <1>4, <1>g, <1>h, Matching2Assumption DEF TypeOK, Typed, Known, Slotted, AllPlaced, Live, Ids, DestroyContext, Remove, contextVars, clientVars, packetVars, eventVars, stateVars, refVars
  <1>5. ASSUME NEW t \in Threads, NEW id \in Ids, ContextStart(t, id)
       PROVE  TypeOK'
    BY <1>5, <1>g, <1>h, Matching2Assumption DEF TypeOK, Typed, Known, Slotted, AllPlaced, Live, Ids, ContextStart, contextVars, clientVars, packetVars, eventVars, stateVars, refVars
  <1>6. ASSUME NEW t \in Threads, NEW id \in Ids, ContextStop(t, id)
       PROVE  TypeOK'
    BY <1>6, <1>g, <1>h, Matching2Assumption DEF TypeOK, Typed, Known, Slotted, AllPlaced, Live, Ids, ContextStop, contextVars, clientVars, packetVars, eventVars, stateVars, refVars
  <1>7. ASSUME NEW t \in Threads, FindStopping(t)
       PROVE  TypeOK'
    <2>1. slots[call[t].id] \in created \cup {None}
      BY <1>7, CallsKnown DEF FindStopping, Stage, Named, Typed, TypeOK, Known, Slotted, AllPlaced, Live
    <2>2. overtaken' \subseteq created
      BY <1>7, <1>h, <2>1 DEF FindStopping, TypeOK
    <2> QED BY <1>7, <1>g, <1>h, <2>2, Matching2Assumption DEF TypeOK, FindStopping, contextVars, clientVars, packetVars, eventVars, stateVars, refVars
  <1>8. ASSUME NEW t \in Threads, StopAtOnce(t)
       PROVE  TypeOK'
    BY <1>8, <1>g, <1>h, Matching2Assumption DEF TypeOK, Typed, Known, Slotted, AllPlaced, Live, Ids, StopAtOnce, Complete, contextVars, clientVars, packetVars, eventVars, stateVars, refVars
  <1>9. ASSUME NEW t \in Threads, NEW id \in Ids, NEW r \in Requests, Request(t, id, r)
       PROVE  TypeOK'
    <2>1. slots[id] \in Objects
      BY <1>9, <1>h DEF Request, TypeOK
    <2>2. parked' \in [Objects -> [cb : Own \cup {None}, arg : Own \cup {None}]]
      BY <1>9, <1>h, <2>1 DEF Request, TypeOK, Park, Nothing
    <2>3. raced' \subseteq asked'
      BY <1>9, <1>h, RacedAsked DEF Request, TypeOK, Races
    <2> QED BY <1>9, <1>g, <1>h, <2>2, <2>3, Matching2Assumption DEF TypeOK, Request, contextVars, clientVars, packetVars, eventVars, stateVars, refVars
  <1>10. ASSUME NEW t \in Threads, StoreArgument(t)
       PROVE  TypeOK'
    <2>1. call[t].op \in Own /\ call[t].obj \in Objects /\ call[t].op \in asked
      BY <1>10, <1>h, CallsKnown, Matching2Assumption DEF StoreArgument, TypeOK, Stage, Early, Named
    <2>2. parked' \in [Objects -> [cb : Own \cup {None}, arg : Own \cup {None}]]
      BY <1>10, <1>h, <2>1 DEF StoreArgument, TypeOK
    <2>3. raced' \subseteq asked
      BY <1>10, <1>h, <2>1, RacedAsked DEF StoreArgument, TypeOK, Races
    <2> QED BY <1>10, <1>g, <1>h, <2>2, <2>3, Matching2Assumption DEF TypeOK, StoreArgument, contextVars, clientVars, packetVars, eventVars, stateVars, refVars
  <1>11. ASSUME NEW t \in Threads, CheckClient(t)
       PROVE  TypeOK'
    <2>1. lost' \subseteq asked \cup created
      BY <1>11, <1>h, CallsKnown DEF CheckClient, Fails, TypeOK
    <2> QED BY <1>11, <1>g, <1>h, <2>1, Matching2Assumption DEF TypeOK, CheckClient, contextVars, clientVars, packetVars, eventVars, stateVars, refVars
  <1>12. ASSUME NEW t \in Threads, ConsumeCallback(t)
       PROVE  TypeOK'
    <2>1. lost' \subseteq asked \cup created
      BY <1>12, <1>h, CallsKnown DEF ConsumeCallback, Fails, TypeOK
    <2>2. raced' \subseteq asked
      BY <1>12, <1>h, CallsKnown, RacedAsked DEF ConsumeCallback, TypeOK, Races
    <2> QED BY <1>12, <1>g, <1>h, <2>1, <2>2, Matching2Assumption DEF TypeOK, ConsumeCallback, contextVars, clientVars, packetVars, eventVars, stateVars, refVars
  <1>13. ASSUME NEW t \in Threads, ConsumeArgument(t)
       PROVE  TypeOK'
    <2>1. call[t].obj \in Objects
      BY <1>13, <1>h, CallsKnown DEF ConsumeArgument, TypeOK, Stage, Taken
    <2>2. parked' \in [Objects -> [cb : Own \cup {None}, arg : Own \cup {None}]]
      BY <1>13, <1>h, <2>1 DEF ConsumeArgument, TypeOK, Unpark, Nothing
    <2>3. raced' \subseteq asked
      BY <1>13, <1>h, CallsKnown, RacedAsked DEF ConsumeArgument, TypeOK, Races
    <2> QED BY <1>13, <1>g, <1>h, <2>2, <2>3, Matching2Assumption DEF TypeOK, ConsumeArgument, contextVars, clientVars, packetVars, eventVars, stateVars, refVars
  <1>14. ASSUME NEW t \in Threads, AnswerInCall(t)
       PROVE  TypeOK'
    <2>1. Taken(call[t]) /\ call[t] \in Calls
      BY <1>14, CallsKnown DEF AnswerInCall, Stage
    <2>2. Event(Entry(t), call[t].obj) \in Events
      BY <1>h, <2>1 DEF TypeOK, Taken, Named, Event, Entry, Events, Calls
    <2>3. queue' \in Seq(Events)
      BY <1>14, <1>h, <2>2 DEF AnswerInCall, TypeOK
    <2> QED BY <1>14, <1>g, <1>h, <2>3, Matching2Assumption DEF TypeOK, AnswerInCall, contextVars, clientVars, packetVars, eventVars, stateVars, refVars
  <1>15. ASSUME NEW t \in Threads, SubmitRequest(t)
       PROVE  TypeOK'
    <2>1. Taken(call[t]) /\ call[t] \in Calls
      BY <1>15, CallsKnown DEF SubmitRequest, Stage
    <2>2. call[t].client \in Clients /\ call[t].op \in Ops /\ call[t].asker \in Objects
          /\ counter[call[t].client] + 1 \in 1 .. MaxPkt
      BY <1>15, <1>h, <2>1, Matching2Assumption DEF SubmitRequest, TypeOK, Taken, Named, Clients
    <2>3. inFlight' \subseteq Packets
      BY <1>15, <1>h, <2>2 DEF SubmitRequest, TypeOK, Packets
    <2>4. counter' \in [Clients -> 0 .. MaxPkt]
      BY <1>15, <1>h, <2>2, Matching2Assumption DEF SubmitRequest, TypeOK
    <2>5. lost' \subseteq asked \cup created
      BY <1>15, <1>h, <2>1, CallsKnown DEF SubmitRequest, TypeOK, Token, Taken
    <2> QED BY <1>15, <1>g, <1>h, <2>3, <2>4, <2>5, Matching2Assumption DEF TypeOK, SubmitRequest, contextVars, clientVars, packetVars, eventVars, stateVars, refVars
  <1>16. ASSUME NEW t \in Threads, Register(t)
       PROVE  TypeOK'
    <2>1. Taken(call[t]) /\ call[t] \in Calls /\ call[t].pkt \in 1 .. MaxPkt
      BY <1>16, CallsKnown DEF Register, Stage
    <2>2. Entry(t) \in Entries
      BY <1>h, <2>1, Matching2Assumption DEF TypeOK, Taken, Named, Entry, Entries, Calls, Clients
    <2>3. pending' \in [1 .. MaxPkt -> Entries \cup {None}]
      BY <1>16, <1>h, <2>1, <2>2 DEF Register, TypeOK
    <2>4. lost' \subseteq asked \cup created
      BY <1>16, <1>h, <2>1 DEF Register, TypeOK, Token, Typed, Known, Slotted, AllPlaced, Placed
    <2> QED BY <1>16, <1>g, <1>h, <2>3, <2>4, Matching2Assumption DEF TypeOK, Register, contextVars, clientVars, packetVars, eventVars, stateVars, refVars
  <1>17. ASSUME NEW t \in Threads, TermEventDispatcher(t)
       PROVE  TypeOK'
    <2>1. lost' \subseteq asked \cup created
      <3>1. ASSUME NEW i \in 1 .. Len(queue) PROVE Token(queue[i].op, queue[i].asker) \subseteq asked \cup created
        BY DEF Token, Typed, Known, Slotted, AllPlaced, Placed
      <3> QED BY <1>17, <1>h, <3>1 DEF TermEventDispatcher, TypeOK
    <2>2. queue' \in Seq(Events)
      BY <1>17 DEF TermEventDispatcher
    <2> QED BY <1>17, <1>g, <1>h, <2>1, <2>2, Matching2Assumption DEF TypeOK, TermEventDispatcher, contextVars, clientVars, packetVars, eventVars, stateVars, refVars
  <1>18. ASSUME NEW t \in Threads, Reset(t)
       PROVE  TypeOK'
    BY <1>18, <1>g, <1>h, Matching2Assumption DEF TypeOK, Typed, Known, Slotted, AllPlaced, Live, Ids, Reset, contextVars, clientVars, packetVars, eventVars, stateVars, refVars
  <1>19. ASSUME NEW t \in Threads, Terminate(t)
       PROVE  TypeOK'
    BY <1>19, <1>g, <1>h, Matching2Assumption DEF TypeOK, Typed, Known, Slotted, AllPlaced, Live, Ids, Terminate, contextVars, clientVars, packetVars, eventVars, stateVars, refVars
  <1>20. ASSUME NEW c \in Clients, DispatchRequestComplete(c)
       PROVE  TypeOK'
    <2>1. reader[c] \in Entries /\ Placed(reader[c])
      BY <1>20, <1>h DEF DispatchRequestComplete, TypeOK, Typed, Known, Slotted, AllPlaced
    <2>2. slots[reader[c].id] \in created \cup {None} /\ created \subseteq Objects
      BY <1>h, <2>1 DEF TypeOK, Entries, Typed, Known, Slotted, AllPlaced, Live
    <2>3. reader' \in [Clients -> Entries \cup {None}]
      BY <1>20, <1>h DEF DispatchRequestComplete, TypeOK
    <2>4. queue' \in Seq(Events)
      <3>1. slots[reader[c].id] # None => Event(reader[c], slots[reader[c].id]) \in Events
        BY <2>1, <2>2 DEF Entries, Event, Events
      <3>2. CASE slots[reader[c].id] = None
        BY <1>20, <1>h, <3>2 DEF DispatchRequestComplete, TypeOK, Recipient
      <3>3. CASE slots[reader[c].id] # None
        <4>1. queue' = Append(queue, Event(reader[c], slots[reader[c].id]))
          BY <1>20, <3>3 DEF DispatchRequestComplete, Recipient
        <4> QED BY <1>h, <3>1, <3>3, <4>1 DEF TypeOK
      <3> QED BY <3>2, <3>3
    <2>5. lost' \subseteq asked \cup created
      BY <1>20, <1>h, <2>1 DEF DispatchRequestComplete, TypeOK, Token, Placed
    <2>6. overtaken' \subseteq created
      BY <1>20, <1>h, <2>2 DEF DispatchRequestComplete, TypeOK, Recipient
    <2> QED BY <1>20, <1>g, <1>h, <2>3, <2>4, <2>5, <2>6, Matching2Assumption DEF TypeOK, DispatchRequestComplete, contextVars, clientVars, packetVars, eventVars, stateVars, refVars
  <1>21. ASSUME NEW p \in inFlight, OnMatching2Reply(p)
       PROVE  TypeOK'
    <2>1. p \in Packets /\ p.client \in Clients /\ p.pkt \in 1 .. MaxPkt /\ Placed(p)
      BY <1>h DEF TypeOK, Packets, Typed, Known, Slotted, AllPlaced
    <2>2. pending' \in [1 .. MaxPkt -> Entries \cup {None}]
      BY <1>21, <1>h, <2>1 DEF OnMatching2Reply, TypeOK, TakeEntry
    <2>3. reader' \in [Clients -> Entries \cup {None}]
      BY <1>21, <1>h, <2>1 DEF OnMatching2Reply, TypeOK
    <2>4. lost' \subseteq asked \cup created
      BY <1>21, <1>h, <2>1 DEF OnMatching2Reply, TypeOK, Token, Placed
    <2>5. inFlight' \subseteq Packets
      BY <1>21, <1>h DEF OnMatching2Reply, TypeOK
    <2> QED BY <1>21, <1>g, <1>h, <2>2, <2>3, <2>4, <2>5, Matching2Assumption DEF TypeOK, OnMatching2Reply, contextVars, clientVars, packetVars, eventVars, stateVars, refVars
  <1>22. ASSUME NEW c \in Clients, LoseConnection(c)
       PROVE  TypeOK'
    <2>1. ASSUME NEW p \in inFlight PROVE Token(p.op, p.asker) \subseteq asked \cup created
      BY DEF Token, Typed, Known, Slotted, AllPlaced, Placed
    <2>2. lost' \subseteq asked \cup created
      BY <1>22, <1>h, <2>1 DEF LoseConnection, TypeOK
    <2>3. inFlight' \subseteq Packets /\ connected' \subseteq 1 .. mm
      BY <1>22, <1>h DEF LoseConnection, TypeOK
    <2> QED BY <1>22, <1>g, <1>h, <2>2, <2>3, Matching2Assumption DEF TypeOK, LoseConnection, contextVars, clientVars, packetVars, eventVars, stateVars, refVars
  <1>23. ASSUME SetMmShadNetClient
       PROVE  TypeOK'
    <2>1. mm' \in Clients /\ connected' \subseteq 1 .. mm'
      BY <1>23, <1>h, Matching2Assumption DEF SetMmShadNetClient, TypeOK, Clients
    <2>2. enabled' \in BOOLEAN
      BY <1>23 DEF SetMmShadNetClient
    <2> QED BY <1>23, <1>g, <1>h, <2>1, <2>2, Matching2Assumption DEF TypeOK, SetMmShadNetClient, contextVars, clientVars, packetVars, eventVars, stateVars, refVars
  <1>24. ASSUME FireEvent
       PROVE  TypeOK'
    <2>1. Head(queue) \in Events /\ queue' \in Seq(Events) /\ Len(queue) \in Nat /\ Len(queue) >= 1
          /\ Head(queue) = queue[1]
      BY <1>24, <1>h DEF FireEvent, TypeOK
    <2>2. answered' \subseteq asked
      BY <1>24, <1>h, <2>1 DEF FireEvent, TypeOK, Typed, Known, Slotted, AllPlaced, Placed
    <2>3. firing' \in Events \cup {None}
      BY <1>24, <2>1 DEF FireEvent
    <2> QED BY <1>24, <1>g, <1>h, <2>1, <2>2, <2>3, Matching2Assumption DEF TypeOK, FireEvent, contextVars, clientVars, packetVars, eventVars, stateVars, refVars
  <1>25. ASSUME CompleteStop
       PROVE  TypeOK'
    BY <1>25, <1>g, <1>h, Matching2Assumption DEF TypeOK, Typed, Known, Slotted, AllPlaced, Live, Ids, CompleteStop, Complete, contextVars, clientVars, packetVars, eventVars, stateVars, refVars
  <1>26. ASSUME Initialize
       PROVE  TypeOK'
    BY <1>26, <1>g, <1>h, Matching2Assumption DEF TypeOK, Typed, Known, Slotted, AllPlaced, Live, Ids, Initialize, contextVars, clientVars, packetVars, eventVars, stateVars, refVars
  <1>27. CASE UNCHANGED vars
    BY <1>27, <1>h DEF TypeOK, vars, contextVars, clientVars, packetVars, eventVars, stateVars, refVars
  <1> QED
    BY <1>1, <1>2, <1>3, <1>4, <1>5, <1>6, <1>7, <1>8, <1>9, <1>10, <1>11, <1>12, <1>13, <1>14, <1>15, <1>16, <1>17, <1>18, <1>19, <1>20, <1>21, <1>22, <1>23, <1>24, <1>25, <1>26, <1>27 DEF Next, CallStep, ReaderStep, DispatcherStep

\* A context has at most one id, and those that have one were created.
LEMMA SlotsStep ==
    ASSUME Typed, [Next]_vars
    PROVE  Slotted'
  <1>h. TypeOK /\ Slotted
    BY DEF Typed, Known
  <1>1. ASSUME NEW t \in Threads, NEW o \in Objects, CreateContext(t, o)
       PROVE  Slotted'
    <2>1. FirstFree \in Ids /\ slots' = [slots EXCEPT ![FirstFree] = o] /\ slots[FirstFree] = None
      BY <1>1, FirstFreeIsFree DEF CreateContext
    <2>2. IsFiniteSet(created')
      BY <1>1, <1>h, FS_AddElement DEF Slotted, CreateContext
    <2> QED BY <1>1, <1>h, <2>1, <2>2 DEF Slotted, TypeOK, Live, CreateContext, contextVars
  <1>2. ASSUME NEW t \in Threads, AddContextRef(t)
       PROVE  Slotted'
    BY <1>2, <1>h DEF Slotted, TypeOK, Live, AddContextRef, contextVars
  <1>3. ASSUME NEW t \in Threads, ReleaseContextRef(t)
       PROVE  Slotted'
    BY <1>3, <1>h DEF Slotted, TypeOK, Live, ReleaseContextRef, LowerRefs, contextVars
  <1>4. ASSUME NEW t \in Threads, NEW id \in Ids, DestroyContext(t, id)
       PROVE  Slotted'
    <2>1. CASE slots[id] \in stopping
      BY <1>4, <1>h, <2>1 DEF Slotted, Live, DestroyContext, Remove
    <2>2. CASE slots[id] \notin stopping
      <3>1. slots' = [slots EXCEPT ![id] = None] /\ UNCHANGED <<created, started, stopping>>
        BY <1>4, <2>2 DEF DestroyContext, Remove
      <3> QED BY <1>h, <3>1 DEF Slotted, TypeOK, Live
    <2> QED BY <2>1, <2>2
  <1>5. ASSUME NEW t \in Threads, NEW id \in Ids, ContextStart(t, id)
       PROVE  Slotted'
    BY <1>5, <1>h DEF Slotted, TypeOK, Live, ContextStart, contextVars
  <1>6. ASSUME NEW t \in Threads, NEW id \in Ids, ContextStop(t, id)
       PROVE  Slotted'
    BY <1>6, <1>h DEF Slotted, TypeOK, Live, ContextStop, contextVars
  <1>7. ASSUME NEW t \in Threads, FindStopping(t)
       PROVE  Slotted'
    BY <1>7, <1>h DEF Slotted, TypeOK, Live, FindStopping, contextVars
  <1>8. ASSUME NEW t \in Threads, StopAtOnce(t)
       PROVE  Slotted'
    BY <1>8, <1>h DEF Slotted, TypeOK, Live, StopAtOnce, Complete, contextVars
  <1>9. ASSUME NEW t \in Threads, NEW id \in Ids, NEW r \in Requests, Request(t, id, r)
       PROVE  Slotted'
    BY <1>9, <1>h DEF Slotted, TypeOK, Live, Request, Park, Races, Others, Nothing, contextVars
  <1>10. ASSUME NEW t \in Threads, StoreArgument(t)
       PROVE  Slotted'
    BY <1>10, <1>h DEF Slotted, TypeOK, Live, StoreArgument, Races, Others, contextVars
  <1>11. ASSUME NEW t \in Threads, CheckClient(t)
       PROVE  Slotted'
    BY <1>11, <1>h DEF Slotted, TypeOK, Live, CheckClient, Fails, contextVars
  <1>12. ASSUME NEW t \in Threads, ConsumeCallback(t)
       PROVE  Slotted'
    BY <1>12, <1>h DEF Slotted, TypeOK, Live, ConsumeCallback, Fails, contextVars
  <1>13. ASSUME NEW t \in Threads, ConsumeArgument(t)
       PROVE  Slotted'
    BY <1>13, <1>h DEF Slotted, TypeOK, Live, ConsumeArgument, Unpark, Nothing, contextVars
  <1>14. ASSUME NEW t \in Threads, AnswerInCall(t)
       PROVE  Slotted'
    BY <1>14, <1>h DEF Slotted, TypeOK, Live, AnswerInCall, Entry, Event, contextVars
  <1>15. ASSUME NEW t \in Threads, SubmitRequest(t)
       PROVE  Slotted'
    BY <1>15, <1>h DEF Slotted, TypeOK, Live, SubmitRequest, Token, contextVars
  <1>16. ASSUME NEW t \in Threads, Register(t)
       PROVE  Slotted'
    BY <1>16, <1>h DEF Slotted, TypeOK, Live, Register, Entry, Token, contextVars
  <1>17. ASSUME NEW t \in Threads, TermEventDispatcher(t)
       PROVE  Slotted'
    BY <1>17, <1>h DEF Slotted, TypeOK, Live, TermEventDispatcher, Token, contextVars
  <1>18. ASSUME NEW t \in Threads, Reset(t)
       PROVE  Slotted'
    BY <1>18, <1>h DEF Slotted, TypeOK, Live, Reset, contextVars
  <1>19. ASSUME NEW t \in Threads, Terminate(t)
       PROVE  Slotted'
    BY <1>19, <1>h DEF Slotted, TypeOK, Live, Terminate, contextVars
  <1>20. ASSUME NEW c \in Clients, DispatchRequestComplete(c)
       PROVE  Slotted'
    BY <1>20, <1>h DEF Slotted, TypeOK, Live, DispatchRequestComplete, Recipient, Event, Token, contextVars
  <1>21. ASSUME NEW p \in inFlight, OnMatching2Reply(p)
       PROVE  Slotted'
    BY <1>21, <1>h DEF Slotted, TypeOK, Live, OnMatching2Reply, TakeEntry, Token, contextVars
  <1>22. ASSUME NEW c \in Clients, LoseConnection(c)
       PROVE  Slotted'
    BY <1>22, <1>h DEF Slotted, TypeOK, Live, LoseConnection, Token, contextVars
  <1>23. ASSUME SetMmShadNetClient
       PROVE  Slotted'
    BY <1>23, <1>h DEF Slotted, TypeOK, Live, SetMmShadNetClient, contextVars
  <1>24. ASSUME FireEvent
       PROVE  Slotted'
    BY <1>24, <1>h DEF Slotted, TypeOK, Live, FireEvent, contextVars
  <1>25. ASSUME CompleteStop
       PROVE  Slotted'
    BY <1>25, <1>h DEF Slotted, TypeOK, Live, CompleteStop, Complete, contextVars
  <1>26. ASSUME Initialize
       PROVE  Slotted'
    BY <1>26, <1>h DEF Slotted, TypeOK, Live, Initialize, contextVars
  <1>27. CASE UNCHANGED vars
    BY <1>27, <1>h DEF Slotted, TypeOK, Live, vars, contextVars
  <1> QED
    BY <1>1, <1>2, <1>3, <1>4, <1>5, <1>6, <1>7, <1>8, <1>9, <1>10, <1>11, <1>12, <1>13, <1>14, <1>15, <1>16, <1>17, <1>18, <1>19, <1>20, <1>21, <1>22, <1>23, <1>24, <1>25, <1>26, <1>27 DEF Next, CallStep, ReaderStep, DispatcherStep

\* Whatever waits for its end belongs to requests and contexts that have been made.
LEMMA PlacedStep ==
    ASSUME Typed, [Next]_vars
    PROVE  AllPlaced'
  <1>h. TypeOK /\ AllPlaced
    BY DEF Typed, Known
  <1>g. Grows
    BY Grown DEF Typed
  <1>1. ASSUME NEW t \in Threads, NEW o \in Objects, CreateContext(t, o)
       PROVE  AllPlaced'
    BY <1>1, <1>g, <1>h DEF AllPlaced, TypeOK, Grows, Placed, CreateContext, contextVars, clientVars, packetVars, eventVars, stateVars, refVars
  <1>2. ASSUME NEW t \in Threads, AddContextRef(t)
       PROVE  AllPlaced'
    BY <1>2, <1>g, <1>h DEF AllPlaced, TypeOK, Grows, Placed, AddContextRef, contextVars, clientVars, packetVars, eventVars, stateVars, refVars
  <1>3. ASSUME NEW t \in Threads, ReleaseContextRef(t)
       PROVE  AllPlaced'
    BY <1>3, <1>g, <1>h DEF AllPlaced, TypeOK, Grows, Placed, ReleaseContextRef, LowerRefs, contextVars, clientVars, packetVars, eventVars, stateVars, refVars
  <1>4. ASSUME NEW t \in Threads, NEW id \in Ids, DestroyContext(t, id)
       PROVE  AllPlaced'
    BY <1>4, <1>g, <1>h DEF AllPlaced, TypeOK, Grows, Placed, DestroyContext, Remove, contextVars, clientVars, packetVars, eventVars, stateVars, refVars
  <1>5. ASSUME NEW t \in Threads, NEW id \in Ids, ContextStart(t, id)
       PROVE  AllPlaced'
    BY <1>5, <1>g, <1>h DEF AllPlaced, TypeOK, Grows, Placed, ContextStart, contextVars, clientVars, packetVars, eventVars, stateVars, refVars
  <1>6. ASSUME NEW t \in Threads, NEW id \in Ids, ContextStop(t, id)
       PROVE  AllPlaced'
    BY <1>6, <1>g, <1>h DEF AllPlaced, TypeOK, Grows, Placed, ContextStop, contextVars, clientVars, packetVars, eventVars, stateVars, refVars
  <1>7. ASSUME NEW t \in Threads, FindStopping(t)
       PROVE  AllPlaced'
    BY <1>7, <1>g, <1>h DEF AllPlaced, TypeOK, Grows, Placed, FindStopping, contextVars, clientVars, packetVars, eventVars, stateVars, refVars
  <1>8. ASSUME NEW t \in Threads, StopAtOnce(t)
       PROVE  AllPlaced'
    BY <1>8, <1>g, <1>h DEF AllPlaced, TypeOK, Grows, Placed, StopAtOnce, Complete, contextVars, clientVars, packetVars, eventVars, stateVars, refVars
  <1>9. ASSUME NEW t \in Threads, NEW id \in Ids, NEW r \in Requests, Request(t, id, r)
       PROVE  AllPlaced'
    BY <1>9, <1>g, <1>h DEF AllPlaced, TypeOK, Grows, Placed, Request, Park, Races, Others, Nothing, contextVars, clientVars, packetVars, eventVars, stateVars, refVars
  <1>10. ASSUME NEW t \in Threads, StoreArgument(t)
       PROVE  AllPlaced'
    BY <1>10, <1>g, <1>h DEF AllPlaced, TypeOK, Grows, Placed, StoreArgument, Races, Others, contextVars, clientVars, packetVars, eventVars, stateVars, refVars
  <1>11. ASSUME NEW t \in Threads, CheckClient(t)
       PROVE  AllPlaced'
    BY <1>11, <1>g, <1>h DEF AllPlaced, TypeOK, Grows, Placed, CheckClient, Fails, contextVars, clientVars, packetVars, eventVars, stateVars, refVars
  <1>12. ASSUME NEW t \in Threads, ConsumeCallback(t)
       PROVE  AllPlaced'
    BY <1>12, <1>g, <1>h DEF AllPlaced, TypeOK, Grows, Placed, ConsumeCallback, Fails, contextVars, clientVars, packetVars, eventVars, stateVars, refVars
  <1>13. ASSUME NEW t \in Threads, ConsumeArgument(t)
       PROVE  AllPlaced'
    BY <1>13, <1>g, <1>h DEF AllPlaced, TypeOK, Grows, Placed, ConsumeArgument, Unpark, Nothing, contextVars, clientVars, packetVars, eventVars, stateVars, refVars
  <1>14. ASSUME NEW t \in Threads, AnswerInCall(t)
       PROVE  AllPlaced'
    <2>1. Taken(call[t]) /\ (call[t].op \in Requests => call[t].op \in asked)
      BY <1>14, CallsKnown DEF AnswerInCall, Stage
    <2>2. PICK e : e = Event(Entry(t), call[t].obj)
      OBVIOUS
    <2>3. e.asker \in created /\ (e.op \in Requests => e.op \in asked)
      BY <2>1, <2>2 DEF Event, Entry, Taken
    <2>4. \A i \in 1 .. Len(queue') : queue'[i] = e \/ (i \in 1 .. Len(queue) /\ queue'[i] = queue[i])
      BY <1>14, <1>h, <2>2 DEF AllPlaced, AnswerInCall, TypeOK
    <2>5. (\A i \in 1 .. Len(queue) : Placed(queue[i]))'
      BY <1>g, <1>h, <2>3, <2>4 DEF AllPlaced, Placed, Grows
    <2> QED BY <1>14, <1>g, <1>h, <2>5 DEF AllPlaced, AnswerInCall, Placed, Grows, clientVars, packetVars
  <1>15. ASSUME NEW t \in Threads, SubmitRequest(t)
       PROVE  AllPlaced'
    <2>1. Taken(call[t]) /\ (call[t].op \in Requests => call[t].op \in asked)
      BY <1>15, CallsKnown DEF SubmitRequest, Stage
    <2>2. \A p \in inFlight' : p \in inFlight \/ (p.client = call[t].client /\ p.op = call[t].op /\ p.asker = call[t].asker)
      BY <1>15 DEF SubmitRequest
    <2>3. (\A p \in inFlight : Placed(p) /\ p.client \in 1 .. mm)'
      BY <1>15, <1>g, <1>h, <2>1, <2>2 DEF AllPlaced, Placed, Grows, Taken, SubmitRequest
    <2> QED BY <1>15, <1>g, <1>h, <2>3 DEF AllPlaced, SubmitRequest, Placed, Grows, eventVars
  <1>16. ASSUME NEW t \in Threads, Register(t)
       PROVE  AllPlaced'
    <2>1. Taken(call[t]) /\ call[t].pkt \in 1 .. MaxPkt /\ (call[t].op \in Requests => call[t].op \in asked)
      BY <1>16, CallsKnown DEF Register, Stage
    <2>2. PICK e : e = Entry(t)
      OBVIOUS
    <2>3. e.asker \in created /\ (e.op \in Requests => e.op \in asked)
      BY <2>1, <2>2 DEF Entry, Taken
    <2>4. \A n \in 1 .. MaxPkt : pending'[n] = e \/ pending'[n] = pending[n]
      BY <1>16, <1>h, <2>1, <2>2 DEF AllPlaced, Register, TypeOK
    <2>5. (\A n \in 1 .. MaxPkt : pending[n] # None => Placed(pending[n]))'
      BY <1>g, <1>h, <2>3, <2>4 DEF AllPlaced, Placed, Grows
    <2> QED BY <1>16, <1>g, <1>h, <2>5 DEF AllPlaced, Register, Placed, Grows, clientVars, eventVars
  <1>17. ASSUME NEW t \in Threads, TermEventDispatcher(t)
       PROVE  AllPlaced'
    BY <1>17, <1>g, <1>h DEF AllPlaced, TypeOK, Grows, Placed, TermEventDispatcher, Token, contextVars, clientVars, packetVars, eventVars, stateVars, refVars
  <1>18. ASSUME NEW t \in Threads, Reset(t)
       PROVE  AllPlaced'
    BY <1>18, <1>g, <1>h DEF AllPlaced, TypeOK, Grows, Placed, Reset, contextVars, clientVars, packetVars, eventVars, stateVars, refVars
  <1>19. ASSUME NEW t \in Threads, Terminate(t)
       PROVE  AllPlaced'
    BY <1>19, <1>g, <1>h DEF AllPlaced, TypeOK, Grows, Placed, Terminate, contextVars, clientVars, packetVars, eventVars, stateVars, refVars
  <1>20. ASSUME NEW c \in Clients, DispatchRequestComplete(c)
       PROVE  AllPlaced'
    <2>1. PICK e : e = reader[c] /\ e # None /\ Placed(e)
      BY <1>20, <1>h DEF AllPlaced, DispatchRequestComplete
    <2>2. PICK o : o = slots[e.id]
      OBVIOUS
    <2>3. PICK f : f = Event(e, o)
      OBVIOUS
    <2>4. f.asker \in created /\ (f.op \in Requests => f.op \in asked)
      BY <2>1, <2>3 DEF Event, Placed
    <2>5. queue' = queue \/ queue' = Append(queue, f)
      BY <1>20, <2>1, <2>2, <2>3 DEF DispatchRequestComplete, Recipient
    <2>6. \A i \in 1 .. Len(queue') : queue'[i] = f \/ (i \in 1 .. Len(queue) /\ queue'[i] = queue[i])
      BY <1>h, <2>5 DEF AllPlaced, TypeOK
    <2>7. (\A i \in 1 .. Len(queue) : Placed(queue[i]))'
      BY <1>g, <1>h, <2>4, <2>6 DEF AllPlaced, Placed, Grows
    <2>8. (\A d \in Clients : reader[d] # None => Placed(reader[d]))'
      BY <1>20, <1>g, <1>h DEF AllPlaced, DispatchRequestComplete, TypeOK, Placed, Grows
    <2> QED BY <1>20, <1>g, <1>h, <2>7, <2>8 DEF AllPlaced, DispatchRequestComplete, Placed, Grows, clientVars
  <1>21. ASSUME NEW p \in inFlight, OnMatching2Reply(p)
       PROVE  AllPlaced'
    <2>1. p.client \in Clients /\ p.pkt \in 1 .. MaxPkt
      BY <1>21, <1>h DEF AllPlaced, TypeOK, Packets
    <2>2. \A n \in 1 .. MaxPkt : pending'[n] = None \/ pending'[n] = pending[n]
      BY <1>21, <1>h DEF AllPlaced, OnMatching2Reply, TypeOK, TakeEntry
    <2>3. \A d \in Clients : reader'[d] = reader[d] \/ (reader'[d] = pending[p.pkt] /\ pending[p.pkt] # None)
      BY <1>21, <1>h, <2>1 DEF AllPlaced, OnMatching2Reply, TypeOK
    <2>4. (\A n \in 1 .. MaxPkt : pending[n] # None => Placed(pending[n]))'
      BY <1>g, <1>h, <2>2 DEF AllPlaced, Placed, Grows
    <2>5. (\A d \in Clients : reader[d] # None => Placed(reader[d]))'
      BY <1>g, <1>h, <2>1, <2>3 DEF AllPlaced, Placed, Grows
    <2> QED BY <1>21, <1>g, <1>h, <2>4, <2>5 DEF AllPlaced, OnMatching2Reply, Placed, Grows, clientVars, eventVars
  <1>22. ASSUME NEW c \in Clients, LoseConnection(c)
       PROVE  AllPlaced'
    BY <1>22, <1>g, <1>h DEF AllPlaced, TypeOK, Grows, Placed, LoseConnection, Token, contextVars, clientVars, packetVars, eventVars, stateVars, refVars
  <1>23. ASSUME SetMmShadNetClient
       PROVE  AllPlaced'
    <2>1. 1 .. mm \subseteq 1 .. mm'
      BY <1>23, <1>h DEF AllPlaced, SetMmShadNetClient, TypeOK, Clients
    <2> QED BY <1>23, <1>g, <1>h, <2>1 DEF AllPlaced, SetMmShadNetClient, Placed, Grows, packetVars, eventVars
  <1>24. ASSUME FireEvent
       PROVE  AllPlaced'
    <2>1. Len(queue) >= 1 /\ Head(queue) = queue[1] /\ queue[1] \in Events /\ Placed(queue[1])
      BY <1>24, <1>h DEF AllPlaced, FireEvent, TypeOK
    <2>2. \A i \in 1 .. Len(queue') : i + 1 \in 1 .. Len(queue) /\ queue'[i] = queue[i + 1]
      BY <1>24, <1>h DEF AllPlaced, FireEvent, TypeOK
    <2>3. (\A i \in 1 .. Len(queue) : Placed(queue[i]))'
      BY <1>g, <1>h, <2>2 DEF AllPlaced, Placed, Grows
    <2>4. (firing # None => Placed(firing) /\ firing.op = Stopping)'
      BY <1>24, <1>g, <2>1 DEF FireEvent, Placed, Grows
    <2> QED BY <1>24, <1>g, <1>h, <2>3, <2>4 DEF AllPlaced, FireEvent, Placed, Grows, clientVars, packetVars
  <1>25. ASSUME CompleteStop
       PROVE  AllPlaced'
    BY <1>25, <1>g, <1>h DEF AllPlaced, TypeOK, Grows, Placed, CompleteStop, Complete, contextVars, clientVars, packetVars, eventVars, stateVars, refVars
  <1>26. ASSUME Initialize
       PROVE  AllPlaced'
    BY <1>26, <1>g, <1>h DEF AllPlaced, TypeOK, Grows, Placed, Initialize, contextVars, clientVars, packetVars, eventVars, stateVars, refVars
  <1>27. CASE UNCHANGED vars
    BY <1>27, <1>g, <1>h DEF AllPlaced, TypeOK, Grows, Placed, vars, contextVars, clientVars, packetVars, eventVars, stateVars, refVars
  <1> QED
    BY <1>1, <1>2, <1>3, <1>4, <1>5, <1>6, <1>7, <1>8, <1>9, <1>10, <1>11, <1>12, <1>13, <1>14, <1>15, <1>16, <1>17, <1>18, <1>19, <1>20, <1>21, <1>22, <1>23, <1>24, <1>25, <1>26, <1>27 DEF Next, CallStep, ReaderStep, DispatcherStep

\* Types, stages, and what is known of places hold throughout.
LEMMA TypedHolds ==
    /\ Init => Typed
    /\ Typed /\ [Next]_vars => Typed'
  <1>1. ASSUME Init PROVE Typed
    <2>1. TypeOK
      <3>1. Idle \in Calls
        BY Matching2Assumption DEF Calls, Idle, Pcs
      <3>2. 1 \in Clients /\ 1 \in Ids /\ 1 \in 1 .. MaxLives /\ 0 \in 0 .. MaxPkt /\ 0 \in 0 .. MaxStarts
        BY Matching2Assumption DEF Clients, Ids
      <3>3. queue \in Seq(Events)
        BY <1>1 DEF Init
      <3>4. call \in [Threads -> Calls] /\ counter \in [Clients -> 0 .. MaxPkt]
            /\ parked \in [Objects -> [cb : Own \cup {None}, arg : Own \cup {None}]]
        BY <1>1, <3>1, <3>2 DEF Init, Nothing
      <3>5. slots \in [Ids -> Objects \cup {None}] /\ nextId \in Ids /\ life \in 1 .. MaxLives
        BY <1>1, <3>2 DEF Init
      <3>6. /\ starts \in 0 .. MaxStarts /\ started \subseteq created /\ stopping \subseteq created
            /\ doomed \subseteq stopping /\ created \subseteq Objects /\ overtaken \subseteq created
            /\ asked \subseteq Requests /\ answered \subseteq asked /\ raced \subseteq asked
            /\ lost \subseteq asked \cup created /\ refs \in Nat /\ unpaired \in BOOLEAN
            /\ initialized \in BOOLEAN /\ enabled \in BOOLEAN
        BY <1>1, <3>2 DEF Init
      <3>7. mm \in Clients /\ connected \subseteq 1 .. mm
        BY <1>1, <3>2 DEF Init
      <3>8. /\ inFlight \subseteq Packets /\ pending \in [1 .. MaxPkt -> Entries \cup {None}]
            /\ reader \in [Clients -> Entries \cup {None}] /\ firing \in Events \cup {None}
        BY <1>1 DEF Init
      <3> QED BY <3>3, <3>4, <3>5, <3>6, <3>7, <3>8 DEF TypeOK
    <2>2. Stages
      BY <1>1, Matching2Assumption DEF Init, Stages, Stage, Idle
    <2>3. Known
      BY <1>1, FS_EmptySet DEF Init, Known, Slotted, AllPlaced, Live
    <2> QED BY <2>1, <2>2, <2>3 DEF Typed
  <1>2. ASSUME Typed, [Next]_vars PROVE Typed'
    <2>1. Known'
      BY <1>2, SlotsStep, PlacedStep DEF Known
    <2> QED BY <1>2, <2>1, TypeStep, StagesStep DEF Typed
  <1> QED BY <1>1, <1>2

\* Every variable keeps its type, whatever the threads of the game, the readers and the
\* dispatcher do: what waits to be told is complete and of a context that was created.
THEOREM TypeCorrect == Spec => []TypeOK
  <1>1. Typed => TypeOK
    BY DEF Typed
  <1> QED BY <1>1, TypedHolds, PTL DEF Spec

-----------------------------------------------------------------------------
(* What a step does to a call.                                             *)

Alone(t) == call' \in [Threads -> Calls] /\ \A u \in Threads \ {t} : call'[u] = call[u]
Keeps(t) ==
    /\ Alone(t)
    /\ call'[t].id = call[t].id /\ call'[t].op = call[t].op /\ call'[t].asker = call[t].asker
Same(t) ==
    /\ Keeps(t)
    /\ call'[t].obj = call[t].obj /\ call'[t].cb = call[t].cb /\ call'[t].arg = call[t].arg
    /\ call'[t].client = call[t].client /\ call'[t].pkt = call[t].pkt

\* A call returns, or goes on with what it has.
LEMMA Simple ==
    ASSUME Typed, [Next]_vars, NEW t \in Threads
    PROVE  /\ Return(t) => Alone(t) /\ call'[t] = Idle
           /\ \A pc : Goto(t, pc) => Same(t) /\ call'[t].pc = pc
  <1>1. call \in [Threads -> Calls] /\ call' \in [Threads -> Calls]
    BY StagesStep DEF Typed, TypeOK
  <1> QED BY <1>1 DEF Return, Goto, Becomes, Alone, Same, Keeps, Calls

\* A call that cannot be sent returns, or completes its stop.
LEMMA Failing ==
    ASSUME Typed, [Next]_vars, NEW t \in Threads, Fails(t)
    PROVE  \/ Alone(t) /\ call'[t] = Idle /\ call[t].op # Stopping
           \/ Same(t) /\ call'[t].pc = "complete_stop" /\ call[t].op = Stopping
  BY Simple DEF Fails

\* A start names the context its id stands for.
LEMMA StartsCall ==
    ASSUME Typed, [Next]_vars, NEW t \in Threads, NEW id \in Ids, ContextStart(t, id)
    PROVE  /\ Alone(t) /\ call[t] = Idle
           /\ call'[t].pc = "check" /\ call'[t].id = id /\ call'[t].obj = slots[id]
           /\ call'[t].op = Starting /\ call'[t].asker = None
  <1>1. call \in [Threads -> Calls] /\ call' \in [Threads -> Calls]
    BY StagesStep DEF Typed, TypeOK
  <1> QED BY <1>1 DEF ContextStart, Becomes, Alone, Idle

\* A stop names the context it is of, and looks for it again.
LEMMA StopsCall ==
    ASSUME Typed, [Next]_vars, NEW t \in Threads, NEW id \in Ids, ContextStop(t, id)
    PROVE  /\ Alone(t) /\ call[t] = Idle
           /\ call'[t].pc = "find" /\ call'[t].id = id /\ call'[t].asker = slots[id]
           /\ call'[t].op = Stopping
  <1>1. call \in [Threads -> Calls] /\ call' \in [Threads -> Calls]
    BY StagesStep DEF Typed, TypeOK
  <1> QED BY <1>1 DEF ContextStop, Becomes, Alone, Idle

\* A request of the game begins with the context of its id.
LEMMA RequestCall ==
    ASSUME Typed, [Next]_vars, NEW t \in Threads, NEW id \in Ids, NEW r \in Requests,
           Request(t, id, r)
    PROVE  /\ Alone(t) /\ call[t] = Idle
           /\ call'[t].pc = (IF r \in Own THEN "store_arg" ELSE "check")
           /\ call'[t].id = id /\ call'[t].obj = slots[id]
           /\ call'[t].op = r /\ call'[t].asker = None
  <1>1. call \in [Threads -> Calls] /\ call' \in [Threads -> Calls]
    BY StagesStep DEF Typed, TypeOK
  <1>2. PICK p : p = IF r \in Own THEN "store_arg" ELSE "check"
    OBVIOUS
  <1> QED BY <1>1, <1>2 DEF Request, Becomes, Alone, Idle

\* A stop goes on with the context that has its id.
LEMMA FindsCall ==
    ASSUME Typed, [Next]_vars, NEW t \in Threads, FindStopping(t)
    PROVE  /\ Keeps(t) /\ call[t].pc = "find" /\ call'[t].pc = "check"
           /\ call'[t].obj = slots[call[t].id]
  <1>1. call \in [Threads -> Calls] /\ call' \in [Threads -> Calls]
    BY StagesStep DEF Typed, TypeOK
  <1> QED BY <1>1 DEF FindStopping, Becomes, Keeps, Alone, Calls

\* A call goes on with the newest client, or fails.
LEMMA ChecksCall ==
    ASSUME Typed, [Next]_vars, NEW t \in Threads, CheckClient(t)
    PROVE  /\ call[t].pc = "check"
           /\ \/ /\ Keeps(t) /\ call'[t].pc = "consume" /\ call'[t].obj = call[t].obj
                 /\ lost' = lost
              \/ Fails(t)
  <1>1. call \in [Threads -> Calls] /\ call' \in [Threads -> Calls]
    BY StagesStep DEF Typed, TypeOK
  <1>2. CASE mm \in connected
    <2>1. call[t].pc = "check" /\ lost' = lost
          /\ Becomes(t, [call[t] EXCEPT !.pc = "consume", !.client = mm])
      BY <1>2 DEF CheckClient
    <2> QED BY <1>1, <2>1 DEF Becomes, Keeps, Alone, Calls
  <1>3. CASE mm \notin connected
    BY <1>3 DEF CheckClient
  <1> QED BY <1>2, <1>3

\* What is parked in the context of the id is taken along.
LEMMA TakesCallback ==
    ASSUME Typed, [Next]_vars, NEW t \in Threads, ConsumeCallback(t)
    PROVE  /\ call[t].pc = "consume" /\ Early(call[t]) /\ call[t] \in Calls
           /\ \/ /\ Alone(t) /\ lost' = lost
                 /\ slots[call[t].id] # None
                 /\ call'[t].id = call[t].id /\ call'[t].op = call[t].op
                 /\ call'[t].obj = slots[call[t].id]
                 /\ call'[t].cb = parked[slots[call[t].id]].cb /\ call'[t].arg = call[t].arg
                 /\ call[t].op = Stopping => call'[t].asker = call[t].asker
                 /\ call'[t].pc = IF parked[slots[call[t].id]].cb # None THEN "read_arg"
                                  ELSE Submits(call[t].op)
              \/ Fails(t) /\ raced' = raced
  <1>1. call \in [Threads -> Calls] /\ call' \in [Threads -> Calls]
    BY StagesStep DEF Typed, TypeOK
  <1>2. call[t].pc = "consume" /\ Early(call[t])
    BY CallsKnown DEF ConsumeCallback, Stage
  <1>3. CASE slots[call[t].id] = None
    BY <1>1, <1>2, <1>3 DEF ConsumeCallback
  <1>4. CASE slots[call[t].id] # None
    <2>1. PICK o : o = slots[call[t].id]
      OBVIOUS
    <2>2. PICK p : p = IF parked[o].cb # None THEN "read_arg" ELSE Submits(call[t].op)
      OBVIOUS
    <2>3. PICK a : a = IF call[t].op = Stopping THEN call[t].asker ELSE o
      OBVIOUS
    <2>4. lost' = lost
          /\ Becomes(t, [call[t] EXCEPT !.obj = o, !.cb = parked[o].cb, !.asker = a, !.pc = p])
      BY <1>4, <2>1, <2>2, <2>3 DEF ConsumeCallback
    <2> QED BY <1>1, <1>2, <1>4, <2>1, <2>2, <2>3, <2>4 DEF Becomes, Alone, Calls
  <1> QED BY <1>3, <1>4

\* Then its argument.
LEMMA TakesArgument ==
    ASSUME Typed, [Next]_vars, NEW t \in Threads, ConsumeArgument(t)
    PROVE  /\ Keeps(t) /\ call[t].pc = "read_arg" /\ call'[t].pc = Submits(call[t].op)
           /\ call'[t].obj = call[t].obj /\ call'[t].cb = call[t].cb
           /\ call'[t].arg = parked[call[t].obj].arg
  <1>1. call \in [Threads -> Calls] /\ call' \in [Threads -> Calls]
    BY StagesStep DEF Typed, TypeOK
  <1>2. PICK p : p = Submits(call[t].op)
    OBVIOUS
  <1>3. PICK a : a = parked[call[t].obj].arg
    OBVIOUS
  <1> QED BY <1>1, <1>2, <1>3 DEF ConsumeArgument, Becomes, Keeps, Alone, Calls

\* A packet gets the next number of its client.
LEMMA SubmitsCall ==
    ASSUME Typed, [Next]_vars, NEW t \in Threads, SubmitRequest(t)
    PROVE  /\ Keeps(t) /\ call[t].pc = "submit" /\ call'[t].pc = "register"
           /\ call'[t].obj = call[t].obj /\ call'[t].cb = call[t].cb /\ call'[t].arg = call[t].arg
           /\ call'[t].client = call[t].client
           /\ call'[t].pkt = counter[call[t].client] + 1
  <1>1. call \in [Threads -> Calls] /\ call' \in [Threads -> Calls]
    BY StagesStep DEF Typed, TypeOK
  <1> QED BY <1>1 DEF SubmitRequest, Becomes, Keeps, Alone, Calls

-----------------------------------------------------------------------------
(* A request is told to the callback its call brought.                     *)

\* What a thread counts on stays, while nothing else is parked there.
LEMMA ParksStay ==
    ASSUME NEW x, Parks(x), raced \subseteq raced',
           x.op \in Requests \ raced' /\ x.pc \in Parking => parked'[x.obj] = parked[x.obj]
    PROVE  Parks(x)'
  BY DEF Parks, Carries, Parking

\* A step of one thread that leaves what is parked for the others
LEMMA OthersPark ==
    ASSUME Callbacks, NEW t \in Threads, Alone(t), raced \subseteq raced',
           \A u \in Threads \ {t} : call[u].op \in Requests \ raced' /\ call[u].pc \in Parking =>
               parked'[call[u].obj] = parked[call[u].obj],
           Parks(call[t])'
    PROVE  (\A u \in Threads : Parks(call[u]))'
  <1>1. SUFFICES ASSUME NEW u \in Threads, u # t PROVE Parks(call[u])'
    OBVIOUS
  <1>2. PICK x : x = call[u]
    OBVIOUS
  <1>3. Parks(x)
    BY <1>2 DEF Callbacks
  <1>4. Parks(x)'
    BY <1>1, <1>2, <1>3, ParksStay
  <1>5. x = call'[u]
    BY <1>1, <1>2 DEF Alone
  <1> QED BY <1>4, <1>5 DEF Parks, Carries

\* Who reads or writes what is parked in a context is not alone only if all are known to race.
LEMMA RaceOthers ==
    ASSUME NEW t, NEW op, NEW o, Races(t, op, o)
    PROVE  /\ raced \subseteq raced'
           /\ \A u \in Threads \ {t} :
                call[u].op \in Requests \ raced' /\ call[u].pc \in Parking => call[u].obj # o
  <1>1. raced \subseteq raced'
    BY DEF Races
  <1>2. ASSUME NEW u \in Threads \ {t}, call[u].op \in Requests \ raced', call[u].pc \in Parking,
               call[u].obj = o
        PROVE  FALSE
    <2>1. u \in Others(t, o)
      BY <1>2 DEF Others
    <2>2. call[u].op \in {call[v].op : v \in Others(t, o)}
      BY <2>1
    <2> QED BY <1>2, <2>1, <2>2 DEF Races
  <1> QED BY <1>1, <1>2

\* Every thread finds what it parked, unless another touched it.
LEMMA CallsPark ==
    ASSUME Typed, Callbacks, [Next]_vars
    PROVE  (\A u \in Threads : Parks(call[u]))'
  <1>1. ASSUME NEW t \in Threads, NEW o \in Objects, CreateContext(t, o)
       PROVE  (\A u \in Threads : Parks(call[u]))'
    <2>1. Alone(t) /\ call'[t].op = None /\ parked' = parked /\ raced' = raced
      BY <1>1, Simple, CallsKnown DEF CreateContext, stateVars, Stage, Free, Idle, Same, Keeps
    <2>2. Parks(call[t])'
      BY <2>1, Matching2Assumption DEF Parks
    <2> QED BY <2>1, <2>2, OthersPark
  <1>2. ASSUME NEW t \in Threads, AddContextRef(t)
       PROVE  (\A u \in Threads : Parks(call[u]))'
    <2>1. Alone(t) /\ call'[t].op = None /\ parked' = parked /\ raced' = raced
      BY <1>2, Simple DEF AddContextRef, Idle
    <2>2. Parks(call[t])'
      BY <2>1, Matching2Assumption DEF Parks
    <2> QED BY <2>1, <2>2, OthersPark
  <1>3. ASSUME NEW t \in Threads, ReleaseContextRef(t)
       PROVE  (\A u \in Threads : Parks(call[u]))'
    <2>1. Alone(t) /\ call'[t].op = None /\ parked' = parked /\ raced' = raced
      BY <1>3, Simple DEF ReleaseContextRef, Idle
    <2>2. Parks(call[t])'
      BY <2>1, Matching2Assumption DEF Parks
    <2> QED BY <2>1, <2>2, OthersPark
  <1>4. ASSUME NEW t \in Threads, NEW id \in Ids, DestroyContext(t, id)
       PROVE  (\A u \in Threads : Parks(call[u]))'
    <2>1. Alone(t) /\ call'[t].op = None /\ parked' = parked /\ raced' = raced
      BY <1>4, Simple, CallsKnown DEF DestroyContext, stateVars, Stage, Free, Idle, Same, Keeps
    <2>2. Parks(call[t])'
      BY <2>1, Matching2Assumption DEF Parks
    <2> QED BY <2>1, <2>2, OthersPark
  <1>5. ASSUME NEW t \in Threads, NEW id \in Ids, ContextStart(t, id)
       PROVE  (\A u \in Threads : Parks(call[u]))'
    <2>1. Alone(t) /\ call'[t].op \notin Requests /\ parked' = parked /\ raced' = raced
      BY <1>5, StartsCall, Matching2Assumption DEF ContextStart, Keeps
    <2>2. Parks(call[t])'
      BY <2>1 DEF Parks
    <2> QED BY <2>1, <2>2, OthersPark
  <1>6. ASSUME NEW t \in Threads, NEW id \in Ids, ContextStop(t, id)
       PROVE  (\A u \in Threads : Parks(call[u]))'
    <2>1. Alone(t) /\ call'[t].op \notin Requests /\ parked' = parked /\ raced' = raced
      BY <1>6, StopsCall, Matching2Assumption DEF ContextStop, Keeps
    <2>2. Parks(call[t])'
      BY <2>1 DEF Parks
    <2> QED BY <2>1, <2>2, OthersPark
  <1>7. ASSUME NEW t \in Threads, FindStopping(t)
       PROVE  (\A u \in Threads : Parks(call[u]))'
    <2>1. Alone(t) /\ parked' = parked /\ raced' = raced
      BY <1>7, FindsCall DEF FindStopping, Keeps
    <2>2. call'[t].op = Stopping
      BY <1>7, FindsCall, CallsKnown DEF FindStopping, Keeps, Stage
    <2>3. Parks(call[t])'
      BY <2>2, Matching2Assumption DEF Parks
    <2> QED BY <2>1, <2>3, OthersPark
  <1>8. ASSUME NEW t \in Threads, StopAtOnce(t)
       PROVE  (\A u \in Threads : Parks(call[u]))'
    <2>1. Alone(t) /\ call'[t].op = None /\ parked' = parked /\ raced' = raced
      BY <1>8, Simple DEF StopAtOnce, Idle
    <2>2. Parks(call[t])'
      BY <2>1, Matching2Assumption DEF Parks
    <2> QED BY <2>1, <2>2, OthersPark
  <1>9. ASSUME NEW t \in Threads, NEW id \in Ids, NEW r \in Requests, Request(t, id, r)
       PROVE  (\A u \in Threads : Parks(call[u]))'
    <2>1. slots[id] \in Objects /\ parked \in [Objects -> [cb : Own \cup {None}, arg : Own \cup {None}]]
      BY <1>9 DEF Request, Typed, TypeOK
    <2>2. PICK o : o = slots[id]
      OBVIOUS
    <2>3. PICK c : c = IF r \in Own THEN r ELSE None
      OBVIOUS
    <2>4. parked' = [parked EXCEPT ![o] = [cb |-> c, arg |-> None]]
      <3>1. [Nothing EXCEPT !.cb = c] = [cb |-> c, arg |-> None]
        BY DEF Nothing
      <3>2. parked' = [parked EXCEPT ![o] = [Nothing EXCEPT !.cb = c]]
        BY <1>9, <2>2, <2>3 DEF Request, Park
      <3> QED BY <3>1, <3>2
    <2>5. parked'[o].cb = c /\ parked'[o].arg = None /\ \A q \in Objects \ {o} : parked'[q] = parked[q]
      BY <2>1, <2>2, <2>4
    <2>6. Alone(t) /\ call'[t].op = r /\ call'[t].obj = o /\ call'[t].pc = IF r \in Own THEN "store_arg" ELSE "check"
      BY <1>9, <2>2, RequestCall
    <2>7. Parks(call[t])'
      BY <2>3, <2>5, <2>6, Matching2Assumption DEF Parks, OwnOf
    <2>8. Races(t, r, o)
      BY <1>9, <2>2 DEF Request
    <2>9. ASSUME NEW u \in Threads \ {t}, call[u].op \in Requests \ raced', call[u].pc \in Parking
          PROVE  parked'[call[u].obj] = parked[call[u].obj]
      <3>1. call[u].obj # o
        BY <2>8, <2>9, RaceOthers
      <3>2. call[u].obj \in Objects
        BY <2>9, CallsKnown, Matching2Assumption DEF Stage, Parking, Early, Taken, Typed, TypeOK
      <3> QED BY <2>5, <3>1, <3>2
    <2> QED BY <2>6, <2>7, <2>8, <2>9, RaceOthers, OthersPark
  <1>10. ASSUME NEW t \in Threads, StoreArgument(t)
       PROVE  (\A u \in Threads : Parks(call[u]))'
    <2>1. /\ Early(call[t]) /\ call[t].op \in Own /\ call[t].pc = "store_arg" /\ Same(t)
          /\ call'[t].pc = "check"
      BY <1>10, CallsKnown, Simple DEF StoreArgument, Stage
    <2>2. PICK o : o = call[t].obj
      OBVIOUS
    <2>3. o \in Objects /\ parked \in [Objects -> [cb : Own \cup {None}, arg : Own \cup {None}]]
      BY <2>1, <2>2, Matching2Assumption DEF Early, Typed, TypeOK
    <2>5. parked'[o].cb = parked[o].cb /\ parked'[o].arg = call[t].op /\ \A q \in Objects \ {o} : parked'[q] = parked[q]
      BY <1>10, <2>2, <2>3 DEF StoreArgument
    <2>8. Races(t, call[t].op, o)
      BY <1>10, <2>2 DEF StoreArgument
    <2>6. Parks(call[t])
      BY DEF Callbacks
    <2>7. Parks(call[t])'
      BY <2>1, <2>2, <2>5, <2>6, <2>8, RaceOthers DEF Parks, OwnOf, Same, Keeps
    <2>9. ASSUME NEW u \in Threads \ {t}, call[u].op \in Requests \ raced', call[u].pc \in Parking
          PROVE  parked'[call[u].obj] = parked[call[u].obj]
      <3>1. call[u].obj # o
        BY <2>8, <2>9, RaceOthers
      <3>2. call[u].obj \in Objects
        BY <2>9, CallsKnown, Matching2Assumption DEF Stage, Parking, Early, Taken, Typed, TypeOK
      <3> QED BY <2>5, <3>1, <3>2
    <2> QED BY <2>1, <2>7, <2>8, <2>9, RaceOthers, OthersPark DEF Same, Keeps
  <1>11. ASSUME NEW t \in Threads, CheckClient(t)
       PROVE  (\A u \in Threads : Parks(call[u]))'
    <2>1. parked' = parked /\ raced' = raced
      BY <1>11 DEF CheckClient
    <2>f. CASE Fails(t)
      <3>1. Alone(t) /\ call'[t].op \notin Requests
        BY <2>f, Failing, Matching2Assumption DEF Same, Keeps, Idle
      <3>2. Parks(call[t])'
        BY <3>1 DEF Parks
      <3> QED BY <2>1, <3>1, <3>2, OthersPark
    <2>2. CASE ~Fails(t)
      <3>1. Keeps(t) /\ call[t].pc = "check" /\ call'[t].pc = "consume" /\ call'[t].obj = call[t].obj
        BY <1>11, <2>2, ChecksCall
      <3>2. Parks(call[t])
        BY DEF Callbacks
      <3>3. Parks(call[t])'
        BY <2>1, <3>1, <3>2 DEF Parks, Keeps
      <3> QED BY <2>1, <3>1, <3>3, OthersPark DEF Keeps
    <2> QED BY <2>f, <2>2
  <1>12. ASSUME NEW t \in Threads, ConsumeCallback(t)
       PROVE  (\A u \in Threads : Parks(call[u]))'
    <2>1. parked' = parked /\ raced \subseteq raced'
      BY <1>12 DEF ConsumeCallback, Races
    <2>f. CASE Fails(t)
      <3>1. Alone(t) /\ call'[t].op \notin Requests
        BY <2>f, Failing, Matching2Assumption DEF Same, Keeps, Idle
      <3>2. Parks(call[t])'
        BY <3>1 DEF Parks
      <3> QED BY <2>1, <3>1, <3>2, OthersPark
    <2>2. CASE ~Fails(t)
      <3>1. PICK o : o = slots[call[t].id]
        OBVIOUS
      <3>2. /\ Alone(t) /\ call'[t].op = call[t].op /\ call'[t].obj = o /\ o # None
            /\ call'[t].cb = parked[o].cb /\ call'[t].arg = call[t].arg
            /\ call[t].pc = "consume" /\ Early(call[t])
            /\ call'[t].pc = IF parked[o].cb # None THEN "read_arg" ELSE Submits(call[t].op)
        BY <1>12, <2>2, <3>1, TakesCallback
      <3>3. Parks(call[t])
        BY DEF Callbacks
      <3>4. ASSUME o = call[t].obj PROVE Parks(call[t])'
        <4>1. call'[t].op \in Requests \ raced' => parked'[o].cb = OwnOf(call[t].op) /\ parked'[o].arg = OwnOf(call[t].op)
          BY <2>1, <3>2, <3>3, <3>4 DEF Parks
        <4>2. call'[t].op \in Requests \ raced' =>
                  call'[t].cb = OwnOf(call[t].op) /\ (parked[o].cb = None => call'[t].arg = OwnOf(call[t].op))
          BY <2>1, <3>2, <4>1 DEF Early, Empty
        <4>3. CASE parked[o].cb = None
          <5>1. call'[t].pc \in {"submit", "answer"}
            BY <3>2, <4>3 DEF Submits
          <5>2. Carries(call[t])'
            BY <3>2, <4>2, <4>3 DEF Carries
          <5> QED BY <5>1, <5>2 DEF Parks
        <4>4. CASE parked[o].cb # None
          <5>1. call'[t].pc = "read_arg"
            BY <3>2, <4>4
          <5>2. call'[t].op = call[t].op /\ call'[t].obj = o
            BY <3>2
          <5> QED BY <4>1, <4>2, <5>1, <5>2 DEF Parks
        <4> QED BY <4>3, <4>4
      <3>5. ASSUME o # call[t].obj PROVE Parks(call[t])'
        <4>1. call'[t].op \in Requests => call'[t].op \in raced'
          <5>1. raced' = raced \cup (({call[t].op} \cup {call[u].op : u \in Others(t, o)}) \cap Requests)
            BY <1>12, <2>2, <3>1, <3>2, <3>5 DEF ConsumeCallback
          <5>2. PICK S : S = {call[u].op : u \in Others(t, o)}
            OBVIOUS
          <5>3. raced' = raced \cup (({call[t].op} \cup S) \cap Requests)
            BY <5>1, <5>2
          <5>4. call'[t].op = call[t].op
            BY <3>2
          <5> QED BY <5>3, <5>4
        <4> QED BY <4>1 DEF Parks
      <3>6. Parks(call[t])'
        BY <3>4, <3>5
      <3> QED BY <2>1, <3>2, <3>6, OthersPark
    <2> QED BY <2>f, <2>2
  <1>13. ASSUME NEW t \in Threads, ConsumeArgument(t)
       PROVE  (\A u \in Threads : Parks(call[u]))'
    <2>1. PICK o : o = call[t].obj
      OBVIOUS
    <2>2. /\ Keeps(t) /\ call[t].pc = "read_arg" /\ call'[t].pc = Submits(call[t].op)
          /\ call'[t].cb = call[t].cb /\ call'[t].arg = parked[o].arg
      BY <1>13, <2>1, TakesArgument
    <2>3. o \in Objects /\ parked \in [Objects -> [cb : Own \cup {None}, arg : Own \cup {None}]]
      BY <2>1, <2>2, CallsKnown DEF Stage, Taken, Typed, TypeOK
    <2>5. \A q \in Objects \ {o} : parked'[q] = parked[q]
      BY <1>13, <2>1, <2>3 DEF ConsumeArgument, Unpark
    <2>8. Races(t, call[t].op, o)
      BY <1>13, <2>1 DEF ConsumeArgument
    <2>6. Parks(call[t])
      BY DEF Callbacks
    <2>7. Parks(call[t])'
      <3>1. call'[t].op \in Requests \ raced' =>
              call'[t].cb = OwnOf(call'[t].op) /\ call'[t].arg = OwnOf(call'[t].op)
        BY <2>1, <2>2, <2>6, <2>8, RaceOthers DEF Parks, Keeps
      <3> QED BY <2>2, <3>1 DEF Parks, Carries, Submits
    <2>9. ASSUME NEW u \in Threads \ {t}, call[u].op \in Requests \ raced', call[u].pc \in Parking
          PROVE  parked'[call[u].obj] = parked[call[u].obj]
      <3>1. call[u].obj # o
        BY <2>8, <2>9, RaceOthers
      <3>2. call[u].obj \in Objects
        BY <2>9, CallsKnown, Matching2Assumption DEF Stage, Parking, Early, Taken, Typed, TypeOK
      <3> QED BY <2>5, <3>1, <3>2
    <2> QED BY <2>2, <2>7, <2>8, <2>9, RaceOthers, OthersPark DEF Keeps
  <1>14. ASSUME NEW t \in Threads, AnswerInCall(t)
       PROVE  (\A u \in Threads : Parks(call[u]))'
    <2>1. Alone(t) /\ call'[t].op = None /\ parked' = parked /\ raced' = raced
      BY <1>14, Simple DEF AnswerInCall, Idle
    <2>2. Parks(call[t])'
      BY <2>1, Matching2Assumption DEF Parks
    <2> QED BY <2>1, <2>2, OthersPark
  <1>15. ASSUME NEW t \in Threads, SubmitRequest(t)
       PROVE  (\A u \in Threads : Parks(call[u]))'
    <2>1. /\ Keeps(t) /\ call[t].pc = "submit" /\ call'[t].pc = "register"
          /\ call'[t].cb = call[t].cb /\ call'[t].arg = call[t].arg
          /\ parked' = parked /\ raced' = raced
      BY <1>15, SubmitsCall DEF SubmitRequest
    <2>2. Parks(call[t])
      BY DEF Callbacks
    <2>3. Parks(call[t])'
      BY <2>1, <2>2 DEF Parks, Carries, Keeps
    <2> QED BY <2>1, <2>3, OthersPark DEF Keeps
  <1>16. ASSUME NEW t \in Threads, Register(t)
       PROVE  (\A u \in Threads : Parks(call[u]))'
    <2>1. Alone(t) /\ call'[t].op = None /\ parked' = parked /\ raced' = raced
      BY <1>16, Simple DEF Register, Idle
    <2>2. Parks(call[t])'
      BY <2>1, Matching2Assumption DEF Parks
    <2> QED BY <2>1, <2>2, OthersPark
  <1>17. ASSUME NEW t \in Threads, TermEventDispatcher(t)
       PROVE  (\A u \in Threads : Parks(call[u]))'
    <2>1. Alone(t) /\ call'[t].op = None /\ parked' = parked /\ raced' = raced
      BY <1>17, Simple, CallsKnown DEF TermEventDispatcher, stateVars, Stage, Free, Idle, Same, Keeps
    <2>2. Parks(call[t])'
      BY <2>1, Matching2Assumption DEF Parks
    <2> QED BY <2>1, <2>2, OthersPark
  <1>18. ASSUME NEW t \in Threads, Reset(t)
       PROVE  (\A u \in Threads : Parks(call[u]))'
    <2>1. Alone(t) /\ call'[t].op = None /\ parked' = parked /\ raced' = raced
      BY <1>18, Simple, CallsKnown DEF Reset, stateVars, Stage, Free, Idle, Same, Keeps
    <2>2. Parks(call[t])'
      BY <2>1, Matching2Assumption DEF Parks
    <2> QED BY <2>1, <2>2, OthersPark
  <1>19. ASSUME NEW t \in Threads, Terminate(t)
       PROVE  (\A u \in Threads : Parks(call[u]))'
    <2>1. Alone(t) /\ call'[t].op = None /\ parked' = parked /\ raced' = raced
      BY <1>19, Simple, CallsKnown DEF Terminate, stateVars, Stage, Free, Idle, Same, Keeps
    <2>2. Parks(call[t])'
      BY <2>1, Matching2Assumption DEF Parks
    <2> QED BY <2>1, <2>2, OthersPark
  <1>20. ASSUME NEW c \in Clients, DispatchRequestComplete(c)
       PROVE  (\A u \in Threads : Parks(call[u]))'
    BY <1>20 DEF DispatchRequestComplete, vars, Callbacks, Parks, Carries
  <1>21. ASSUME NEW p \in inFlight, OnMatching2Reply(p)
       PROVE  (\A u \in Threads : Parks(call[u]))'
    BY <1>21 DEF OnMatching2Reply, vars, Callbacks, Parks, Carries
  <1>22. ASSUME NEW c \in Clients, LoseConnection(c)
       PROVE  (\A u \in Threads : Parks(call[u]))'
    BY <1>22 DEF LoseConnection, vars, Callbacks, Parks, Carries
  <1>23. ASSUME SetMmShadNetClient
       PROVE  (\A u \in Threads : Parks(call[u]))'
    BY <1>23 DEF SetMmShadNetClient, vars, Callbacks, Parks, Carries
  <1>24. ASSUME FireEvent
       PROVE  (\A u \in Threads : Parks(call[u]))'
    BY <1>24 DEF FireEvent, vars, Callbacks, Parks, Carries
  <1>25. ASSUME CompleteStop
       PROVE  (\A u \in Threads : Parks(call[u]))'
    BY <1>25 DEF CompleteStop, vars, Callbacks, Parks, Carries
  <1>26. ASSUME Initialize
       PROVE  (\A u \in Threads : Parks(call[u]))'
    BY <1>26 DEF Initialize, vars, Callbacks, Parks, Carries
  <1>27. CASE UNCHANGED vars
    BY <1>27 DEF vars, vars, Callbacks, Parks, Carries
  <1> QED
    BY <1>1, <1>2, <1>3, <1>4, <1>5, <1>6, <1>7, <1>8, <1>9, <1>10, <1>11, <1>12, <1>13, <1>14, <1>15, <1>16, <1>17, <1>18, <1>19, <1>20, <1>21, <1>22, <1>23, <1>24, <1>25, <1>26, <1>27 DEF Next, CallStep, ReaderStep, DispatcherStep

\* What was taken is carried to the event.
LEMMA CarriedOn ==
    ASSUME Typed, Callbacks, [Next]_vars
    PROVE  Carried'
  <1>1. ASSUME NEW t \in Threads, NEW o \in Objects, CreateContext(t, o)
       PROVE  Carried'
    BY <1>1 DEF CreateContext, vars, packetVars, eventVars, Races, Callbacks, Carried, Carries
  <1>2. ASSUME NEW t \in Threads, AddContextRef(t)
       PROVE  Carried'
    BY <1>2 DEF AddContextRef, vars, packetVars, eventVars, Races, Callbacks, Carried, Carries
  <1>3. ASSUME NEW t \in Threads, ReleaseContextRef(t)
       PROVE  Carried'
    BY <1>3 DEF ReleaseContextRef, vars, packetVars, eventVars, Races, Callbacks, Carried, Carries
  <1>4. ASSUME NEW t \in Threads, NEW id \in Ids, DestroyContext(t, id)
       PROVE  Carried'
    BY <1>4 DEF DestroyContext, vars, packetVars, eventVars, Races, Callbacks, Carried, Carries
  <1>5. ASSUME NEW t \in Threads, NEW id \in Ids, ContextStart(t, id)
       PROVE  Carried'
    BY <1>5 DEF ContextStart, vars, packetVars, eventVars, Races, Callbacks, Carried, Carries
  <1>6. ASSUME NEW t \in Threads, NEW id \in Ids, ContextStop(t, id)
       PROVE  Carried'
    BY <1>6 DEF ContextStop, vars, packetVars, eventVars, Races, Callbacks, Carried, Carries
  <1>7. ASSUME NEW t \in Threads, FindStopping(t)
       PROVE  Carried'
    BY <1>7 DEF FindStopping, vars, packetVars, eventVars, Races, Callbacks, Carried, Carries
  <1>8. ASSUME NEW t \in Threads, StopAtOnce(t)
       PROVE  Carried'
    BY <1>8 DEF StopAtOnce, vars, packetVars, eventVars, Races, Callbacks, Carried, Carries
  <1>9. ASSUME NEW t \in Threads, NEW id \in Ids, NEW r \in Requests, Request(t, id, r)
       PROVE  Carried'
    BY <1>9 DEF Request, vars, packetVars, eventVars, Races, Callbacks, Carried, Carries
  <1>10. ASSUME NEW t \in Threads, StoreArgument(t)
       PROVE  Carried'
    BY <1>10 DEF StoreArgument, vars, packetVars, eventVars, Races, Callbacks, Carried, Carries
  <1>11. ASSUME NEW t \in Threads, CheckClient(t)
       PROVE  Carried'
    BY <1>11 DEF CheckClient, vars, packetVars, eventVars, Races, Callbacks, Carried, Carries
  <1>12. ASSUME NEW t \in Threads, ConsumeCallback(t)
       PROVE  Carried'
    BY <1>12 DEF ConsumeCallback, vars, packetVars, eventVars, Races, Callbacks, Carried, Carries
  <1>13. ASSUME NEW t \in Threads, ConsumeArgument(t)
       PROVE  Carried'
    BY <1>13 DEF ConsumeArgument, vars, packetVars, eventVars, Races, Callbacks, Carried, Carries
  <1>14. ASSUME NEW t \in Threads, AnswerInCall(t)
       PROVE  Carried'
    <2>r. raced' = raced
      BY <1>14 DEF AnswerInCall
    <2>1. PICK e : e = Event(Entry(t), call[t].obj)
      OBVIOUS
    <2>2. e.op = call[t].op /\ e.cb = call[t].cb /\ e.arg = call[t].arg
      BY <2>1 DEF Event, Entry
    <2>3. Carries(call[t])
      BY <1>14 DEF AnswerInCall, Callbacks, Parks, Carries
    <2>4. queue' = Append(queue, e)
      BY <1>14, <2>1 DEF AnswerInCall
    <2>5. \A i \in 1 .. Len(queue') : queue'[i] = e \/ (i \in 1 .. Len(queue) /\ queue'[i] = queue[i])
      BY <2>4 DEF Typed, TypeOK
    <2> QED BY <1>14, <2>r, <2>2, <2>3, <2>5 DEF AnswerInCall, packetVars, Callbacks, Carried, Carries
  <1>15. ASSUME NEW t \in Threads, SubmitRequest(t)
       PROVE  Carried'
    BY <1>15 DEF SubmitRequest, vars, packetVars, eventVars, Races, Callbacks, Carried, Carries
  <1>16. ASSUME NEW t \in Threads, Register(t)
       PROVE  Carried'
    <2>r. raced' = raced
      BY <1>16 DEF Register
    <2>1. PICK e : e = Entry(t)
      OBVIOUS
    <2>2. e.op = call[t].op /\ e.cb = call[t].cb /\ e.arg = call[t].arg
      BY <2>1 DEF Entry
    <2>3. Carries(call[t])
      BY <1>16 DEF Register, Callbacks, Parks, Carries
    <2>4. \A n \in 1 .. MaxPkt : pending'[n] = e \/ pending'[n] = pending[n]
      BY <1>16, <2>1 DEF Register, Typed, TypeOK
    <2> QED BY <1>16, <2>r, <2>2, <2>3, <2>4 DEF Register, eventVars, Callbacks, Carried, Carries
  <1>17. ASSUME NEW t \in Threads, TermEventDispatcher(t)
       PROVE  Carried'
    <2>1. pending' = pending /\ reader' = reader /\ raced' = raced /\ queue' = <<>>
      BY <1>17 DEF TermEventDispatcher, packetVars
    <2> QED BY <2>1 DEF Callbacks, Carried, Carries
  <1>18. ASSUME NEW t \in Threads, Reset(t)
       PROVE  Carried'
    BY <1>18 DEF Reset, vars, packetVars, eventVars, Races, Callbacks, Carried, Carries
  <1>19. ASSUME NEW t \in Threads, Terminate(t)
       PROVE  Carried'
    BY <1>19 DEF Terminate, vars, packetVars, eventVars, Races, Callbacks, Carried, Carries
  <1>20. ASSUME NEW c \in Clients, DispatchRequestComplete(c)
       PROVE  Carried'
    <2>r. raced' = raced
      BY <1>20 DEF DispatchRequestComplete
    <2>1. PICK e : e = reader[c]
      OBVIOUS
    <2>2. PICK f : f = Event(e, slots[e.id])
      OBVIOUS
    <2>3. f.op = e.op /\ f.cb = e.cb /\ f.arg = e.arg
      BY <2>2 DEF Event
    <2>4. Carries(e)
      BY <1>20, <2>1 DEF DispatchRequestComplete, Callbacks, Carried
    <2>5. queue' = queue \/ queue' = Append(queue, f)
      BY <1>20, <2>1, <2>2 DEF DispatchRequestComplete, Recipient
    <2>6. \A i \in 1 .. Len(queue') : queue'[i] = f \/ (i \in 1 .. Len(queue) /\ queue'[i] = queue[i])
      <3>1. queue \in Seq(Events)
        BY DEF Typed, TypeOK
      <3> QED BY <2>5, <3>1
    <2>7. pending' = pending /\ \A d \in Clients : reader'[d] = None \/ reader'[d] = reader[d]
      BY <1>20 DEF DispatchRequestComplete, Typed, TypeOK
    <2> QED BY <2>r, <2>3, <2>4, <2>6, <2>7 DEF Callbacks, Carried, Carries
  <1>21. ASSUME NEW p \in inFlight, OnMatching2Reply(p)
       PROVE  Carried'
    <2>r. raced' = raced
      BY <1>21 DEF OnMatching2Reply
    <2>1. p.client \in Clients /\ p.pkt \in 1 .. MaxPkt
      BY <1>21 DEF Typed, TypeOK, Packets
    <2>2. \A n \in 1 .. MaxPkt : pending'[n] = None \/ pending'[n] = pending[n]
      BY <1>21 DEF OnMatching2Reply, TakeEntry, Typed, TypeOK
    <2>3. \A d \in Clients : reader'[d] = reader[d] \/ (reader'[d] = pending[p.pkt] /\ pending[p.pkt] # None)
      BY <1>21, <2>1 DEF OnMatching2Reply, Typed, TypeOK
    <2>4. queue' = queue
      BY <1>21 DEF OnMatching2Reply, eventVars
    <2> QED BY <2>r, <2>1, <2>2, <2>3, <2>4 DEF Callbacks, Carried, Carries
  <1>22. ASSUME NEW c \in Clients, LoseConnection(c)
       PROVE  Carried'
    BY <1>22 DEF LoseConnection, vars, packetVars, eventVars, Races, Callbacks, Carried, Carries
  <1>23. ASSUME SetMmShadNetClient
       PROVE  Carried'
    BY <1>23 DEF SetMmShadNetClient, vars, packetVars, eventVars, Races, Callbacks, Carried, Carries
  <1>24. ASSUME FireEvent
       PROVE  Carried'
    <2>1. pending' = pending /\ reader' = reader /\ raced' = raced
      BY <1>24 DEF FireEvent, packetVars
    <2>2. \A i \in 1 .. Len(queue') : i + 1 \in 1 .. Len(queue) /\ queue'[i] = queue[i + 1]
      BY <1>24 DEF FireEvent, Typed, TypeOK
    <2> QED BY <2>1, <2>2 DEF Callbacks, Carried, Carries
  <1>25. ASSUME CompleteStop
       PROVE  Carried'
    BY <1>25 DEF CompleteStop, vars, packetVars, eventVars, Races, Callbacks, Carried, Carries
  <1>26. ASSUME Initialize
       PROVE  Carried'
    BY <1>26 DEF Initialize, vars, packetVars, eventVars, Races, Callbacks, Carried, Carries
  <1>27. CASE UNCHANGED vars
    BY <1>27 DEF vars, vars, packetVars, eventVars, Races, Callbacks, Carried, Carries
  <1> QED
    BY <1>1, <1>2, <1>3, <1>4, <1>5, <1>6, <1>7, <1>8, <1>9, <1>10, <1>11, <1>12, <1>13, <1>14, <1>15, <1>16, <1>17, <1>18, <1>19, <1>20, <1>21, <1>22, <1>23, <1>24, <1>25, <1>26, <1>27 DEF Next, CallStep, ReaderStep, DispatcherStep

\* What is parked and carried is right throughout.
LEMMA CallbacksHold ==
    /\ Init => Callbacks
    /\ Typed /\ Callbacks /\ [Next]_vars => Callbacks'
  <1>1. ASSUME Init PROVE Callbacks
    <2>1. \A t \in Threads : call[t].op = None
      BY <1>1 DEF Init, Idle
    <2> QED BY <1>1, <2>1, Matching2Assumption DEF Init, Callbacks, Carried, Parks
  <1>2. ASSUME Typed, Callbacks, [Next]_vars PROVE Callbacks'
    BY <1>2, CallsPark, CarriedOn DEF Callbacks
  <1> QED BY <1>1, <1>2

\* The reply to a request goes to the callback its call brought, with its argument, or to
\* the default callback, unless two calls touched what is parked in a context at a time.
THEOREM OwnCallbackHolds == Spec => []OwnCallback
  <1>1. Typed /\ Callbacks => OwnCallback
    BY DEF Callbacks, Carried, Carries, OwnOf, OwnCallback
  <1> QED BY <1>1, TypedHolds, CallbacksHold, PTL DEF Spec

-----------------------------------------------------------------------------
(* An operation is in one place at a time.                                 *)

\* A step that moves nothing to a new place
LEMMA FewerPlaces ==
    ASSUME NEW k, OnePlace(k),
           \A u \in Threads : AtCall(u, k)' => AtCall(u, k),
           \A n \in 1 .. MaxPkt : AtEntry(n, k)' => AtEntry(n, k),
           \A c \in Clients : AtReader(c, k)' => AtReader(c, k),
           \A i \in 1 .. Len(queue') : i \in 1 .. Len(queue) /\ queue'[i] = queue[i],
           Ended(k)' => Ended(k)
    PROVE  OnePlace(k)'
  <1>1. \A i \in 1 .. Len(queue') : i \in 1 .. Len(queue) /\ (AtQueue(i, k)' => AtQueue(i, k))
    BY DEF AtQueue
  <1> QED BY <1>1 DEF OnePlace

\* An operation that nobody has heard of
Unplaced(k) == ~SomePlace(k) /\ k \notin answered

\* A new operation has its first place in its call.
LEMMA FirstPlace ==
    ASSUME NEW k, Unplaced(k), NEW t \in Threads, Alone(t),
           UNCHANGED <<pending, reader, queue, firing, answered>>
    PROVE  OnePlace(k)'
  <1>1. \A u \in Threads : AtCall(u, k)' => u = t
    BY DEF Unplaced, SomePlace, AtCall, Tok, Alone
  <1>2. (\A n \in 1 .. MaxPkt : ~AtEntry(n, k))' /\ (\A c \in Clients : ~AtReader(c, k))'
        /\ (\A i \in 1 .. Len(queue) : ~AtQueue(i, k))' /\ ~Ended(k)'
    BY DEF Unplaced, SomePlace, AtEntry, AtReader, AtQueue, Ended, Tok
  <1> QED BY <1>1, <1>2 DEF OnePlace

\* A request and its token are told by its operation.
LEMMA RequestTok ==
    ASSUME NEW x, NEW r \in Requests, x.asker \in Objects \cup {None}
    PROVE  Tok(x) = r <=> x.op = r
  BY Matching2Assumption DEF Tok

\* A request that has not been made is in no place.
LEMMA NotAsked ==
    ASSUME Typed, NEW r \in Requests \ asked
    PROVE  Unplaced(r)
  <1>1. ASSUME NEW t \in Threads PROVE ~AtCall(t, r)
    BY CallsKnown, RequestTok DEF AtCall, Calls
  <1>2. \A x : Placed(x) => Tok(x) # r
    BY RequestTok DEF Placed, Typed, TypeOK
  <1> QED BY <1>1, <1>2 DEF Unplaced, SomePlace, AtEntry, AtReader, AtQueue, Typed, TypeOK, Known, AllPlaced

\* Only a request and a stop of a context bring something new into a call.
LEMMA CallTokens ==
    ASSUME Typed, [Next]_vars, NEW k \in Requests \cup Objects, NEW u \in Threads, AtCall(u, k)'
    PROVE  AtCall(u, k) \/ (k \in Requests /\ \E id \in Ids : Request(u, id, k)) \/ (\E id \in Ids : ContextStop(u, id) /\ slots[id] = k)
  <1> DEFINE New(v) == (k \in Requests /\ \E id \in Ids : Request(v, id, k)) \/ (\E id \in Ids : ContextStop(v, id) /\ slots[id] = k)
  <1>h. AtCall(u, k)'
    OBVIOUS
  <1>i. Idle.op = None /\ Idle.op # Stopping /\ None # k
    BY Matching2Assumption DEF Idle
  <1>j. k # Stopping
    BY Matching2Assumption
  <1>1. ASSUME NEW t \in Threads, NEW o \in Objects, CreateContext(t, o)
       PROVE  AtCall(u, k) \/ New(u)
    BY <1>1, <1>h, Simple DEF CreateContext, AtCall, Tok, Alone, Same, Keeps
  <1>2. ASSUME NEW t \in Threads, AddContextRef(t)
       PROVE  AtCall(u, k) \/ New(u)
    BY <1>2, <1>h, <1>i, Simple DEF AddContextRef, AtCall, Tok, Alone
  <1>3. ASSUME NEW t \in Threads, ReleaseContextRef(t)
       PROVE  AtCall(u, k) \/ New(u)
    BY <1>3, <1>h, <1>i, Simple DEF ReleaseContextRef, AtCall, Tok, Alone
  <1>4. ASSUME NEW t \in Threads, NEW id \in Ids, DestroyContext(t, id)
       PROVE  AtCall(u, k) \/ New(u)
    BY <1>4, <1>h, Simple DEF DestroyContext, AtCall, Tok, Alone, Same, Keeps
  <1>5. ASSUME NEW t \in Threads, NEW id \in Ids, ContextStart(t, id)
       PROVE  AtCall(u, k) \/ New(u)
    BY <1>5, <1>h, StartsCall, Matching2Assumption DEF AtCall, Tok, Alone
  <1>6. ASSUME NEW t \in Threads, NEW id \in Ids, ContextStop(t, id)
       PROVE  AtCall(u, k) \/ New(u)
    BY <1>6, <1>h, StopsCall DEF AtCall, Tok, Alone
  <1>7. ASSUME NEW t \in Threads, FindStopping(t)
       PROVE  AtCall(u, k) \/ New(u)
    BY <1>7, <1>h, FindsCall DEF AtCall, Tok, Alone, Keeps
  <1>8. ASSUME NEW t \in Threads, StopAtOnce(t)
       PROVE  AtCall(u, k) \/ New(u)
    BY <1>8, <1>h, <1>i, Simple DEF StopAtOnce, AtCall, Tok, Alone
  <1>9. ASSUME NEW t \in Threads, NEW id \in Ids, NEW r \in Requests, Request(t, id, r)
       PROVE  AtCall(u, k) \/ New(u)
    BY <1>9, <1>h, RequestCall, Matching2Assumption DEF AtCall, Tok, Alone
  <1>10. ASSUME NEW t \in Threads, StoreArgument(t)
       PROVE  AtCall(u, k) \/ New(u)
    BY <1>10, <1>h, Simple DEF StoreArgument, AtCall, Tok, Alone, Same, Keeps
  <1>11. ASSUME NEW t \in Threads, CheckClient(t)
       PROVE  AtCall(u, k) \/ New(u)
    BY <1>11, <1>h, <1>i, ChecksCall, Failing DEF AtCall, Tok, Alone, Same, Keeps
  <1>12. ASSUME NEW t \in Threads, ConsumeCallback(t)
       PROVE  AtCall(u, k) \/ New(u)
    BY <1>12, <1>h, <1>i, <1>j, TakesCallback, Failing DEF AtCall, Tok, Alone, Same, Keeps
  <1>13. ASSUME NEW t \in Threads, ConsumeArgument(t)
       PROVE  AtCall(u, k) \/ New(u)
    BY <1>13, <1>h, TakesArgument DEF AtCall, Tok, Alone, Keeps
  <1>14. ASSUME NEW t \in Threads, AnswerInCall(t)
       PROVE  AtCall(u, k) \/ New(u)
    BY <1>14, <1>h, <1>i, Simple DEF AnswerInCall, AtCall, Tok, Alone
  <1>15. ASSUME NEW t \in Threads, SubmitRequest(t)
       PROVE  AtCall(u, k) \/ New(u)
    BY <1>15, <1>h, SubmitsCall DEF AtCall, Tok, Alone, Keeps
  <1>16. ASSUME NEW t \in Threads, Register(t)
       PROVE  AtCall(u, k) \/ New(u)
    BY <1>16, <1>h, <1>i, Simple DEF Register, AtCall, Tok, Alone
  <1>17. ASSUME NEW t \in Threads, TermEventDispatcher(t)
       PROVE  AtCall(u, k) \/ New(u)
    BY <1>17, <1>h, Simple DEF TermEventDispatcher, AtCall, Tok, Alone, Same, Keeps
  <1>18. ASSUME NEW t \in Threads, Reset(t)
       PROVE  AtCall(u, k) \/ New(u)
    BY <1>18, <1>h, Simple DEF Reset, AtCall, Tok, Alone, Same, Keeps
  <1>19. ASSUME NEW t \in Threads, Terminate(t)
       PROVE  AtCall(u, k) \/ New(u)
    BY <1>19, <1>h, Simple DEF Terminate, AtCall, Tok, Alone, Same, Keeps
  <1>20. ASSUME NEW c \in Clients, DispatchRequestComplete(c)
       PROVE  AtCall(u, k) \/ New(u)
    BY <1>20, <1>h DEF DispatchRequestComplete, AtCall, Tok, vars
  <1>21. ASSUME NEW p \in inFlight, OnMatching2Reply(p)
       PROVE  AtCall(u, k) \/ New(u)
    BY <1>21, <1>h DEF OnMatching2Reply, AtCall, Tok, vars
  <1>22. ASSUME NEW c \in Clients, LoseConnection(c)
       PROVE  AtCall(u, k) \/ New(u)
    BY <1>22, <1>h DEF LoseConnection, AtCall, Tok, vars
  <1>23. ASSUME SetMmShadNetClient
       PROVE  AtCall(u, k) \/ New(u)
    BY <1>23, <1>h DEF SetMmShadNetClient, AtCall, Tok, vars
  <1>24. ASSUME FireEvent
       PROVE  AtCall(u, k) \/ New(u)
    BY <1>24, <1>h DEF FireEvent, AtCall, Tok, vars
  <1>25. ASSUME CompleteStop
       PROVE  AtCall(u, k) \/ New(u)
    BY <1>25, <1>h DEF CompleteStop, AtCall, Tok, vars
  <1>26. ASSUME Initialize
       PROVE  AtCall(u, k) \/ New(u)
    BY <1>26, <1>h DEF Initialize, AtCall, Tok, vars
  <1>27. CASE UNCHANGED vars
    BY <1>27, <1>h DEF vars, AtCall, Tok, vars
  <1> QED
    BY <1>1, <1>2, <1>3, <1>4, <1>5, <1>6, <1>7, <1>8, <1>9, <1>10, <1>11, <1>12, <1>13, <1>14, <1>15, <1>16, <1>17, <1>18, <1>19, <1>20, <1>21, <1>22, <1>23, <1>24, <1>25, <1>26, <1>27 DEF Next, CallStep, ReaderStep, DispatcherStep

\* A step moves an operation, or drops it, but leaves it in one place.
LEMMA OnePlaceStep ==
    ASSUME Typed, [Next]_vars, NEW k \in Requests \cup Objects, OnePlace(k), k \in started => Unplaced(k)
    PROVE  OnePlace(k)'
  <1>n. Tok(Idle) # k /\ Idle.op = None /\ Idle.op # Stopping /\ k # Stopping /\ k # Starting /\ k # None
    BY Matching2Assumption DEF Tok, Idle
  <1>1. ASSUME NEW t \in Threads, NEW o \in Objects, CreateContext(t, o)
       PROVE  OnePlace(k)'
    <2>1. UNCHANGED <<pending, reader, queue, firing, answered>>
      BY <1>1 DEF CreateContext, packetVars, eventVars
    <2>2. \A u \in Threads : AtCall(u, k)' => AtCall(u, k)
      BY <1>1, <1>n, Simple, Matching2Assumption DEF CreateContext, AtCall, Tok, Alone, Same, Keeps
    <2> QED BY <2>1, <2>2, FewerPlaces DEF AtEntry, AtReader, Ended, Tok
  <1>2. ASSUME NEW t \in Threads, AddContextRef(t)
       PROVE  OnePlace(k)'
    <2>1. UNCHANGED <<pending, reader, queue, firing, answered>>
      BY <1>2 DEF AddContextRef, packetVars, eventVars
    <2>2. \A u \in Threads : AtCall(u, k)' => AtCall(u, k)
      BY <1>2, <1>n, Simple, Matching2Assumption DEF AddContextRef, AtCall, Tok, Alone, Same, Keeps
    <2> QED BY <2>1, <2>2, FewerPlaces DEF AtEntry, AtReader, Ended, Tok
  <1>3. ASSUME NEW t \in Threads, ReleaseContextRef(t)
       PROVE  OnePlace(k)'
    <2>1. UNCHANGED <<pending, reader, queue, firing, answered>>
      BY <1>3 DEF ReleaseContextRef, packetVars, eventVars
    <2>2. \A u \in Threads : AtCall(u, k)' => AtCall(u, k)
      BY <1>3, <1>n, Simple, Matching2Assumption DEF ReleaseContextRef, AtCall, Tok, Alone, Same, Keeps
    <2> QED BY <2>1, <2>2, FewerPlaces DEF AtEntry, AtReader, Ended, Tok
  <1>4. ASSUME NEW t \in Threads, NEW id \in Ids, DestroyContext(t, id)
       PROVE  OnePlace(k)'
    <2>1. UNCHANGED <<pending, reader, queue, firing, answered>>
      BY <1>4 DEF DestroyContext, packetVars, eventVars
    <2>2. \A u \in Threads : AtCall(u, k)' => AtCall(u, k)
      BY <1>4, <1>n, Simple, Matching2Assumption DEF DestroyContext, AtCall, Tok, Alone, Same, Keeps
    <2> QED BY <2>1, <2>2, FewerPlaces DEF AtEntry, AtReader, Ended, Tok
  <1>5. ASSUME NEW t \in Threads, NEW id \in Ids, ContextStart(t, id)
       PROVE  OnePlace(k)'
    <2>1. UNCHANGED <<pending, reader, queue, firing, answered>>
      BY <1>5 DEF ContextStart, packetVars, eventVars
    <2>2. \A u \in Threads : AtCall(u, k)' => AtCall(u, k)
      BY <1>5, <1>n, StartsCall, Matching2Assumption DEF AtCall, Tok, Alone, Same, Keeps
    <2> QED BY <2>1, <2>2, FewerPlaces DEF AtEntry, AtReader, Ended, Tok
  <1>6. ASSUME NEW t \in Threads, NEW id \in Ids, ContextStop(t, id)
       PROVE  OnePlace(k)'
    <2>1. UNCHANGED <<pending, reader, queue, firing, answered>> /\ slots[id] \in started
      BY <1>6 DEF ContextStop, packetVars, eventVars
    <2>2. CASE slots[id] = k
      BY <1>6, <2>1, <2>2, StopsCall, FirstPlace
    <2>3. ASSUME slots[id] # k, NEW u \in Threads, AtCall(u, k)' PROVE AtCall(u, k)
      BY <1>6, <2>3, StopsCall DEF AtCall, Tok, Alone
    <2>4. CASE slots[id] # k
      BY <2>1, <2>3, <2>4, FewerPlaces DEF AtEntry, AtReader, Ended, Tok
    <2> QED BY <2>2, <2>4
  <1>7. ASSUME NEW t \in Threads, FindStopping(t)
       PROVE  OnePlace(k)'
    <2>1. UNCHANGED <<pending, reader, queue, firing, answered>>
      BY <1>7 DEF FindStopping, packetVars, eventVars
    <2>2. \A u \in Threads : AtCall(u, k)' => AtCall(u, k)
      BY <1>7, <1>n, FindsCall, Matching2Assumption DEF AtCall, Tok, Alone, Same, Keeps
    <2> QED BY <2>1, <2>2, FewerPlaces DEF AtEntry, AtReader, Ended, Tok
  <1>8. ASSUME NEW t \in Threads, StopAtOnce(t)
       PROVE  OnePlace(k)'
    <2>1. UNCHANGED <<pending, reader, queue, firing, answered>>
      BY <1>8 DEF StopAtOnce, packetVars, eventVars
    <2>2. \A u \in Threads : AtCall(u, k)' => AtCall(u, k)
      BY <1>8, <1>n, Simple, Matching2Assumption DEF StopAtOnce, AtCall, Tok, Alone, Same, Keeps
    <2> QED BY <2>1, <2>2, FewerPlaces DEF AtEntry, AtReader, Ended, Tok
  <1>9. ASSUME NEW t \in Threads, NEW id \in Ids, NEW r \in Requests, Request(t, id, r)
       PROVE  OnePlace(k)'
    <2>1. UNCHANGED <<pending, reader, queue, firing, answered>> /\ r \notin asked
      BY <1>9 DEF Request, packetVars, eventVars
    <2>2. CASE r = k
      BY <1>9, <2>1, <2>2, RequestCall, NotAsked, FirstPlace
    <2>3. ASSUME r # k, NEW u \in Threads, AtCall(u, k)' PROVE AtCall(u, k)
      BY <1>9, <2>3, RequestCall, Matching2Assumption DEF AtCall, Tok, Alone
    <2>4. CASE r # k
      BY <2>1, <2>3, <2>4, FewerPlaces DEF AtEntry, AtReader, Ended, Tok
    <2> QED BY <2>2, <2>4
  <1>10. ASSUME NEW t \in Threads, StoreArgument(t)
       PROVE  OnePlace(k)'
    <2>1. UNCHANGED <<pending, reader, queue, firing, answered>>
      BY <1>10 DEF StoreArgument, packetVars, eventVars
    <2>2. \A u \in Threads : AtCall(u, k)' => AtCall(u, k)
      BY <1>10, <1>n, Simple, Matching2Assumption DEF StoreArgument, AtCall, Tok, Alone, Same, Keeps
    <2> QED BY <2>1, <2>2, FewerPlaces DEF AtEntry, AtReader, Ended, Tok
  <1>11. ASSUME NEW t \in Threads, CheckClient(t)
       PROVE  OnePlace(k)'
    <2>1. UNCHANGED <<pending, reader, queue, firing, answered>>
      BY <1>11 DEF CheckClient, packetVars, eventVars
    <2>2. \A u \in Threads : AtCall(u, k)' => AtCall(u, k)
      BY <1>11, <1>n, ChecksCall, Failing, Matching2Assumption DEF AtCall, Tok, Alone, Same, Keeps
    <2> QED BY <2>1, <2>2, FewerPlaces DEF AtEntry, AtReader, Ended, Tok
  <1>12. ASSUME NEW t \in Threads, ConsumeCallback(t)
       PROVE  OnePlace(k)'
    <2>1. UNCHANGED <<pending, reader, queue, firing, answered>>
      BY <1>12 DEF ConsumeCallback, packetVars, eventVars
    <2>2. \A u \in Threads : AtCall(u, k)' => AtCall(u, k)
      BY <1>12, <1>n, TakesCallback, Failing, Matching2Assumption DEF AtCall, Tok, Alone, Same, Keeps
    <2> QED BY <2>1, <2>2, FewerPlaces DEF AtEntry, AtReader, Ended, Tok
  <1>13. ASSUME NEW t \in Threads, ConsumeArgument(t)
       PROVE  OnePlace(k)'
    <2>1. UNCHANGED <<pending, reader, queue, firing, answered>>
      BY <1>13 DEF ConsumeArgument, packetVars, eventVars
    <2>2. \A u \in Threads : AtCall(u, k)' => AtCall(u, k)
      BY <1>13, <1>n, TakesArgument, Matching2Assumption DEF AtCall, Tok, Alone, Same, Keeps
    <2> QED BY <2>1, <2>2, FewerPlaces DEF AtEntry, AtReader, Ended, Tok
  <1>14. ASSUME NEW t \in Threads, AnswerInCall(t)
       PROVE  OnePlace(k)'
    <2>g. \A u \in Threads : AtCall(u, k)' => AtCall(u, k) /\ u # t
      BY <1>14, <1>n, Simple DEF AnswerInCall, AtCall, Alone
    <2>1. UNCHANGED <<pending, reader, firing, answered>>
      BY <1>14 DEF AnswerInCall, packetVars
    <2>2. PICK e : e = Event(Entry(t), call[t].obj)
      OBVIOUS
    <2>3. Tok(e) = Tok(call[t])
      BY <2>2 DEF Event, Entry, Tok
    <2>4. queue' = Append(queue, e) /\ queue \in Seq(Events)
      BY <1>14, <2>2 DEF AnswerInCall, Typed, TypeOK
    <2>5. \A i \in 1 .. Len(queue') :
             \/ i = Len(queue) + 1 /\ (AtQueue(i, k)' => AtCall(t, k))
             \/ i \in 1 .. Len(queue) /\ (AtQueue(i, k)' => AtQueue(i, k))
      BY <2>3, <2>4 DEF AtQueue, AtCall
    <2>6. /\ \A n \in 1 .. MaxPkt : AtEntry(n, k)' => AtEntry(n, k)
          /\ \A c \in Clients : AtReader(c, k)' => AtReader(c, k)
          /\ Ended(k)' => Ended(k)
      BY <2>1 DEF AtEntry, AtReader, Ended, Tok
    <2> QED BY <2>g, <2>5, <2>6 DEF OnePlace
  <1>15. ASSUME NEW t \in Threads, SubmitRequest(t)
       PROVE  OnePlace(k)'
    <2>1. UNCHANGED <<pending, reader, queue, firing, answered>>
      BY <1>15 DEF SubmitRequest, packetVars, eventVars
    <2>2. \A u \in Threads : AtCall(u, k)' => AtCall(u, k)
      BY <1>15, <1>n, SubmitsCall, Matching2Assumption DEF AtCall, Tok, Alone, Same, Keeps
    <2> QED BY <2>1, <2>2, FewerPlaces DEF AtEntry, AtReader, Ended, Tok
  <1>16. ASSUME NEW t \in Threads, Register(t)
       PROVE  OnePlace(k)'
    <2>g. \A u \in Threads : AtCall(u, k)' => AtCall(u, k) /\ u # t
      BY <1>16, <1>n, Simple DEF Register, AtCall, Alone
    <2>1. UNCHANGED <<queue, reader, firing, answered>>
      BY <1>16 DEF Register, eventVars
    <2>2. PICK e : e = Entry(t)
      OBVIOUS
    <2>3. Tok(e) = Tok(call[t])
      BY <2>2 DEF Entry, Tok
    <2>4. \A n \in 1 .. MaxPkt : IF n = call[t].pkt THEN pending'[n] = e ELSE pending'[n] = pending[n]
      BY <1>16, <2>2 DEF Register, Typed, TypeOK
    <2>5. \A n \in 1 .. MaxPkt :
             \/ n = call[t].pkt /\ (AtEntry(n, k)' => AtCall(t, k))
             \/ AtEntry(n, k)' => AtEntry(n, k)
      BY <2>3, <2>4 DEF AtEntry, AtCall
    <2>6. /\ \A i \in 1 .. Len(queue') : i \in 1 .. Len(queue) /\ (AtQueue(i, k)' => AtQueue(i, k))
          /\ \A c \in Clients : AtReader(c, k)' => AtReader(c, k)
          /\ Ended(k)' => Ended(k)
      BY <2>1 DEF AtQueue, AtReader, Ended, Tok
    <2> QED BY <2>g, <2>5, <2>6 DEF OnePlace
  <1>17. ASSUME NEW t \in Threads, TermEventDispatcher(t)
       PROVE  OnePlace(k)'
    <2>1. UNCHANGED <<pending, reader, firing, answered>> /\ queue' = <<>>
      BY <1>17 DEF TermEventDispatcher, packetVars
    <2>2. \A u \in Threads : AtCall(u, k)' => AtCall(u, k)
      BY <1>17, Simple DEF TermEventDispatcher, AtCall, Tok, Alone, Same, Keeps
    <2> QED BY <2>1, <2>2, FewerPlaces DEF AtEntry, AtReader, Ended, Tok
  <1>18. ASSUME NEW t \in Threads, Reset(t)
       PROVE  OnePlace(k)'
    <2>1. UNCHANGED <<pending, reader, queue, firing, answered>>
      BY <1>18 DEF Reset, packetVars, eventVars
    <2>2. \A u \in Threads : AtCall(u, k)' => AtCall(u, k)
      BY <1>18, <1>n, Simple, Matching2Assumption DEF Reset, AtCall, Tok, Alone, Same, Keeps
    <2> QED BY <2>1, <2>2, FewerPlaces DEF AtEntry, AtReader, Ended, Tok
  <1>19. ASSUME NEW t \in Threads, Terminate(t)
       PROVE  OnePlace(k)'
    <2>1. UNCHANGED <<pending, reader, queue, firing, answered>>
      BY <1>19 DEF Terminate, packetVars, eventVars
    <2>2. \A u \in Threads : AtCall(u, k)' => AtCall(u, k)
      BY <1>19, <1>n, Simple, Matching2Assumption DEF Terminate, AtCall, Tok, Alone, Same, Keeps
    <2> QED BY <2>1, <2>2, FewerPlaces DEF AtEntry, AtReader, Ended, Tok
  <1>20. ASSUME NEW c \in Clients, DispatchRequestComplete(c)
       PROVE  OnePlace(k)'
    <2>1. UNCHANGED <<pending, call, firing, answered>>
      BY <1>20 DEF DispatchRequestComplete
    <2>2. PICK e : e = reader[c] /\ e # None
      BY <1>20 DEF DispatchRequestComplete
    <2>3. PICK f : f = Event(e, slots[e.id])
      OBVIOUS
    <2>4. Tok(f) = Tok(e)
      BY <2>3 DEF Event, Tok
    <2>5. queue' = queue \/ queue' = Append(queue, f)
      BY <1>20, <2>2, <2>3 DEF DispatchRequestComplete, Recipient
    <2>6. queue \in Seq(Events)
      BY DEF Typed, TypeOK
    <2>7. \A i \in 1 .. Len(queue') :
             \/ i = Len(queue) + 1 /\ (AtQueue(i, k)' => AtReader(c, k))
             \/ i \in 1 .. Len(queue) /\ (AtQueue(i, k)' => AtQueue(i, k))
      BY <2>2, <2>4, <2>5, <2>6 DEF AtQueue, AtReader
    <2>8. \A d \in Clients : AtReader(d, k)' => AtReader(d, k) /\ d # c
      BY <1>20 DEF DispatchRequestComplete, AtReader, Typed, TypeOK
    <2>9. /\ \A n \in 1 .. MaxPkt : AtEntry(n, k)' => AtEntry(n, k)
          /\ \A u \in Threads : AtCall(u, k)' => AtCall(u, k)
          /\ Ended(k)' => Ended(k)
      BY <2>1 DEF AtEntry, AtCall, Ended, Tok
    <2> QED BY <2>7, <2>8, <2>9 DEF OnePlace
  <1>21. ASSUME NEW p \in inFlight, OnMatching2Reply(p)
       PROVE  OnePlace(k)'
    <2>0. p.client \in Clients /\ p.pkt \in 1 .. MaxPkt
      BY <1>21 DEF Typed, TypeOK, Packets
    <2>1. UNCHANGED <<queue, call, firing, answered>>
      BY <1>21 DEF OnMatching2Reply, eventVars
    <2>2. \A d \in Clients : IF d = p.client /\ pending[p.pkt] # None THEN reader'[d] = pending[p.pkt]
                            ELSE reader'[d] = reader[d]
      BY <1>21, <2>0 DEF OnMatching2Reply, Typed, TypeOK
    <2>3. \A n \in 1 .. MaxPkt : (pending'[n] = pending[n] /\ n # p.pkt) \/ pending'[n] = None
      BY <1>21, <2>0 DEF OnMatching2Reply, TakeEntry, Typed, TypeOK
    <2>4. \A n \in 1 .. MaxPkt : AtEntry(n, k)' => AtEntry(n, k) /\ n # p.pkt
      BY <2>3 DEF AtEntry
    <2>5. \A d \in Clients : AtReader(d, k)' => AtReader(d, k) \/ (d = p.client /\ AtEntry(p.pkt, k))
      BY <2>2 DEF AtReader, AtEntry
    <2>6. reader[p.client] = None
      BY <1>21 DEF OnMatching2Reply
    <2>7. /\ \A i \in 1 .. Len(queue') : i \in 1 .. Len(queue) /\ (AtQueue(i, k)' => AtQueue(i, k))
          /\ \A u \in Threads : AtCall(u, k)' => AtCall(u, k)
          /\ Ended(k)' => Ended(k)
      BY <2>1 DEF AtQueue, AtCall, Ended, Tok
    <2> QED BY <2>0, <2>4, <2>5, <2>7 DEF OnePlace
  <1>22. ASSUME NEW c \in Clients, LoseConnection(c)
       PROVE  OnePlace(k)'
    <2>1. UNCHANGED <<pending, reader, queue, firing, answered>>
      BY <1>22 DEF LoseConnection, vars, packetVars, eventVars
    <2>2. \A u \in Threads : AtCall(u, k)' => AtCall(u, k)
      BY <1>22 DEF LoseConnection, vars, AtCall
    <2> QED BY <2>1, <2>2, FewerPlaces DEF AtEntry, AtReader, Ended, Tok, Typed, TypeOK
  <1>23. ASSUME SetMmShadNetClient
       PROVE  OnePlace(k)'
    <2>1. UNCHANGED <<pending, reader, queue, firing, answered>>
      BY <1>23 DEF SetMmShadNetClient, vars, packetVars, eventVars
    <2>2. \A u \in Threads : AtCall(u, k)' => AtCall(u, k)
      BY <1>23 DEF SetMmShadNetClient, vars, AtCall
    <2> QED BY <2>1, <2>2, FewerPlaces DEF AtEntry, AtReader, Ended, Tok, Typed, TypeOK
  <1>24. ASSUME FireEvent
       PROVE  OnePlace(k)'
    <2>1. UNCHANGED <<pending, reader, call>>
      BY <1>24 DEF FireEvent, packetVars
    <2>2. /\ queue \in Seq(Events) /\ queue # <<>> /\ 1 \in 1 .. Len(queue)
          /\ \A i \in 1 .. Len(queue') : i + 1 \in 1 .. Len(queue) /\ i + 1 # 1 /\ queue'[i] = queue[i + 1]
      BY <1>24 DEF FireEvent, Typed, TypeOK
    <2>3. PICK ev : ev = queue[1]
      OBVIOUS
    <2>4. /\ firing' = IF ev.op = Stopping THEN ev ELSE None
          /\ answered' = answered \cup ({ev.op} \cap Requests)
      BY <1>24, <2>2, <2>3 DEF FireEvent
    <2>5. Ended(k)' => Ended(k) \/ AtQueue(1, k)
      BY <2>3, <2>4, Matching2Assumption DEF Ended, AtQueue, Tok
    <2>6. \A i \in 1 .. Len(queue') :
             i + 1 \in 1 .. Len(queue) /\ i + 1 # 1 /\ (AtQueue(i, k)' => AtQueue(i + 1, k))
      BY <2>2 DEF AtQueue
    <2>7. /\ \A n \in 1 .. MaxPkt : AtEntry(n, k)' => AtEntry(n, k)
          /\ \A c \in Clients : AtReader(c, k)' => AtReader(c, k)
          /\ \A u \in Threads : AtCall(u, k)' => AtCall(u, k)
      BY <2>1 DEF AtEntry, AtReader, AtCall, Tok
    <2> QED BY <2>2, <2>5, <2>6, <2>7 DEF OnePlace
  <1>25. ASSUME CompleteStop
       PROVE  OnePlace(k)'
    <2>1. UNCHANGED <<pending, reader, queue, call, answered>> /\ firing' = None
      BY <1>25 DEF CompleteStop, packetVars
    <2> QED BY <2>1, FewerPlaces DEF AtEntry, AtReader, AtCall, Ended, Tok
  <1>26. ASSUME Initialize
       PROVE  OnePlace(k)'
    <2>1. UNCHANGED <<pending, reader, queue, firing, answered>>
      BY <1>26 DEF Initialize, vars, packetVars, eventVars
    <2>2. \A u \in Threads : AtCall(u, k)' => AtCall(u, k)
      BY <1>26 DEF Initialize, vars, AtCall
    <2> QED BY <2>1, <2>2, FewerPlaces DEF AtEntry, AtReader, Ended, Tok, Typed, TypeOK
  <1>27. CASE UNCHANGED vars
    <2>1. UNCHANGED <<pending, reader, queue, firing, answered>>
      BY <1>27 DEF vars, vars, packetVars, eventVars
    <2>2. \A u \in Threads : AtCall(u, k)' => AtCall(u, k)
      BY <1>27 DEF vars, vars, AtCall
    <2> QED BY <2>1, <2>2, FewerPlaces DEF AtEntry, AtReader, Ended, Tok, Typed, TypeOK
  <1> QED
    BY <1>1, <1>2, <1>3, <1>4, <1>5, <1>6, <1>7, <1>8, <1>9, <1>10, <1>11, <1>12, <1>13, <1>14, <1>15, <1>16, <1>17, <1>18, <1>19, <1>20, <1>21, <1>22, <1>23, <1>24, <1>25, <1>26, <1>27 DEF Next, CallStep, ReaderStep, DispatcherStep

\* What a call registers is an entry.
LEMMA EntryKnown ==
    ASSUME Typed, NEW t \in Threads, call[t].pc \in {"answer", "register"}
    PROVE  Entry(t) \in Entries
  <1>1. call[t] \in Calls /\ Taken(call[t])
    BY CallsKnown DEF Stage
  <1> QED BY <1>1, Matching2Assumption DEF Typed, TypeOK, Taken, Named, Entry, Entries, Calls, Clients

\* A request in its call stays there, or leaves it with this step.
LEMMA InCallStays ==
    ASSUME NEW t \in Threads, Alone(t), NEW r, call[t].op # r \/ call'[t].op = r
    PROVE  InCall(r) => InCall(r)'
  BY DEF InCall, Alone

\* No other call comes to register its entry.
LEMMA AboutStays ==
    ASSUME NEW t \in Threads, Alone(t), NEW r, call'[t].pc # "register" \/ call'[t].op # r
    PROVE  About(r)' => About(r)
  BY DEF About, Alone

\* What waits in the queue
LEMMA Answering ==
    ASSUME NEW r
    PROVE  Answers(r) # {} <=> \E i \in 1 .. Len(queue) : queue[i].op = r
  BY DEF Answers

\* A request waits, or is lost; one whose entry is there has its packet on the network.
Waiting(r) ==
    /\ r \notin lost /\ (Listed(r) \/ About(r)) => Sent(r)
    /\ r \in asked =>
         \/ InCall(r) \/ BeingRead(r) \/ Answers(r) # {} \/ r \in answered \cup lost
         \/ Sent(r) /\ Listed(r)

\* A step leaves a request waiting, ends its waiting, or loses it.
LEMMA WaitingStep ==
    ASSUME Typed, [Next]_vars, NEW r \in Requests, OnePlace(r), Waiting(r)
    PROVE  Waiting(r)'
  <1>n. Idle.op # r /\ Idle.pc # "register" /\ r # None /\ r # Starting /\ r # Stopping
    BY Matching2Assumption DEF Idle
  <1>1. ASSUME NEW t \in Threads, NEW o \in Objects, CreateContext(t, o)
       PROVE  Waiting(r)'
    <2>1. UNCHANGED <<pending, reader, queue, inFlight, answered, asked, lost>>
      BY <1>1 DEF CreateContext, packetVars, eventVars
    <2>2. Alone(t) /\ (call[t].op # r \/ call'[t].op = r) /\ (call'[t].pc # "register" \/ call'[t].op # r)
      BY <1>1, <1>n, Simple, CallsKnown DEF CreateContext, Stage, Free, Same, Keeps, Submits
    <2> QED BY <2>1, <2>2, InCallStays, AboutStays DEF Waiting, Listed, BeingRead, Answers, Sent
  <1>2. ASSUME NEW t \in Threads, AddContextRef(t)
       PROVE  Waiting(r)'
    <2>1. UNCHANGED <<pending, reader, queue, inFlight, answered, asked, lost>>
      BY <1>2 DEF AddContextRef, packetVars, eventVars
    <2>2. Alone(t) /\ (call[t].op # r \/ call'[t].op = r) /\ (call'[t].pc # "register" \/ call'[t].op # r)
      BY <1>2, <1>n, Simple, CallsKnown DEF AddContextRef, Stage, Free, Same, Keeps, Submits
    <2> QED BY <2>1, <2>2, InCallStays, AboutStays DEF Waiting, Listed, BeingRead, Answers, Sent
  <1>3. ASSUME NEW t \in Threads, ReleaseContextRef(t)
       PROVE  Waiting(r)'
    <2>1. UNCHANGED <<pending, reader, queue, inFlight, answered, asked, lost>>
      BY <1>3 DEF ReleaseContextRef, packetVars, eventVars
    <2>2. Alone(t) /\ (call[t].op # r \/ call'[t].op = r) /\ (call'[t].pc # "register" \/ call'[t].op # r)
      BY <1>3, <1>n, Simple, CallsKnown DEF ReleaseContextRef, Stage, Free, Same, Keeps, Submits
    <2> QED BY <2>1, <2>2, InCallStays, AboutStays DEF Waiting, Listed, BeingRead, Answers, Sent
  <1>4. ASSUME NEW t \in Threads, NEW id \in Ids, DestroyContext(t, id)
       PROVE  Waiting(r)'
    <2>1. UNCHANGED <<pending, reader, queue, inFlight, answered, asked, lost>>
      BY <1>4 DEF DestroyContext, packetVars, eventVars
    <2>2. Alone(t) /\ (call[t].op # r \/ call'[t].op = r) /\ (call'[t].pc # "register" \/ call'[t].op # r)
      BY <1>4, <1>n, Simple, CallsKnown DEF DestroyContext, Stage, Free, Same, Keeps, Submits
    <2> QED BY <2>1, <2>2, InCallStays, AboutStays DEF Waiting, Listed, BeingRead, Answers, Sent
  <1>5. ASSUME NEW t \in Threads, NEW id \in Ids, ContextStart(t, id)
       PROVE  Waiting(r)'
    <2>1. UNCHANGED <<pending, reader, queue, inFlight, answered, asked, lost>>
      BY <1>5 DEF ContextStart, packetVars, eventVars
    <2>2. Alone(t) /\ (call[t].op # r \/ call'[t].op = r) /\ (call'[t].pc # "register" \/ call'[t].op # r)
      BY <1>5, <1>n, StartsCall, CallsKnown DEF ContextStart, Stage, Free, Same, Keeps, Submits
    <2> QED BY <2>1, <2>2, InCallStays, AboutStays DEF Waiting, Listed, BeingRead, Answers, Sent
  <1>6. ASSUME NEW t \in Threads, NEW id \in Ids, ContextStop(t, id)
       PROVE  Waiting(r)'
    <2>1. UNCHANGED <<pending, reader, queue, inFlight, answered, asked, lost>>
      BY <1>6 DEF ContextStop, packetVars, eventVars
    <2>2. Alone(t) /\ (call[t].op # r \/ call'[t].op = r) /\ (call'[t].pc # "register" \/ call'[t].op # r)
      BY <1>6, <1>n, StopsCall, CallsKnown DEF ContextStop, Stage, Free, Same, Keeps, Submits
    <2> QED BY <2>1, <2>2, InCallStays, AboutStays DEF Waiting, Listed, BeingRead, Answers, Sent
  <1>7. ASSUME NEW t \in Threads, FindStopping(t)
       PROVE  Waiting(r)'
    <2>1. UNCHANGED <<pending, reader, queue, inFlight, answered, asked, lost>>
      BY <1>7 DEF FindStopping, packetVars, eventVars
    <2>2. Alone(t) /\ (call[t].op # r \/ call'[t].op = r) /\ (call'[t].pc # "register" \/ call'[t].op # r)
      BY <1>7, <1>n, FindsCall, CallsKnown DEF FindStopping, Stage, Free, Same, Keeps, Submits
    <2> QED BY <2>1, <2>2, InCallStays, AboutStays DEF Waiting, Listed, BeingRead, Answers, Sent
  <1>8. ASSUME NEW t \in Threads, StopAtOnce(t)
       PROVE  Waiting(r)'
    <2>1. UNCHANGED <<pending, reader, queue, inFlight, answered, asked, lost>>
      BY <1>8 DEF StopAtOnce, packetVars, eventVars
    <2>2. Alone(t) /\ (call[t].op # r \/ call'[t].op = r) /\ (call'[t].pc # "register" \/ call'[t].op # r)
      BY <1>8, <1>n, Simple, CallsKnown DEF StopAtOnce, Stage, Free, Same, Keeps, Submits
    <2> QED BY <2>1, <2>2, InCallStays, AboutStays DEF Waiting, Listed, BeingRead, Answers, Sent
  <1>9. ASSUME NEW t \in Threads, NEW id \in Ids, NEW q \in Requests, Request(t, id, q)
       PROVE  Waiting(r)'
    <2>1. UNCHANGED <<pending, reader, queue, inFlight, answered, lost>>
      BY <1>9 DEF Request, packetVars, eventVars
    <2>2. Alone(t) /\ call[t].op # r /\ call'[t].op = q /\ call'[t].pc # "register"
      BY <1>9, <1>n, RequestCall
    <2>3. (r \in asked' => r \in asked) \/ InCall(r)'
      BY <1>9, <2>2 DEF Request, InCall
    <2> QED BY <2>1, <2>2, <2>3, InCallStays, AboutStays DEF Waiting, Listed, BeingRead, Answers, Sent
  <1>10. ASSUME NEW t \in Threads, StoreArgument(t)
       PROVE  Waiting(r)'
    <2>1. UNCHANGED <<pending, reader, queue, inFlight, answered, asked, lost>>
      BY <1>10 DEF StoreArgument, packetVars, eventVars
    <2>2. Alone(t) /\ (call[t].op # r \/ call'[t].op = r) /\ (call'[t].pc # "register" \/ call'[t].op # r)
      BY <1>10, <1>n, Simple, CallsKnown DEF StoreArgument, Stage, Free, Same, Keeps, Submits
    <2> QED BY <2>1, <2>2, InCallStays, AboutStays DEF Waiting, Listed, BeingRead, Answers, Sent
  <1>11. ASSUME NEW t \in Threads, CheckClient(t)
       PROVE  Waiting(r)'
    <2>1. UNCHANGED <<pending, reader, queue, inFlight, answered, asked>> /\ lost \subseteq lost'
      BY <1>11 DEF CheckClient, packetVars, eventVars, Fails
    <2>2. Alone(t) /\ (call[t].op # r \/ call'[t].op = r \/ r \in lost') /\ call'[t].pc # "register"
      BY <1>11, <1>n, ChecksCall, Failing DEF Fails, Same, Keeps
    <2> QED BY <2>1, <2>2, InCallStays, AboutStays DEF Waiting, Listed, BeingRead, Answers, Sent
  <1>12. ASSUME NEW t \in Threads, ConsumeCallback(t)
       PROVE  Waiting(r)'
    <2>1. UNCHANGED <<pending, reader, queue, inFlight, answered, asked>> /\ lost \subseteq lost'
      BY <1>12 DEF ConsumeCallback, packetVars, eventVars, Fails
    <2>2. Alone(t) /\ (call[t].op # r \/ call'[t].op = r \/ r \in lost') /\ call'[t].pc # "register"
      BY <1>12, <1>n, TakesCallback, Failing DEF Fails, Same, Keeps, Submits
    <2> QED BY <2>1, <2>2, InCallStays, AboutStays DEF Waiting, Listed, BeingRead, Answers, Sent
  <1>13. ASSUME NEW t \in Threads, ConsumeArgument(t)
       PROVE  Waiting(r)'
    <2>1. UNCHANGED <<pending, reader, queue, inFlight, answered, asked, lost>>
      BY <1>13 DEF ConsumeArgument, packetVars, eventVars
    <2>2. Alone(t) /\ (call[t].op # r \/ call'[t].op = r) /\ (call'[t].pc # "register" \/ call'[t].op # r)
      BY <1>13, <1>n, TakesArgument, CallsKnown DEF Stage, Free, Same, Keeps, Submits
    <2> QED BY <2>1, <2>2, InCallStays, AboutStays DEF Waiting, Listed, BeingRead, Answers, Sent
  <1>14. ASSUME NEW t \in Threads, AnswerInCall(t)
       PROVE  Waiting(r)'
    <2>1. UNCHANGED <<pending, reader, inFlight, answered, asked, lost>>
      BY <1>14 DEF AnswerInCall, packetVars
    <2>2. Alone(t) /\ call'[t].pc # "register"
      BY <1>14, <1>n, Simple DEF AnswerInCall
    <2>3. PICK e : e = Event(Entry(t), call[t].obj)
      OBVIOUS
    <2>4. queue' = Append(queue, e) /\ e.op = call[t].op /\ queue \in Seq(Events)
      BY <1>14, <2>3 DEF AnswerInCall, Event, Entry, Typed, TypeOK
    <2>5. \A i \in 1 .. Len(queue) : i \in 1 .. Len(queue') /\ queue'[i] = queue[i]
      BY <2>4
    <2>6. Len(queue') \in 1 .. Len(queue') /\ queue'[Len(queue')] = e
      BY <2>4
    <2>7. Answers(r) # {} => (Answers(r) # {})'
      BY <2>5 DEF Answers
    <2>8. call[t].op = r => (Answers(r) # {})'
      BY <2>4, <2>6 DEF Answers
    <2> QED BY <2>1, <2>2, <2>7, <2>8, InCallStays, AboutStays DEF Waiting, Listed, BeingRead, Sent
  <1>15. ASSUME NEW t \in Threads, SubmitRequest(t)
       PROVE  Waiting(r)'
    <2>1. UNCHANGED <<pending, reader, queue, answered, asked>>
      BY <1>15 DEF SubmitRequest, eventVars
    <2>2. Keeps(t) /\ (call[t].op = r => r \in Token(call[t].op, call[t].asker))
      BY <1>15, <1>n, SubmitsCall DEF Token
    <2>3. inFlight \subseteq inFlight' /\ lost \subseteq lost'
      BY <1>15 DEF SubmitRequest
    <2>4. Sent(r) => Sent(r)'
      BY <2>3 DEF Sent
    <2>5. call[t].op = r => r \in lost' \/ Sent(r)'
      <3>1. CASE call[t].client \in connected
        <4>1. PICK p : p = [client |-> call[t].client, pkt |-> counter[call[t].client] + 1,
                            op |-> call[t].op, asker |-> call[t].asker]
          OBVIOUS
        <4>2. p \in inFlight' /\ p.op = call[t].op
          BY <1>15, <3>1, <4>1 DEF SubmitRequest
        <4> QED BY <4>2 DEF Sent
      <3>2. CASE call[t].client \notin connected
        BY <1>15, <2>2, <3>2 DEF SubmitRequest
      <3> QED BY <3>1, <3>2
    <2>6. About(r)' => About(r) \/ call[t].op = r
      BY <2>2, AboutStays DEF Keeps
    <2>7. InCall(r) => InCall(r)'
      BY <2>2, InCallStays DEF Keeps
    <2> QED BY <2>1, <2>3, <2>4, <2>5, <2>6, <2>7 DEF Waiting, Listed, BeingRead, Answers
  <1>16. ASSUME NEW t \in Threads, Register(t)
       PROVE  Waiting(r)'
    <2>1. UNCHANGED <<queue, reader, inFlight, answered, asked>> /\ lost \subseteq lost'
      BY <1>16 DEF Register, eventVars
    <2>2. Alone(t) /\ call'[t].pc # "register" /\ call[t].pc = "register" /\ call[t].pkt \in 1 .. MaxPkt
      BY <1>16, <1>n, Simple, CallsKnown DEF Register, Stage
    <2>3. PICK e : e = Entry(t)
      OBVIOUS
    <2>4. e.op = call[t].op /\ e # None
      <3>1. e \in Entries
        BY <1>16, <2>3, EntryKnown DEF Register
      <3> QED BY <2>3, <3>1, NoneAssumption DEF Entry
    <2>5. \A n \in 1 .. MaxPkt : pending'[n] = IF n = call[t].pkt THEN e ELSE pending[n]
      BY <1>16, <2>3 DEF Register, Typed, TypeOK
    <2>6. call[t].op = r => Listed(r)' /\ About(r)
      BY <2>2, <2>4, <2>5 DEF Listed, About
    <2>7. Listed(r)' => Listed(r) \/ call[t].op = r
      BY <2>4, <2>5 DEF Listed
    <2>8. Listed(r) => Listed(r)' \/ r \in lost'
      <3>1. ASSUME NEW n \in 1 .. MaxPkt, pending[n] # None, pending[n].op = r
            PROVE  Listed(r)' \/ r \in lost'
        <4>1. CASE n = call[t].pkt
          <5>1. r \in Token(pending[n].op, pending[n].asker)
            BY <1>n, <3>1 DEF Token
          <5> QED BY <1>16, <3>1, <4>1, <5>1 DEF Register
        <4>2. CASE n # call[t].pkt
          BY <2>5, <3>1, <4>2 DEF Listed
        <4> QED BY <4>1, <4>2
      <3> QED BY <3>1 DEF Listed
    <2> QED BY <2>1, <2>2, <2>6, <2>7, <2>8, InCallStays, AboutStays DEF Waiting, BeingRead, Answers, Sent
  <1>17. ASSUME NEW t \in Threads, TermEventDispatcher(t)
       PROVE  Waiting(r)'
    <2>1. UNCHANGED <<pending, reader, inFlight, answered, asked>> /\ lost \subseteq lost'
      BY <1>17 DEF TermEventDispatcher, packetVars
    <2>2. Alone(t) /\ (call[t].op # r \/ call'[t].op = r) /\ (call'[t].pc # "register" \/ call'[t].op # r)
      BY <1>17, <1>n, Simple, CallsKnown DEF TermEventDispatcher, Stage, Free, Same, Keeps
    <2>3. Answers(r) # {} => r \in lost'
      <3>1. ASSUME NEW i \in 1 .. Len(queue), queue[i].op = r PROVE r \in lost'
        <4>1. r \in Token(queue[i].op, queue[i].asker)
          BY <1>n, <3>1 DEF Token
        <4> QED BY <1>17, <4>1 DEF TermEventDispatcher
      <3> QED BY <3>1, Answering
    <2> QED BY <2>1, <2>2, <2>3, InCallStays, AboutStays DEF Waiting, Listed, BeingRead, Sent
  <1>18. ASSUME NEW t \in Threads, Reset(t)
       PROVE  Waiting(r)'
    <2>1. UNCHANGED <<pending, reader, queue, inFlight, answered, asked, lost>>
      BY <1>18 DEF Reset, packetVars, eventVars
    <2>2. Alone(t) /\ (call[t].op # r \/ call'[t].op = r) /\ (call'[t].pc # "register" \/ call'[t].op # r)
      BY <1>18, <1>n, Simple, CallsKnown DEF Reset, Stage, Free, Same, Keeps, Submits
    <2> QED BY <2>1, <2>2, InCallStays, AboutStays DEF Waiting, Listed, BeingRead, Answers, Sent
  <1>19. ASSUME NEW t \in Threads, Terminate(t)
       PROVE  Waiting(r)'
    <2>1. UNCHANGED <<pending, reader, queue, inFlight, answered, asked, lost>>
      BY <1>19 DEF Terminate, packetVars, eventVars
    <2>2. Alone(t) /\ (call[t].op # r \/ call'[t].op = r) /\ (call'[t].pc # "register" \/ call'[t].op # r)
      BY <1>19, <1>n, Simple, CallsKnown DEF Terminate, Stage, Free, Same, Keeps, Submits
    <2> QED BY <2>1, <2>2, InCallStays, AboutStays DEF Waiting, Listed, BeingRead, Answers, Sent
  <1>20. ASSUME NEW c \in Clients, DispatchRequestComplete(c)
       PROVE  Waiting(r)'
    <2>1. UNCHANGED <<pending, inFlight, answered, asked, call>> /\ lost \subseteq lost'
      BY <1>20 DEF DispatchRequestComplete
    <2>2. PICK e : e = reader[c] /\ e # None
      BY <1>20 DEF DispatchRequestComplete
    <2>3. PICK o : o = slots[e.id]
      OBVIOUS
    <2>4. PICK f : f = Event(e, o)
      OBVIOUS
    <2>5. f.op = e.op
      BY <2>4 DEF Event
    <2>6. (queue' = queue /\ lost' = lost \cup Token(e.op, e.asker)) \/ queue' = Append(queue, f)
      BY <1>20, <2>2, <2>3, <2>4 DEF DispatchRequestComplete, Recipient
    <2>7. queue \in Seq(Events)
      BY DEF Typed, TypeOK
    <2>8. \A i \in 1 .. Len(queue) : i \in 1 .. Len(queue') /\ queue'[i] = queue[i]
      BY <2>6, <2>7
    <2>9. e.op = r => r \in lost' \/ (Answers(r) # {})'
      <3>1. CASE queue' = queue /\ lost' = lost \cup Token(e.op, e.asker)
        BY <1>n, <3>1 DEF Token
      <3>2. CASE queue' = Append(queue, f)
        <4>1. Len(queue') \in 1 .. Len(queue') /\ queue'[Len(queue')] = f
          BY <2>7, <3>2
        <4> QED BY <2>5, <4>1 DEF Answers
      <3> QED BY <2>6, <3>1, <3>2
    <2>10. Answers(r) # {} => (Answers(r) # {})'
      BY <2>8 DEF Answers
    <2>11. \A d \in Clients : d # c => reader'[d] = reader[d]
      BY <1>20 DEF DispatchRequestComplete, Typed, TypeOK
    <2>12. BeingRead(r) => BeingRead(r)' \/ r \in lost' \/ (Answers(r) # {})'
      BY <2>2, <2>9, <2>11 DEF BeingRead
    <2> QED BY <2>1, <2>10, <2>12 DEF Waiting, Listed, About, InCall, Sent
  <1>21. ASSUME NEW p \in inFlight, OnMatching2Reply(p)
       PROVE  Waiting(r)'
    <2>0. p.client \in Clients /\ p.pkt \in 1 .. MaxPkt /\ reader[p.client] = None
      BY <1>21 DEF Typed, TypeOK, Packets, OnMatching2Reply
    <2>1. UNCHANGED <<queue, answered, asked, call>> /\ lost \subseteq lost'
      BY <1>21 DEF OnMatching2Reply, eventVars
    <2>2. PICK e : e = pending[p.pkt]
      OBVIOUS
    <2>3. /\ \A n \in 1 .. MaxPkt : IF n = p.pkt THEN pending'[n] = None ELSE pending'[n] = pending[n]
          /\ \A d \in Clients : IF d = p.client THEN reader'[d] = e ELSE reader'[d] = reader[d]
          /\ inFlight' = inFlight \ {p}
      BY <1>21, <2>0, <2>2 DEF OnMatching2Reply, TakeEntry, Typed, TypeOK
    <2>4. BeingRead(r) => BeingRead(r)'
      BY <2>0, <2>3 DEF BeingRead
    <2>5. Listed(r) => Listed(r)' \/ (e # None /\ e.op = r)
      BY <2>2, <2>3 DEF Listed
    <2>6. e # None /\ e.op = r => BeingRead(r)'
      BY <2>0, <2>3 DEF BeingRead
    <2>7. Listed(r)' => Listed(r)
      BY <2>3 DEF Listed
    <2>8. Sent(r) => Sent(r)' \/ p.op = r
      BY <2>3 DEF Sent
    <2>9. p.op = r => r \in lost' \/ (e # None /\ e.op = r)
      <3>1. ASSUME p.op = r, ~(e # None /\ Token(e.op, e.asker) = Token(p.op, p.asker)) PROVE r \in lost'
        <4>1. r \in Token(p.op, p.asker)
          BY <1>n, <3>1 DEF Token
        <4> QED BY <1>21, <2>2, <3>1, <4>1 DEF OnMatching2Reply
      <3>2. ASSUME p.op = r, e # None, Token(e.op, e.asker) = Token(p.op, p.asker) PROVE e.op = r
        <4>1. e.asker \in Objects
          BY <2>0, <2>2, <3>2 DEF Typed, TypeOK, Entries
        <4>2. Token(p.op, p.asker) = {r}
          BY <1>n, <3>2 DEF Token
        <4> QED BY <3>2, <4>1, <4>2, Matching2Assumption DEF Token
      <3> QED BY <3>1, <3>2
    <2>10. e # None /\ e.op = r => ~Listed(r)' /\ ~About(r)
      <3>1. e # None /\ e.op = r => AtEntry(p.pkt, r)
        BY <1>n, <2>2 DEF AtEntry, Tok
      <3>2. \A n \in 1 .. MaxPkt : pending[n] # None /\ pending[n].op = r => AtEntry(n, r)
        BY <1>n DEF AtEntry, Tok
      <3>3. \A t \in Threads : call[t].op = r => AtCall(t, r)
        BY <1>n DEF AtCall, Tok
      <3>4. e # None /\ e.op = r => \A n \in 1 .. MaxPkt : ~AtEntry(n, r) \/ n = p.pkt
        BY <2>0, <3>1 DEF OnePlace
      <3>5. e # None /\ e.op = r => \A t \in Threads : ~AtCall(t, r)
        BY <2>0, <3>1 DEF OnePlace
      <3> QED BY <2>3, <3>2, <3>3, <3>4, <3>5 DEF Listed, About
    <2>11. InCall(r)' = InCall(r) /\ About(r)' = About(r) /\ Answers(r)' = Answers(r)
      BY <2>1 DEF InCall, About, Answers
    <2> QED BY <2>1, <2>4, <2>5, <2>6, <2>7, <2>8, <2>9, <2>10, <2>11 DEF Waiting
  <1>22. ASSUME NEW c \in Clients, LoseConnection(c)
       PROVE  Waiting(r)'
    <2>1. UNCHANGED <<pending, reader, queue, answered, asked, call>> /\ lost \subseteq lost'
      BY <1>22 DEF LoseConnection, eventVars
    <2>2. Sent(r) => Sent(r)' \/ r \in lost'
      <3>1. ASSUME NEW p \in inFlight, p.op = r PROVE Sent(r)' \/ r \in lost'
        <4>1. r \in Token(p.op, p.asker)
          BY <1>n, <3>1 DEF Token
        <4>2. CASE p.client = c
          BY <1>22, <3>1, <4>1, <4>2 DEF LoseConnection
        <4>3. CASE p.client # c
          BY <1>22, <3>1, <4>3 DEF LoseConnection, Sent
        <4> QED BY <4>2, <4>3
      <3> QED BY <3>1 DEF Sent
    <2> QED BY <2>1, <2>2 DEF Waiting, Listed, About, InCall, BeingRead, Answers
  <1>23. ASSUME SetMmShadNetClient
       PROVE  Waiting(r)'
    BY <1>23 DEF SetMmShadNetClient, vars, packetVars, eventVars, Waiting, Listed, About, InCall, BeingRead, Answers, Sent
  <1>24. ASSUME FireEvent
       PROVE  Waiting(r)'
    <2>1. UNCHANGED <<pending, reader, call, inFlight, asked, lost>>
      BY <1>24 DEF FireEvent, packetVars
    <2>2. /\ queue \in Seq(Events) /\ queue # <<>> /\ queue' = Tail(queue)
          /\ answered' = answered \cup ({queue[1].op} \cap Requests)
      BY <1>24 DEF FireEvent, Typed, TypeOK
    <2>3. \A i \in 1 .. Len(queue) : i = 1 \/ (i - 1 \in 1 .. Len(queue') /\ queue'[i - 1] = queue[i])
      BY <2>2
    <2>4. Answers(r) # {} => r \in answered' \/ (Answers(r) # {})'
      BY <2>2, <2>3 DEF Answers
    <2> QED BY <2>1, <2>2, <2>4 DEF Waiting, Listed, About, InCall, BeingRead, Sent
  <1>25. ASSUME CompleteStop
       PROVE  Waiting(r)'
    BY <1>25 DEF CompleteStop, vars, packetVars, eventVars, Waiting, Listed, About, InCall, BeingRead, Answers, Sent
  <1>26. ASSUME Initialize
       PROVE  Waiting(r)'
    BY <1>26 DEF Initialize, vars, packetVars, eventVars, Waiting, Listed, About, InCall, BeingRead, Answers, Sent
  <1>27. CASE UNCHANGED vars
    BY <1>27 DEF vars, vars, packetVars, eventVars, Waiting, Listed, About, InCall, BeingRead, Answers, Sent
  <1> QED
    BY <1>1, <1>2, <1>3, <1>4, <1>5, <1>6, <1>7, <1>8, <1>9, <1>10, <1>11, <1>12, <1>13, <1>14, <1>15, <1>16, <1>17, <1>18, <1>19, <1>20, <1>21, <1>22, <1>23, <1>24, <1>25, <1>26, <1>27 DEF Next, CallStep, ReaderStep, DispatcherStep

RequestPlaces == \A r \in Requests : OnePlace(r)

\* Every request is in one place, and waits for its event.
LEMMA RequestsHold ==
    /\ Init => RequestPlaces /\ Waits
    /\ Typed /\ RequestPlaces /\ Waits /\ [Next]_vars => RequestPlaces' /\ Waits'
  <1>1. ASSUME asked \subseteq Requests PROVE Waits <=> \A r \in Requests : Waiting(r)
    BY <1>1 DEF Waits, Waiting, RequestsWait
  <1>2. ASSUME Init PROVE RequestPlaces /\ Waits
    <2>1. \A t \in Threads : call[t] = Idle
      BY <1>2 DEF Init
    <2>2. \A r \in Requests, t \in Threads : ~AtCall(t, r)
      BY <2>1, Matching2Assumption DEF AtCall, Tok, Idle
    <2>3. RequestPlaces
      BY <1>2, <2>2 DEF Init, RequestPlaces, OnePlace, AtEntry, AtReader, AtQueue, Ended
    <2>4. Waits
      BY <1>2, <2>1 DEF Init, Waits, Listed, About, RequestsWait, Idle
    <2> QED BY <2>3, <2>4
  <1>3. ASSUME Typed, RequestPlaces, Waits, [Next]_vars PROVE RequestPlaces' /\ Waits'
    <2>1. Typed' /\ asked \subseteq Requests /\ asked' \subseteq Requests
      BY <1>3, TypedHolds DEF Typed, TypeOK
    <2>2. ASSUME NEW r \in Requests PROVE OnePlace(r)' /\ Waiting(r)'
      <3>1. r \notin started
        BY <1>3, Matching2Assumption DEF Typed, TypeOK
      <3>2. OnePlace(r) /\ Waiting(r)
        BY <1>1, <1>3, <2>1 DEF RequestPlaces
      <3> QED BY <1>3, <3>1, <3>2, OnePlaceStep, WaitingStep
    <2>3. asked' \subseteq Requests => (Waits' <=> \A r \in Requests : Waiting(r)')
      BY DEF Waits, Waiting, RequestsWait
    <2> QED BY <2>1, <2>2, <2>3 DEF RequestPlaces
  <1> QED BY <1>2, <1>3

\* One event at most waits for a request, and none once it has been told.
LEMMA AnswersUnique ==
    ASSUME Typed, RequestPlaces
    PROVE  AnsweredOnce
  <1>1. SUFFICES ASSUME NEW r \in Requests
                 PROVE  Cardinality(Answers(r)) <= 1 /\ (r \in answered => Answers(r) = {})
    BY DEF AnsweredOnce
  <1>2. \A i \in Answers(r) : i \in 1 .. Len(queue) /\ AtQueue(i, r)
    BY Matching2Assumption DEF Answers, AtQueue, Tok
  <1>3. r \in answered => Answers(r) = {}
    BY <1>2 DEF RequestPlaces, OnePlace, Ended
  <1>4. \A i, j \in Answers(r) : i = j
    BY <1>2 DEF RequestPlaces, OnePlace
  <1>5. CASE Answers(r) = {}
    BY <1>3, <1>5, FS_EmptySet
  <1>6. CASE Answers(r) # {}
    <2>1. PICK i : Answers(r) = {i}
      BY <1>4, <1>6
    <2> QED BY <1>3, <2>1, FS_Singleton
  <1> QED BY <1>5, <1>6

\* A request gets its event once, or waits for it with its packet on the network and its
\* entry in g_mm.pending, or was lost in one of the ways the code has.
THEOREM OneAnswerOrLostHolds == Spec => []OneAnswerOrLost
  <1>1. Typed /\ RequestPlaces /\ Waits => OneAnswerOrLost
    BY AnswersUnique DEF OneAnswerOrLost, Typed, Waits
  <1> QED BY <1>1, TypedHolds, RequestsHold, PTL DEF Spec

-----------------------------------------------------------------------------
(* References on signaling.                                                *)

Adding == {t \in Threads : call[t].pc = "add_ref"}
Releasing == {t \in Threads : call[t].pc = "release_ref"}
Held == Live \ doomed
Covered == ~unpaired => refs + Cardinality(Adding) = Cardinality(Held) + Cardinality(Releasing)

\* The sets that are counted are finite.
LEMMA Counted ==
    ASSUME Typed
    PROVE  /\ IsFiniteSet(Adding) /\ IsFiniteSet(Releasing) /\ IsFiniteSet(Held)
           /\ Cardinality(Adding) \in Nat /\ Cardinality(Releasing) \in Nat
           /\ Cardinality(Held) \in Nat
  <1>1. Adding \in SUBSET Threads /\ Releasing \in SUBSET Threads /\ Held \in SUBSET created
    BY DEF Adding, Releasing, Held, Typed, Known, Slotted
  <1>2. IsFiniteSet(Adding) /\ IsFiniteSet(Releasing) /\ IsFiniteSet(Held)
    BY <1>1, FS_Subset, Matching2Assumption DEF Typed, Known, Slotted
  <1> QED BY <1>2, FS_CardinalityType

\* A context that leaves its id is not in the list any more.
LEMMA LiveLoses ==
    ASSUME Typed, NEW id \in Ids, slots[id] # None, slots' = [slots EXCEPT ![id] = None]
    PROVE  Live' = Live \ {slots[id]}
  <1>1. slots \in [Ids -> Objects \cup {None}] /\ \A i \in Ids : slots[i] = slots[id] => i = id
    BY DEF Typed, TypeOK, Known, Slotted
  <1>2. \A i \in Ids : slots'[i] = IF i = id THEN None ELSE slots[i]
    BY <1>1
  <1>3. ASSUME NEW o PROVE o \in Live' <=> o \in Live \ {slots[id]}
    BY <1>1, <1>2 DEF Live
  <1> QED BY <1>3

\* A context that is created was not in it.
LEMMA LiveGains ==
    ASSUME Typed, NEW t \in Threads, NEW o \in Objects, CreateContext(t, o)
    PROVE  Live' = Live \cup {o} /\ o \notin Live
  <1>1. FirstFree \in Ids /\ slots[FirstFree] = None
    BY FirstFreeIsFree DEF CreateContext
  <1>2. PICK f \in Ids : slots[f] = None /\ slots' = [slots EXCEPT ![f] = o]
    BY <1>1 DEF CreateContext
  <1>3. \A i \in Ids : slots'[i] = IF i = f THEN o ELSE slots[i]
    BY <1>2 DEF Typed, TypeOK
  <1>4. o # None /\ o \notin Live
    BY Matching2Assumption DEF CreateContext, Typed, Known, Slotted
  <1>5. ASSUME NEW q PROVE q \in Live' <=> q \in Live \cup {o}
    BY <1>2, <1>3, <1>4 DEF Live
  <1> QED BY <1>4, <1>5

\* A call that is not about a reference leaves those that are.
LEMMA OtherCall ==
    ASSUME NEW t \in Threads, Alone(t)
    PROVE  /\ (call[t].pc = "add_ref" <=> call'[t].pc = "add_ref") => Adding' = Adding
           /\ (call[t].pc = "release_ref" <=> call'[t].pc = "release_ref") => Releasing' = Releasing
           /\ call'[t].pc = "add_ref" => Adding' = Adding \cup {t}
           /\ call'[t].pc = "release_ref" => Releasing' = Releasing \cup {t}
           /\ call'[t].pc # "add_ref" => Adding' = Adding \ {t}
           /\ call'[t].pc # "release_ref" => Releasing' = Releasing \ {t}
  BY DEF Alone, Adding, Releasing

\* CompleteStop removes a context that was not counted any more, if any.
LEMMA CompleteHeld ==
    ASSUME Typed, NEW id \in Ids, NEW o, Complete(id, o)
    PROVE  Held' = Held
  <1>1. CASE o # None /\ slots[id] = o /\ o \in doomed
    <2>1. Live' = Live \ {o} /\ doomed' = doomed \ {o}
      BY <1>1, LiveLoses DEF Complete
    <2> QED BY <1>1, <2>1 DEF Held
  <1>2. CASE ~(o # None /\ slots[id] = o /\ o \in doomed)
    <2>1. Live' = Live /\ doomed' = doomed
      BY <1>2 DEF Complete, Live
    <2> QED BY <2>1 DEF Held
  <1> QED BY <1>1, <1>2

\* A reference is taken for a context and released with it.
LEMMA RefsStep ==
    ASSUME Typed, RefsCover, [Next]_vars
    PROVE  RefsCover'
  <1>h. Covered /\ TypeOK
    BY DEF RefsCover, Covered, Adding, Releasing, Held, Typed
  <1>c. /\ IsFiniteSet(Adding) /\ IsFiniteSet(Releasing) /\ IsFiniteSet(Held)
        /\ Cardinality(Adding) \in Nat /\ Cardinality(Releasing) \in Nat /\ Cardinality(Held) \in Nat
    BY Counted
  <1>1. ASSUME NEW t \in Threads, NEW o \in Objects, CreateContext(t, o)
       PROVE  Covered'
    <2>1. UNCHANGED <<doomed, refs, unpaired>> /\ o \notin doomed
      BY <1>1, <1>h DEF CreateContext, refVars, TypeOK
    <2>2. Live' = Live \cup {o} /\ o \notin Live
      BY <1>1, LiveGains
    <2>3. Held' = Held \cup {o} /\ o \notin Held
      BY <2>1, <2>2 DEF Held
    <2>4. Alone(t) /\ call[t].pc = "idle" /\ call'[t].pc = "add_ref"
      BY <1>1, Simple DEF CreateContext, Same, Keeps, Idle
    <2>5. Adding' = Adding \cup {t} /\ t \notin Adding /\ Releasing' = Releasing
      BY <2>4, OtherCall DEF Adding
    <2>6. /\ Cardinality(Adding') = Cardinality(Adding) + 1
          /\ Cardinality(Held') = Cardinality(Held) + 1
      BY <1>c, <2>3, <2>5, FS_AddElement
    <2>8. ASSUME ~unpaired' PROVE refs' + Cardinality(Adding') = Cardinality(Held') + Cardinality(Releasing')
      <3>1. refs + Cardinality(Adding) = Cardinality(Held) + Cardinality(Releasing) /\ refs \in Nat
        BY <1>h, <2>1, <2>8 DEF Covered, TypeOK
      <3> QED BY <1>c, <2>1, <2>8, <2>5, <2>6, <3>1
    <2> QED BY <2>8 DEF Covered
  <1>2. ASSUME NEW t \in Threads, AddContextRef(t)
       PROVE  Covered'
    <2>1. UNCHANGED <<slots, doomed, unpaired>> /\ refs' = refs + 1
      BY <1>2 DEF AddContextRef, contextVars
    <2>4. Alone(t) /\ call[t].pc = "add_ref" /\ call'[t].pc = "idle"
      BY <1>2, Simple DEF AddContextRef, Idle
    <2>5. Adding' = Adding \ {t} /\ t \in Adding /\ Releasing' = Releasing
      BY <2>4, OtherCall DEF Adding
    <2>6. Cardinality(Adding') = Cardinality(Adding) - 1 /\ Cardinality(Adding') \in Nat
      BY <1>c, <2>5, FS_RemoveElement, FS_CardinalityType
    <2>7. Held' = Held
      BY <2>1 DEF Held, Live
    <2>8. ASSUME ~unpaired' PROVE refs' + Cardinality(Adding') = Cardinality(Held') + Cardinality(Releasing')
      <3>1. refs + Cardinality(Adding) = Cardinality(Held) + Cardinality(Releasing) /\ refs \in Nat
        BY <1>h, <2>1, <2>8 DEF Covered, TypeOK
      <3> QED BY <1>c, <2>1, <2>8, <2>5, <2>6, <2>7, <3>1
    <2> QED BY <2>8 DEF Covered
  <1>3. ASSUME NEW t \in Threads, ReleaseContextRef(t)
       PROVE  Covered'
    <2>0. UNCHANGED <<slots, doomed>>
      BY <1>3 DEF ReleaseContextRef, contextVars
    <2>2. ~unpaired' => ~unpaired /\ refs # 0
      BY <1>3 DEF ReleaseContextRef
    <2>3. refs # 0 => refs' = refs - 1
      BY <1>3, <1>h DEF ReleaseContextRef, LowerRefs, TypeOK
    <2>1. ~unpaired' => ~unpaired /\ refs' = refs - 1
      BY <2>2, <2>3
    <2>4. Alone(t) /\ call[t].pc = "release_ref" /\ call'[t].pc = "idle"
      BY <1>3, Simple DEF ReleaseContextRef, Idle
    <2>5. Releasing' = Releasing \ {t} /\ t \in Releasing /\ Adding' = Adding
      BY <2>4, OtherCall DEF Releasing
    <2>6. Cardinality(Releasing') = Cardinality(Releasing) - 1 /\ Cardinality(Releasing') \in Nat
      BY <1>c, <2>5, FS_RemoveElement, FS_CardinalityType
    <2>7. Held' = Held
      BY <2>0 DEF Held, Live
    <2>8. ASSUME ~unpaired' PROVE refs' + Cardinality(Adding') = Cardinality(Held') + Cardinality(Releasing')
      <3>1. refs + Cardinality(Adding) = Cardinality(Held) + Cardinality(Releasing) /\ refs \in Nat
        BY <1>h, <2>1, <2>8 DEF Covered, TypeOK
      <3> QED BY <1>c, <2>1, <2>8, <2>5, <2>6, <2>7, <3>1
    <2> QED BY <2>8 DEF Covered
  <1>4. ASSUME NEW t \in Threads, NEW id \in Ids, DestroyContext(t, id)
       PROVE  Covered'
    <2>1. refs' = refs /\ slots[id] # None /\ (unpaired' \/ (~unpaired /\ slots[id] \notin doomed))
      BY <1>4 DEF DestroyContext
    <2>2. slots[id] \notin doomed => Held' = Held \ {slots[id]} /\ slots[id] \in Held
      <3>1. CASE slots[id] \in stopping
        <4>1. slots' = slots /\ doomed' = doomed \cup {slots[id]}
          BY <1>4, <3>1 DEF DestroyContext, Remove
        <4> QED BY <2>1, <4>1 DEF Held, Live
      <3>2. CASE slots[id] \notin stopping
        <4>1. slots' = [slots EXCEPT ![id] = None] /\ doomed' = doomed
          BY <1>4, <3>2 DEF DestroyContext, Remove
        <4>2. Live' = Live \ {slots[id]} /\ slots[id] \in Live
          BY <2>1, <4>1, LiveLoses DEF Live
        <4> QED BY <4>1, <4>2 DEF Held
      <3> QED BY <3>1, <3>2
    <2>4. Alone(t) /\ call[t].pc = "idle" /\ call'[t].pc = "release_ref"
      BY <1>4, Simple DEF DestroyContext, Same, Keeps, Idle
    <2>5. Releasing' = Releasing \cup {t} /\ t \notin Releasing /\ Adding' = Adding
      BY <2>4, OtherCall DEF Releasing
    <2>6. Cardinality(Releasing') = Cardinality(Releasing) + 1
      BY <1>c, <2>5, FS_AddElement
    <2>7. slots[id] \notin doomed => Cardinality(Held') = Cardinality(Held) - 1 /\ Cardinality(Held') \in Nat
      BY <1>c, <2>2, FS_RemoveElement, FS_CardinalityType
    <2>8. ASSUME ~unpaired' PROVE refs' + Cardinality(Adding') = Cardinality(Held') + Cardinality(Releasing')
      <3>1. refs + Cardinality(Adding) = Cardinality(Held) + Cardinality(Releasing) /\ refs \in Nat
        BY <1>h, <2>1, <2>8 DEF Covered, TypeOK
      <3> QED BY <1>c, <2>1, <2>8, <2>5, <2>6, <2>7, <3>1
    <2> QED BY <2>8 DEF Covered
  <1>5. ASSUME NEW t \in Threads, NEW id \in Ids, ContextStart(t, id)
       PROVE  Covered'
    <2>1. UNCHANGED <<slots, refs>> /\ (unpaired' \/ (~unpaired /\ doomed' = doomed))
      BY <1>5 DEF ContextStart
    <2>2. Alone(t) /\ {call[t].pc, call'[t].pc} \cap {"add_ref", "release_ref"} = {}
      BY <1>5, StartsCall DEF Idle
    <2>3. Adding' = Adding /\ Releasing' = Releasing
      BY <2>2, OtherCall
    <2> QED BY <1>h, <2>1, <2>3 DEF Covered, Held, Live
  <1>6. ASSUME NEW t \in Threads, NEW id \in Ids, ContextStop(t, id)
       PROVE  Covered'
    <2>1. UNCHANGED <<slots, doomed, refs, unpaired>>
      BY <1>6 DEF ContextStop, contextVars, refVars
    <2>2. Alone(t) /\ {call[t].pc, call'[t].pc} \cap {"add_ref", "release_ref"} = {}
      BY <1>6, StopsCall DEF Same, Keeps, Submits, Idle
    <2>3. Adding' = Adding /\ Releasing' = Releasing
      BY <2>2, OtherCall
    <2> QED BY <1>h, <2>1, <2>3 DEF Covered, Held, Live
  <1>7. ASSUME NEW t \in Threads, FindStopping(t)
       PROVE  Covered'
    <2>1. UNCHANGED <<slots, doomed, refs, unpaired>>
      BY <1>7 DEF FindStopping, contextVars, refVars
    <2>2. Alone(t) /\ {call[t].pc, call'[t].pc} \cap {"add_ref", "release_ref"} = {}
      BY <1>7, FindsCall DEF Same, Keeps, Submits, Idle
    <2>3. Adding' = Adding /\ Releasing' = Releasing
      BY <2>2, OtherCall
    <2> QED BY <1>h, <2>1, <2>3 DEF Covered, Held, Live
  <1>8. ASSUME NEW t \in Threads, StopAtOnce(t)
       PROVE  Covered'
    <2>1. UNCHANGED <<refs, unpaired>> /\ call[t].id \in Ids /\ Complete(call[t].id, call[t].obj)
      BY <1>8, CallsKnown DEF StopAtOnce, refVars, Stage, Early, Named
    <2>2. Alone(t) /\ {call[t].pc, call'[t].pc} \cap {"add_ref", "release_ref"} = {}
      BY <1>8, Simple DEF StopAtOnce, Idle
    <2>3. Adding' = Adding /\ Releasing' = Releasing
      BY <2>2, OtherCall
    <2> QED BY <1>h, <2>1, <2>3, CompleteHeld DEF Covered
  <1>9. ASSUME NEW t \in Threads, NEW id \in Ids, NEW r \in Requests, Request(t, id, r)
       PROVE  Covered'
    <2>1. UNCHANGED <<slots, doomed, refs, unpaired>>
      BY <1>9 DEF Request, contextVars, refVars
    <2>2. Alone(t) /\ {call[t].pc, call'[t].pc} \cap {"add_ref", "release_ref"} = {}
      BY <1>9, RequestCall DEF Same, Keeps, Submits, Idle
    <2>3. Adding' = Adding /\ Releasing' = Releasing
      BY <2>2, OtherCall
    <2> QED BY <1>h, <2>1, <2>3 DEF Covered, Held, Live
  <1>10. ASSUME NEW t \in Threads, StoreArgument(t)
       PROVE  Covered'
    <2>1. UNCHANGED <<slots, doomed, refs, unpaired>>
      BY <1>10 DEF StoreArgument, contextVars, refVars
    <2>2. Alone(t) /\ {call[t].pc, call'[t].pc} \cap {"add_ref", "release_ref"} = {}
      BY <1>10, Simple DEF StoreArgument, Same, Keeps, Submits, Idle
    <2>3. Adding' = Adding /\ Releasing' = Releasing
      BY <2>2, OtherCall
    <2> QED BY <1>h, <2>1, <2>3 DEF Covered, Held, Live
  <1>11. ASSUME NEW t \in Threads, CheckClient(t)
       PROVE  Covered'
    <2>1. UNCHANGED <<slots, doomed, refs, unpaired>>
      BY <1>11 DEF CheckClient, contextVars, refVars
    <2>2. Alone(t) /\ {call[t].pc, call'[t].pc} \cap {"add_ref", "release_ref"} = {}
      BY <1>11, ChecksCall, Failing DEF Same, Keeps, Submits, Idle
    <2>3. Adding' = Adding /\ Releasing' = Releasing
      BY <2>2, OtherCall
    <2> QED BY <1>h, <2>1, <2>3 DEF Covered, Held, Live
  <1>12. ASSUME NEW t \in Threads, ConsumeCallback(t)
       PROVE  Covered'
    <2>1. UNCHANGED <<slots, doomed, refs, unpaired>>
      BY <1>12 DEF ConsumeCallback, contextVars, refVars
    <2>2. Alone(t) /\ {call[t].pc, call'[t].pc} \cap {"add_ref", "release_ref"} = {}
      BY <1>12, TakesCallback, Failing DEF Same, Keeps, Submits, Idle
    <2>3. Adding' = Adding /\ Releasing' = Releasing
      BY <2>2, OtherCall
    <2> QED BY <1>h, <2>1, <2>3 DEF Covered, Held, Live
  <1>13. ASSUME NEW t \in Threads, ConsumeArgument(t)
       PROVE  Covered'
    <2>1. UNCHANGED <<slots, doomed, refs, unpaired>>
      BY <1>13 DEF ConsumeArgument, contextVars, refVars
    <2>2. Alone(t) /\ {call[t].pc, call'[t].pc} \cap {"add_ref", "release_ref"} = {}
      BY <1>13, TakesArgument DEF Same, Keeps, Submits, Idle
    <2>3. Adding' = Adding /\ Releasing' = Releasing
      BY <2>2, OtherCall
    <2> QED BY <1>h, <2>1, <2>3 DEF Covered, Held, Live
  <1>14. ASSUME NEW t \in Threads, AnswerInCall(t)
       PROVE  Covered'
    <2>1. UNCHANGED <<slots, doomed, refs, unpaired>>
      BY <1>14 DEF AnswerInCall, contextVars, refVars
    <2>2. Alone(t) /\ {call[t].pc, call'[t].pc} \cap {"add_ref", "release_ref"} = {}
      BY <1>14, Simple DEF AnswerInCall, Same, Keeps, Submits, Idle
    <2>3. Adding' = Adding /\ Releasing' = Releasing
      BY <2>2, OtherCall
    <2> QED BY <1>h, <2>1, <2>3 DEF Covered, Held, Live
  <1>15. ASSUME NEW t \in Threads, SubmitRequest(t)
       PROVE  Covered'
    <2>1. UNCHANGED <<slots, doomed, refs, unpaired>>
      BY <1>15 DEF SubmitRequest, contextVars, refVars
    <2>2. Alone(t) /\ {call[t].pc, call'[t].pc} \cap {"add_ref", "release_ref"} = {}
      BY <1>15, SubmitsCall DEF Same, Keeps, Submits, Idle
    <2>3. Adding' = Adding /\ Releasing' = Releasing
      BY <2>2, OtherCall
    <2> QED BY <1>h, <2>1, <2>3 DEF Covered, Held, Live
  <1>16. ASSUME NEW t \in Threads, Register(t)
       PROVE  Covered'
    <2>1. UNCHANGED <<slots, doomed, refs, unpaired>>
      BY <1>16 DEF Register, contextVars, refVars
    <2>2. Alone(t) /\ {call[t].pc, call'[t].pc} \cap {"add_ref", "release_ref"} = {}
      BY <1>16, Simple DEF Register, Same, Keeps, Submits, Idle
    <2>3. Adding' = Adding /\ Releasing' = Releasing
      BY <2>2, OtherCall
    <2> QED BY <1>h, <2>1, <2>3 DEF Covered, Held, Live
  <1>17. ASSUME NEW t \in Threads, TermEventDispatcher(t)
       PROVE  Covered'
    <2>1. UNCHANGED <<slots, doomed, refs, unpaired>>
      BY <1>17 DEF TermEventDispatcher, contextVars, refVars
    <2>2. Alone(t) /\ {call[t].pc, call'[t].pc} \cap {"add_ref", "release_ref"} = {}
      BY <1>17, Simple DEF TermEventDispatcher, Same, Keeps, Submits, Idle
    <2>3. Adding' = Adding /\ Releasing' = Releasing
      BY <2>2, OtherCall
    <2> QED BY <1>h, <2>1, <2>3 DEF Covered, Held, Live
  <1>18. ASSUME NEW t \in Threads, Reset(t)
       PROVE  Covered'
    BY <1>18 DEF Reset, Covered
  <1>19. ASSUME NEW t \in Threads, Terminate(t)
       PROVE  Covered'
    <2>1. UNCHANGED <<slots, doomed, refs, unpaired>>
      BY <1>19 DEF Terminate, contextVars, refVars
    <2>2. Alone(t) /\ {call[t].pc, call'[t].pc} \cap {"add_ref", "release_ref"} = {}
      BY <1>19, Simple DEF Terminate, Same, Keeps, Submits, Idle
    <2>3. Adding' = Adding /\ Releasing' = Releasing
      BY <2>2, OtherCall
    <2> QED BY <1>h, <2>1, <2>3 DEF Covered, Held, Live
  <1>20. ASSUME NEW c \in Clients, DispatchRequestComplete(c)
       PROVE  Covered'
    BY <1>20, <1>h DEF DispatchRequestComplete, vars, contextVars, refVars, Covered, Held, Live, Adding, Releasing
  <1>21. ASSUME NEW p \in inFlight, OnMatching2Reply(p)
       PROVE  Covered'
    BY <1>21, <1>h DEF OnMatching2Reply, vars, contextVars, refVars, Covered, Held, Live, Adding, Releasing
  <1>22. ASSUME NEW c \in Clients, LoseConnection(c)
       PROVE  Covered'
    BY <1>22, <1>h DEF LoseConnection, vars, contextVars, refVars, Covered, Held, Live, Adding, Releasing
  <1>23. ASSUME SetMmShadNetClient
       PROVE  Covered'
    BY <1>23, <1>h DEF SetMmShadNetClient, vars, contextVars, refVars, Covered, Held, Live, Adding, Releasing
  <1>24. ASSUME FireEvent
       PROVE  Covered'
    BY <1>24, <1>h DEF FireEvent, vars, contextVars, refVars, Covered, Held, Live, Adding, Releasing
  <1>25. ASSUME CompleteStop
       PROVE  Covered'
    <2>1. UNCHANGED <<refs, unpaired, call>> /\ firing.id \in Ids /\ Complete(firing.id, firing.obj)
      BY <1>25 DEF CompleteStop, refVars, Typed, TypeOK, Events
    <2> QED BY <1>h, <2>1, CompleteHeld DEF Covered, Adding, Releasing
  <1>26. ASSUME Initialize
       PROVE  Covered'
    BY <1>26, <1>h DEF Initialize, vars, contextVars, refVars, Covered, Held, Live, Adding, Releasing
  <1>27. ASSUME UNCHANGED vars PROVE Covered'
    <2>1. UNCHANGED <<slots, doomed, refs, unpaired, call>>
      BY <1>27 DEF vars, contextVars, refVars
    <2>2. Held' = Held /\ Adding' = Adding /\ Releasing' = Releasing
      BY <2>1 DEF Held, Live, Adding, Releasing
    <2> QED BY <1>h, <2>1, <2>2 DEF Covered
  <1>28. Covered'
    BY <1>1, <1>2, <1>3, <1>4, <1>5, <1>6, <1>7, <1>8, <1>9, <1>10, <1>11, <1>12, <1>13, <1>14, <1>15, <1>16, <1>17, <1>18, <1>19, <1>20, <1>21, <1>22, <1>23, <1>24, <1>25, <1>26, <1>27 DEF Next, CallStep, ReaderStep, DispatcherStep
  <1> QED BY <1>28 DEF RefsCover, Covered, Adding, Releasing, Held

\* References are taken and released in pairs, so signaling has one for each context that
\* was not destroyed, until one is released once too often.
THEOREM RefsCovered == Spec => []RefsCover
  <1>1. Init => RefsCover
    <2>1. ASSUME Init PROVE Adding = {} /\ Releasing = {} /\ Held = {} /\ refs = 0
      BY <2>1 DEF Init, Adding, Releasing, Held, Live, Idle
    <2> QED BY <2>1, FS_EmptySet DEF RefsCover, Adding, Releasing, Held
  <1>2. Typed /\ RefsCover /\ [Next]_vars => RefsCover'
    BY RefsStep
  <1> QED BY <1>1, <1>2, TypedHolds, PTL DEF Spec

-----------------------------------------------------------------------------
(* The stop of a context.                                                  *)

\* A context that was created gets no new id.
LEMMA OldIds ==
    ASSUME Typed, [Next]_vars
    PROVE  \A q \in created, i \in Ids : slots'[i] = q => slots[i] = q
  <1>1. ASSUME NEW t \in Threads, NEW o \in Objects, CreateContext(t, o)
       PROVE  \A q \in created, i \in Ids : slots'[i] = q => slots[i] = q
    <2>1. PICK f \in Ids : slots' = [slots EXCEPT ![f] = o]
      BY <1>1, FirstFreeIsFree DEF CreateContext
    <2> QED BY <1>1, <2>1 DEF CreateContext, Typed, TypeOK
  <1>2. ASSUME NEW t \in Threads, AddContextRef(t)
       PROVE  \A q \in created, i \in Ids : slots'[i] = q => slots[i] = q
    BY <1>2 DEF AddContextRef, contextVars
  <1>3. ASSUME NEW t \in Threads, ReleaseContextRef(t)
       PROVE  \A q \in created, i \in Ids : slots'[i] = q => slots[i] = q
    BY <1>3 DEF ReleaseContextRef, contextVars
  <1>4. ASSUME NEW t \in Threads, NEW id \in Ids, DestroyContext(t, id)
       PROVE  \A q \in created, i \in Ids : slots'[i] = q => slots[i] = q
    <2>1. slots' = slots \/ slots' = [slots EXCEPT ![id] = None]
      BY <1>4 DEF DestroyContext, Remove
    <2> QED BY <2>1, Matching2Assumption DEF Typed, TypeOK
  <1>5. ASSUME NEW t \in Threads, NEW id \in Ids, ContextStart(t, id)
       PROVE  \A q \in created, i \in Ids : slots'[i] = q => slots[i] = q
    BY <1>5 DEF ContextStart, contextVars
  <1>6. ASSUME NEW t \in Threads, NEW id \in Ids, ContextStop(t, id)
       PROVE  \A q \in created, i \in Ids : slots'[i] = q => slots[i] = q
    BY <1>6 DEF ContextStop, contextVars
  <1>7. ASSUME NEW t \in Threads, FindStopping(t)
       PROVE  \A q \in created, i \in Ids : slots'[i] = q => slots[i] = q
    BY <1>7 DEF FindStopping, contextVars
  <1>8. ASSUME NEW t \in Threads, StopAtOnce(t)
       PROVE  \A q \in created, i \in Ids : slots'[i] = q => slots[i] = q
    <2>1. slots' = slots \/ slots' = [slots EXCEPT ![call[t].id] = None]
      BY <1>8 DEF StopAtOnce, Complete
    <2> QED BY <2>1, Matching2Assumption DEF Typed, TypeOK
  <1>9. ASSUME NEW t \in Threads, NEW id \in Ids, NEW r \in Requests, Request(t, id, r)
       PROVE  \A q \in created, i \in Ids : slots'[i] = q => slots[i] = q
    BY <1>9 DEF Request, contextVars
  <1>10. ASSUME NEW t \in Threads, StoreArgument(t)
       PROVE  \A q \in created, i \in Ids : slots'[i] = q => slots[i] = q
    BY <1>10 DEF StoreArgument, contextVars
  <1>11. ASSUME NEW t \in Threads, CheckClient(t)
       PROVE  \A q \in created, i \in Ids : slots'[i] = q => slots[i] = q
    BY <1>11 DEF CheckClient, contextVars
  <1>12. ASSUME NEW t \in Threads, ConsumeCallback(t)
       PROVE  \A q \in created, i \in Ids : slots'[i] = q => slots[i] = q
    BY <1>12 DEF ConsumeCallback, contextVars
  <1>13. ASSUME NEW t \in Threads, ConsumeArgument(t)
       PROVE  \A q \in created, i \in Ids : slots'[i] = q => slots[i] = q
    BY <1>13 DEF ConsumeArgument, contextVars
  <1>14. ASSUME NEW t \in Threads, AnswerInCall(t)
       PROVE  \A q \in created, i \in Ids : slots'[i] = q => slots[i] = q
    BY <1>14 DEF AnswerInCall, contextVars
  <1>15. ASSUME NEW t \in Threads, SubmitRequest(t)
       PROVE  \A q \in created, i \in Ids : slots'[i] = q => slots[i] = q
    BY <1>15 DEF SubmitRequest, contextVars
  <1>16. ASSUME NEW t \in Threads, Register(t)
       PROVE  \A q \in created, i \in Ids : slots'[i] = q => slots[i] = q
    BY <1>16 DEF Register, contextVars
  <1>17. ASSUME NEW t \in Threads, TermEventDispatcher(t)
       PROVE  \A q \in created, i \in Ids : slots'[i] = q => slots[i] = q
    BY <1>17 DEF TermEventDispatcher, contextVars
  <1>18. ASSUME NEW t \in Threads, Reset(t)
       PROVE  \A q \in created, i \in Ids : slots'[i] = q => slots[i] = q
    BY <1>18, Matching2Assumption DEF Reset, Typed, TypeOK
  <1>19. ASSUME NEW t \in Threads, Terminate(t)
       PROVE  \A q \in created, i \in Ids : slots'[i] = q => slots[i] = q
    BY <1>19 DEF Terminate, contextVars
  <1>20. ASSUME NEW c \in Clients, DispatchRequestComplete(c)
       PROVE  \A q \in created, i \in Ids : slots'[i] = q => slots[i] = q
    BY <1>20 DEF DispatchRequestComplete, contextVars
  <1>21. ASSUME NEW p \in inFlight, OnMatching2Reply(p)
       PROVE  \A q \in created, i \in Ids : slots'[i] = q => slots[i] = q
    BY <1>21 DEF OnMatching2Reply, contextVars
  <1>22. ASSUME NEW c \in Clients, LoseConnection(c)
       PROVE  \A q \in created, i \in Ids : slots'[i] = q => slots[i] = q
    BY <1>22 DEF LoseConnection, contextVars
  <1>23. ASSUME SetMmShadNetClient
       PROVE  \A q \in created, i \in Ids : slots'[i] = q => slots[i] = q
    BY <1>23 DEF SetMmShadNetClient, contextVars
  <1>24. ASSUME FireEvent
       PROVE  \A q \in created, i \in Ids : slots'[i] = q => slots[i] = q
    BY <1>24 DEF FireEvent, contextVars
  <1>25. ASSUME CompleteStop
       PROVE  \A q \in created, i \in Ids : slots'[i] = q => slots[i] = q
    <2>1. slots' = slots \/ slots' = [slots EXCEPT ![firing.id] = None]
      BY <1>25 DEF CompleteStop, Complete
    <2> QED BY <2>1, Matching2Assumption DEF Typed, TypeOK
  <1>26. ASSUME Initialize
       PROVE  \A q \in created, i \in Ids : slots'[i] = q => slots[i] = q
    BY <1>26 DEF Initialize, contextVars
  <1>27. CASE UNCHANGED vars
    BY <1>27 DEF vars, contextVars
  <1> QED
    BY <1>1, <1>2, <1>3, <1>4, <1>5, <1>6, <1>7, <1>8, <1>9, <1>10, <1>11, <1>12, <1>13, <1>14, <1>15, <1>16, <1>17, <1>18, <1>19, <1>20, <1>21, <1>22, <1>23, <1>24, <1>25, <1>26, <1>27 DEF Next, CallStep, ReaderStep, DispatcherStep

\* What has been lost or overtaken remains so.
LEMMA OnlyMore ==
    ASSUME Typed, [Next]_vars
    PROVE  lost \subseteq lost' /\ overtaken \subseteq overtaken' /\ life <= life'
  <1>l. life \in Nat
    BY DEF Typed, TypeOK
  <1>1. ASSUME NEW t \in Threads, NEW o \in Objects, CreateContext(t, o)
       PROVE  lost \subseteq lost' /\ overtaken \subseteq overtaken' /\ life <= life'
    BY <1>1, <1>l DEF CreateContext, contextVars, stateVars
  <1>2. ASSUME NEW t \in Threads, AddContextRef(t)
       PROVE  lost \subseteq lost' /\ overtaken \subseteq overtaken' /\ life <= life'
    BY <1>2, <1>l DEF AddContextRef, contextVars, stateVars
  <1>3. ASSUME NEW t \in Threads, ReleaseContextRef(t)
       PROVE  lost \subseteq lost' /\ overtaken \subseteq overtaken' /\ life <= life'
    BY <1>3, <1>l DEF ReleaseContextRef, contextVars, stateVars
  <1>4. ASSUME NEW t \in Threads, NEW id \in Ids, DestroyContext(t, id)
       PROVE  lost \subseteq lost' /\ overtaken \subseteq overtaken' /\ life <= life'
    BY <1>4, <1>l DEF DestroyContext, contextVars, stateVars
  <1>5. ASSUME NEW t \in Threads, NEW id \in Ids, ContextStart(t, id)
       PROVE  lost \subseteq lost' /\ overtaken \subseteq overtaken' /\ life <= life'
    BY <1>5, <1>l DEF ContextStart, contextVars, stateVars
  <1>6. ASSUME NEW t \in Threads, NEW id \in Ids, ContextStop(t, id)
       PROVE  lost \subseteq lost' /\ overtaken \subseteq overtaken' /\ life <= life'
    BY <1>6, <1>l DEF ContextStop, contextVars, stateVars
  <1>7. ASSUME NEW t \in Threads, FindStopping(t)
       PROVE  lost \subseteq lost' /\ overtaken \subseteq overtaken' /\ life <= life'
    BY <1>7, <1>l DEF FindStopping, contextVars, stateVars
  <1>8. ASSUME NEW t \in Threads, StopAtOnce(t)
       PROVE  lost \subseteq lost' /\ overtaken \subseteq overtaken' /\ life <= life'
    BY <1>8, <1>l DEF StopAtOnce, contextVars, stateVars
  <1>9. ASSUME NEW t \in Threads, NEW id \in Ids, NEW r \in Requests, Request(t, id, r)
       PROVE  lost \subseteq lost' /\ overtaken \subseteq overtaken' /\ life <= life'
    BY <1>9, <1>l DEF Request, contextVars, stateVars
  <1>10. ASSUME NEW t \in Threads, StoreArgument(t)
       PROVE  lost \subseteq lost' /\ overtaken \subseteq overtaken' /\ life <= life'
    BY <1>10, <1>l DEF StoreArgument, contextVars, stateVars
  <1>11. ASSUME NEW t \in Threads, CheckClient(t)
       PROVE  lost \subseteq lost' /\ overtaken \subseteq overtaken' /\ life <= life'
    BY <1>11, <1>l DEF CheckClient, Fails, contextVars, stateVars
  <1>12. ASSUME NEW t \in Threads, ConsumeCallback(t)
       PROVE  lost \subseteq lost' /\ overtaken \subseteq overtaken' /\ life <= life'
    BY <1>12, <1>l DEF ConsumeCallback, Fails, contextVars, stateVars
  <1>13. ASSUME NEW t \in Threads, ConsumeArgument(t)
       PROVE  lost \subseteq lost' /\ overtaken \subseteq overtaken' /\ life <= life'
    BY <1>13, <1>l DEF ConsumeArgument, contextVars, stateVars
  <1>14. ASSUME NEW t \in Threads, AnswerInCall(t)
       PROVE  lost \subseteq lost' /\ overtaken \subseteq overtaken' /\ life <= life'
    BY <1>14, <1>l DEF AnswerInCall, contextVars, stateVars
  <1>15. ASSUME NEW t \in Threads, SubmitRequest(t)
       PROVE  lost \subseteq lost' /\ overtaken \subseteq overtaken' /\ life <= life'
    BY <1>15, <1>l DEF SubmitRequest, contextVars, stateVars
  <1>16. ASSUME NEW t \in Threads, Register(t)
       PROVE  lost \subseteq lost' /\ overtaken \subseteq overtaken' /\ life <= life'
    BY <1>16, <1>l DEF Register, contextVars, stateVars
  <1>17. ASSUME NEW t \in Threads, TermEventDispatcher(t)
       PROVE  lost \subseteq lost' /\ overtaken \subseteq overtaken' /\ life <= life'
    BY <1>17, <1>l DEF TermEventDispatcher, contextVars, stateVars
  <1>18. ASSUME NEW t \in Threads, Reset(t)
       PROVE  lost \subseteq lost' /\ overtaken \subseteq overtaken' /\ life <= life'
    BY <1>18, <1>l DEF Reset, contextVars, stateVars
  <1>19. ASSUME NEW t \in Threads, Terminate(t)
       PROVE  lost \subseteq lost' /\ overtaken \subseteq overtaken' /\ life <= life'
    BY <1>19, <1>l DEF Terminate, contextVars, stateVars
  <1>20. ASSUME NEW c \in Clients, DispatchRequestComplete(c)
       PROVE  lost \subseteq lost' /\ overtaken \subseteq overtaken' /\ life <= life'
    BY <1>20, <1>l DEF DispatchRequestComplete, contextVars, stateVars
  <1>21. ASSUME NEW p \in inFlight, OnMatching2Reply(p)
       PROVE  lost \subseteq lost' /\ overtaken \subseteq overtaken' /\ life <= life'
    BY <1>21, <1>l DEF OnMatching2Reply, contextVars, stateVars
  <1>22. ASSUME NEW c \in Clients, LoseConnection(c)
       PROVE  lost \subseteq lost' /\ overtaken \subseteq overtaken' /\ life <= life'
    BY <1>22, <1>l DEF LoseConnection, contextVars, stateVars
  <1>23. ASSUME SetMmShadNetClient
       PROVE  lost \subseteq lost' /\ overtaken \subseteq overtaken' /\ life <= life'
    BY <1>23, <1>l DEF SetMmShadNetClient, contextVars, stateVars
  <1>24. ASSUME FireEvent
       PROVE  lost \subseteq lost' /\ overtaken \subseteq overtaken' /\ life <= life'
    BY <1>24, <1>l DEF FireEvent, contextVars, stateVars
  <1>25. ASSUME CompleteStop
       PROVE  lost \subseteq lost' /\ overtaken \subseteq overtaken' /\ life <= life'
    BY <1>25, <1>l DEF CompleteStop, contextVars, stateVars
  <1>26. ASSUME Initialize
       PROVE  lost \subseteq lost' /\ overtaken \subseteq overtaken' /\ life <= life'
    BY <1>26, <1>l DEF Initialize, contextVars, stateVars
  <1>27. CASE UNCHANGED vars
    BY <1>27, <1>l DEF vars, contextVars, stateVars
  <1> QED
    BY <1>1, <1>2, <1>3, <1>4, <1>5, <1>6, <1>7, <1>8, <1>9, <1>10, <1>11, <1>12, <1>13, <1>14, <1>15, <1>16, <1>17, <1>18, <1>19, <1>20, <1>21, <1>22, <1>23, <1>24, <1>25, <1>26, <1>27 DEF Next, CallStep, ReaderStep, DispatcherStep

\* A reference that was missing once is never made up for.
LEMMA StillUnpaired ==
    ASSUME Typed, [Next]_vars
    PROVE  unpaired => unpaired'
  <1>1. ASSUME NEW t \in Threads, NEW o \in Objects, CreateContext(t, o)
       PROVE  unpaired => unpaired'
    BY <1>1 DEF CreateContext, refVars
  <1>2. ASSUME NEW t \in Threads, AddContextRef(t)
       PROVE  unpaired => unpaired'
    BY <1>2 DEF AddContextRef, refVars
  <1>3. ASSUME NEW t \in Threads, ReleaseContextRef(t)
       PROVE  unpaired => unpaired'
    BY <1>3 DEF ReleaseContextRef, refVars
  <1>4. ASSUME NEW t \in Threads, NEW id \in Ids, DestroyContext(t, id)
       PROVE  unpaired => unpaired'
    BY <1>4 DEF DestroyContext, refVars
  <1>5. ASSUME NEW t \in Threads, NEW id \in Ids, ContextStart(t, id)
       PROVE  unpaired => unpaired'
    BY <1>5 DEF ContextStart, refVars
  <1>6. ASSUME NEW t \in Threads, NEW id \in Ids, ContextStop(t, id)
       PROVE  unpaired => unpaired'
    BY <1>6 DEF ContextStop, refVars
  <1>7. ASSUME NEW t \in Threads, FindStopping(t)
       PROVE  unpaired => unpaired'
    BY <1>7 DEF FindStopping, refVars
  <1>8. ASSUME NEW t \in Threads, StopAtOnce(t)
       PROVE  unpaired => unpaired'
    BY <1>8 DEF StopAtOnce, refVars
  <1>9. ASSUME NEW t \in Threads, NEW id \in Ids, NEW r \in Requests, Request(t, id, r)
       PROVE  unpaired => unpaired'
    BY <1>9 DEF Request, refVars
  <1>10. ASSUME NEW t \in Threads, StoreArgument(t)
       PROVE  unpaired => unpaired'
    BY <1>10 DEF StoreArgument, refVars
  <1>11. ASSUME NEW t \in Threads, CheckClient(t)
       PROVE  unpaired => unpaired'
    BY <1>11 DEF CheckClient, refVars
  <1>12. ASSUME NEW t \in Threads, ConsumeCallback(t)
       PROVE  unpaired => unpaired'
    BY <1>12 DEF ConsumeCallback, refVars
  <1>13. ASSUME NEW t \in Threads, ConsumeArgument(t)
       PROVE  unpaired => unpaired'
    BY <1>13 DEF ConsumeArgument, refVars
  <1>14. ASSUME NEW t \in Threads, AnswerInCall(t)
       PROVE  unpaired => unpaired'
    BY <1>14 DEF AnswerInCall, refVars
  <1>15. ASSUME NEW t \in Threads, SubmitRequest(t)
       PROVE  unpaired => unpaired'
    BY <1>15 DEF SubmitRequest, refVars
  <1>16. ASSUME NEW t \in Threads, Register(t)
       PROVE  unpaired => unpaired'
    BY <1>16 DEF Register, refVars
  <1>17. ASSUME NEW t \in Threads, TermEventDispatcher(t)
       PROVE  unpaired => unpaired'
    BY <1>17 DEF TermEventDispatcher, refVars
  <1>18. ASSUME NEW t \in Threads, Reset(t)
       PROVE  unpaired => unpaired'
    BY <1>18 DEF Reset
  <1>19. ASSUME NEW t \in Threads, Terminate(t)
       PROVE  unpaired => unpaired'
    BY <1>19 DEF Terminate, refVars
  <1>20. ASSUME NEW c \in Clients, DispatchRequestComplete(c)
       PROVE  unpaired => unpaired'
    BY <1>20 DEF DispatchRequestComplete, refVars
  <1>21. ASSUME NEW p \in inFlight, OnMatching2Reply(p)
       PROVE  unpaired => unpaired'
    BY <1>21 DEF OnMatching2Reply, refVars
  <1>22. ASSUME NEW c \in Clients, LoseConnection(c)
       PROVE  unpaired => unpaired'
    BY <1>22 DEF LoseConnection, refVars
  <1>23. ASSUME SetMmShadNetClient
       PROVE  unpaired => unpaired'
    BY <1>23 DEF SetMmShadNetClient, refVars
  <1>24. ASSUME FireEvent
       PROVE  unpaired => unpaired'
    BY <1>24 DEF FireEvent, refVars
  <1>25. ASSUME CompleteStop
       PROVE  unpaired => unpaired'
    BY <1>25 DEF CompleteStop, refVars
  <1>26. ASSUME Initialize
       PROVE  unpaired => unpaired'
    BY <1>26 DEF Initialize, refVars
  <1>27. CASE UNCHANGED vars
    BY <1>27 DEF vars, refVars
  <1> QED
    BY <1>1, <1>2, <1>3, <1>4, <1>5, <1>6, <1>7, <1>8, <1>9, <1>10, <1>11, <1>12, <1>13, <1>14, <1>15, <1>16, <1>17, <1>18, <1>19, <1>20, <1>21, <1>22, <1>23, <1>24, <1>25, <1>26, <1>27 DEF Next, CallStep, ReaderStep, DispatcherStep

\* What confuses a stop is never undone.
LEMMA PlainBefore ==
    ASSUME Typed, [Next]_vars, NEW o, Plain(o)'
    PROVE  Plain(o)
  <1>1. o \notin overtaken \cup lost
    BY OnlyMore DEF Plain
  <1>2. mm = 1 /\ life = 1
    <2>1. mm' = 1 /\ life' = 1 /\ mm \in Nat \ {0} /\ life \in Nat \ {0}
      BY DEF Plain, Typed, TypeOK, Clients
    <2>2. mm <= mm' /\ life <= life'
      BY Grown, OnlyMore DEF Grows, Typed
    <2> QED BY <2>1, <2>2
  <1>3. ~unpaired
    BY StillUnpaired DEF Plain
  <1> QED BY <1>1, <1>2, <1>3 DEF Plain

\* With one client: its packets, and the entries and calls about to make them
OneClient ==
    /\ \A p \in inFlight : p.pkt <= counter[1]
    /\ \A p, q \in inFlight : p.pkt = q.pkt => p = q
    /\ \A n \in 1 .. MaxPkt : pending[n] # None => n <= counter[1]
    /\ \A t \in Threads : call[t].pc = "register" =>
         /\ call[t].pkt <= counter[1]
         /\ pending[call[t].pkt] = None
         /\ \A p \in inFlight : p.pkt = call[t].pkt => Tok(p) = Tok(call[t])
         /\ \A u \in Threads : call[u].pc = "register" /\ call[u].pkt = call[t].pkt => u = t
    /\ \A p \in inFlight :
         \/ \E t \in Threads : call[t].pc = "register" /\ call[t].pkt = p.pkt
         \/ pending[p.pkt] # None /\ Tok(pending[p.pkt]) = Tok(p)
Numbered == mm = 1 => OneClient

\* A step that leaves the network and the calls about to register alone
LEMMA SameNumbers ==
    ASSUME OneClient, UNCHANGED <<counter, pending>>, inFlight' \subseteq inFlight,
           \A u \in Threads : call'[u] = call[u]
                              \/ (call[u].pc # "register" /\ call'[u].pc # "register")
    PROVE  OneClient'
  <1>1. \A u \in Threads :
          /\ call[u].pc = "register" <=> call'[u].pc = "register"
          /\ call[u].pc = "register" => call'[u] = call[u]
    OBVIOUS
  <1> QED BY <1>1 DEF OneClient, Tok

\* A number goes to one packet, and its entry is made while it is on the network.
LEMMA NumberedStep ==
    ASSUME Typed, Numbered, [Next]_vars, mm' = 1
    PROVE  OneClient'
  <1>c. mm = 1 /\ 1 \in Clients
    <2>1. mm' = 1 /\ mm \in Nat \ {0} /\ mm \in Clients
      BY DEF Typed, TypeOK, Clients
    <2>2. mm <= mm'
      BY Grown DEF Grows, Typed
    <2> QED BY <2>1, <2>2
  <1>h. OneClient
    BY <1>c DEF Numbered
  <1>p. \A p \in inFlight : p.pkt \in Nat
    BY DEF Typed, TypeOK, Packets
  <1>1. ASSUME NEW t \in Threads, NEW o \in Objects, CreateContext(t, o)
       PROVE  OneClient'
    <2>1. UNCHANGED <<counter, pending, inFlight>>
      BY <1>1 DEF CreateContext, clientVars, packetVars
    <2>2. Alone(t) /\ call[t].pc # "register" /\ call'[t].pc # "register"
      BY <1>1, Simple DEF CreateContext, Same, Keeps, Submits, Idle
    <2> QED BY <2>1, <2>2, <1>h, SameNumbers DEF Alone
  <1>2. ASSUME NEW t \in Threads, AddContextRef(t)
       PROVE  OneClient'
    <2>1. UNCHANGED <<counter, pending, inFlight>>
      BY <1>2 DEF AddContextRef, clientVars, packetVars
    <2>2. Alone(t) /\ call[t].pc # "register" /\ call'[t].pc # "register"
      BY <1>2, Simple DEF AddContextRef, Same, Keeps, Submits, Idle
    <2> QED BY <2>1, <2>2, <1>h, SameNumbers DEF Alone
  <1>3. ASSUME NEW t \in Threads, ReleaseContextRef(t)
       PROVE  OneClient'
    <2>1. UNCHANGED <<counter, pending, inFlight>>
      BY <1>3 DEF ReleaseContextRef, clientVars, packetVars
    <2>2. Alone(t) /\ call[t].pc # "register" /\ call'[t].pc # "register"
      BY <1>3, Simple DEF ReleaseContextRef, Same, Keeps, Submits, Idle
    <2> QED BY <2>1, <2>2, <1>h, SameNumbers DEF Alone
  <1>4. ASSUME NEW t \in Threads, NEW id \in Ids, DestroyContext(t, id)
       PROVE  OneClient'
    <2>1. UNCHANGED <<counter, pending, inFlight>>
      BY <1>4 DEF DestroyContext, clientVars, packetVars
    <2>2. Alone(t) /\ call[t].pc # "register" /\ call'[t].pc # "register"
      BY <1>4, Simple DEF DestroyContext, Same, Keeps, Submits, Idle
    <2> QED BY <2>1, <2>2, <1>h, SameNumbers DEF Alone
  <1>5. ASSUME NEW t \in Threads, NEW id \in Ids, ContextStart(t, id)
       PROVE  OneClient'
    <2>1. UNCHANGED <<counter, pending, inFlight>>
      BY <1>5 DEF ContextStart, clientVars, packetVars
    <2>2. Alone(t) /\ call[t].pc # "register" /\ call'[t].pc # "register"
      BY <1>5, StartsCall DEF Same, Keeps, Submits, Idle
    <2> QED BY <2>1, <2>2, <1>h, SameNumbers DEF Alone
  <1>6. ASSUME NEW t \in Threads, NEW id \in Ids, ContextStop(t, id)
       PROVE  OneClient'
    <2>1. UNCHANGED <<counter, pending, inFlight>>
      BY <1>6 DEF ContextStop, clientVars, packetVars
    <2>2. Alone(t) /\ call[t].pc # "register" /\ call'[t].pc # "register"
      BY <1>6, StopsCall DEF Same, Keeps, Submits, Idle
    <2> QED BY <2>1, <2>2, <1>h, SameNumbers DEF Alone
  <1>7. ASSUME NEW t \in Threads, FindStopping(t)
       PROVE  OneClient'
    <2>1. UNCHANGED <<counter, pending, inFlight>>
      BY <1>7 DEF FindStopping, clientVars, packetVars
    <2>2. Alone(t) /\ call[t].pc # "register" /\ call'[t].pc # "register"
      BY <1>7, FindsCall DEF Same, Keeps, Submits, Idle
    <2> QED BY <2>1, <2>2, <1>h, SameNumbers DEF Alone
  <1>8. ASSUME NEW t \in Threads, StopAtOnce(t)
       PROVE  OneClient'
    <2>1. UNCHANGED <<counter, pending, inFlight>>
      BY <1>8 DEF StopAtOnce, clientVars, packetVars
    <2>2. Alone(t) /\ call[t].pc # "register" /\ call'[t].pc # "register"
      BY <1>8, Simple DEF StopAtOnce, Same, Keeps, Submits, Idle
    <2> QED BY <2>1, <2>2, <1>h, SameNumbers DEF Alone
  <1>9. ASSUME NEW t \in Threads, NEW id \in Ids, NEW r \in Requests, Request(t, id, r)
       PROVE  OneClient'
    <2>1. UNCHANGED <<counter, pending, inFlight>>
      BY <1>9 DEF Request, clientVars, packetVars
    <2>2. Alone(t) /\ call[t].pc # "register" /\ call'[t].pc # "register"
      BY <1>9, RequestCall DEF Same, Keeps, Submits, Idle
    <2> QED BY <2>1, <2>2, <1>h, SameNumbers DEF Alone
  <1>10. ASSUME NEW t \in Threads, StoreArgument(t)
       PROVE  OneClient'
    <2>1. UNCHANGED <<counter, pending, inFlight>>
      BY <1>10 DEF StoreArgument, clientVars, packetVars
    <2>2. Alone(t) /\ call[t].pc # "register" /\ call'[t].pc # "register"
      BY <1>10, Simple DEF StoreArgument, Same, Keeps, Submits, Idle
    <2> QED BY <2>1, <2>2, <1>h, SameNumbers DEF Alone
  <1>11. ASSUME NEW t \in Threads, CheckClient(t)
       PROVE  OneClient'
    <2>1. UNCHANGED <<counter, pending, inFlight>>
      BY <1>11 DEF CheckClient, clientVars, packetVars
    <2>2. Alone(t) /\ call[t].pc # "register" /\ call'[t].pc # "register"
      BY <1>11, ChecksCall, Failing DEF Same, Keeps, Submits, Idle
    <2> QED BY <2>1, <2>2, <1>h, SameNumbers DEF Alone
  <1>12. ASSUME NEW t \in Threads, ConsumeCallback(t)
       PROVE  OneClient'
    <2>1. UNCHANGED <<counter, pending, inFlight>>
      BY <1>12 DEF ConsumeCallback, clientVars, packetVars
    <2>2. Alone(t) /\ call[t].pc # "register" /\ call'[t].pc # "register"
      BY <1>12, TakesCallback, Failing DEF Same, Keeps, Submits, Idle
    <2> QED BY <2>1, <2>2, <1>h, SameNumbers DEF Alone
  <1>13. ASSUME NEW t \in Threads, ConsumeArgument(t)
       PROVE  OneClient'
    <2>1. UNCHANGED <<counter, pending, inFlight>>
      BY <1>13 DEF ConsumeArgument, clientVars, packetVars
    <2>2. Alone(t) /\ call[t].pc # "register" /\ call'[t].pc # "register"
      BY <1>13, TakesArgument DEF Same, Keeps, Submits, Idle
    <2> QED BY <2>1, <2>2, <1>h, SameNumbers DEF Alone
  <1>14. ASSUME NEW t \in Threads, AnswerInCall(t)
       PROVE  OneClient'
    <2>1. UNCHANGED <<counter, pending, inFlight>>
      BY <1>14 DEF AnswerInCall, clientVars, packetVars
    <2>2. Alone(t) /\ call[t].pc # "register" /\ call'[t].pc # "register"
      BY <1>14, Simple DEF AnswerInCall, Same, Keeps, Submits, Idle
    <2> QED BY <2>1, <2>2, <1>h, SameNumbers DEF Alone
  <1>15. ASSUME NEW t \in Threads, SubmitRequest(t)
       PROVE  OneClient'
    <2>1. PICK n : n = counter[1] + 1
      OBVIOUS
    <2>2. call[t].client = 1 /\ call'[t].pkt = n /\ Keeps(t) /\ call'[t].pc = "register"
      <3>1. Taken(call[t])
        BY <1>15, CallsKnown DEF SubmitRequest, Stage
      <3> QED BY <1>15, <1>c, <2>1, <3>1, SubmitsCall DEF Taken
    <2>3. UNCHANGED pending /\ counter'[1] = n
      BY <1>15, <1>c, <2>1, <2>2 DEF SubmitRequest, Typed, TypeOK
    <2>4. n \in 1 .. MaxPkt /\ counter[1] \in Nat
      BY <1>15, <1>c, <2>1, <2>2, Matching2Assumption DEF SubmitRequest, Typed, TypeOK
    <2>5. \A p \in inFlight' : p \in inFlight \/ (p.pkt = n /\ Tok(p) = Tok(call[t]))
      <3>1. PICK q : q = [client |-> 1, pkt |-> n, op |-> call[t].op, asker |-> call[t].asker]
        OBVIOUS
      <3>2. inFlight' \subseteq inFlight \cup {q}
        BY <1>15, <2>1, <2>2, <3>1 DEF SubmitRequest
      <3>3. q.pkt = n /\ Tok(q) = Tok(call[t])
        BY <3>1 DEF Tok
      <3> QED BY <3>2, <3>3
    <2>6. \A p, q \in inFlight' : p.pkt = n /\ q.pkt = n => p = q
      <3>1. PICK q : q = [client |-> 1, pkt |-> n, op |-> call[t].op, asker |-> call[t].asker]
        OBVIOUS
      <3>2. inFlight' \subseteq inFlight \cup {q}
        BY <1>15, <2>1, <2>2, <3>1 DEF SubmitRequest
      <3>3. \A p \in inFlight : p.pkt # n
        BY <1>h, <2>1, <2>4, <1>p DEF OneClient
      <3> QED BY <3>2, <3>3
    <2>7. Tok(call'[t]) = Tok(call[t])
      BY <2>2 DEF Keeps, Tok
    <2>8. \A p \in inFlight : p.pkt <= counter[1] /\ p.pkt # n /\ p.pkt <= n
      BY <1>h, <1>p, <2>1, <2>4 DEF OneClient
    <2>9. \A u \in Threads \ {t} : call'[u] = call[u] /\ (call[u].pc = "register" => call[u].pkt # n /\ call[u].pkt <= n)
      <3>1. \A u \in Threads \ {t} : call'[u] = call[u] /\ call[u].pkt \in Nat
        BY <2>2, CallsKnown, Matching2Assumption DEF Keeps, Alone, Calls
      <3> QED BY <1>h, <2>1, <2>4, <3>1 DEF OneClient
    <2>10. pending[n] = None
      BY <1>h, <2>1, <2>4 DEF OneClient
    <2>11. \A p \in inFlight' : p.pkt <= n
      BY <2>4, <2>5, <2>8
    <2>12. \A p, q \in inFlight' : p.pkt = q.pkt => p = q
      BY <1>h, <2>5, <2>6, <2>8 DEF OneClient
    <2>13. \A m \in 1 .. MaxPkt : pending'[m] # None => m <= n
      BY <1>h, <2>1, <2>3, <2>4 DEF OneClient
    <2>14. ASSUME NEW u \in Threads, call'[u].pc = "register"
           PROVE  /\ call'[u].pkt <= n /\ pending'[call'[u].pkt] = None
                  /\ \A p \in inFlight' : p.pkt = call'[u].pkt => Tok(p) = Tok(call'[u])
                  /\ \A v \in Threads : call'[v].pc = "register" /\ call'[v].pkt = call'[u].pkt => v = u
      <3>1. CASE u = t
        BY <2>2, <2>3, <2>4, <2>5, <2>7, <2>8, <2>9, <2>10, <3>1
      <3>2. CASE u # t
        <4>1. call'[u] = call[u] /\ call[u].pkt # n /\ call[u].pkt <= n
          BY <2>9, <2>14, <3>2
        <4>2. pending'[call'[u].pkt] = None
          BY <1>h, <2>3, <2>14, <4>1 DEF OneClient
        <4>3. \A p \in inFlight' : p.pkt = call'[u].pkt => Tok(p) = Tok(call'[u])
          BY <1>h, <2>5, <2>14, <4>1 DEF OneClient
        <4>4. \A v \in Threads : call'[v].pc = "register" /\ call'[v].pkt = call'[u].pkt => v = u
          BY <1>h, <2>2, <2>9, <2>14, <4>1 DEF OneClient
        <4> QED BY <4>1, <4>2, <4>3, <4>4
      <3> QED BY <3>1, <3>2
    <2>15. ASSUME NEW p \in inFlight'
           PROVE  \/ \E u \in Threads : call'[u].pc = "register" /\ call'[u].pkt = p.pkt
                  \/ pending'[p.pkt] # None /\ Tok(pending'[p.pkt]) = Tok(p)
      <3>1. CASE p.pkt = n
        BY <2>2, <3>1
      <3>2. CASE p \in inFlight
        <4>1. CASE \E u \in Threads : call[u].pc = "register" /\ call[u].pkt = p.pkt
          <5>1. PICK u \in Threads : call[u].pc = "register" /\ call[u].pkt = p.pkt
            BY <4>1
          <5>2. u # t
            BY <1>15, <5>1 DEF SubmitRequest
          <5> QED BY <2>9, <5>1, <5>2
        <4>2. CASE ~\E u \in Threads : call[u].pc = "register" /\ call[u].pkt = p.pkt
          BY <1>h, <2>3, <3>2, <4>2 DEF OneClient
        <4> QED BY <4>1, <4>2
      <3> QED BY <2>5, <3>1, <3>2
    <2> QED BY <2>3, <2>11, <2>12, <2>13, <2>14, <2>15 DEF OneClient, Tok
  <1>16. ASSUME NEW t \in Threads, Register(t)
       PROVE  OneClient'
    <2>1. PICK n : n = call[t].pkt
      OBVIOUS
    <2>2. PICK e : e = Entry(t)
      OBVIOUS
    <2>3. Tok(e) = Tok(call[t]) /\ e # None /\ n \in 1 .. MaxPkt
      <3>1. e \in Entries
        BY <1>16, <2>2, EntryKnown DEF Register
      <3>2. call[t].pkt \in 1 .. MaxPkt
        BY <1>16, CallsKnown DEF Register, Stage
      <3> QED BY <2>1, <2>2, <3>1, <3>2, NoneAssumption DEF Entry, Tok
    <2>4. UNCHANGED <<counter, inFlight>> /\ \A m \in 1 .. MaxPkt : pending'[m] = IF m = n THEN e ELSE pending[m]
      BY <1>16, <2>1, <2>2 DEF Register, clientVars, Typed, TypeOK
    <2>5. Alone(t) /\ call[t].pc = "register" /\ call'[t].pc # "register"
      BY <1>16, Simple DEF Register, Idle
    <2>6. \A u \in Threads : call'[u].pc = "register" =>
             u # t /\ call'[u] = call[u] /\ call[u].pkt # n /\ call[u].pkt \in 1 .. MaxPkt
      <3>1. \A u \in Threads : call[u].pc = "register" => call[u].pkt \in 1 .. MaxPkt
        BY CallsKnown DEF Stage
      <3> QED BY <1>h, <2>1, <2>5, <3>1 DEF OneClient, Alone
    <2>7. n <= counter[1] /\ \A p \in inFlight : p.pkt = n => Tok(p) = Tok(e)
      BY <1>h, <2>1, <2>3, <2>5 DEF OneClient
    <2>8. \A m \in 1 .. MaxPkt : pending'[m] # None => m <= counter'[1]
      BY <1>h, <2>4, <2>7 DEF OneClient
    <2>9. ASSUME NEW u \in Threads, call'[u].pc = "register"
          PROVE  /\ call'[u].pkt <= counter'[1] /\ pending'[call'[u].pkt] = None
                 /\ \A p \in inFlight' : p.pkt = call'[u].pkt => Tok(p) = Tok(call'[u])
                 /\ \A v \in Threads : call'[v].pc = "register" /\ call'[v].pkt = call'[u].pkt => v = u
      BY <1>h, <2>4, <2>6, <2>9 DEF OneClient
    <2>10. ASSUME NEW p \in inFlight'
           PROVE  \/ \E u \in Threads : call'[u].pc = "register" /\ call'[u].pkt = p.pkt
                  \/ pending'[p.pkt] # None /\ Tok(pending'[p.pkt]) = Tok(p)
      <3>1. CASE p.pkt = n
        BY <2>3, <2>4, <2>7, <3>1
      <3>2. CASE p.pkt # n
        <4>1. \A u \in Threads : call[u].pc = "register" /\ call[u].pkt = p.pkt => u # t /\ call'[u] = call[u]
          BY <2>1, <2>5, <3>2 DEF Alone
        <4>2. p \in inFlight /\ pending'[p.pkt] = pending[p.pkt]
          BY <2>4, <2>10, <3>2 DEF Typed, TypeOK, Packets
        <4> QED BY <1>h, <4>1, <4>2 DEF OneClient
      <3> QED BY <3>1, <3>2
    <2> QED BY <1>h, <2>4, <2>8, <2>9, <2>10 DEF OneClient, Tok
  <1>17. ASSUME NEW t \in Threads, TermEventDispatcher(t)
       PROVE  OneClient'
    <2>1. UNCHANGED <<counter, pending, inFlight>>
      BY <1>17 DEF TermEventDispatcher, clientVars, packetVars
    <2>2. Alone(t) /\ call[t].pc # "register" /\ call'[t].pc # "register"
      BY <1>17, Simple DEF TermEventDispatcher, Same, Keeps, Submits, Idle
    <2> QED BY <2>1, <2>2, <1>h, SameNumbers DEF Alone
  <1>18. ASSUME NEW t \in Threads, Reset(t)
       PROVE  OneClient'
    <2>1. UNCHANGED <<counter, pending, inFlight>>
      BY <1>18 DEF Reset, clientVars, packetVars
    <2>2. Alone(t) /\ call[t].pc # "register" /\ call'[t].pc # "register"
      BY <1>18, Simple DEF Reset, Same, Keeps, Submits, Idle
    <2> QED BY <2>1, <2>2, <1>h, SameNumbers DEF Alone
  <1>19. ASSUME NEW t \in Threads, Terminate(t)
       PROVE  OneClient'
    <2>1. UNCHANGED <<counter, pending, inFlight>>
      BY <1>19 DEF Terminate, clientVars, packetVars
    <2>2. Alone(t) /\ call[t].pc # "register" /\ call'[t].pc # "register"
      BY <1>19, Simple DEF Terminate, Same, Keeps, Submits, Idle
    <2> QED BY <2>1, <2>2, <1>h, SameNumbers DEF Alone
  <1>20. ASSUME NEW c \in Clients, DispatchRequestComplete(c)
       PROVE  OneClient'
    BY <1>20, <1>h, SameNumbers DEF DispatchRequestComplete, clientVars, packetVars
  <1>21. ASSUME NEW p \in inFlight, OnMatching2Reply(p)
       PROVE  OneClient'
    <2>1. UNCHANGED <<counter, call>> /\ p.pkt \in 1 .. MaxPkt /\ inFlight' = inFlight \ {p}
      BY <1>21 DEF OnMatching2Reply, clientVars, Typed, TypeOK, Packets
    <2>2. \A n \in 1 .. MaxPkt : pending'[n] = IF n = p.pkt THEN None ELSE pending[n]
      BY <1>21, <2>1 DEF OnMatching2Reply, TakeEntry, Typed, TypeOK
    <2>3. \A q \in inFlight' : q \in inFlight /\ q.pkt # p.pkt /\ pending'[q.pkt] = pending[q.pkt]
      BY <1>h, <2>1, <2>2 DEF OneClient, Typed, TypeOK, Packets
    <2>4. \A u \in Threads : call[u].pc = "register" => pending'[call[u].pkt] = None
      <3>1. \A u \in Threads : call[u].pc = "register" => call[u].pkt \in 1 .. MaxPkt
        BY CallsKnown DEF Stage
      <3> QED BY <1>h, <2>2, <3>1 DEF OneClient
    <2> QED BY <1>h, <2>1, <2>2, <2>3, <2>4 DEF OneClient, Tok
  <1>22. ASSUME NEW c \in Clients, LoseConnection(c)
       PROVE  OneClient'
    <2>1. UNCHANGED <<counter, pending, call>> /\ inFlight' \subseteq inFlight
      BY <1>22 DEF LoseConnection
    <2> QED BY <1>h, <2>1, SameNumbers
  <1>23. ASSUME SetMmShadNetClient
       PROVE  OneClient'
    BY <1>23, <1>c DEF SetMmShadNetClient
  <1>24. ASSUME FireEvent
       PROVE  OneClient'
    BY <1>24, <1>h, SameNumbers DEF FireEvent, clientVars, packetVars
  <1>25. ASSUME CompleteStop
       PROVE  OneClient'
    BY <1>25, <1>h, SameNumbers DEF CompleteStop, clientVars, packetVars
  <1>26. ASSUME Initialize
       PROVE  OneClient'
    BY <1>26, <1>h, SameNumbers DEF Initialize, clientVars, packetVars
  <1>27. CASE UNCHANGED vars
    BY <1>27, <1>h, SameNumbers DEF vars, clientVars, packetVars
  <1> QED
    BY <1>1, <1>2, <1>3, <1>4, <1>5, <1>6, <1>7, <1>8, <1>9, <1>10, <1>11, <1>12, <1>13, <1>14, <1>15, <1>16, <1>17, <1>18, <1>19, <1>20, <1>21, <1>22, <1>23, <1>24, <1>25, <1>26, <1>27 DEF Next, CallStep, ReaderStep, DispatcherStep

\* No other context gets the id of a stop, and its target is not confused later.
LEMMA HasIdStays ==
    ASSUME Typed, [Next]_vars, NEW x, x.asker \in created, HasId(x)
    PROVE  HasId(x)'
  BY OldIds DEF HasId

\* A context that is aimed at goes on being the one, or has gone.
LEMMA AimsStays ==
    ASSUME Typed, [Next]_vars, NEW x, x.asker \in created, NEW more, Aims(x, more)
    PROVE  Aims(x, more)'
  <1>1. x.asker \in Live' => x.asker \in Live
    <2>1. x.asker # None
      BY Matching2Assumption DEF Typed, TypeOK
    <2> QED BY <2>1, OldIds DEF Live
  <1> QED BY <1>1, OnlyMore DEF Aims

\* What an entry or an event knows of its stop stays right.
LEMMA StopStays ==
    ASSUME Typed, [Next]_vars, NEW x, x.op = Stopping => x.asker \in created
    PROVE  /\ StopCall(x) => StopCall(x)'
           /\ StopEntry(x) => StopEntry(x)'
           /\ StopEvent(x) => StopEvent(x)'
  BY HasIdStays, AimsStays DEF StopCall, StopEntry, StopEvent

\* A step of one thread leaves the stops of the others alone.
LEMMA OthersStop ==
    ASSUME Typed, Stops, [Next]_vars, NEW t \in Threads, Alone(t), StopCall(call[t])'
    PROVE  (\A u \in Threads : StopCall(call[u]))'
  <1>1. SUFFICES ASSUME NEW u \in Threads, u # t PROVE StopCall(call[u])'
    OBVIOUS
  <1>2. PICK x : x = call[u]
    OBVIOUS
  <1>3. StopCall(x) /\ (x.op = Stopping => x.asker \in created)
    BY <1>2, CallsKnown DEF Stops
  <1>4. StopCall(x)'
    BY <1>3, StopStays
  <1>5. x = call'[u]
    BY <1>1, <1>2 DEF Alone
  <1> QED BY <1>4, <1>5 DEF StopCall, HasId, Aims

\* A stop that goes on keeps its id, its context, and the object it has, if it needs it.
LEMMA KeptStop ==
    ASSUME Typed, Stops, [Next]_vars, NEW t \in Threads, Alone(t),
           call'[t].op = call[t].op, call'[t].id = call[t].id,
           call[t].op = Stopping => call'[t].asker = call[t].asker,
           \/ call'[t].pc \notin {"check", "consume", "complete_stop"}
           \/ call[t].pc \in {"check", "consume", "complete_stop"} /\ call'[t].obj = call[t].obj
    PROVE  (\A u \in Threads : StopCall(call[u]))'
  <1>1. PICK x : x = call[t]
    OBVIOUS
  <1>2. StopCall(x) /\ (x.op = Stopping => x.asker \in created)
    BY <1>1, CallsKnown DEF Stops
  <1>3. StopCall(x)'
    BY <1>2, StopStays
  <1>4. StopCall(call[t])'
    BY <1>1, <1>3 DEF StopCall, HasId, Aims
  <1> QED BY <1>4, OthersStop

\* A thread that stops a context knows its id.
LEMMA StopCallsStep ==
    ASSUME Typed, Stops, [Next]_vars
    PROVE  (\A u \in Threads : StopCall(call[u]))'
  <1>1. ASSUME NEW t \in Threads, NEW o \in Objects, CreateContext(t, o)
       PROVE  (\A u \in Threads : StopCall(call[u]))'
    <2>1. Alone(t) /\ call'[t].op # Stopping
      BY <1>1, Simple, CallsKnown, Matching2Assumption DEF CreateContext, Stage, Free, Same, Keeps, Idle
    <2> QED BY <2>1, OthersStop DEF StopCall
  <1>2. ASSUME NEW t \in Threads, AddContextRef(t)
       PROVE  (\A u \in Threads : StopCall(call[u]))'
    <2>1. Alone(t) /\ call'[t].op # Stopping
      BY <1>2, Simple, CallsKnown, Matching2Assumption DEF AddContextRef, Stage, Free, Same, Keeps, Idle
    <2> QED BY <2>1, OthersStop DEF StopCall
  <1>3. ASSUME NEW t \in Threads, ReleaseContextRef(t)
       PROVE  (\A u \in Threads : StopCall(call[u]))'
    <2>1. Alone(t) /\ call'[t].op # Stopping
      BY <1>3, Simple, CallsKnown, Matching2Assumption DEF ReleaseContextRef, Stage, Free, Same, Keeps, Idle
    <2> QED BY <2>1, OthersStop DEF StopCall
  <1>4. ASSUME NEW t \in Threads, NEW id \in Ids, DestroyContext(t, id)
       PROVE  (\A u \in Threads : StopCall(call[u]))'
    <2>1. Alone(t) /\ call'[t].op # Stopping
      BY <1>4, Simple, CallsKnown, Matching2Assumption DEF DestroyContext, Stage, Free, Same, Keeps, Idle
    <2> QED BY <2>1, OthersStop DEF StopCall
  <1>5. ASSUME NEW t \in Threads, NEW id \in Ids, ContextStart(t, id)
       PROVE  (\A u \in Threads : StopCall(call[u]))'
    <2>1. Alone(t) /\ call'[t].op # Stopping
      BY <1>5, StartsCall, Matching2Assumption
    <2> QED BY <2>1, OthersStop DEF StopCall
  <1>6. ASSUME NEW t \in Threads, NEW id \in Ids, ContextStop(t, id)
       PROVE  (\A u \in Threads : StopCall(call[u]))'
    <2>1. /\ Alone(t) /\ call'[t].pc = "find" /\ call'[t].id = id /\ call'[t].asker = slots[id]
          /\ slots' = slots /\ slots[id] \in started
      BY <1>6, StopsCall DEF ContextStop
    <2>2. slots[id] # None
      BY <2>1, Matching2Assumption DEF Typed, TypeOK
    <2>3. HasId(call[t])'
      BY <2>1, <2>2 DEF HasId, Typed, Known, Slotted
    <2> QED BY <2>1, <2>3, OthersStop DEF StopCall
  <1>7. ASSUME NEW t \in Threads, FindStopping(t)
       PROVE  (\A u \in Threads : StopCall(call[u]))'
    <2>1. /\ Keeps(t) /\ call'[t].pc = "check" /\ call[t].op = Stopping
          /\ call[t].asker \in created /\ call[t].id \in Ids
      BY <1>7, FindsCall, CallsKnown DEF FindStopping, Stage
    <2>2. PICK o : o = slots[call[t].id]
      OBVIOUS
    <2>3. call'[t].obj = o /\ slots' = slots
      BY <1>7, <2>2, FindsCall DEF FindStopping
    <2>4. o \in {call[t].asker} \cup {None} \cup overtaken'
      BY <1>7, <2>2 DEF FindStopping
    <2>5. HasId(call[t])
      BY <2>1 DEF Stops, StopCall
    <2>6. call[t].asker \in Live => o = call[t].asker
      BY <2>2, <2>5 DEF HasId, Live
    <2>7. HasId(call[t])'
      BY <2>1, <2>3, <2>5 DEF HasId, Keeps
    <2>8. Aims(call[t], {None})'
      BY <2>1, <2>3, <2>4, <2>6 DEF Aims, Live, Keeps
    <2>9. StopCall(call[t])'
      BY <2>7, <2>8 DEF StopCall
    <2> QED BY <2>1, <2>9, OthersStop DEF Keeps
  <1>8. ASSUME NEW t \in Threads, StopAtOnce(t)
       PROVE  (\A u \in Threads : StopCall(call[u]))'
    <2>1. Alone(t) /\ call'[t].op # Stopping
      BY <1>8, Simple, CallsKnown, Matching2Assumption DEF StopAtOnce, Stage, Free, Same, Keeps, Idle
    <2> QED BY <2>1, OthersStop DEF StopCall
  <1>9. ASSUME NEW t \in Threads, NEW id \in Ids, NEW r \in Requests, Request(t, id, r)
       PROVE  (\A u \in Threads : StopCall(call[u]))'
    <2>1. Alone(t) /\ call'[t].op # Stopping
      BY <1>9, RequestCall, Matching2Assumption
    <2> QED BY <2>1, OthersStop DEF StopCall
  <1>10. ASSUME NEW t \in Threads, StoreArgument(t)
       PROVE  (\A u \in Threads : StopCall(call[u]))'
    <2>1. Alone(t) /\ call'[t].op # Stopping
      BY <1>10, Simple, CallsKnown, Matching2Assumption DEF StoreArgument, Stage, Free, Same, Keeps, Idle
    <2> QED BY <2>1, OthersStop DEF StopCall
  <1>11. ASSUME NEW t \in Threads, CheckClient(t)
       PROVE  (\A u \in Threads : StopCall(call[u]))'
    <2>0. call[t].pc = "check"
      BY <1>11, ChecksCall
    <2>f. CASE Fails(t)
      <3>1. CASE call[t].op = Stopping
        <4>1. Same(t) /\ call'[t].pc = "complete_stop"
          BY <2>f, <3>1, Failing, Matching2Assumption DEF Alone, Idle
        <4> QED BY <2>0, <4>1, KeptStop DEF Same, Keeps
      <3>2. CASE call[t].op # Stopping
        <4>1. Alone(t) /\ call'[t].op # Stopping
          BY <2>f, <3>2, Failing, Matching2Assumption DEF Idle
        <4> QED BY <4>1, OthersStop DEF StopCall
      <3> QED BY <3>1, <3>2
    <2>1. CASE ~Fails(t)
      BY <1>11, <2>1, ChecksCall, KeptStop DEF Keeps
    <2> QED BY <2>f, <2>1
  <1>12. ASSUME NEW t \in Threads, ConsumeCallback(t)
       PROVE  (\A u \in Threads : StopCall(call[u]))'
    <2>0. call[t].pc = "consume"
      BY <1>12, TakesCallback
    <2>f. CASE Fails(t)
      <3>1. CASE call[t].op = Stopping
        <4>1. Same(t) /\ call'[t].pc = "complete_stop"
          BY <2>f, <3>1, Failing, Matching2Assumption DEF Alone, Idle
        <4> QED BY <2>0, <4>1, KeptStop DEF Same, Keeps
      <3>2. CASE call[t].op # Stopping
        <4>1. Alone(t) /\ call'[t].op # Stopping
          BY <2>f, <3>2, Failing, Matching2Assumption DEF Idle
        <4> QED BY <4>1, OthersStop DEF StopCall
      <3> QED BY <3>1, <3>2
    <2>1. CASE ~Fails(t)
      <3>1. /\ Alone(t) /\ call'[t].op = call[t].op /\ call'[t].id = call[t].id
            /\ call[t].op = Stopping => call'[t].asker = call[t].asker
            /\ call'[t].pc \in {"read_arg", "submit", "answer"}
        BY <1>12, <2>1, TakesCallback DEF Submits
      <3> QED BY <3>1, KeptStop
    <2> QED BY <2>f, <2>1
  <1>13. ASSUME NEW t \in Threads, ConsumeArgument(t)
       PROVE  (\A u \in Threads : StopCall(call[u]))'
    <2>1. Keeps(t) /\ call'[t].pc \in {"submit", "answer"}
      BY <1>13, TakesArgument DEF Submits
    <2> QED BY <2>1, KeptStop DEF Keeps
  <1>14. ASSUME NEW t \in Threads, AnswerInCall(t)
       PROVE  (\A u \in Threads : StopCall(call[u]))'
    <2>1. Alone(t) /\ call'[t].op # Stopping
      BY <1>14, Simple, CallsKnown, Matching2Assumption DEF AnswerInCall, Stage, Free, Same, Keeps, Idle
    <2> QED BY <2>1, OthersStop DEF StopCall
  <1>15. ASSUME NEW t \in Threads, SubmitRequest(t)
       PROVE  (\A u \in Threads : StopCall(call[u]))'
    BY <1>15, SubmitsCall, KeptStop DEF Keeps
  <1>16. ASSUME NEW t \in Threads, Register(t)
       PROVE  (\A u \in Threads : StopCall(call[u]))'
    <2>1. Alone(t) /\ call'[t].op # Stopping
      BY <1>16, Simple, CallsKnown, Matching2Assumption DEF Register, Stage, Free, Same, Keeps, Idle
    <2> QED BY <2>1, OthersStop DEF StopCall
  <1>17. ASSUME NEW t \in Threads, TermEventDispatcher(t)
       PROVE  (\A u \in Threads : StopCall(call[u]))'
    <2>1. Alone(t) /\ call'[t].op # Stopping
      BY <1>17, Simple, CallsKnown, Matching2Assumption DEF TermEventDispatcher, Stage, Free, Same, Keeps, Idle
    <2> QED BY <2>1, OthersStop DEF StopCall
  <1>18. ASSUME NEW t \in Threads, Reset(t)
       PROVE  (\A u \in Threads : StopCall(call[u]))'
    <2>1. Alone(t) /\ call'[t].op # Stopping
      BY <1>18, Simple, CallsKnown, Matching2Assumption DEF Reset, Stage, Free, Same, Keeps, Idle
    <2> QED BY <2>1, OthersStop DEF StopCall
  <1>19. ASSUME NEW t \in Threads, Terminate(t)
       PROVE  (\A u \in Threads : StopCall(call[u]))'
    <2>1. Alone(t) /\ call'[t].op # Stopping
      BY <1>19, Simple, CallsKnown, Matching2Assumption DEF Terminate, Stage, Free, Same, Keeps, Idle
    <2> QED BY <2>1, OthersStop DEF StopCall
  <1>20. ASSUME NEW c \in Clients, DispatchRequestComplete(c)
       PROVE  (\A u \in Threads : StopCall(call[u]))'
    <2>1. call' = call
      BY <1>20 DEF DispatchRequestComplete
    <2>2. ASSUME NEW u \in Threads PROVE StopCall(call[u])'
      <3>1. PICK x : x = call[u]
        OBVIOUS
      <3>2. StopCall(x) /\ (x.op = Stopping => x.asker \in created)
        BY <3>1, CallsKnown DEF Stops
      <3>3. StopCall(x)'
        BY <3>2, StopStays
      <3> QED BY <2>1, <3>1, <3>3 DEF StopCall, HasId, Aims
    <2> QED BY <2>2
  <1>21. ASSUME NEW p \in inFlight, OnMatching2Reply(p)
       PROVE  (\A u \in Threads : StopCall(call[u]))'
    <2>1. call' = call
      BY <1>21 DEF OnMatching2Reply
    <2>2. ASSUME NEW u \in Threads PROVE StopCall(call[u])'
      <3>1. PICK x : x = call[u]
        OBVIOUS
      <3>2. StopCall(x) /\ (x.op = Stopping => x.asker \in created)
        BY <3>1, CallsKnown DEF Stops
      <3>3. StopCall(x)'
        BY <3>2, StopStays
      <3> QED BY <2>1, <3>1, <3>3 DEF StopCall, HasId, Aims
    <2> QED BY <2>2
  <1>22. ASSUME NEW c \in Clients, LoseConnection(c)
       PROVE  (\A u \in Threads : StopCall(call[u]))'
    <2>1. call' = call
      BY <1>22 DEF LoseConnection
    <2>2. ASSUME NEW u \in Threads PROVE StopCall(call[u])'
      <3>1. PICK x : x = call[u]
        OBVIOUS
      <3>2. StopCall(x) /\ (x.op = Stopping => x.asker \in created)
        BY <3>1, CallsKnown DEF Stops
      <3>3. StopCall(x)'
        BY <3>2, StopStays
      <3> QED BY <2>1, <3>1, <3>3 DEF StopCall, HasId, Aims
    <2> QED BY <2>2
  <1>23. ASSUME SetMmShadNetClient
       PROVE  (\A u \in Threads : StopCall(call[u]))'
    <2>1. call' = call
      BY <1>23 DEF SetMmShadNetClient
    <2>2. ASSUME NEW u \in Threads PROVE StopCall(call[u])'
      <3>1. PICK x : x = call[u]
        OBVIOUS
      <3>2. StopCall(x) /\ (x.op = Stopping => x.asker \in created)
        BY <3>1, CallsKnown DEF Stops
      <3>3. StopCall(x)'
        BY <3>2, StopStays
      <3> QED BY <2>1, <3>1, <3>3 DEF StopCall, HasId, Aims
    <2> QED BY <2>2
  <1>24. ASSUME FireEvent
       PROVE  (\A u \in Threads : StopCall(call[u]))'
    <2>1. call' = call
      BY <1>24 DEF FireEvent
    <2>2. ASSUME NEW u \in Threads PROVE StopCall(call[u])'
      <3>1. PICK x : x = call[u]
        OBVIOUS
      <3>2. StopCall(x) /\ (x.op = Stopping => x.asker \in created)
        BY <3>1, CallsKnown DEF Stops
      <3>3. StopCall(x)'
        BY <3>2, StopStays
      <3> QED BY <2>1, <3>1, <3>3 DEF StopCall, HasId, Aims
    <2> QED BY <2>2
  <1>25. ASSUME CompleteStop
       PROVE  (\A u \in Threads : StopCall(call[u]))'
    <2>1. call' = call
      BY <1>25 DEF CompleteStop
    <2>2. ASSUME NEW u \in Threads PROVE StopCall(call[u])'
      <3>1. PICK x : x = call[u]
        OBVIOUS
      <3>2. StopCall(x) /\ (x.op = Stopping => x.asker \in created)
        BY <3>1, CallsKnown DEF Stops
      <3>3. StopCall(x)'
        BY <3>2, StopStays
      <3> QED BY <2>1, <3>1, <3>3 DEF StopCall, HasId, Aims
    <2> QED BY <2>2
  <1>26. ASSUME Initialize
       PROVE  (\A u \in Threads : StopCall(call[u]))'
    <2>1. call' = call
      BY <1>26 DEF Initialize
    <2>2. ASSUME NEW u \in Threads PROVE StopCall(call[u])'
      <3>1. PICK x : x = call[u]
        OBVIOUS
      <3>2. StopCall(x) /\ (x.op = Stopping => x.asker \in created)
        BY <3>1, CallsKnown DEF Stops
      <3>3. StopCall(x)'
        BY <3>2, StopStays
      <3> QED BY <2>1, <3>1, <3>3 DEF StopCall, HasId, Aims
    <2> QED BY <2>2
  <1>27. CASE UNCHANGED vars
    <2>1. call' = call
      BY <1>27 DEF vars
    <2>2. ASSUME NEW u \in Threads PROVE StopCall(call[u])'
      <3>1. PICK x : x = call[u]
        OBVIOUS
      <3>2. StopCall(x) /\ (x.op = Stopping => x.asker \in created)
        BY <3>1, CallsKnown DEF Stops
      <3>3. StopCall(x)'
        BY <3>2, StopStays
      <3> QED BY <2>1, <3>1, <3>3 DEF StopCall, HasId, Aims
    <2> QED BY <2>2
  <1> QED
    BY <1>1, <1>2, <1>3, <1>4, <1>5, <1>6, <1>7, <1>8, <1>9, <1>10, <1>11, <1>12, <1>13, <1>14, <1>15, <1>16, <1>17, <1>18, <1>19, <1>20, <1>21, <1>22, <1>23, <1>24, <1>25, <1>26, <1>27 DEF Next, CallStep, ReaderStep, DispatcherStep

\* What waits with an entry, an event, or its callback
StopsAway ==
    /\ \A n \in 1 .. MaxPkt : pending[n] # None => StopEntry(pending[n])
    /\ \A c \in Clients : reader[c] # None => StopEntry(reader[c])
    /\ \A i \in 1 .. Len(queue) : StopEvent(queue[i])
    /\ firing # None => StopEvent(firing)

\* Where a step leaves an entry or an event, or moves it, what it knows stays right.
LEMMA StopsMove ==
    ASSUME Typed, Stops, [Next]_vars,
           NEW e, (e.op = Stopping => e.asker \in created) /\ StopEntry(e)',
           NEW f, (f.op = Stopping => f.asker \in created) /\ StopEvent(f)',
           \A n \in 1 .. MaxPkt : pending'[n] \in {None, e, pending[n]},
           \A c \in Clients : reader'[c] = None \/ reader'[c] = reader[c]
                              \/ \E n \in 1 .. MaxPkt : reader'[c] = pending[n] /\ pending[n] # None,
           \A i \in 1 .. Len(queue') : queue'[i] = f \/ \E j \in 1 .. Len(queue) : queue'[i] = queue[j],
           firing' = None \/ firing' = firing \/ \E j \in 1 .. Len(queue) : firing' = queue[j]
    PROVE  StopsAway'
  <1>1. \A x : Placed(x) => x.asker \in created
    BY DEF Placed
  <1>2. ASSUME NEW n \in 1 .. MaxPkt, pending[n] # None PROVE \A x : x = pending[n] => StopEntry(x)'
    <2>1. PICK x : x = pending[n]
      OBVIOUS
    <2>2. StopEntry(x) /\ x.asker \in created
      BY <1>2, <2>1 DEF Stops, Typed, Known, AllPlaced, Placed
    <2>3. StopEntry(x)'
      BY <2>2, StopStays
    <2> QED BY <2>1, <2>3
  <1>3. ASSUME NEW c \in Clients, reader[c] # None PROVE \A x : x = reader[c] => StopEntry(x)'
    <2>1. PICK x : x = reader[c]
      OBVIOUS
    <2>2. StopEntry(x) /\ x.asker \in created
      BY <1>3, <2>1 DEF Stops, Typed, Known, AllPlaced, Placed
    <2>3. StopEntry(x)'
      BY <2>2, StopStays
    <2> QED BY <2>1, <2>3
  <1>4. ASSUME NEW i \in 1 .. Len(queue) PROVE \A x : x = queue[i] => StopEvent(x)'
    <2>1. PICK x : x = queue[i]
      OBVIOUS
    <2>2. StopEvent(x) /\ x.asker \in created
      BY <2>1 DEF Stops, Typed, Known, AllPlaced, Placed
    <2>3. StopEvent(x)'
      BY <2>2, StopStays
    <2> QED BY <2>1, <2>3
  <1>5. ASSUME firing # None PROVE \A x : x = firing => StopEvent(x)'
    <2>1. PICK x : x = firing
      OBVIOUS
    <2>2. StopEvent(x) /\ x.asker \in created
      BY <1>5, <2>1 DEF Stops, Typed, Known, AllPlaced, Placed
    <2>3. StopEvent(x)'
      BY <2>2, StopStays
    <2> QED BY <2>1, <2>3
  <1>6. ASSUME NEW n \in 1 .. MaxPkt, pending'[n] # None PROVE StopEntry(pending[n])'
    <2>1. PICK x : x = pending'[n]
      OBVIOUS
    <2>2. StopEntry(x)'
      BY <1>2, <1>6, <2>1
    <2> QED BY <2>1, <2>2 DEF StopEntry, HasId
  <1>7. ASSUME NEW c \in Clients, reader'[c] # None PROVE StopEntry(reader[c])'
    <2>1. PICK x : x = reader'[c]
      OBVIOUS
    <2>2. StopEntry(x)'
      BY <1>2, <1>3, <1>7, <2>1
    <2> QED BY <2>1, <2>2 DEF StopEntry, HasId
  <1>8. ASSUME NEW i \in 1 .. Len(queue') PROVE StopEvent(queue[i])'
    <2>1. PICK x : x = queue'[i]
      OBVIOUS
    <2>2. StopEvent(x)'
      BY <1>4, <2>1
    <2> QED BY <2>1, <2>2 DEF StopEvent, HasId, Aims
  <1>9. ASSUME firing' # None PROVE StopEvent(firing)'
    <2>1. PICK x : x = firing'
      OBVIOUS
    <2>2. StopEvent(x)'
      BY <1>4, <1>5, <1>9, <2>1
    <2> QED BY <2>1, <2>2 DEF StopEvent, HasId, Aims
  <1> QED BY <1>6, <1>7, <1>8, <1>9 DEF StopsAway

\* The entries and events of stops know their context.
LEMMA StopsAwayStep ==
    ASSUME Typed, Stops, [Next]_vars
    PROVE  StopsAway'
  <1>e. StopEntry(Idle)' /\ StopEvent(Idle)' /\ Idle.op # Stopping
    BY Matching2Assumption DEF StopEntry, StopEvent, Idle
  <1>1. ASSUME NEW t \in Threads, NEW o \in Objects, CreateContext(t, o)
       PROVE  StopsAway'
    <2>1. UNCHANGED <<pending, reader, queue, firing>>
      BY <1>1 DEF CreateContext, vars, packetVars, eventVars
    <2> QED BY <1>e, <2>1, StopsMove
  <1>2. ASSUME NEW t \in Threads, AddContextRef(t)
       PROVE  StopsAway'
    <2>1. UNCHANGED <<pending, reader, queue, firing>>
      BY <1>2 DEF AddContextRef, vars, packetVars, eventVars
    <2> QED BY <1>e, <2>1, StopsMove
  <1>3. ASSUME NEW t \in Threads, ReleaseContextRef(t)
       PROVE  StopsAway'
    <2>1. UNCHANGED <<pending, reader, queue, firing>>
      BY <1>3 DEF ReleaseContextRef, vars, packetVars, eventVars
    <2> QED BY <1>e, <2>1, StopsMove
  <1>4. ASSUME NEW t \in Threads, NEW id \in Ids, DestroyContext(t, id)
       PROVE  StopsAway'
    <2>1. UNCHANGED <<pending, reader, queue, firing>>
      BY <1>4 DEF DestroyContext, vars, packetVars, eventVars
    <2> QED BY <1>e, <2>1, StopsMove
  <1>5. ASSUME NEW t \in Threads, NEW id \in Ids, ContextStart(t, id)
       PROVE  StopsAway'
    <2>1. UNCHANGED <<pending, reader, queue, firing>>
      BY <1>5 DEF ContextStart, vars, packetVars, eventVars
    <2> QED BY <1>e, <2>1, StopsMove
  <1>6. ASSUME NEW t \in Threads, NEW id \in Ids, ContextStop(t, id)
       PROVE  StopsAway'
    <2>1. UNCHANGED <<pending, reader, queue, firing>>
      BY <1>6 DEF ContextStop, vars, packetVars, eventVars
    <2> QED BY <1>e, <2>1, StopsMove
  <1>7. ASSUME NEW t \in Threads, FindStopping(t)
       PROVE  StopsAway'
    <2>1. UNCHANGED <<pending, reader, queue, firing>>
      BY <1>7 DEF FindStopping, vars, packetVars, eventVars
    <2> QED BY <1>e, <2>1, StopsMove
  <1>8. ASSUME NEW t \in Threads, StopAtOnce(t)
       PROVE  StopsAway'
    <2>1. UNCHANGED <<pending, reader, queue, firing>>
      BY <1>8 DEF StopAtOnce, vars, packetVars, eventVars
    <2> QED BY <1>e, <2>1, StopsMove
  <1>9. ASSUME NEW t \in Threads, NEW id \in Ids, NEW r \in Requests, Request(t, id, r)
       PROVE  StopsAway'
    <2>1. UNCHANGED <<pending, reader, queue, firing>>
      BY <1>9 DEF Request, vars, packetVars, eventVars
    <2> QED BY <1>e, <2>1, StopsMove
  <1>10. ASSUME NEW t \in Threads, StoreArgument(t)
       PROVE  StopsAway'
    <2>1. UNCHANGED <<pending, reader, queue, firing>>
      BY <1>10 DEF StoreArgument, vars, packetVars, eventVars
    <2> QED BY <1>e, <2>1, StopsMove
  <1>11. ASSUME NEW t \in Threads, CheckClient(t)
       PROVE  StopsAway'
    <2>1. UNCHANGED <<pending, reader, queue, firing>>
      BY <1>11 DEF CheckClient, vars, packetVars, eventVars
    <2> QED BY <1>e, <2>1, StopsMove
  <1>12. ASSUME NEW t \in Threads, ConsumeCallback(t)
       PROVE  StopsAway'
    <2>1. UNCHANGED <<pending, reader, queue, firing>>
      BY <1>12 DEF ConsumeCallback, vars, packetVars, eventVars
    <2> QED BY <1>e, <2>1, StopsMove
  <1>13. ASSUME NEW t \in Threads, ConsumeArgument(t)
       PROVE  StopsAway'
    <2>1. UNCHANGED <<pending, reader, queue, firing>>
      BY <1>13 DEF ConsumeArgument, vars, packetVars, eventVars
    <2> QED BY <1>e, <2>1, StopsMove
  <1>14. ASSUME NEW t \in Threads, AnswerInCall(t)
       PROVE  StopsAway'
    <2>1. PICK f : f = Event(Entry(t), call[t].obj)
      OBVIOUS
    <2>2. f.op # Stopping
      BY <1>14, <2>1, CallsKnown, Matching2Assumption DEF AnswerInCall, Stage, Event, Entry
    <2>3. queue' = Append(queue, f) /\ queue \in Seq(Events)
      BY <1>14, <2>1 DEF AnswerInCall, Typed, TypeOK
    <2>4. \A i \in 1 .. Len(queue') : queue'[i] = f \/ \E j \in 1 .. Len(queue) : queue'[i] = queue[j]
      BY <2>3
    <2>5. UNCHANGED <<pending, reader, firing>> /\ StopEvent(f)'
      BY <1>14, <2>2 DEF AnswerInCall, packetVars, StopEvent
    <2> QED BY <1>e, <2>2, <2>4, <2>5, StopsMove
  <1>15. ASSUME NEW t \in Threads, SubmitRequest(t)
       PROVE  StopsAway'
    <2>1. UNCHANGED <<pending, reader, queue, firing>>
      BY <1>15 DEF SubmitRequest, vars, packetVars, eventVars
    <2> QED BY <1>e, <2>1, StopsMove
  <1>16. ASSUME NEW t \in Threads, Register(t)
       PROVE  StopsAway'
    <2>1. PICK e : e = Entry(t)
      OBVIOUS
    <2>2. e.op = call[t].op /\ e.id = call[t].id /\ e.asker = call[t].asker
      BY <2>1 DEF Entry
    <2>3. StopEntry(e) /\ (e.op = Stopping => e.asker \in created)
      BY <2>2, CallsKnown DEF Stops, StopCall, StopEntry, HasId
    <2>4. StopEntry(e)'
      BY <2>3, StopStays
    <2>5. \A n \in 1 .. MaxPkt : pending'[n] \in {None, e, pending[n]}
      BY <1>16, <2>1 DEF Register, Typed, TypeOK
    <2>6. UNCHANGED <<reader, queue, firing>>
      BY <1>16 DEF Register, eventVars
    <2> QED BY <1>e, <2>3, <2>4, <2>5, <2>6, StopsMove
  <1>17. ASSUME NEW t \in Threads, TermEventDispatcher(t)
       PROVE  StopsAway'
    <2>1. UNCHANGED <<pending, reader, firing>> /\ queue' = <<>>
      BY <1>17 DEF TermEventDispatcher, packetVars
    <2> QED BY <1>e, <2>1, StopsMove
  <1>18. ASSUME NEW t \in Threads, Reset(t)
       PROVE  StopsAway'
    <2>1. UNCHANGED <<pending, reader, queue, firing>>
      BY <1>18 DEF Reset, vars, packetVars, eventVars
    <2> QED BY <1>e, <2>1, StopsMove
  <1>19. ASSUME NEW t \in Threads, Terminate(t)
       PROVE  StopsAway'
    <2>1. UNCHANGED <<pending, reader, queue, firing>>
      BY <1>19 DEF Terminate, vars, packetVars, eventVars
    <2> QED BY <1>e, <2>1, StopsMove
  <1>20. ASSUME NEW c \in Clients, DispatchRequestComplete(c)
       PROVE  StopsAway'
    <2>1. PICK e : e = reader[c] /\ e # None
      BY <1>20 DEF DispatchRequestComplete
    <2>2. PICK o : o = slots[e.id]
      OBVIOUS
    <2>3. PICK f : f = Event(e, o)
      OBVIOUS
    <2>4. f.op = e.op /\ f.id = e.id /\ f.asker = e.asker /\ f.obj = o
      BY <2>3 DEF Event
    <2>5. StopEntry(e) /\ e.asker \in created /\ e.id \in Ids
      BY <2>1 DEF Stops, Typed, TypeOK, Known, AllPlaced, Placed, Entries
    <2>6. queue' = queue \/ (o # None /\ queue' = Append(queue, f))
      BY <1>20, <2>1, <2>2, <2>3 DEF DispatchRequestComplete, Recipient
    <2>7. UNCHANGED <<slots, pending, firing>> /\ queue \in Seq(Events)
      BY <1>20 DEF DispatchRequestComplete, Typed, TypeOK
    <2>8. o # None => StopEvent(f)'
      <3>1. ASSUME o # None, f.op = Stopping PROVE HasId(f)' /\ Aims(f, {})'
        <4>1. HasId(f)'
          BY <2>4, <2>5, <2>7, <3>1 DEF StopEntry, HasId
        <4>2. f.asker \in Live' => o = f.asker
          BY <2>2, <2>4, <2>7, <4>1 DEF HasId, Live
        <4>3. o \in {f.asker} \cup {} \cup overtaken'
          BY <1>20, <2>1, <2>2, <2>4, <3>1 DEF DispatchRequestComplete, Recipient
        <4> QED BY <2>4, <4>1, <4>2, <4>3 DEF Aims
      <3> QED BY <3>1 DEF StopEvent
    <2>9. \A d \in Clients : reader'[d] = None \/ reader'[d] = reader[d]
      BY <1>20 DEF DispatchRequestComplete, Typed, TypeOK
    <2>10. CASE queue' = queue
      BY <1>e, <2>7, <2>9, <2>10, StopsMove
    <2>11. CASE o # None /\ queue' = Append(queue, f)
      <3>1. \A i \in 1 .. Len(queue') : queue'[i] = f \/ \E j \in 1 .. Len(queue) : queue'[i] = queue[j]
        BY <2>7, <2>11
      <3> QED BY <1>e, <2>4, <2>5, <2>7, <2>8, <2>9, <2>11, <3>1, StopsMove
    <2> QED BY <2>6, <2>10, <2>11
  <1>21. ASSUME NEW p \in inFlight, OnMatching2Reply(p)
       PROVE  StopsAway'
    <2>1. p.client \in Clients /\ p.pkt \in 1 .. MaxPkt
      BY <1>21 DEF Typed, TypeOK, Packets
    <2>2. \A n \in 1 .. MaxPkt : pending'[n] \in {None, Idle, pending[n]}
      BY <1>21 DEF OnMatching2Reply, TakeEntry, Typed, TypeOK
    <2>3. \A c \in Clients : reader'[c] = reader[c] \/ (reader'[c] = pending[p.pkt] /\ pending[p.pkt] # None)
      BY <1>21, <2>1 DEF OnMatching2Reply, Typed, TypeOK
    <2>4. UNCHANGED <<queue, firing>>
      BY <1>21 DEF OnMatching2Reply, eventVars
    <2> QED BY <1>e, <2>1, <2>2, <2>3, <2>4, StopsMove
  <1>22. ASSUME NEW c \in Clients, LoseConnection(c)
       PROVE  StopsAway'
    <2>1. UNCHANGED <<pending, reader, queue, firing>>
      BY <1>22 DEF LoseConnection, vars, packetVars, eventVars
    <2> QED BY <1>e, <2>1, StopsMove
  <1>23. ASSUME SetMmShadNetClient
       PROVE  StopsAway'
    <2>1. UNCHANGED <<pending, reader, queue, firing>>
      BY <1>23 DEF SetMmShadNetClient, vars, packetVars, eventVars
    <2> QED BY <1>e, <2>1, StopsMove
  <1>24. ASSUME FireEvent
       PROVE  StopsAway'
    <2>1. UNCHANGED <<pending, reader>> /\ queue \in Seq(Events) /\ queue # <<>> /\ queue' = Tail(queue)
      BY <1>24 DEF FireEvent, packetVars, Typed, TypeOK
    <2>2. \A i \in 1 .. Len(queue') : \E j \in 1 .. Len(queue) : queue'[i] = queue[j]
      <3>1. \A i \in 1 .. Len(queue') : i + 1 \in 1 .. Len(queue) /\ queue'[i] = queue[i + 1]
        BY <2>1
      <3> QED BY <3>1
    <2>3. firing' = None \/ (1 \in 1 .. Len(queue) /\ firing' = queue[1])
      BY <1>24, <2>1 DEF FireEvent
    <2> QED BY <1>e, <2>1, <2>2, <2>3, StopsMove
  <1>25. ASSUME CompleteStop
       PROVE  StopsAway'
    <2>1. UNCHANGED <<pending, reader, queue>> /\ firing' = None
      BY <1>25 DEF CompleteStop, packetVars
    <2> QED BY <1>e, <2>1, StopsMove
  <1>26. ASSUME Initialize
       PROVE  StopsAway'
    <2>1. UNCHANGED <<pending, reader, queue, firing>>
      BY <1>26 DEF Initialize, vars, packetVars, eventVars
    <2> QED BY <1>e, <2>1, StopsMove
  <1>27. CASE UNCHANGED vars
    <2>1. UNCHANGED <<pending, reader, queue, firing>>
      BY <1>27 DEF vars, packetVars, eventVars
    <2> QED BY <1>e, <2>1, StopsMove
  <1> QED
    BY <1>1, <1>2, <1>3, <1>4, <1>5, <1>6, <1>7, <1>8, <1>9, <1>10, <1>11, <1>12, <1>13, <1>14, <1>15, <1>16, <1>17, <1>18, <1>19, <1>20, <1>21, <1>22, <1>23, <1>24, <1>25, <1>26, <1>27 DEF Next, CallStep, ReaderStep, DispatcherStep

\* What has a place had one before, unless its stop begins.
LEMMA PlaceBefore ==
    ASSUME Typed, [Next]_vars, NEW o \in Objects, SomePlace(o)',
           \A t \in Threads, id \in Ids : ContextStop(t, id) => slots[id] # o
    PROVE  SomePlace(o)
  <1>c. (\E u \in Threads : AtCall(u, o))' => SomePlace(o)
    <2>1. ASSUME NEW u \in Threads, AtCall(u, o)' PROVE SomePlace(o)
      <3>1. AtCall(u, o) \/ o \in Requests
        BY <2>1, CallTokens
      <3> QED BY <3>1, Matching2Assumption DEF SomePlace
    <2> QED BY <2>1
  <1>1. ASSUME NEW t \in Threads, NEW q \in Objects, CreateContext(t, q)
       PROVE  SomePlace(o)
    <2>1. UNCHANGED <<pending, reader, queue, firing>>
      BY <1>1 DEF CreateContext, vars, packetVars, eventVars
    <2> QED BY <1>c, <2>1 DEF SomePlace, AtEntry, AtReader, AtQueue, Tok
  <1>2. ASSUME NEW t \in Threads, AddContextRef(t)
       PROVE  SomePlace(o)
    <2>1. UNCHANGED <<pending, reader, queue, firing>>
      BY <1>2 DEF AddContextRef, vars, packetVars, eventVars
    <2> QED BY <1>c, <2>1 DEF SomePlace, AtEntry, AtReader, AtQueue, Tok
  <1>3. ASSUME NEW t \in Threads, ReleaseContextRef(t)
       PROVE  SomePlace(o)
    <2>1. UNCHANGED <<pending, reader, queue, firing>>
      BY <1>3 DEF ReleaseContextRef, vars, packetVars, eventVars
    <2> QED BY <1>c, <2>1 DEF SomePlace, AtEntry, AtReader, AtQueue, Tok
  <1>4. ASSUME NEW t \in Threads, NEW id \in Ids, DestroyContext(t, id)
       PROVE  SomePlace(o)
    <2>1. UNCHANGED <<pending, reader, queue, firing>>
      BY <1>4 DEF DestroyContext, vars, packetVars, eventVars
    <2> QED BY <1>c, <2>1 DEF SomePlace, AtEntry, AtReader, AtQueue, Tok
  <1>5. ASSUME NEW t \in Threads, NEW id \in Ids, ContextStart(t, id)
       PROVE  SomePlace(o)
    <2>1. UNCHANGED <<pending, reader, queue, firing>>
      BY <1>5 DEF ContextStart, vars, packetVars, eventVars
    <2> QED BY <1>c, <2>1 DEF SomePlace, AtEntry, AtReader, AtQueue, Tok
  <1>6. ASSUME NEW t \in Threads, NEW id \in Ids, ContextStop(t, id)
       PROVE  SomePlace(o)
    <2>1. UNCHANGED <<pending, reader, queue, firing>>
      BY <1>6 DEF ContextStop, vars, packetVars, eventVars
    <2> QED BY <1>c, <2>1 DEF SomePlace, AtEntry, AtReader, AtQueue, Tok
  <1>7. ASSUME NEW t \in Threads, FindStopping(t)
       PROVE  SomePlace(o)
    <2>1. UNCHANGED <<pending, reader, queue, firing>>
      BY <1>7 DEF FindStopping, vars, packetVars, eventVars
    <2> QED BY <1>c, <2>1 DEF SomePlace, AtEntry, AtReader, AtQueue, Tok
  <1>8. ASSUME NEW t \in Threads, StopAtOnce(t)
       PROVE  SomePlace(o)
    <2>1. UNCHANGED <<pending, reader, queue, firing>>
      BY <1>8 DEF StopAtOnce, vars, packetVars, eventVars
    <2> QED BY <1>c, <2>1 DEF SomePlace, AtEntry, AtReader, AtQueue, Tok
  <1>9. ASSUME NEW t \in Threads, NEW id \in Ids, NEW r \in Requests, Request(t, id, r)
       PROVE  SomePlace(o)
    <2>1. UNCHANGED <<pending, reader, queue, firing>>
      BY <1>9 DEF Request, vars, packetVars, eventVars
    <2> QED BY <1>c, <2>1 DEF SomePlace, AtEntry, AtReader, AtQueue, Tok
  <1>10. ASSUME NEW t \in Threads, StoreArgument(t)
       PROVE  SomePlace(o)
    <2>1. UNCHANGED <<pending, reader, queue, firing>>
      BY <1>10 DEF StoreArgument, vars, packetVars, eventVars
    <2> QED BY <1>c, <2>1 DEF SomePlace, AtEntry, AtReader, AtQueue, Tok
  <1>11. ASSUME NEW t \in Threads, CheckClient(t)
       PROVE  SomePlace(o)
    <2>1. UNCHANGED <<pending, reader, queue, firing>>
      BY <1>11 DEF CheckClient, vars, packetVars, eventVars
    <2> QED BY <1>c, <2>1 DEF SomePlace, AtEntry, AtReader, AtQueue, Tok
  <1>12. ASSUME NEW t \in Threads, ConsumeCallback(t)
       PROVE  SomePlace(o)
    <2>1. UNCHANGED <<pending, reader, queue, firing>>
      BY <1>12 DEF ConsumeCallback, vars, packetVars, eventVars
    <2> QED BY <1>c, <2>1 DEF SomePlace, AtEntry, AtReader, AtQueue, Tok
  <1>13. ASSUME NEW t \in Threads, ConsumeArgument(t)
       PROVE  SomePlace(o)
    <2>1. UNCHANGED <<pending, reader, queue, firing>>
      BY <1>13 DEF ConsumeArgument, vars, packetVars, eventVars
    <2> QED BY <1>c, <2>1 DEF SomePlace, AtEntry, AtReader, AtQueue, Tok
  <1>14. ASSUME NEW t \in Threads, AnswerInCall(t)
       PROVE  SomePlace(o)
    <2>1. PICK f : f = Event(Entry(t), call[t].obj)
      OBVIOUS
    <2>2. Tok(f) = Tok(call[t])
      BY <2>1 DEF Event, Entry, Tok
    <2>3. queue' = Append(queue, f) /\ queue \in Seq(Events)
      BY <1>14, <2>1 DEF AnswerInCall, Typed, TypeOK
    <2>4. \A i \in 1 .. Len(queue') : queue'[i] = f \/ \E j \in 1 .. Len(queue) : queue'[i] = queue[j]
      BY <2>3
    <2>5. UNCHANGED <<pending, reader, firing>>
      BY <1>14 DEF AnswerInCall, packetVars
    <2>6. (\E i \in 1 .. Len(queue) : AtQueue(i, o))' => SomePlace(o)
      BY <2>2, <2>4 DEF SomePlace, AtQueue, AtCall, Tok
    <2> QED BY <1>c, <2>5, <2>6 DEF SomePlace, AtEntry, AtReader, Tok
  <1>15. ASSUME NEW t \in Threads, SubmitRequest(t)
       PROVE  SomePlace(o)
    <2>1. UNCHANGED <<pending, reader, queue, firing>>
      BY <1>15 DEF SubmitRequest, vars, packetVars, eventVars
    <2> QED BY <1>c, <2>1 DEF SomePlace, AtEntry, AtReader, AtQueue, Tok
  <1>16. ASSUME NEW t \in Threads, Register(t)
       PROVE  SomePlace(o)
    <2>1. PICK e : e = Entry(t)
      OBVIOUS
    <2>2. Tok(e) = Tok(call[t])
      BY <2>1 DEF Entry, Tok
    <2>3. \A n \in 1 .. MaxPkt : pending'[n] = e \/ pending'[n] = pending[n]
      BY <1>16, <2>1 DEF Register, Typed, TypeOK
    <2>4. UNCHANGED <<queue, reader, firing>>
      BY <1>16 DEF Register, eventVars
    <2>5. (\E n \in 1 .. MaxPkt : AtEntry(n, o))' => SomePlace(o)
      BY <2>2, <2>3 DEF SomePlace, AtEntry, AtCall
    <2> QED BY <1>c, <2>4, <2>5 DEF SomePlace, AtQueue, AtReader, Tok
  <1>17. ASSUME NEW t \in Threads, TermEventDispatcher(t)
       PROVE  SomePlace(o)
    <2>1. UNCHANGED <<pending, reader, firing>> /\ queue' = <<>>
      BY <1>17 DEF TermEventDispatcher, packetVars
    <2> QED BY <1>c, <2>1 DEF SomePlace, AtEntry, AtReader, Tok
  <1>18. ASSUME NEW t \in Threads, Reset(t)
       PROVE  SomePlace(o)
    <2>1. UNCHANGED <<pending, reader, queue, firing>>
      BY <1>18 DEF Reset, vars, packetVars, eventVars
    <2> QED BY <1>c, <2>1 DEF SomePlace, AtEntry, AtReader, AtQueue, Tok
  <1>19. ASSUME NEW t \in Threads, Terminate(t)
       PROVE  SomePlace(o)
    <2>1. UNCHANGED <<pending, reader, queue, firing>>
      BY <1>19 DEF Terminate, vars, packetVars, eventVars
    <2> QED BY <1>c, <2>1 DEF SomePlace, AtEntry, AtReader, AtQueue, Tok
  <1>20. ASSUME NEW c \in Clients, DispatchRequestComplete(c)
       PROVE  SomePlace(o)
    <2>1. PICK e : e = reader[c] /\ e # None
      BY <1>20 DEF DispatchRequestComplete
    <2>2. PICK f : f = Event(e, slots[e.id])
      OBVIOUS
    <2>3. Tok(f) = Tok(e)
      BY <2>2 DEF Event, Tok
    <2>4. queue' = queue \/ queue' = Append(queue, f)
      BY <1>20, <2>1, <2>2 DEF DispatchRequestComplete, Recipient
    <2>5. queue \in Seq(Events)
      BY DEF Typed, TypeOK
    <2>6. \A i \in 1 .. Len(queue') : queue'[i] = f \/ \E j \in 1 .. Len(queue) : queue'[i] = queue[j]
      BY <2>4, <2>5
    <2>7. UNCHANGED <<pending, firing>> /\ \A d \in Clients : reader'[d] = None \/ reader'[d] = reader[d]
      BY <1>20 DEF DispatchRequestComplete, Typed, TypeOK
    <2>8. (\E i \in 1 .. Len(queue) : AtQueue(i, o))' => SomePlace(o)
      BY <2>1, <2>3, <2>6 DEF SomePlace, AtQueue, AtReader, Tok
    <2>9. (\E d \in Clients : AtReader(d, o))' => SomePlace(o)
      BY <2>7 DEF SomePlace, AtReader
    <2> QED BY <1>c, <2>7, <2>8, <2>9 DEF SomePlace, AtEntry, Tok
  <1>21. ASSUME NEW p \in inFlight, OnMatching2Reply(p)
       PROVE  SomePlace(o)
    <2>1. p.client \in Clients /\ p.pkt \in 1 .. MaxPkt
      BY <1>21 DEF Typed, TypeOK, Packets
    <2>2. \A n \in 1 .. MaxPkt : pending'[n] = None \/ pending'[n] = pending[n]
      BY <1>21 DEF OnMatching2Reply, TakeEntry, Typed, TypeOK
    <2>3. \A d \in Clients : reader'[d] = reader[d] \/ (reader'[d] = pending[p.pkt] /\ pending[p.pkt] # None)
      BY <1>21, <2>1 DEF OnMatching2Reply, Typed, TypeOK
    <2>4. UNCHANGED <<queue, firing>>
      BY <1>21 DEF OnMatching2Reply, eventVars
    <2>5. (\E d \in Clients : AtReader(d, o))' => SomePlace(o)
      BY <2>1, <2>3 DEF SomePlace, AtReader, AtEntry
    <2>6. (\E n \in 1 .. MaxPkt : AtEntry(n, o))' => SomePlace(o)
      BY <2>2 DEF SomePlace, AtEntry
    <2> QED BY <1>c, <2>4, <2>5, <2>6 DEF SomePlace, AtQueue, Tok
  <1>22. ASSUME NEW c \in Clients, LoseConnection(c)
       PROVE  SomePlace(o)
    <2>1. UNCHANGED <<pending, reader, queue, firing>>
      BY <1>22 DEF LoseConnection, vars, packetVars, eventVars
    <2> QED BY <1>c, <2>1 DEF SomePlace, AtEntry, AtReader, AtQueue, Tok
  <1>23. ASSUME SetMmShadNetClient
       PROVE  SomePlace(o)
    <2>1. UNCHANGED <<pending, reader, queue, firing>>
      BY <1>23 DEF SetMmShadNetClient, vars, packetVars, eventVars
    <2> QED BY <1>c, <2>1 DEF SomePlace, AtEntry, AtReader, AtQueue, Tok
  <1>24. ASSUME FireEvent
       PROVE  SomePlace(o)
    <2>1. UNCHANGED <<pending, reader>> /\ queue \in Seq(Events) /\ queue # <<>> /\ queue' = Tail(queue)
      BY <1>24 DEF FireEvent, packetVars, Typed, TypeOK
    <2>2. \A i \in 1 .. Len(queue') : i + 1 \in 1 .. Len(queue) /\ queue'[i] = queue[i + 1]
      BY <2>1
    <2>3. firing' = None \/ (1 \in 1 .. Len(queue) /\ firing' = queue[1])
      BY <1>24, <2>1 DEF FireEvent
    <2>4. (\E i \in 1 .. Len(queue) : AtQueue(i, o))' => SomePlace(o)
      BY <2>2 DEF SomePlace, AtQueue
    <2>5. (firing # None /\ Tok(firing) = o)' => SomePlace(o)
      BY <2>3 DEF SomePlace, AtQueue, Tok
    <2> QED BY <1>c, <2>1, <2>4, <2>5 DEF SomePlace, AtEntry, AtReader
  <1>25. ASSUME CompleteStop
       PROVE  SomePlace(o)
    <2>1. UNCHANGED <<pending, reader, queue>> /\ firing' = None
      BY <1>25 DEF CompleteStop, packetVars
    <2> QED BY <1>c, <2>1 DEF SomePlace, AtEntry, AtReader, AtQueue, Tok
  <1>26. ASSUME Initialize
       PROVE  SomePlace(o)
    <2>1. UNCHANGED <<pending, reader, queue, firing>>
      BY <1>26 DEF Initialize, vars, packetVars, eventVars
    <2> QED BY <1>c, <2>1 DEF SomePlace, AtEntry, AtReader, AtQueue, Tok
  <1>27. CASE UNCHANGED vars
    <2>1. UNCHANGED <<pending, reader, queue, firing>>
      BY <1>27 DEF vars, packetVars, eventVars
    <2> QED BY <1>c, <2>1 DEF SomePlace, AtEntry, AtReader, AtQueue, Tok
  <1> QED
    BY <1>1, <1>2, <1>3, <1>4, <1>5, <1>6, <1>7, <1>8, <1>9, <1>10, <1>11, <1>12, <1>13, <1>14, <1>15, <1>16, <1>17, <1>18, <1>19, <1>20, <1>21, <1>22, <1>23, <1>24, <1>25, <1>26, <1>27 DEF Next, CallStep, ReaderStep, DispatcherStep

\* The end of another context's stop leaves this one in its list.
LEMMA CompleteOther ==
    ASSUME Typed, NEW id \in Ids, NEW q, Complete(id, q), NEW o \in stopping \cap Live, q # o
    PROVE  o \in stopping' \cap Live'
  <1>1. o \in stopping'
    BY DEF Complete
  <1>2. CASE slots' = slots
    BY <1>1, <1>2 DEF Live
  <1>3. CASE slots' # slots
    <2>1. q # None /\ slots[id] = q /\ slots' = [slots EXCEPT ![id] = None]
      BY <1>3 DEF Complete
    <2>2. Live' = Live \ {q}
      BY <2>1, LiveLoses
    <2> QED BY <1>1, <2>2
  <1> QED BY <1>2, <1>3

\* While nothing confuses its stop, a context stays until the stop is completed.
LEMMA MeantStep ==
    ASSUME Typed, Stops, [Next]_vars, NEW o \in Objects, Plain(o) => OnePlace(o),
           Plain(o) /\ SomePlace(o) => o \in stopping \cap Live, Plain(o)', SomePlace(o)'
    PROVE  o \in stopping' \cap Live'
  <1>p. Plain(o) /\ OnePlace(o)
    BY PlainBefore
  <1>s. ASSUME NEW t \in Threads, NEW id \in Ids, ContextStop(t, id), slots[id] = o
        PROVE  o \in stopping' \cap Live'
    <2>1. slots' = slots /\ stopping' = stopping \cup {o} /\ o # None
      BY <1>s, Matching2Assumption DEF ContextStop
    <2> QED BY <1>s, <2>1 DEF Live
  <1>t. SUFFICES ASSUME \A t \in Threads, id \in Ids : ContextStop(t, id) => slots[id] # o
                 PROVE  o \in stopping' \cap Live'
    BY <1>s
  <1>o. o \in stopping \cap Live
    BY <1>p, <1>t, PlaceBefore
  <1>1. ASSUME NEW t \in Threads, NEW q \in Objects, CreateContext(t, q)
       PROVE  o \in stopping' \cap Live'
    BY <1>1, <1>o, LiveGains DEF CreateContext
  <1>2. ASSUME NEW t \in Threads, AddContextRef(t)
       PROVE  o \in stopping' \cap Live'
    BY <1>2, <1>o DEF AddContextRef, vars, contextVars, Live
  <1>3. ASSUME NEW t \in Threads, ReleaseContextRef(t)
       PROVE  o \in stopping' \cap Live'
    BY <1>3, <1>o DEF ReleaseContextRef, vars, contextVars, Live
  <1>4. ASSUME NEW t \in Threads, NEW id \in Ids, DestroyContext(t, id)
       PROVE  o \in stopping' \cap Live'
    <2>1. CASE slots[id] \in stopping
      BY <1>4, <1>o, <2>1 DEF DestroyContext, Remove, Live
    <2>2. CASE slots[id] \notin stopping
      <3>1. slots' = [slots EXCEPT ![id] = None] /\ slots[id] # None /\ stopping' = stopping
        BY <1>4, <2>2 DEF DestroyContext, Remove
      <3> QED BY <1>o, <2>2, <3>1, LiveLoses
    <2> QED BY <2>1, <2>2
  <1>5. ASSUME NEW t \in Threads, NEW id \in Ids, ContextStart(t, id)
       PROVE  o \in stopping' \cap Live'
    <2>1. slots[id] # o
      BY <1>5, <1>o DEF ContextStart, Plain
    <2> QED BY <1>5, <1>o, <2>1 DEF ContextStart, Live
  <1>6. ASSUME NEW t \in Threads, NEW id \in Ids, ContextStop(t, id)
       PROVE  o \in stopping' \cap Live'
    BY <1>6, <1>o DEF ContextStop, Live
  <1>7. ASSUME NEW t \in Threads, FindStopping(t)
       PROVE  o \in stopping' \cap Live'
    BY <1>7, <1>o DEF FindStopping, vars, contextVars, Live
  <1>8. ASSUME NEW t \in Threads, StopAtOnce(t)
       PROVE  o \in stopping' \cap Live'
    <2>1. call[t].id \in Ids /\ Complete(call[t].id, call[t].obj) /\ call[t].pc = "complete_stop" /\ call[t].op = Stopping
      BY <1>8, CallsKnown DEF StopAtOnce, Stage, Early, Named
    <2>2. CASE call[t].obj # o
      BY <1>o, <2>1, <2>2, CompleteOther
    <2>3. CASE call[t].obj = o
      <3>1. o \in {call[t].asker} \cup {None} \cup overtaken
        BY <2>1, <2>3 DEF Stops, StopCall, Aims
      <3>2. call[t].asker = o
        BY <1>p, <3>1, Matching2Assumption DEF Plain
      <3>3. AtCall(t, o)
        BY <2>1, <3>2 DEF AtCall, Tok
      <3>4. UNCHANGED <<pending, reader, queue, firing, answered>> /\ Alone(t) /\ call'[t] = Idle
        BY <1>8, Simple DEF StopAtOnce, packetVars, eventVars
      <3>5. \A u \in Threads : ~AtCall(u, o)'
        <4>1. \A u \in Threads : u # t => ~AtCall(u, o)
          BY <1>p, <3>3 DEF OnePlace
        <4> QED BY <3>4, <4>1, Matching2Assumption DEF AtCall, Alone, Tok, Idle
      <3>6. (\A n \in 1 .. MaxPkt : ~AtEntry(n, o))' /\ (\A c \in Clients : ~AtReader(c, o))'
        <4>1. (\A n \in 1 .. MaxPkt : ~AtEntry(n, o)) /\ (\A c \in Clients : ~AtReader(c, o))
          BY <1>p, <3>3 DEF OnePlace
        <4> QED BY <3>4, <4>1 DEF AtEntry, AtReader
      <3>7. (\A i \in 1 .. Len(queue) : ~AtQueue(i, o))' /\ ~Ended(o)'
        <4>1. (\A i \in 1 .. Len(queue) : ~AtQueue(i, o)) /\ ~Ended(o)
          BY <1>p, <3>3 DEF OnePlace
        <4> QED BY <3>4, <4>1 DEF AtQueue, Ended, Tok
      <3> QED BY <3>5, <3>6, <3>7 DEF SomePlace, Ended
    <2> QED BY <2>2, <2>3
  <1>9. ASSUME NEW t \in Threads, NEW id \in Ids, NEW r \in Requests, Request(t, id, r)
       PROVE  o \in stopping' \cap Live'
    BY <1>9, <1>o DEF Request, vars, contextVars, Live
  <1>10. ASSUME NEW t \in Threads, StoreArgument(t)
       PROVE  o \in stopping' \cap Live'
    BY <1>10, <1>o DEF StoreArgument, vars, contextVars, Live
  <1>11. ASSUME NEW t \in Threads, CheckClient(t)
       PROVE  o \in stopping' \cap Live'
    BY <1>11, <1>o DEF CheckClient, vars, contextVars, Live
  <1>12. ASSUME NEW t \in Threads, ConsumeCallback(t)
       PROVE  o \in stopping' \cap Live'
    BY <1>12, <1>o DEF ConsumeCallback, vars, contextVars, Live
  <1>13. ASSUME NEW t \in Threads, ConsumeArgument(t)
       PROVE  o \in stopping' \cap Live'
    BY <1>13, <1>o DEF ConsumeArgument, vars, contextVars, Live
  <1>14. ASSUME NEW t \in Threads, AnswerInCall(t)
       PROVE  o \in stopping' \cap Live'
    BY <1>14, <1>o DEF AnswerInCall, vars, contextVars, Live
  <1>15. ASSUME NEW t \in Threads, SubmitRequest(t)
       PROVE  o \in stopping' \cap Live'
    BY <1>15, <1>o DEF SubmitRequest, vars, contextVars, Live
  <1>16. ASSUME NEW t \in Threads, Register(t)
       PROVE  o \in stopping' \cap Live'
    BY <1>16, <1>o DEF Register, vars, contextVars, Live
  <1>17. ASSUME NEW t \in Threads, TermEventDispatcher(t)
       PROVE  o \in stopping' \cap Live'
    BY <1>17, <1>o DEF TermEventDispatcher, vars, contextVars, Live
  <1>18. ASSUME NEW t \in Threads, Reset(t)
       PROVE  o \in stopping' \cap Live'
    BY <1>18 DEF Reset, Plain
  <1>19. ASSUME NEW t \in Threads, Terminate(t)
       PROVE  o \in stopping' \cap Live'
    BY <1>19, <1>o DEF Terminate, vars, contextVars, Live
  <1>20. ASSUME NEW c \in Clients, DispatchRequestComplete(c)
       PROVE  o \in stopping' \cap Live'
    BY <1>20, <1>o DEF DispatchRequestComplete, vars, contextVars, Live
  <1>21. ASSUME NEW p \in inFlight, OnMatching2Reply(p)
       PROVE  o \in stopping' \cap Live'
    BY <1>21, <1>o DEF OnMatching2Reply, vars, contextVars, Live
  <1>22. ASSUME NEW c \in Clients, LoseConnection(c)
       PROVE  o \in stopping' \cap Live'
    BY <1>22, <1>o DEF LoseConnection, vars, contextVars, Live
  <1>23. ASSUME SetMmShadNetClient
       PROVE  o \in stopping' \cap Live'
    BY <1>23, <1>o DEF SetMmShadNetClient, vars, contextVars, Live
  <1>24. ASSUME FireEvent
       PROVE  o \in stopping' \cap Live'
    BY <1>24, <1>o DEF FireEvent, vars, contextVars, Live
  <1>25. ASSUME CompleteStop
       PROVE  o \in stopping' \cap Live'
    <2>1. /\ firing.id \in Ids /\ Complete(firing.id, firing.obj) /\ firing # None /\ firing.op = Stopping
          /\ UNCHANGED <<pending, reader, queue, call>> /\ firing' = None
      BY <1>25 DEF CompleteStop, packetVars, Typed, TypeOK, Events, Known, AllPlaced
    <2>2. CASE firing.obj # o
      BY <1>o, <2>1, <2>2, CompleteOther
    <2>3. CASE firing.obj = o
      <3>1. o \in {firing.asker} \cup {} \cup overtaken
        BY <2>1, <2>3 DEF Stops, StopEvent, Aims
      <3>2. Ended(o)
        BY <1>p, <2>1, <3>1 DEF Plain, Ended, Tok
      <3>3. /\ \A u \in Threads : ~AtCall(u, o)
            /\ \A n \in 1 .. MaxPkt : ~AtEntry(n, o)
            /\ \A c \in Clients : ~AtReader(c, o)
            /\ \A i \in 1 .. Len(queue) : ~AtQueue(i, o)
        BY <1>p, <3>2 DEF OnePlace
      <3>4. ~SomePlace(o)'
        BY <2>1, <3>3 DEF SomePlace, AtCall, AtEntry, AtReader, AtQueue, Tok
      <3> QED BY <3>4
    <2> QED BY <2>2, <2>3
  <1>26. ASSUME Initialize
       PROVE  o \in stopping' \cap Live'
    BY <1>26, <1>o DEF Initialize, vars, contextVars, Live
  <1>27. CASE UNCHANGED vars
    BY <1>27, <1>o DEF vars, contextVars, Live
  <1> QED
    BY <1>1, <1>2, <1>3, <1>4, <1>5, <1>6, <1>7, <1>8, <1>9, <1>10, <1>11, <1>12, <1>13, <1>14, <1>15, <1>16, <1>17, <1>18, <1>19, <1>20, <1>21, <1>22, <1>23, <1>24, <1>25, <1>26, <1>27 DEF Next, CallStep, ReaderStep, DispatcherStep

\* What a stop of o is under way in stays, as far as a step leaves it alone.
LEMMA CallingStays ==
    ASSUME Typed, NEW t \in Threads, Alone(t), NEW o,
           call[t].op = Stopping =>
               call'[t].op = Stopping /\ call'[t].asker = call[t].asker /\ call'[t].pc # "register"
    PROVE  Calling(o) => Calling(o)'
  BY DEF Alone, Calling

\* And what it is in the packets and the queue stays with them.
LEMMA OthersToCome ==
    ASSUME NEW o, UNCHANGED <<reader, queue, firing>>, inFlight \subseteq inFlight'
    PROVE  /\ Travelling(o) => Travelling(o)'
           /\ Reading(o) => Reading(o)'
           /\ Queued(o) => Queued(o)'
           /\ Firing(o) => Firing(o)'
  BY DEF Travelling, Reading, Queued, Firing

\* A context that was created is in the list only if it was before.
LEMMA OldLive ==
    ASSUME Typed, [Next]_vars, NEW o \in created, o \in Live'
    PROVE  o \in Live
  <1>1. o # None
    BY Matching2Assumption DEF Typed, TypeOK
  <1> QED BY <1>1, OldIds DEF Live

\* The stop of a context goes on, is completed, or is lost.
LEMMA StopGoesOn ==
    ASSUME Typed, Stops, [Next]_vars, NEW o \in Objects, StopToCome(o)
    PROVE  StopToCome(o)' \/ o \in lost' \/ o \notin stopping' \cap Live'
  <1>1. ASSUME NEW t \in Threads, NEW q \in Objects, CreateContext(t, q)
       PROVE  StopToCome(o)' \/ o \in lost' \/ o \notin stopping' \cap Live'
    <2>1. UNCHANGED <<inFlight, reader, queue, firing>>
      BY <1>1 DEF CreateContext, packetVars, eventVars
    <2>2. /\ Alone(t)
          /\ call[t].op = Stopping =>
               call'[t].op = Stopping /\ call'[t].asker = call[t].asker /\ call'[t].pc # "register"
      BY <1>1, Simple, CallsKnown, Matching2Assumption DEF CreateContext, Stage, Free, Same, Keeps, Submits, Idle
    <2> QED BY <2>1, <2>2, CallingStays, OthersToCome DEF StopToCome
  <1>2. ASSUME NEW t \in Threads, AddContextRef(t)
       PROVE  StopToCome(o)' \/ o \in lost' \/ o \notin stopping' \cap Live'
    <2>1. UNCHANGED <<inFlight, reader, queue, firing>>
      BY <1>2 DEF AddContextRef, packetVars, eventVars
    <2>2. /\ Alone(t)
          /\ call[t].op = Stopping =>
               call'[t].op = Stopping /\ call'[t].asker = call[t].asker /\ call'[t].pc # "register"
      BY <1>2, Simple, CallsKnown, Matching2Assumption DEF AddContextRef, Stage, Free, Same, Keeps, Submits, Idle
    <2> QED BY <2>1, <2>2, CallingStays, OthersToCome DEF StopToCome
  <1>3. ASSUME NEW t \in Threads, ReleaseContextRef(t)
       PROVE  StopToCome(o)' \/ o \in lost' \/ o \notin stopping' \cap Live'
    <2>1. UNCHANGED <<inFlight, reader, queue, firing>>
      BY <1>3 DEF ReleaseContextRef, packetVars, eventVars
    <2>2. /\ Alone(t)
          /\ call[t].op = Stopping =>
               call'[t].op = Stopping /\ call'[t].asker = call[t].asker /\ call'[t].pc # "register"
      BY <1>3, Simple, CallsKnown, Matching2Assumption DEF ReleaseContextRef, Stage, Free, Same, Keeps, Submits, Idle
    <2> QED BY <2>1, <2>2, CallingStays, OthersToCome DEF StopToCome
  <1>4. ASSUME NEW t \in Threads, NEW id \in Ids, DestroyContext(t, id)
       PROVE  StopToCome(o)' \/ o \in lost' \/ o \notin stopping' \cap Live'
    <2>1. UNCHANGED <<inFlight, reader, queue, firing>>
      BY <1>4 DEF DestroyContext, packetVars, eventVars
    <2>2. /\ Alone(t)
          /\ call[t].op = Stopping =>
               call'[t].op = Stopping /\ call'[t].asker = call[t].asker /\ call'[t].pc # "register"
      BY <1>4, Simple, CallsKnown, Matching2Assumption DEF DestroyContext, Stage, Free, Same, Keeps, Submits, Idle
    <2> QED BY <2>1, <2>2, CallingStays, OthersToCome DEF StopToCome
  <1>5. ASSUME NEW t \in Threads, NEW id \in Ids, ContextStart(t, id)
       PROVE  StopToCome(o)' \/ o \in lost' \/ o \notin stopping' \cap Live'
    <2>1. UNCHANGED <<inFlight, reader, queue, firing>>
      BY <1>5 DEF ContextStart, packetVars, eventVars
    <2>2. /\ Alone(t)
          /\ call[t].op = Stopping =>
               call'[t].op = Stopping /\ call'[t].asker = call[t].asker /\ call'[t].pc # "register"
      BY <1>5, StartsCall, CallsKnown, Matching2Assumption DEF Stage, Free, Same, Keeps, Submits, Idle
    <2> QED BY <2>1, <2>2, CallingStays, OthersToCome DEF StopToCome
  <1>6. ASSUME NEW t \in Threads, NEW id \in Ids, ContextStop(t, id)
       PROVE  StopToCome(o)' \/ o \in lost' \/ o \notin stopping' \cap Live'
    <2>1. UNCHANGED <<inFlight, reader, queue, firing>>
      BY <1>6 DEF ContextStop, packetVars, eventVars
    <2>2. /\ Alone(t)
          /\ call[t].op = Stopping =>
               call'[t].op = Stopping /\ call'[t].asker = call[t].asker /\ call'[t].pc # "register"
      BY <1>6, StopsCall, CallsKnown, Matching2Assumption DEF Stage, Free, Same, Keeps, Submits, Idle
    <2> QED BY <2>1, <2>2, CallingStays, OthersToCome DEF StopToCome
  <1>7. ASSUME NEW t \in Threads, FindStopping(t)
       PROVE  StopToCome(o)' \/ o \in lost' \/ o \notin stopping' \cap Live'
    <2>1. UNCHANGED <<inFlight, reader, queue, firing>>
      BY <1>7 DEF FindStopping, packetVars, eventVars
    <2>2. /\ Alone(t)
          /\ call[t].op = Stopping =>
               call'[t].op = Stopping /\ call'[t].asker = call[t].asker /\ call'[t].pc # "register"
      BY <1>7, FindsCall, CallsKnown, Matching2Assumption DEF Stage, Free, Same, Keeps, Submits, Idle
    <2> QED BY <2>1, <2>2, CallingStays, OthersToCome DEF StopToCome
  <1>8. ASSUME NEW t \in Threads, StopAtOnce(t)
       PROVE  StopToCome(o)' \/ o \in lost' \/ o \notin stopping' \cap Live'
    <2>1. UNCHANGED <<inFlight, reader, queue, firing>>
      BY <1>8 DEF StopAtOnce, packetVars, eventVars
    <2>2. /\ Alone(t) /\ call[t].pc = "complete_stop" /\ call[t].op = Stopping /\ call[t].id \in Ids
          /\ call[t].asker \in created /\ Complete(call[t].id, call[t].obj)
      BY <1>8, Simple, CallsKnown DEF StopAtOnce, Stage
    <2>3. call[t].asker = o => o \notin stopping' \cap Live'
      <3>1. ASSUME call[t].asker = o, o \in Live' PROVE o \notin stopping'
        <4>1. o \in Live
          BY <2>2, <3>1, OldLive
        <4>2. call[t].obj = o /\ slots[call[t].id] = o /\ o # None
          BY <2>2, <3>1, <4>1 DEF Stops, StopCall, Aims, HasId, Live
        <4> QED BY <2>2, <4>2 DEF Complete
      <3> QED BY <3>1
    <2>4. Calling(o) => Calling(o)' \/ call[t].asker = o
      BY <2>2 DEF Calling, Alone
    <2> QED BY <2>1, <2>3, <2>4, OthersToCome DEF StopToCome
  <1>9. ASSUME NEW t \in Threads, NEW id \in Ids, NEW r \in Requests, Request(t, id, r)
       PROVE  StopToCome(o)' \/ o \in lost' \/ o \notin stopping' \cap Live'
    <2>1. UNCHANGED <<inFlight, reader, queue, firing>>
      BY <1>9 DEF Request, packetVars, eventVars
    <2>2. /\ Alone(t)
          /\ call[t].op = Stopping =>
               call'[t].op = Stopping /\ call'[t].asker = call[t].asker /\ call'[t].pc # "register"
      BY <1>9, RequestCall, CallsKnown, Matching2Assumption DEF Stage, Free, Same, Keeps, Submits, Idle
    <2> QED BY <2>1, <2>2, CallingStays, OthersToCome DEF StopToCome
  <1>10. ASSUME NEW t \in Threads, StoreArgument(t)
       PROVE  StopToCome(o)' \/ o \in lost' \/ o \notin stopping' \cap Live'
    <2>1. UNCHANGED <<inFlight, reader, queue, firing>>
      BY <1>10 DEF StoreArgument, packetVars, eventVars
    <2>2. /\ Alone(t)
          /\ call[t].op = Stopping =>
               call'[t].op = Stopping /\ call'[t].asker = call[t].asker /\ call'[t].pc # "register"
      BY <1>10, Simple, CallsKnown, Matching2Assumption DEF StoreArgument, Stage, Free, Same, Keeps, Submits, Idle
    <2> QED BY <2>1, <2>2, CallingStays, OthersToCome DEF StopToCome
  <1>11. ASSUME NEW t \in Threads, CheckClient(t)
       PROVE  StopToCome(o)' \/ o \in lost' \/ o \notin stopping' \cap Live'
    <2>1. UNCHANGED <<inFlight, reader, queue, firing>>
      BY <1>11 DEF CheckClient, packetVars, eventVars
    <2>2. /\ Alone(t)
          /\ call[t].op = Stopping =>
               call'[t].op = Stopping /\ call'[t].asker = call[t].asker /\ call'[t].pc # "register"
      BY <1>11, ChecksCall, Failing, CallsKnown, Matching2Assumption DEF Stage, Free, Same, Keeps, Submits, Idle
    <2> QED BY <2>1, <2>2, CallingStays, OthersToCome DEF StopToCome
  <1>12. ASSUME NEW t \in Threads, ConsumeCallback(t)
       PROVE  StopToCome(o)' \/ o \in lost' \/ o \notin stopping' \cap Live'
    <2>1. UNCHANGED <<inFlight, reader, queue, firing>>
      BY <1>12 DEF ConsumeCallback, packetVars, eventVars
    <2>2. /\ Alone(t)
          /\ call[t].op = Stopping =>
               call'[t].op = Stopping /\ call'[t].asker = call[t].asker /\ call'[t].pc # "register"
      BY <1>12, TakesCallback, Failing, CallsKnown, Matching2Assumption DEF Stage, Free, Same, Keeps, Submits, Idle
    <2> QED BY <2>1, <2>2, CallingStays, OthersToCome DEF StopToCome
  <1>13. ASSUME NEW t \in Threads, ConsumeArgument(t)
       PROVE  StopToCome(o)' \/ o \in lost' \/ o \notin stopping' \cap Live'
    <2>1. UNCHANGED <<inFlight, reader, queue, firing>>
      BY <1>13 DEF ConsumeArgument, packetVars, eventVars
    <2>2. /\ Alone(t)
          /\ call[t].op = Stopping =>
               call'[t].op = Stopping /\ call'[t].asker = call[t].asker /\ call'[t].pc # "register"
      BY <1>13, TakesArgument, CallsKnown, Matching2Assumption DEF Stage, Free, Same, Keeps, Submits, Idle
    <2> QED BY <2>1, <2>2, CallingStays, OthersToCome DEF StopToCome
  <1>14. ASSUME NEW t \in Threads, AnswerInCall(t)
       PROVE  StopToCome(o)' \/ o \in lost' \/ o \notin stopping' \cap Live'
    <2>1. UNCHANGED <<inFlight, reader, firing>>
      BY <1>14 DEF AnswerInCall, packetVars
    <2>2. Alone(t) /\ call[t].op # Stopping
      BY <1>14, Simple, CallsKnown, Matching2Assumption DEF AnswerInCall, Stage
    <2>3. PICK f : queue' = Append(queue, f)
      BY <1>14 DEF AnswerInCall
    <2>4. \A i \in 1 .. Len(queue) : i \in 1 .. Len(queue') /\ queue'[i] = queue[i]
      BY <2>3 DEF Typed, TypeOK
    <2>5. Queued(o) => Queued(o)'
      BY <2>4 DEF Queued
    <2>6. Calling(o) => Calling(o)'
      BY <2>2, CallingStays
    <2> QED BY <2>1, <2>5, <2>6 DEF StopToCome, Travelling, Reading, Firing
  <1>15. ASSUME NEW t \in Threads, SubmitRequest(t)
       PROVE  StopToCome(o)' \/ o \in lost' \/ o \notin stopping' \cap Live'
    <2>1. UNCHANGED <<reader, queue, firing>> /\ inFlight \subseteq inFlight' /\ lost \subseteq lost'
      BY <1>15 DEF SubmitRequest, eventVars
    <2>2. Keeps(t)
      BY <1>15, SubmitsCall
    <2>3. call[t].op = Stopping /\ call[t].asker = o => Travelling(o)' \/ o \in lost'
      <3>1. ASSUME call[t].op = Stopping, call[t].asker = o, call[t].client \in connected
            PROVE  Travelling(o)'
        <4>1. PICK p : p = [client |-> call[t].client, pkt |-> counter[call[t].client] + 1,
                            op |-> call[t].op, asker |-> call[t].asker]
          OBVIOUS
        <4>2. p \in inFlight' /\ p.op = call[t].op /\ p.asker = call[t].asker
          BY <1>15, <3>1, <4>1 DEF SubmitRequest
        <4> QED BY <3>1, <4>2 DEF Travelling
      <3>2. ASSUME call[t].op = Stopping, call[t].asker = o, call[t].client \notin connected
            PROVE  o \in lost'
        BY <1>15, <3>2 DEF SubmitRequest, Token
      <3> QED BY <3>1, <3>2
    <2>4. Calling(o) => Calling(o)' \/ Travelling(o)' \/ o \in lost'
      BY <2>2, <2>3 DEF Calling, Keeps, Alone
    <2> QED BY <2>1, <2>4, OthersToCome DEF StopToCome
  <1>16. ASSUME NEW t \in Threads, Register(t)
       PROVE  StopToCome(o)' \/ o \in lost' \/ o \notin stopping' \cap Live'
    <2>1. UNCHANGED <<inFlight, reader, queue, firing>>
      BY <1>16 DEF Register, eventVars
    <2>2. Alone(t) /\ call[t].pc = "register"
      BY <1>16, Simple DEF Register
    <2>3. Calling(o) => Calling(o)'
      BY <2>2 DEF Calling, Alone
    <2> QED BY <2>1, <2>3, OthersToCome DEF StopToCome
  <1>17. ASSUME NEW t \in Threads, TermEventDispatcher(t)
       PROVE  StopToCome(o)' \/ o \in lost' \/ o \notin stopping' \cap Live'
    <2>1. UNCHANGED <<inFlight, reader, firing>> /\ lost \subseteq lost'
      BY <1>17 DEF TermEventDispatcher, packetVars
    <2>2. Alone(t) /\ call[t].op # Stopping
      BY <1>17, Simple, CallsKnown, Matching2Assumption DEF TermEventDispatcher, Stage, Free, Same, Keeps
    <2>3. Calling(o) => Calling(o)'
      BY <2>2, CallingStays
    <2>4. Queued(o) => o \in lost'
      <3>1. ASSUME NEW i \in 1 .. Len(queue), queue[i].op = Stopping, queue[i].asker = o PROVE o \in lost'
        <4>1. o \in Token(queue[i].op, queue[i].asker)
          BY <3>1 DEF Token
        <4> QED BY <1>17, <4>1 DEF TermEventDispatcher
      <3> QED BY <3>1 DEF Queued
    <2> QED BY <2>1, <2>3, <2>4 DEF StopToCome, Travelling, Reading, Firing
  <1>18. ASSUME NEW t \in Threads, Reset(t)
       PROVE  StopToCome(o)' \/ o \in lost' \/ o \notin stopping' \cap Live'
    <2>1. UNCHANGED <<inFlight, reader, queue, firing>>
      BY <1>18 DEF Reset, packetVars, eventVars
    <2>2. /\ Alone(t)
          /\ call[t].op = Stopping =>
               call'[t].op = Stopping /\ call'[t].asker = call[t].asker /\ call'[t].pc # "register"
      BY <1>18, Simple, CallsKnown, Matching2Assumption DEF Reset, Stage, Free, Same, Keeps, Submits, Idle
    <2> QED BY <2>1, <2>2, CallingStays, OthersToCome DEF StopToCome
  <1>19. ASSUME NEW t \in Threads, Terminate(t)
       PROVE  StopToCome(o)' \/ o \in lost' \/ o \notin stopping' \cap Live'
    <2>1. UNCHANGED <<inFlight, reader, queue, firing>>
      BY <1>19 DEF Terminate, packetVars, eventVars
    <2>2. /\ Alone(t)
          /\ call[t].op = Stopping =>
               call'[t].op = Stopping /\ call'[t].asker = call[t].asker /\ call'[t].pc # "register"
      BY <1>19, Simple, CallsKnown, Matching2Assumption DEF Terminate, Stage, Free, Same, Keeps, Submits, Idle
    <2> QED BY <2>1, <2>2, CallingStays, OthersToCome DEF StopToCome
  <1>20. ASSUME NEW c \in Clients, DispatchRequestComplete(c)
       PROVE  StopToCome(o)' \/ o \in lost' \/ o \notin stopping' \cap Live'
    <2>1. UNCHANGED <<inFlight, call, firing>> /\ lost \subseteq lost'
      BY <1>20 DEF DispatchRequestComplete
    <2>2. PICK e : e = reader[c] /\ e # None
      BY <1>20 DEF DispatchRequestComplete
    <2>3. PICK q : q = slots[e.id]
      OBVIOUS
    <2>4. PICK f : f = Event(e, q)
      OBVIOUS
    <2>5. f.op = e.op /\ f.asker = e.asker
      BY <2>4 DEF Event
    <2>6. (queue' = queue /\ lost' = lost \cup Token(e.op, e.asker)) \/ queue' = Append(queue, f)
      BY <1>20, <2>2, <2>3, <2>4 DEF DispatchRequestComplete, Recipient
    <2>7. queue \in Seq(Events)
      BY DEF Typed, TypeOK
    <2>8. \A i \in 1 .. Len(queue) : i \in 1 .. Len(queue') /\ queue'[i] = queue[i]
      BY <2>6, <2>7
    <2>9. e.op = Stopping /\ e.asker = o => o \in lost' \/ Queued(o)'
      <3>1. CASE queue' = queue /\ lost' = lost \cup Token(e.op, e.asker)
        BY <3>1 DEF Token
      <3>2. CASE queue' = Append(queue, f)
        <4>1. Len(queue') \in 1 .. Len(queue') /\ queue'[Len(queue')] = f
          BY <2>7, <3>2
        <4> QED BY <2>5, <4>1 DEF Queued
      <3> QED BY <2>6, <3>1, <3>2
    <2>10. Queued(o) => Queued(o)'
      BY <2>8 DEF Queued
    <2>11. \A d \in Clients : d # c => reader'[d] = reader[d]
      BY <1>20 DEF DispatchRequestComplete, Typed, TypeOK
    <2>12. Reading(o) => Reading(o)' \/ o \in lost' \/ Queued(o)'
      BY <2>2, <2>9, <2>11 DEF Reading
    <2> QED BY <2>1, <2>10, <2>12 DEF StopToCome, Calling, Travelling, Firing
  <1>21. ASSUME NEW p \in inFlight, OnMatching2Reply(p)
       PROVE  StopToCome(o)' \/ o \in lost' \/ o \notin stopping' \cap Live'
    <2>0. p.client \in Clients /\ p.pkt \in 1 .. MaxPkt /\ reader[p.client] = None
      BY <1>21 DEF Typed, TypeOK, Packets, OnMatching2Reply
    <2>1. UNCHANGED <<queue, firing, call>> /\ lost \subseteq lost'
      BY <1>21 DEF OnMatching2Reply, eventVars
    <2>2. PICK e : e = pending[p.pkt]
      OBVIOUS
    <2>3. /\ \A d \in Clients : IF d = p.client THEN reader'[d] = e ELSE reader'[d] = reader[d]
          /\ inFlight' = inFlight \ {p}
      BY <1>21, <2>0, <2>2 DEF OnMatching2Reply, Typed, TypeOK
    <2>4. Reading(o) => Reading(o)'
      BY <2>0, <2>3 DEF Reading
    <2>5. e # None /\ e.op = Stopping /\ e.asker = o => Reading(o)'
      BY <2>0, <2>3 DEF Reading
    <2>6. p.op = Stopping /\ p.asker = o => o \in lost' \/ (e # None /\ e.op = Stopping /\ e.asker = o)
      <3>1. ASSUME p.op = Stopping, p.asker = o, ~(e # None /\ Token(e.op, e.asker) = Token(p.op, p.asker))
            PROVE  o \in lost'
        <4>1. o \in Token(p.op, p.asker)
          BY <3>1 DEF Token
        <4> QED BY <1>21, <2>2, <3>1, <4>1 DEF OnMatching2Reply
      <3>2. ASSUME p.op = Stopping, p.asker = o, Token(e.op, e.asker) = Token(p.op, p.asker)
            PROVE  e.op = Stopping /\ e.asker = o
        <4>1. Token(p.op, p.asker) = {o}
          BY <3>2 DEF Token
        <4>2. o \notin Requests
          BY Matching2Assumption
        <4> QED BY <3>2, <4>1, <4>2 DEF Token
      <3> QED BY <3>1, <3>2
    <2>7. Travelling(o) => Travelling(o)' \/ (p.op = Stopping /\ p.asker = o)
      BY <2>3 DEF Travelling
    <2> QED BY <2>1, <2>4, <2>5, <2>6, <2>7 DEF StopToCome, Calling, Queued, Firing
  <1>22. ASSUME NEW c \in Clients, LoseConnection(c)
       PROVE  StopToCome(o)' \/ o \in lost' \/ o \notin stopping' \cap Live'
    <2>1. UNCHANGED <<reader, queue, firing, call>> /\ lost \subseteq lost'
      BY <1>22 DEF LoseConnection, eventVars
    <2>2. Travelling(o) => Travelling(o)' \/ o \in lost'
      <3>1. ASSUME NEW p \in inFlight, p.op = Stopping, p.asker = o PROVE Travelling(o)' \/ o \in lost'
        <4>1. o \in Token(p.op, p.asker)
          BY <3>1 DEF Token
        <4>2. CASE p.client = c
          BY <1>22, <3>1, <4>1, <4>2 DEF LoseConnection
        <4>3. CASE p.client # c
          BY <1>22, <3>1, <4>3 DEF LoseConnection, Travelling
        <4> QED BY <4>2, <4>3
      <3> QED BY <3>1 DEF Travelling
    <2> QED BY <2>1, <2>2 DEF StopToCome, Calling, Reading, Queued, Firing
  <1>23. ASSUME SetMmShadNetClient
       PROVE  StopToCome(o)' \/ o \in lost' \/ o \notin stopping' \cap Live'
    BY <1>23 DEF SetMmShadNetClient, vars, packetVars, eventVars, StopToCome, Calling, Travelling, Reading, Queued, Firing
  <1>24. ASSUME FireEvent
       PROVE  StopToCome(o)' \/ o \in lost' \/ o \notin stopping' \cap Live'
    <2>1. UNCHANGED <<inFlight, reader, call>> /\ firing = None
      BY <1>24 DEF FireEvent, packetVars
    <2>2. /\ queue \in Seq(Events) /\ queue # <<>> /\ queue' = Tail(queue) /\ queue[1] \in Events
          /\ firing' = IF queue[1].op = Stopping THEN queue[1] ELSE None
      BY <1>24 DEF FireEvent, Typed, TypeOK
    <2>3. \A i \in 1 .. Len(queue) : i = 1 \/ (i - 1 \in 1 .. Len(queue') /\ queue'[i - 1] = queue[i])
      BY <2>2
    <2>4. queue[1].op = Stopping /\ queue[1].asker = o => Firing(o)'
      BY <2>2, NoneAssumption DEF Firing
    <2>5. Queued(o) => Queued(o)' \/ Firing(o)'
      BY <2>3, <2>4 DEF Queued
    <2> QED BY <2>1, <2>5 DEF StopToCome, Calling, Travelling, Reading, Firing
  <1>25. ASSUME CompleteStop
       PROVE  StopToCome(o)' \/ o \in lost' \/ o \notin stopping' \cap Live'
    <2>1. UNCHANGED <<inFlight, reader, queue, call>>
      BY <1>25 DEF CompleteStop, packetVars
    <2>2. /\ firing # None /\ firing.op = Stopping /\ firing.asker \in created /\ firing.id \in Ids
          /\ Complete(firing.id, firing.obj)
      BY <1>25 DEF CompleteStop, Typed, TypeOK, Known, AllPlaced, Placed, Events
    <2>3. firing.asker = o => o \notin stopping' \cap Live'
      <3>1. ASSUME firing.asker = o, o \in Live' PROVE o \notin stopping'
        <4>1. o \in Live
          BY <2>2, <3>1, OldLive
        <4>2. firing.obj = o /\ slots[firing.id] = o /\ o # None
          BY <2>2, <3>1, <4>1 DEF Stops, StopEvent, Aims, HasId, Live
        <4> QED BY <2>2, <4>2 DEF Complete
      <3> QED BY <3>1
    <2> QED BY <2>1, <2>3 DEF StopToCome, Calling, Travelling, Reading, Queued, Firing
  <1>26. ASSUME Initialize
       PROVE  StopToCome(o)' \/ o \in lost' \/ o \notin stopping' \cap Live'
    BY <1>26 DEF Initialize, vars, packetVars, eventVars, StopToCome, Calling, Travelling, Reading, Queued, Firing
  <1>27. CASE UNCHANGED vars
    BY <1>27 DEF vars, packetVars, eventVars, StopToCome, Calling, Travelling, Reading, Queued, Firing
  <1> QED
    BY <1>1, <1>2, <1>3, <1>4, <1>5, <1>6, <1>7, <1>8, <1>9, <1>10, <1>11, <1>12, <1>13, <1>14, <1>15, <1>16, <1>17, <1>18, <1>19, <1>20, <1>21, <1>22, <1>23, <1>24, <1>25, <1>26, <1>27 DEF Next, CallStep, ReaderStep, DispatcherStep

\* What is stopping was stopping, or is stopped with this step.
LEMMA StoppingBefore ==
    ASSUME Typed, [Next]_vars, NEW o \in stopping'
    PROVE  (\E v \in Threads, i \in Ids : ContextStop(v, i) /\ slots[i] = o) \/ o \in stopping
  <1>1. ASSUME NEW t \in Threads, NEW q \in Objects, CreateContext(t, q)
       PROVE  (\E v \in Threads, i \in Ids : ContextStop(v, i) /\ slots[i] = o) \/ o \in stopping
    BY <1>1 DEF CreateContext, vars, contextVars
  <1>2. ASSUME NEW t \in Threads, AddContextRef(t)
       PROVE  (\E v \in Threads, i \in Ids : ContextStop(v, i) /\ slots[i] = o) \/ o \in stopping
    BY <1>2 DEF AddContextRef, vars, contextVars
  <1>3. ASSUME NEW t \in Threads, ReleaseContextRef(t)
       PROVE  (\E v \in Threads, i \in Ids : ContextStop(v, i) /\ slots[i] = o) \/ o \in stopping
    BY <1>3 DEF ReleaseContextRef, vars, contextVars
  <1>4. ASSUME NEW t \in Threads, NEW id \in Ids, DestroyContext(t, id)
       PROVE  (\E v \in Threads, i \in Ids : ContextStop(v, i) /\ slots[i] = o) \/ o \in stopping
    BY <1>4 DEF DestroyContext, vars, contextVars
  <1>5. ASSUME NEW t \in Threads, NEW id \in Ids, ContextStart(t, id)
       PROVE  (\E v \in Threads, i \in Ids : ContextStop(v, i) /\ slots[i] = o) \/ o \in stopping
    BY <1>5 DEF ContextStart, vars, contextVars
  <1>6. ASSUME NEW t \in Threads, NEW id \in Ids, ContextStop(t, id)
       PROVE  (\E v \in Threads, i \in Ids : ContextStop(v, i) /\ slots[i] = o) \/ o \in stopping
    BY <1>6 DEF ContextStop, vars, contextVars
  <1>7. ASSUME NEW t \in Threads, FindStopping(t)
       PROVE  (\E v \in Threads, i \in Ids : ContextStop(v, i) /\ slots[i] = o) \/ o \in stopping
    BY <1>7 DEF FindStopping, vars, contextVars
  <1>8. ASSUME NEW t \in Threads, StopAtOnce(t)
       PROVE  (\E v \in Threads, i \in Ids : ContextStop(v, i) /\ slots[i] = o) \/ o \in stopping
    BY <1>8 DEF StopAtOnce, Complete
  <1>9. ASSUME NEW t \in Threads, NEW id \in Ids, NEW r \in Requests, Request(t, id, r)
       PROVE  (\E v \in Threads, i \in Ids : ContextStop(v, i) /\ slots[i] = o) \/ o \in stopping
    BY <1>9 DEF Request, vars, contextVars
  <1>10. ASSUME NEW t \in Threads, StoreArgument(t)
       PROVE  (\E v \in Threads, i \in Ids : ContextStop(v, i) /\ slots[i] = o) \/ o \in stopping
    BY <1>10 DEF StoreArgument, vars, contextVars
  <1>11. ASSUME NEW t \in Threads, CheckClient(t)
       PROVE  (\E v \in Threads, i \in Ids : ContextStop(v, i) /\ slots[i] = o) \/ o \in stopping
    BY <1>11 DEF CheckClient, vars, contextVars
  <1>12. ASSUME NEW t \in Threads, ConsumeCallback(t)
       PROVE  (\E v \in Threads, i \in Ids : ContextStop(v, i) /\ slots[i] = o) \/ o \in stopping
    BY <1>12 DEF ConsumeCallback, vars, contextVars
  <1>13. ASSUME NEW t \in Threads, ConsumeArgument(t)
       PROVE  (\E v \in Threads, i \in Ids : ContextStop(v, i) /\ slots[i] = o) \/ o \in stopping
    BY <1>13 DEF ConsumeArgument, vars, contextVars
  <1>14. ASSUME NEW t \in Threads, AnswerInCall(t)
       PROVE  (\E v \in Threads, i \in Ids : ContextStop(v, i) /\ slots[i] = o) \/ o \in stopping
    BY <1>14 DEF AnswerInCall, vars, contextVars
  <1>15. ASSUME NEW t \in Threads, SubmitRequest(t)
       PROVE  (\E v \in Threads, i \in Ids : ContextStop(v, i) /\ slots[i] = o) \/ o \in stopping
    BY <1>15 DEF SubmitRequest, vars, contextVars
  <1>16. ASSUME NEW t \in Threads, Register(t)
       PROVE  (\E v \in Threads, i \in Ids : ContextStop(v, i) /\ slots[i] = o) \/ o \in stopping
    BY <1>16 DEF Register, vars, contextVars
  <1>17. ASSUME NEW t \in Threads, TermEventDispatcher(t)
       PROVE  (\E v \in Threads, i \in Ids : ContextStop(v, i) /\ slots[i] = o) \/ o \in stopping
    BY <1>17 DEF TermEventDispatcher, vars, contextVars
  <1>18. ASSUME NEW t \in Threads, Reset(t)
       PROVE  (\E v \in Threads, i \in Ids : ContextStop(v, i) /\ slots[i] = o) \/ o \in stopping
    BY <1>18 DEF Reset, vars, contextVars
  <1>19. ASSUME NEW t \in Threads, Terminate(t)
       PROVE  (\E v \in Threads, i \in Ids : ContextStop(v, i) /\ slots[i] = o) \/ o \in stopping
    BY <1>19 DEF Terminate, vars, contextVars
  <1>20. ASSUME NEW c \in Clients, DispatchRequestComplete(c)
       PROVE  (\E v \in Threads, i \in Ids : ContextStop(v, i) /\ slots[i] = o) \/ o \in stopping
    BY <1>20 DEF DispatchRequestComplete, vars, contextVars
  <1>21. ASSUME NEW p \in inFlight, OnMatching2Reply(p)
       PROVE  (\E v \in Threads, i \in Ids : ContextStop(v, i) /\ slots[i] = o) \/ o \in stopping
    BY <1>21 DEF OnMatching2Reply, vars, contextVars
  <1>22. ASSUME NEW c \in Clients, LoseConnection(c)
       PROVE  (\E v \in Threads, i \in Ids : ContextStop(v, i) /\ slots[i] = o) \/ o \in stopping
    BY <1>22 DEF LoseConnection, vars, contextVars
  <1>23. ASSUME SetMmShadNetClient
       PROVE  (\E v \in Threads, i \in Ids : ContextStop(v, i) /\ slots[i] = o) \/ o \in stopping
    BY <1>23 DEF SetMmShadNetClient, vars, contextVars
  <1>24. ASSUME FireEvent
       PROVE  (\E v \in Threads, i \in Ids : ContextStop(v, i) /\ slots[i] = o) \/ o \in stopping
    BY <1>24 DEF FireEvent, vars, contextVars
  <1>25. ASSUME CompleteStop
       PROVE  (\E v \in Threads, i \in Ids : ContextStop(v, i) /\ slots[i] = o) \/ o \in stopping
    BY <1>25 DEF CompleteStop, Complete
  <1>26. ASSUME Initialize
       PROVE  (\E v \in Threads, i \in Ids : ContextStop(v, i) /\ slots[i] = o) \/ o \in stopping
    BY <1>26 DEF Initialize, vars, contextVars
  <1>27. CASE UNCHANGED vars
    BY <1>27 DEF vars, contextVars
  <1> QED
    BY <1>1, <1>2, <1>3, <1>4, <1>5, <1>6, <1>7, <1>8, <1>9, <1>10, <1>11, <1>12, <1>13, <1>14, <1>15, <1>16, <1>17, <1>18, <1>19, <1>20, <1>21, <1>22, <1>23, <1>24, <1>25, <1>26, <1>27 DEF Next, CallStep, ReaderStep, DispatcherStep

\* A context that is stopping is told so, or its stop was lost.
LEMMA StopsEndStep ==
    ASSUME Typed, Stops, StopsEnd, [Next]_vars
    PROVE  StopsEnd'
  <1>1. SUFFICES ASSUME NEW o \in stopping' \cap Live' PROVE o \in lost' \/ StopToCome(o)'
    BY DEF StopsEnd
  <1>2. ASSUME NEW t \in Threads, NEW id \in Ids, ContextStop(t, id), slots[id] = o
        PROVE  StopToCome(o)'
    BY <1>2, StopsCall DEF StopToCome, Calling
  <1>3. CASE o \in stopping
    <2>1. o \in created /\ o \in Objects
      BY <1>3 DEF Typed, TypeOK
    <2>2. o \in lost \/ StopToCome(o)
      BY <1>3, <2>1, OldLive DEF StopsEnd
    <2> QED BY <2>1, <2>2, OnlyMore, StopGoesOn
  <1> QED BY <1>2, <1>3, StoppingBefore

StopPlaces == \A o \in Objects : Plain(o) => OnePlace(o)
Contexts == Stops /\ StopsEnd /\ Numbered /\ StopPlaces /\ Meant

\* Every stop knows its context, and as long as nothing confuses it, is in one place.
LEMMA ContextsHold ==
    /\ Init => Contexts
    /\ Typed /\ Contexts /\ [Next]_vars => Contexts'
  <1>1. ASSUME Init PROVE Contexts
    <2>1. \A t \in Threads : call[t] = Idle
      BY <1>1 DEF Init
    <2>2. \A t \in Threads : call[t].op # Stopping /\ call[t].pc # "register"
      BY <2>1, Matching2Assumption DEF Idle
    <2>3. \A k \in Objects, t \in Threads : ~AtCall(t, k)
      BY <2>1, Matching2Assumption DEF AtCall, Tok, Idle
    <2>4. Stops /\ StopsEnd /\ Numbered
      BY <1>1, <2>2 DEF Init, Stops, StopCall, StopsEnd, Numbered, OneClient
    <2>5. StopPlaces
      BY <1>1, <2>3 DEF Init, StopPlaces, OnePlace, AtEntry, AtReader, AtQueue, Ended
    <2>6. Meant
      BY <1>1, <2>3 DEF Init, Meant, SomePlace, AtEntry, AtReader, AtQueue
    <2> QED BY <2>4, <2>5, <2>6 DEF Contexts
  <1>2. ASSUME Typed, Contexts, [Next]_vars PROVE Contexts'
    <2>h. Stops /\ StopsEnd /\ Numbered /\ StopPlaces /\ Meant
      BY <1>2 DEF Contexts
    <2>1. Stops'
      BY <1>2, <2>h, StopCallsStep, StopsAwayStep DEF Stops, StopsAway
    <2>2. StopsEnd' /\ Numbered'
      BY <1>2, <2>h, StopsEndStep, NumberedStep DEF Numbered
    <2>3. ASSUME NEW o \in Objects, Plain(o)' PROVE OnePlace(o)'
      <3>1. Plain(o)
        BY <1>2, <2>3, PlainBefore
      <3>2. OnePlace(o)
        BY <2>h, <3>1 DEF StopPlaces
      <3>3. o \in started => Unplaced(o)
        <4>1. o \notin answered
          BY <1>2, Matching2Assumption DEF Typed, TypeOK
        <4>2. o \in started => o \notin stopping
          BY <1>2 DEF Typed, Known, Slotted
        <4> QED BY <2>h, <3>1, <4>1, <4>2 DEF Meant, Unplaced
      <3> QED BY <1>2, <3>2, <3>3, OnePlaceStep
    <2>4. ASSUME NEW o \in Objects, Plain(o)', SomePlace(o)' PROVE o \in stopping' \cap Live'
      BY <1>2, <2>h, <2>4, MeantStep DEF StopPlaces, Meant
    <2> QED BY <2>1, <2>2, <2>3, <2>4 DEF Contexts, StopPlaces, Meant
  <1> QED BY <1>1, <1>2

\* A packet of a stop belongs to a call or an entry, as long as there is one client.
LEMMA StopHasPlace ==
    ASSUME Typed, Contexts, NEW o \in Objects, Plain(o), StopUnderWay(o)
    PROVE  SomePlace(o)
  <1>1. ASSUME NEW p \in inFlight, p.op = Stopping, p.asker = o PROVE SomePlace(o)
    <2>1. Tok(p) = o /\ p.pkt \in 1 .. MaxPkt
      BY <1>1 DEF Tok, Typed, TypeOK, Packets
    <2>2. OneClient
      BY DEF Contexts, Numbered, Plain
    <2>3. CASE \E t \in Threads : call[t].pc = "register" /\ call[t].pkt = p.pkt
      BY <2>1, <2>2, <2>3 DEF OneClient, SomePlace, AtCall
    <2>4. CASE pending[p.pkt] # None /\ Tok(pending[p.pkt]) = Tok(p)
      BY <2>1, <2>4 DEF SomePlace, AtEntry
    <2> QED BY <2>2, <2>3, <2>4 DEF OneClient
  <1>2. firing # None /\ firing.asker = o => SomePlace(o)
    BY DEF Typed, Known, AllPlaced, SomePlace, Tok
  <1> QED BY <1>1, <1>2 DEF StopUnderWay, SomePlace, AtCall, AtReader, AtQueue, Tok

\* A context that is destroyed while it is being stopped is removed by its STOPPED, neither
\* before it nor never, unless it was lost, or the ids were given out anew.
THEOREM GoesWithItsStopHolds == Spec => []GoesWithItsStop
  <1>1. Typed /\ Contexts => GoesWithItsStop
    <2>1. SUFFICES ASSUME Typed, Contexts PROVE GoesWithItsStop
      OBVIOUS
    <2>2. DoomedIsRemoved
      <3>1. ASSUME NEW o \in doomed, o \in Live PROVE StopUnderWay(o) \/ o \in lost
        <4>1. o \in lost \/ StopToCome(o)
          BY <2>1, <3>1 DEF Contexts, StopsEnd, Typed, TypeOK
        <4> QED BY <4>1 DEF StopToCome, Calling, Travelling, Reading, Queued, Firing, StopUnderWay
      <3> QED BY <3>1 DEF DoomedIsRemoved
    <2>3. StoppedBeforeRemoved
      <3>1. ASSUME NEW o \in created \ (Live \cup overtaken), StopUnderWay(o),
                   ~(o \in lost \/ life > 1 \/ mm > 1 \/ unpaired)
            PROVE  FALSE
        <4>1. o \in Objects /\ mm \in Nat \ {0} /\ life \in Nat \ {0}
          BY <2>1 DEF Typed, TypeOK, Clients
        <4>2. o \notin lost /\ ~(life > 1) /\ ~(mm > 1) /\ ~unpaired
          BY <3>1
        <4>3. mm = 1 /\ life = 1
          BY <4>1, <4>2
        <4>4. Plain(o)
          BY <3>1, <4>2, <4>3 DEF Plain
        <4>5. SomePlace(o)
          BY <2>1, <3>1, <4>1, <4>4, StopHasPlace
        <4> QED BY <2>1, <3>1, <4>1, <4>4, <4>5 DEF Contexts, Meant
      <3> QED BY <3>1 DEF StoppedBeforeRemoved
    <2> QED BY <2>2, <2>3 DEF GoesWithItsStop
  <1> QED BY <1>1, TypedHolds, ContextsHold, PTL DEF Spec
=============================================================================
