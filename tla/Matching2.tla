------------------------------ MODULE Matching2 ------------------------------
(***************************************************************************)
(* The contexts and requests of Matching2 (np_matching2.cpp, the           *)
(* ContextManager of np_matching2_internal.cpp, np_matching2_mm.cpp): what *)
(* the game's threads do in a call, what the clients' readers do with a    *)
(* reply, and what the event dispatcher does with a STOPPED.               *)
(*                                                                         *)
(* The dispatcher appears by what EventQueue promises: events are fired in *)
(* order, once.  Its holds are left out, since the reply to an open call   *)
(* finds no entry yet, and a call that answers itself does so at its end.  *)
(* Callback and argument of a request are parked in the context without a  *)
(* lock, so they are written and read one at a time.                       *)
(***************************************************************************)
EXTENDS Integers, FiniteSets, FiniteSetsExt, Sequences

CONSTANTS
    Threads,
    Requests,     \* requests, each made once
    Own,          \* those that bring a callback of their own
    Objects,      \* ContextObjects
    None,
    Starting, Stopping, \* what a context start and a context stop are waiting for
    kMaxContexts,
    MaxStarts,    \* bound: starts of contexts
    MaxClients,   \* bound: clients that are signed in
    MaxPkt,       \* bound: packets of one client
    MaxLives      \* bound: calls of sceNpMatching2Initialize

ASSUME Matching2Assumption ==
    /\ Own \subseteq Requests /\ IsFiniteSet(Threads)
    /\ Requests \cap Objects = {} /\ None \notin Requests \cup Objects
    /\ {Starting, Stopping} \cap (Requests \cup Objects \cup {None}) = {}
    /\ Starting # Stopping
    /\ kMaxContexts \in Nat \ {0} /\ MaxClients \in Nat \ {0}
    /\ MaxStarts \in Nat
    /\ MaxPkt \in Nat /\ MaxLives \in Nat \ {0}

Ids == 1 .. kMaxContexts
Clients == 1 .. MaxClients
Ops == Requests \cup {Starting, Stopping}

VARIABLES
    initialized,  \* state->initialized
    slots,        \* m_contexts
    nextId,       \* m_next_id
    starts,       \* history: the number of starts
    started,      \* contexts with started set,
    stopping,     \* with stop_pending,
    doomed,       \* and with destroy_pending
    parked,       \* per_request_callback and its argument, by the request they are of
    refs,         \* signaling's context_refs
    call,         \* where each thread is in a call, and what it took along
    mm,           \* g_mm.client, the newest
    enabled,      \* g_mm.matching2_enabled, whether the server knows rooms
    connected,    \* clients that are authenticated
    counter,      \* m_pkt_counter of each
    inFlight,     \* packets the server has not answered
    pending,      \* g_mm.pending
    reader,       \* the entry each client's reader is completing
    queue,        \* the events that wait for their callbacks
    firing,       \* the STOPPED whose callback has returned
    created,      \* history: contexts that have been created
    asked,        \* history: requests that have been made
    answered,     \* history: requests whose event was fired
    lost,         \* history: what gets no event, requests and contexts being stopped
    raced,        \* history: requests during whose call others used the context
    overtaken,    \* history: contexts started again while their stop was pending, or
                  \* that were given the stop of the context that had their id before
    unpaired,     \* history: a reference on signaling was released once too often
    life          \* history: the number of calls of Initialize

contextVars == <<slots, nextId, starts, started, stopping, doomed, created, overtaken>>
clientVars  == <<mm, enabled, connected, counter>>
packetVars  == <<inFlight, pending, reader>>
eventVars   == <<queue, firing, answered>>
stateVars   == <<initialized, life>>
refVars     == <<refs, unpaired>>
vars == <<contextVars, clientVars, packetVars, eventVars, stateVars, refVars, call,
          parked, asked, lost, raced>>

-----------------------------------------------------------------------------
Idle == [pc |-> "idle", id |-> 0, obj |-> None, asker |-> None, op |-> None, cb |-> None,
         arg |-> None, client |-> 0, pkt |-> 0]
Nothing == [cb |-> None, arg |-> None]

Live == {slots[id] : id \in Ids} \ {None}

\* What is lost with an operation: its request, or the context being stopped.
Token(op, o) == IF op = Stopping THEN {o} ELSE {op} \cap Requests

Becomes(t, x) == call' = [call EXCEPT ![t] = x]
Goto(t, pc) == Becomes(t, [call[t] EXCEPT !.pc = pc])
Return(t) == Becomes(t, Idle)

Init ==
    /\ initialized = TRUE /\ life = 1
    /\ slots = [id \in Ids |-> None] /\ nextId = 1
    /\ starts = 0 /\ started = {} /\ stopping = {} /\ doomed = {} /\ created = {} /\ overtaken = {}
    /\ parked = [o \in Objects |-> Nothing]
    /\ refs = 0 /\ unpaired = FALSE
    /\ call = [t \in Threads |-> Idle]
    /\ mm = 1 /\ enabled \in BOOLEAN
    /\ connected = {1} /\ counter = [c \in Clients |-> 0]
    /\ inFlight = {} /\ pending = [n \in 1 .. MaxPkt |-> None]
    /\ reader = [c \in Clients |-> None]
    /\ queue = <<>> /\ firing = None /\ answered = {}
    /\ asked = {} /\ lost = {} /\ raced = {}

\* The threads, other than t, that count on what is parked in o or are about to clear it
Parking == {"store_arg", "check", "consume", "read_arg"}
Others(t, o) == {u \in Threads \ {t} :
                    /\ call[u].obj = o /\ call[u].pc \in Parking
                    /\ call[u].op \in Requests \/ call[u].pc = "read_arg"}

\* A thread reads or writes what is parked in o: if others do, each may get the wrong one.
Races(t, op, o) ==
    raced' = IF Others(t, o) = {} THEN raced
             ELSE raced \cup (({op} \cup {call[u].op : u \in Others(t, o)}) \cap Requests)

-----------------------------------------------------------------------------
(* Contexts.                                                               *)

\* The free id that comes first, counting from m_next_id.
FirstFree ==
    LET free == {id \in Ids : slots[id] = None}
        later == {id \in free : id >= nextId}
    IN  Min(IF later # {} THEN later ELSE free)

CreateContext(t, o) ==
    /\ call[t] = Idle /\ initialized
    /\ o \notin created
    /\ \E id \in Ids : slots[id] = None
    /\ slots' = [slots EXCEPT ![FirstFree] = o]
    /\ nextId' = (FirstFree % kMaxContexts) + 1
    /\ created' = created \cup {o}
    /\ Goto(t, "add_ref")
    /\ UNCHANGED <<starts, started, stopping, doomed, overtaken, clientVars, packetVars, eventVars,
                   stateVars, refVars, parked, asked, lost, raced>>

AddContextRef(t) ==
    /\ call[t].pc = "add_ref"
    /\ refs' = refs + 1
    /\ Return(t)
    /\ UNCHANGED <<contextVars, clientVars, packetVars, eventVars, stateVars, unpaired,
                   parked, asked, lost, raced>>

\* ContextManager::Destroy: a context that is being stopped is removed later.
Remove(id) ==
    IF slots[id] \in stopping
    THEN doomed' = doomed \cup {slots[id]} /\ UNCHANGED slots
    ELSE slots' = [slots EXCEPT ![id] = None] /\ UNCHANGED doomed

DestroyContext(t, id) ==
    /\ call[t] = Idle /\ initialized
    /\ slots[id] # None
    /\ Remove(id)
    /\ unpaired' = (unpaired \/ slots[id] \in doomed)
    /\ Goto(t, "release_ref")
    /\ UNCHANGED <<nextId, starts, started, stopping, created, overtaken, clientVars, packetVars,
                   eventVars, stateVars, refs, parked, asked, lost, raced>>

\* Fault: the end of one context ends signaling.
LowerRefs_All == refs' = 0

LowerRefs == refs' = IF refs > 0 THEN refs - 1 ELSE 0

ReleaseContextRef(t) ==
    /\ call[t].pc = "release_ref"
    /\ LowerRefs
    /\ unpaired' = (unpaired \/ refs = 0)
    /\ Return(t)
    /\ UNCHANGED <<contextVars, clientVars, packetVars, eventVars, stateVars, parked, asked,
                   lost, raced>>

\* ContextManager::Start; a start forgets a pending stop and a pending destroy.
ContextStart(t, id) ==
    LET o == slots[id] IN
    /\ call[t] = Idle /\ initialized
    /\ o \notin started \cup {None} /\ starts < MaxStarts
    /\ starts' = starts + 1
    /\ started' = started \cup {o}
    /\ stopping' = stopping \ {o}
    /\ doomed' = doomed \ {o}
    /\ overtaken' = IF o \in stopping THEN overtaken \cup {o} ELSE overtaken
    /\ unpaired' = (unpaired \/ o \in doomed)
    /\ Becomes(t, [Idle EXCEPT !.pc = "check", !.id = id, !.obj = o, !.op = Starting])
    /\ UNCHANGED <<slots, nextId, created, clientVars, packetVars, eventVars, stateVars,
                   refs, parked, asked, lost, raced>>

\* ContextManager::Stop
ContextStop(t, id) ==
    LET o == slots[id] IN
    /\ call[t] = Idle /\ initialized
    /\ o \in started
    /\ started' = started \ {o}
    /\ stopping' = stopping \cup {o}
    /\ Becomes(t, [Idle EXCEPT !.pc = "find", !.id = id, !.asker = o, !.op = Stopping])
    /\ UNCHANGED <<slots, nextId, starts, doomed, created, overtaken, clientVars, packetVars,
                   eventVars, stateVars, refVars, parked, asked, lost, raced>>

\* The context is looked up once more, for a stop that cannot be sent.
FindStopping(t) ==
    /\ call[t].pc = "find"
    /\ Becomes(t, [call[t] EXCEPT !.pc = "check", !.obj = slots[call[t].id]])
    /\ overtaken' = IF slots[call[t].id] = call[t].asker THEN overtaken
                    ELSE overtaken \cup ({slots[call[t].id]} \ {None})
    /\ UNCHANGED <<slots, nextId, starts, started, stopping, doomed, created, clientVars, packetVars, eventVars, stateVars, refVars,
                   parked, asked, lost, raced>>

\* Fault: whichever context has the id now is completed.
Complete_ById(id, o) ==
    /\ o # None
    /\ stopping' = stopping \ {slots[id]} /\ doomed' = doomed \ {slots[id]}
    /\ slots' = IF slots[id] \in doomed THEN [slots EXCEPT ![id] = None] ELSE slots

\* Fault: the destroy that waited for the stop is forgotten.
Complete_Forgets(id, o) ==
    IF o \notin {None} /\ slots[id] = o
    THEN stopping' = stopping \ {o} /\ UNCHANGED <<slots, doomed>>
    ELSE UNCHANGED <<slots, stopping, doomed>>

\* ContextManager::CompleteStop
Complete(id, o) ==
    IF o # None /\ slots[id] = o
    THEN /\ stopping' = stopping \ {o}
         /\ doomed' = doomed \ {o}
         /\ slots' = IF o \in doomed THEN [slots EXCEPT ![id] = None] ELSE slots
    ELSE UNCHANGED <<slots, stopping, doomed>>

\* A stop that could not be sent
StopAtOnce(t) ==
    /\ call[t].pc = "complete_stop"
    /\ Complete(call[t].id, call[t].obj)
    /\ Return(t)
    /\ UNCHANGED <<nextId, starts, started, created, overtaken, clientVars, packetVars, eventVars,
                   stateVars, refVars, parked, asked, lost, raced>>

-----------------------------------------------------------------------------
(* Requests.                                                               *)

\* Fault: without a callback of its own a request leaves what is parked there.
Park_Keeps(o, r) ==
    parked' = IF r \in Own THEN [parked EXCEPT ![o] = [cb |-> r, arg |-> None]] ELSE parked

\* StoreRequestCallback up to the argument
Park(o, r) ==
    parked' = [parked EXCEPT ![o] = [Nothing EXCEPT !.cb = IF r \in Own THEN r ELSE None]]

\* A request looks its context up and parks its callback there, if it has one.
Request(t, id, r) ==
    LET o == slots[id] IN
    /\ call[t] = Idle /\ initialized
    /\ o # None /\ r \notin asked
    /\ asked' = asked \cup {r}
    /\ Park(o, r)
    /\ Becomes(t, [Idle EXCEPT !.pc = IF r \in Own THEN "store_arg" ELSE "check",
                               !.id = id, !.obj = o, !.op = r])
    /\ Races(t, r, o)
    /\ UNCHANGED <<contextVars, clientVars, packetVars, eventVars, stateVars, refVars, lost>>

StoreArgument(t) ==
    /\ call[t].pc = "store_arg"
    /\ parked' = [parked EXCEPT ![call[t].obj].arg = call[t].op]
    /\ Goto(t, "check")
    /\ Races(t, call[t].op, call[t].obj)
    /\ UNCHANGED <<contextVars, clientVars, packetVars, eventVars, stateVars, refVars,
                   asked, lost>>

\* MmSubmitRequest fails: a request returns ORBIS_OK all the same, a stop is completed.
Fails(t) ==
    /\ IF call[t].op = Stopping THEN Goto(t, "complete_stop") ELSE Return(t)
    /\ lost' = lost \cup ({call[t].op} \cap Requests)

CheckClient(t) ==
    /\ call[t].pc = "check"
    /\ IF mm \in connected
       THEN /\ Becomes(t, [call[t] EXCEPT !.pc = "consume", !.client = mm])
            /\ UNCHANGED lost
       ELSE Fails(t)
    /\ UNCHANGED <<contextVars, clientVars, packetVars, eventVars, stateVars, refVars,
                   parked, asked, raced>>

\* A request of which the server knows nothing is answered in the call.
Submits(op) == IF enabled \/ op \notin Requests THEN "submit" ELSE "answer"

\* The context is looked up again; what is parked in it now is taken.
ConsumeCallback(t) ==
    LET o == slots[call[t].id]  op == call[t].op IN
    /\ call[t].pc = "consume"
    /\ IF o = None THEN Fails(t) /\ UNCHANGED raced
       ELSE /\ Becomes(t, [call[t] EXCEPT
                            !.obj = o, !.cb = parked[o].cb,
                            !.asker = IF op = Stopping THEN @ ELSE o,
                            !.pc = IF parked[o].cb # None THEN "read_arg" ELSE Submits(op)])
            /\ IF o = call[t].obj THEN Races(t, op, o)
               ELSE raced' = raced \cup (({op} \cup {call[u].op : u \in Others(t, o)}) \cap Requests)
            /\ UNCHANGED lost
    /\ UNCHANGED <<contextVars, clientVars, packetVars, eventVars, stateVars, refVars,
                   parked, asked>>

Unpark(o) == parked' = [parked EXCEPT ![o] = Nothing]

ConsumeArgument(t) ==
    LET o == call[t].obj IN
    /\ call[t].pc = "read_arg"
    /\ Becomes(t, [call[t] EXCEPT !.arg = parked[o].arg, !.pc = Submits(call[t].op)])
    /\ Unpark(o)
    /\ Races(t, call[t].op, o)
    /\ UNCHANGED <<contextVars, clientVars, packetVars, eventVars, stateVars, refVars,
                   asked, lost>>

\* The entry a call registers; the object and the client are history.
Entry(t) == [id |-> call[t].id, op |-> call[t].op, cb |-> call[t].cb, arg |-> call[t].arg,
             asker |-> call[t].asker, client |-> call[t].client]

\* The event that tells the game the end of an operation of entry e, of context o
Event(e, o) == [id |-> e.id, op |-> e.op, cb |-> e.cb, arg |-> e.arg, asker |-> e.asker,
                obj |-> o]

AnswerInCall(t) ==
    /\ call[t].pc = "answer"
    /\ queue' = Append(queue, Event(Entry(t), call[t].obj))
    /\ Return(t)
    /\ UNCHANGED <<contextVars, clientVars, packetVars, firing, answered, stateVars, refVars,
                   parked, asked, lost, raced>>

\* ShadNetClient::SubmitRequest; a client that was lost meanwhile sends nothing.
SubmitRequest(t) ==
    LET c == call[t].client  n == counter[c] + 1 IN
    /\ call[t].pc = "submit" /\ counter[c] < MaxPkt
    /\ counter' = [counter EXCEPT ![c] = n]
    /\ Becomes(t, [call[t] EXCEPT !.pc = "register", !.pkt = n])
    /\ IF c \in connected
       THEN /\ inFlight' = inFlight \cup {[client |-> c, pkt |-> n, op |-> call[t].op,
                                           asker |-> call[t].asker]}
            /\ UNCHANGED lost
       ELSE lost' = lost \cup Token(call[t].op, call[t].asker) /\ UNCHANGED inFlight
    /\ UNCHANGED <<contextVars, mm, enabled, connected, pending, reader, eventVars,
                   stateVars, refVars, parked, asked, raced>>

\* g_mm.pending[pkt_id] = ...: an entry of another client with this number is replaced.
Register(t) ==
    LET n == call[t].pkt IN
    /\ call[t].pc = "register"
    /\ pending' = [pending EXCEPT ![n] = Entry(t)]
    /\ lost' = IF pending[n] = None THEN lost
               ELSE lost \cup Token(pending[n].op, pending[n].asker)
    /\ Return(t)
    /\ UNCHANGED <<contextVars, clientVars, inFlight, reader, eventVars, stateVars, refVars,
                   parked, asked, raced>>

-----------------------------------------------------------------------------
(* Replies, by the reader of each client.                                  *)

\* Fault: all entries are erased.
TakeEntry_All(n) == pending' = [k \in 1 .. MaxPkt |-> None]

\* Fault: the entry is not erased.
TakeEntry_Keeps(n) == UNCHANGED pending

TakeEntry(n) == pending' = [pending EXCEPT ![n] = None]

\* OnMatching2Reply: a reply without an entry is dropped.
OnMatching2Reply(p) ==
    LET e == pending[p.pkt] IN
    /\ p \in inFlight /\ reader[p.client] = None
    /\ inFlight' = inFlight \ {p}
    /\ IF e = None
       THEN UNCHANGED <<pending, reader>>
       ELSE TakeEntry(p.pkt) /\ reader' = [reader EXCEPT ![p.client] = e]
    /\ lost' = IF e # None /\ Token(e.op, e.asker) = Token(p.op, p.asker) THEN lost
               ELSE lost \cup Token(p.op, p.asker)
    /\ UNCHANGED <<contextVars, clientVars, eventVars, stateVars, refVars, call, parked,
                   asked, raced>>

\* The context that has the id now
Recipient(e) == slots[e.id]

DispatchRequestComplete(c) ==
    LET e == reader[c]  o == Recipient(e) IN
    /\ e # None
    /\ reader' = [reader EXCEPT ![c] = None]
    /\ IF o = None
       THEN lost' = lost \cup Token(e.op, e.asker) /\ UNCHANGED queue
       ELSE queue' = Append(queue, Event(e, o)) /\ UNCHANGED lost
    /\ overtaken' = IF e.op = Stopping THEN overtaken \cup ({o} \ {None, e.asker})
                    ELSE overtaken
    /\ UNCHANGED <<slots, nextId, starts, started, stopping, doomed, created, clientVars, inFlight,
                   pending, firing, answered, stateVars, refVars, call, parked, asked, raced>>

\* The connection of a client is lost, or its user signs out.
LoseConnection(c) ==
    LET gone == {p \in inFlight : p.client = c} IN
    /\ c \in connected
    /\ connected' = connected \ {c}
    /\ inFlight' = inFlight \ gone
    /\ lost' = lost \cup UNION {Token(p.op, p.asker) : p \in gone}
    /\ UNCHANGED <<contextVars, mm, enabled, counter, pending, reader, eventVars, stateVars,
                   refVars, call, parked, asked, raced>>

\* SetMmShadNetClient: a user signs in; nobody clears g_mm.pending.
SetMmShadNetClient ==
    /\ mm < MaxClients
    /\ mm' = mm + 1 /\ enabled' \in BOOLEAN
    /\ connected' = connected \cup {mm + 1}
    /\ UNCHANGED <<contextVars, counter, packetVars, eventVars, stateVars, refVars,
                   call, parked, asked, lost, raced>>

-----------------------------------------------------------------------------
(* The event dispatcher, and the end of the library.                       *)

\* The dispatcher's thread runs until it is joined.
Dispatching == initialized \/ \E t \in Threads : call[t].pc = "terminate"

\* FireEvent up to the return of the callback
FireEvent ==
    LET ev == Head(queue) IN
    /\ Dispatching /\ queue # <<>> /\ firing = None
    /\ queue' = Tail(queue)
    /\ firing' = IF ev.op = Stopping THEN ev ELSE None
    /\ answered' = answered \cup ({ev.op} \cap Requests)
    /\ UNCHANGED <<contextVars, clientVars, packetVars, stateVars, refVars, call, parked,
                   asked, lost, raced>>

CompleteStop ==
    /\ firing # None
    /\ Complete(firing.id, firing.obj)
    /\ firing' = None
    /\ UNCHANGED <<nextId, starts, started, created, overtaken, clientVars, packetVars, queue,
                   answered, stateVars, refVars, call, parked, asked, lost, raced>>

Terminate(t) ==
    /\ call[t] = Idle /\ initialized
    /\ initialized' = FALSE
    /\ Goto(t, "terminate")
    /\ UNCHANGED <<contextVars, clientVars, packetVars, eventVars, life, refVars, parked,
                   asked, lost, raced>>

\* TermEventDispatcher: what has not been fired is dropped.
TermEventDispatcher(t) ==
    /\ call[t].pc = "terminate" /\ firing = None
    /\ queue' = <<>>
    /\ lost' = lost \cup UNION {Token(queue[i].op, queue[i].asker) : i \in 1 .. Len(queue)}
    /\ Goto(t, "reset")
    /\ UNCHANGED <<contextVars, clientVars, packetVars, firing, answered, stateVars, refVars,
                   parked, asked, raced>>

\* ContextManager::Reset; one reference on signaling is released, whatever there was.
Reset(t) ==
    /\ call[t].pc = "reset"
    /\ slots' = [id \in Ids |-> None] /\ nextId' = 1
    /\ unpaired' = TRUE
    /\ Goto(t, "release_ref")
    /\ UNCHANGED <<starts, started, stopping, doomed, created, overtaken, clientVars, packetVars,
                   eventVars, stateVars, refs, parked, asked, lost, raced>>

Initialize ==
    /\ ~initialized /\ life < MaxLives
    /\ \A t \in Threads : call[t].pc \notin {"terminate", "reset"}
    /\ initialized' = TRUE /\ life' = life + 1
    /\ UNCHANGED <<contextVars, clientVars, packetVars, eventVars, refVars, call, parked,
                   asked, lost, raced>>

-----------------------------------------------------------------------------
\* What a thread does once it is inside the library
CallStep(t) ==
    \/ AddContextRef(t) \/ ReleaseContextRef(t)
    \/ FindStopping(t) \/ StopAtOnce(t)
    \/ StoreArgument(t) \/ CheckClient(t) \/ ConsumeCallback(t) \/ ConsumeArgument(t)
    \/ AnswerInCall(t) \/ SubmitRequest(t) \/ Register(t)
    \/ TermEventDispatcher(t) \/ Reset(t)

ReaderStep(c) ==
    \/ DispatchRequestComplete(c)
    \/ \E p \in inFlight : p.client = c /\ OnMatching2Reply(p)

DispatcherStep == FireEvent \/ CompleteStop

Next ==
    \/ \E t \in Threads :
         \/ CallStep(t)
         \/ Terminate(t)
         \/ \E o \in Objects : CreateContext(t, o)
         \/ \E id \in Ids :
              \/ DestroyContext(t, id) \/ ContextStart(t, id) \/ ContextStop(t, id)
              \/ \E r \in Requests : Request(t, id, r)
    \/ \E c \in Clients : ReaderStep(c) \/ LoseConnection(c)
    \/ SetMmShadNetClient
    \/ DispatcherStep
    \/ Initialize

Spec == Init /\ [][Next]_vars

-----------------------------------------------------------------------------
Packets == [client : Clients, pkt : 1 .. MaxPkt, op : Ops, asker : Objects]
Entries == [id : Ids, op : Ops, cb : Own \cup {None}, arg : Own \cup {None},
            asker : Objects, client : Clients]
Events  == [id : Ids, op : Ops, cb : Own \cup {None}, arg : Own \cup {None},
            asker : Objects, obj : Objects]
\* None stands for the absence of an entry or an event.
ASSUME NoneAssumption == None \notin Entries \cup Events

Pcs == {"idle", "add_ref", "release_ref", "find", "check", "complete_stop", "store_arg",
        "consume", "read_arg", "answer", "submit", "register", "terminate", "reset"}
Calls == [pc : Pcs, id : Ids \cup {0}, obj : Objects \cup {None},
          asker : Objects \cup {None}, op : Ops \cup {None}, cb : Own \cup {None},
          arg : Own \cup {None}, client : Clients \cup {0}, pkt : 0 .. MaxPkt]

\* Every variable has its type; references on signaling are not counted below zero.
TypeOK ==
    /\ initialized \in BOOLEAN /\ enabled \in BOOLEAN /\ unpaired \in BOOLEAN
    /\ slots \in [Ids -> Objects \cup {None}] /\ nextId \in Ids
    /\ starts \in 0 .. MaxStarts
    /\ started \subseteq created /\ stopping \subseteq created /\ doomed \subseteq stopping
    /\ created \subseteq Objects /\ overtaken \subseteq created
    /\ parked \in [Objects -> [cb : Own \cup {None}, arg : Own \cup {None}]]
    /\ refs \in Nat
    /\ call \in [Threads -> Calls]
    /\ mm \in Clients /\ connected \subseteq 1 .. mm /\ counter \in [Clients -> 0 .. MaxPkt]
    /\ inFlight \subseteq Packets
    /\ pending \in [1 .. MaxPkt -> Entries \cup {None}]
    /\ reader \in [Clients -> Entries \cup {None}]
    /\ queue \in Seq(Events) /\ firing \in Events \cup {None}
    /\ asked \subseteq Requests /\ answered \subseteq asked /\ raced \subseteq asked
    /\ lost \subseteq asked \cup created
    /\ life \in 1 .. MaxLives

\* The reply to a request goes to the callback the call brought, with its argument, or
\* to the default callback if it brought none, unless another call of the same context
\* wrote or took what is parked there at the same time.
OwnCallback ==
    \A i \in 1 .. Len(queue) :
        LET ev == queue[i]
            own == IF ev.op \in Own THEN ev.op ELSE None
        IN  ev.op \in Requests \ raced => ev.cb = own /\ ev.arg = own

\* A request gets one event, whatever packet ids are used twice.
Answers(r) == {i \in 1 .. Len(queue) : queue[i].op = r}
AnsweredOnce ==
    \A r \in Requests : /\ Cardinality(Answers(r)) <= 1
                         /\ r \in answered => Answers(r) = {}

\* The steps of one operation: in a call, on the network, registered, answered
InCall(r)  == \E t \in Threads : call[t].op = r
Sent(r)    == \E p \in inFlight : p.op = r
Listed(r)  == \E n \in 1 .. MaxPkt : pending[n] # None /\ pending[n].op = r
BeingRead(r) == \E c \in Clients : reader[c] # None /\ reader[c].op = r

\* A request whose call has returned has its packet on the way and its entry in
\* g_mm.pending, or is being answered, or has been, or is known to be lost: not
\* connected, answered before it was registered, replaced by an entry of another
\* client's packet, its context or its connection gone, or the library terminated.
RequestsWait ==
    \A r \in asked :
        \/ InCall(r) \/ BeingRead(r) \/ Answers(r) # {} \/ r \in answered \cup lost
        \/ Sent(r) /\ Listed(r)

\* A request gets its event once, or waits for it, or was lost in a way the code shows.
OneAnswerOrLost == TypeOK /\ AnsweredOnce /\ RequestsWait

\* The stop of a context is under way: the game will be told, and CompleteStop called.
StopUnderWay(o) ==
    \/ \E t \in Threads : call[t].op = Stopping /\ call[t].asker = o
    \/ \E p \in inFlight : p.op = Stopping /\ p.asker = o
    \/ \E c \in Clients : reader[c] # None /\ reader[c].op = Stopping /\ reader[c].asker = o
    \/ \E i \in 1 .. Len(queue) : queue[i].op = Stopping /\ queue[i].asker = o
    \/ firing # None /\ firing.asker = o

\* A context that was destroyed while it was being stopped is removed by its STOPPED,
\* which is still to come, or was lost.
DoomedIsRemoved ==
    \A o \in doomed : o \in Live /\ ~unpaired => StopUnderWay(o) \/ o \in lost

\* It is not removed before, unless it was started again in between.
StoppedBeforeRemoved ==
    \A o \in created \ (Live \cup overtaken) :
        StopUnderWay(o) => o \in lost \/ life > 1 \/ mm > 1 \/ unpaired

\* A context destroyed while it is being stopped goes with its own STOPPED, neither
\* before it nor never.
GoesWithItsStop == DoomedIsRemoved /\ StoppedBeforeRemoved

\* Each context holds one reference on signaling until it is destroyed, the calls
\* about to take or release one taken into account.
RefsCover ==
    ~unpaired =>
        refs + Cardinality({t \in Threads : call[t].pc = "add_ref"}) =
            Cardinality(Live \ doomed) + Cardinality({t \in Threads : call[t].pc = "release_ref"})
=============================================================================
