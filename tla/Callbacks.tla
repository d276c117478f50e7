------------------------------ MODULE Callbacks ------------------------------
(***************************************************************************)
(* What sceNpCheckCallback delivers: the sign-in states queued by NpHandler *)
(* (np_manager_callbacks.cpp) and the push events of the web API            *)
(* (np_web_api_internal.cpp).                                               *)
(*                                                                          *)
(* A check copies the state callbacks and takes the queued states under two *)
(* mutexes and calls back with neither.  Then it holds                      *)
(* g_np_callbacks_mutex, which is not recursive, while it takes the queued  *)
(* push events; while it delivers one of them it holds g_global_mutex and   *)
(* the lock of the library context too, which are recursive, and walks the  *)
(* live tables of callbacks and filters.                                    *)
(*                                                                          *)
(* A callback may call the library again, so that a thread has a stack of   *)
(* checks.  One library context with one user context for each user stands  *)
(* for all of them: WebApi makes and deletes them.  A registration that is  *)
(* turned down changes nothing and has no action.                           *)
(***************************************************************************)
EXTENDS Integers, Sequences, FiniteSets, SequencesExt

CONSTANTS
    Threads,   \* game threads
    None,      \* no thread, no service
    Users,     \* users on the console
    Sdks,      \* firmware generations a game may be built for: 250 is 2.50
    Slots,     \* 8: slots of g_np_state_a_cbs
    Services,  \* the services that push
    Types,     \* the data types of push events
    Places,    \* where the game registers state callbacks
    Kinds,     \* the kinds of push callbacks it registers
    MaxMade,   \* bound: all of the next five together
    MaxStates, \* bound: states queued in one behaviour
    MaxPushes, \* bound: push events in one behaviour
    MaxRegs,   \* bound: state callbacks registered in one behaviour
    MaxFilters, \* bound: filters of each kind made in one behaviour
    MaxPushCbs, \* bound: push callbacks registered in one behaviour
    MaxChecks, \* bound: checks in one behaviour
    MaxDepth   \* bound: checks inside one another

\* In DrainPushEvents' order.
Phases == <<"extended", "service", "basic">>

\* Places in the order in which a state is told: the legacy callback, the slots, the
\* toolkit's; and the reachability callback.
Legacy == 0
Toolkit == Slots + 1
Reachability == Slots + 2
AllPlaces == 0 .. Slots + 2

ASSUME CallbacksAssumption ==
    /\ None \notin Threads \cup Services
    /\ Slots \in Nat
    /\ Kinds \subseteq Range(Phases)
    /\ Places \subseteq AllPlaces

VARIABLES
    sdk,      \* g_sdk_ver
    states,   \* the states queued so far; the first taken of them are not queued any more
    taken,
    regs,     \* the state callbacks ever registered: since how many states, and what they heard
    place,    \* which of them each place holds, 0 for none
    last,     \* g_np_reachability_state_last
    pushes,   \* the push events so far; the first drained of them are not queued any more
    drained,
    filters,  \* the filters of each kind, in the order of their ids
    cbs,      \* the push callbacks, in the order of their ids
    mutex,    \* who holds g_np_callbacks_mutex across steps
    glock,    \* who holds g_global_mutex and the context's lock across steps
    stack,    \* the checks each thread is inside of, the innermost first
    checks,   \* checks made so far
    overlapped \* history: a check took states while another had states to deliver

stateVars == <<states, taken, regs, place, last, overlapped>>
pushVars == <<pushes, drained, filters, cbs>>
vars == <<sdk, stateVars, pushVars, mutex, glock, stack, checks>>

-----------------------------------------------------------------------------
Init ==
    /\ sdk \in Sdks
    /\ states = <<>> /\ taken = 0 /\ regs = <<>>
    /\ place = [p \in AllPlaces |-> 0] /\ last = [u \in Users |-> "unknown"]
    /\ pushes = <<>> /\ drained = 0
    /\ filters = [k \in Range(Phases) |-> <<>>] /\ cbs = <<>>
    /\ mutex = None /\ glock = None
    /\ stack = [t \in Threads |-> <<>>] /\ checks = 0
    /\ overlapped = FALSE

Made ==
    Len(states) + Len(regs) + Len(pushes) + Len(cbs)
      + FoldSet(LAMBDA k, n : n + Len(filters[k]), 0, Range(Phases))

-----------------------------------------------------------------------------
(* What NpHandler's threads queue.                                         *)

QueueNpStateEvent(u, s) ==
    /\ Len(states) < MaxStates /\ Made < MaxMade
    /\ states' = Append(states, [user |-> u, state |-> s])
    /\ UNCHANGED <<sdk, taken, regs, place, last, overlapped, pushVars, mutex, glock, stack, checks>>

\* OnWebApiPushEvent: service is None when the event names none.
EnqueuePushEvent(u, service, type) ==
    /\ Len(pushes) < MaxPushes /\ Made < MaxMade
    /\ pushes' = Append(pushes, [user |-> u, service |-> service, type |-> type])
    /\ UNCHANGED <<sdk, stateVars, drained, filters, cbs, mutex, glock, stack, checks>>

-----------------------------------------------------------------------------
(* A thread of the game, in a callback or not.                             *)

Inside(t) == stack[t] # <<>>
Top(t) == Head(stack[t])
At(t, pc) == Inside(t) /\ Top(t).pc = pc
Become(t, frame) == stack' = [stack EXCEPT ![t] = <<frame>> \o Tail(@)]
Return(t) == stack' = [stack EXCEPT ![t] = Tail(@)]

\* The game's own code runs in t: outside every check, or in a callback.
MayCall(t) == Inside(t) => Top(t).callee # 0

-----------------------------------------------------------------------------
(* State callbacks.                                                        *)

\* A function takes a slot only once, so that a registration stands for it.
RegisterState(t, p) ==
    /\ MayCall(t) /\ Len(regs) < MaxRegs /\ Made < MaxMade
    /\ place[p] = 0 /\ (p \in 1 .. Slots => \A q \in 1 .. p - 1 : place[q] # 0)
    /\ regs' = Append(regs, [at |-> p, since |-> Len(states), heard |-> <<>>])
    /\ place' = [place EXCEPT ![p] = Len(regs) + 1]
    /\ last' = IF p = Reachability THEN [u \in Users |-> "unknown"] ELSE last
    /\ UNCHANGED <<sdk, states, taken, overlapped, pushVars, mutex, glock, stack, checks>>

UnregisterState(t, p) ==
    /\ MayCall(t) /\ place[p] # 0
    /\ place' = [place EXCEPT ![p] = 0]
    /\ last' = IF p = Reachability THEN [u \in Users |-> "unknown"] ELSE last
    /\ UNCHANGED <<sdk, states, taken, regs, overlapped, pushVars, mutex, glock, stack, checks>>

\* Who hears a state, in order.
Hearers == SelectSeq([i \in 1 .. Slots + 2 |-> place[i - 1]], LAMBDA r : r # 0)

Reach(s) == IF s = "SignedIn" THEN "Reachable" ELSE "Unavailable"

\* The last state before the n-th, of those taken together from the first on, or
\* what the map holds.
Before(first, n, u) ==
    LET mine == {i \in first .. n - 1 : states[i].user = u} IN
    IF mine = {} THEN last[u]
    ELSE Reach(states[CHOOSE i \in mine : \A j \in mine : j <= i].state)

\* Fault: compared with the map alone.
Changed_FromMap(first, n) == last[states[n].user] # Reach(states[n].state)

Changed(first, n) == Before(first, n, states[n].user) # Reach(states[n].state)

\* Fault: the newest state comes first.
Batch_NewestFirst(first, n) == [i \in 1 .. n - first + 1 |-> n - i + 1]

\* The states that are taken together, in the order of the queue.
Batch(first, n) == [i \in 1 .. n - first + 1 |-> first + i - 1]

\* The calls a check makes for the states it takes: each is a callback and the
\* number of the state; changes of reachability come last.
Calls(first, n) ==
    LET batch == Batch(first, n)
        heard == [i \in DOMAIN batch |-> [j \in DOMAIN Hearers |-> <<Hearers[j], batch[i]>>]]
        changes == SelectSeq(batch, LAMBDA m : Changed(first, m))
    IN  FlattenSeq(heard) \o
        IF place[Reachability] = 0 THEN <<>>
        ELSE [i \in DOMAIN changes |-> <<place[Reachability], changes[i]>>]

Delivering == \E t \in Threads : \E i \in DOMAIN stack[t] : stack[t][i].todo # <<>>

\* A check: todo are the calls it has still to make for states, callee is the
\* callback that runs; of the push events up to upto it has delivered those up to
\* event, and of the next one those up to the position at.
Frame(lib, todo) ==
    [pc |-> "states", lib |-> lib, todo |-> todo, callee |-> 0, event |-> 0, upto |-> 0,
     at |-> <<0, 0>>]

\* sceNpCheckCallback, or ForLib; the first half of DispatchPendingNpStateCallbacks
Check(t, lib) ==
    LET first == taken + 1 n == Len(states) IN
    /\ MayCall(t) /\ Len(stack[t]) < MaxDepth /\ checks < MaxChecks
    /\ checks' = checks + 1
    /\ stack' = [stack EXCEPT ![t] = <<Frame(lib, Calls(first, n))>> \o @]
    /\ taken' = n
    /\ last' = IF place[Reachability] = 0 THEN last
               ELSE [u \in Users |-> Before(first, n + 1, u)]
    /\ overlapped' = (overlapped \/ (first <= n /\ Delivering))
    /\ UNCHANGED <<sdk, states, regs, place, pushVars, mutex, glock>>

CallState(t) ==
    /\ At(t, "states") /\ Top(t).callee = 0 /\ Top(t).todo # <<>>
    /\ LET next == Head(Top(t).todo) IN
       /\ Become(t, [Top(t) EXCEPT !.todo = Tail(@), !.callee = next[1]])
       /\ regs' = [regs EXCEPT ![next[1]].heard = Append(@, next[2])]
    /\ UNCHANGED <<sdk, states, taken, place, last, overlapped, pushVars, mutex, glock, checks>>

CallbackReturns(t) ==
    /\ Inside(t) /\ Top(t).callee # 0
    /\ Become(t, [Top(t) EXCEPT !.callee = 0])
    /\ UNCHANGED <<sdk, stateVars, pushVars, mutex, glock, checks>>

StatesDone(t) == At(t, "states") /\ Top(t).callee = 0 /\ Top(t).todo = <<>>

\* sceNpCheckCallbackForLib ends here.
EndStates(t) ==
    /\ StatesDone(t) /\ Top(t).lib
    /\ Return(t)
    /\ UNCHANGED <<sdk, stateVars, pushVars, mutex, glock, checks>>

-----------------------------------------------------------------------------
(* g_np_callbacks_mutex.                                                   *)

\* A game presence or PlayStation Plus callback is registered or unregistered:
\* nothing calls those, but the mutex is the same.
UseMutex(t) ==
    /\ MayCall(t) /\ Len(stack[t]) < MaxDepth /\ checks < MaxChecks
    /\ checks' = checks + 1
    /\ stack' = [stack EXCEPT ![t] = <<[Frame(TRUE, <<>>) EXCEPT !.pc = "mutex"]>> \o @]
    /\ UNCHANGED <<sdk, stateVars, pushVars, mutex, glock>>

UsedMutex(t) ==
    /\ At(t, "mutex") /\ mutex = None
    /\ Return(t)
    /\ UNCHANGED <<sdk, stateVars, pushVars, mutex, glock, checks>>

MayDrain == mutex = None

\* sceNpCheckCallback goes on; DrainPushEvents takes what is queued.
LockCallbacks(t) ==
    /\ StatesDone(t) /\ ~Top(t).lib /\ MayDrain
    /\ mutex' = t /\ drained' = Len(pushes)
    /\ Become(t, [Top(t) EXCEPT !.pc = "pushes", !.event = drained, !.upto = Len(pushes)])
    /\ UNCHANGED <<sdk, stateVars, pushes, filters, cbs, glock, checks>>

EndPushes(t) ==
    /\ At(t, "pushes") /\ Top(t).event = Top(t).upto
    /\ mutex' = None /\ Return(t)
    /\ UNCHANGED <<sdk, stateVars, pushVars, glock, checks>>


-----------------------------------------------------------------------------
(* Push events: filters and callbacks.  Every one of these calls takes      *)
(* g_global_mutex and the context's lock on its way.                        *)

\* Fault: the locks are not taken.
MayEnter_Anyone(t) == TRUE

MayEnter(t) == glock \in {None, t}

TypeLists == (SUBSET Types) \ {{}}

Filter(service, types, catchAll) ==
    [there |-> TRUE, service |-> service, types |-> types, since |-> Len(pushes),
     catchAll |-> catchAll]

BasicFilters == {Filter(None, types, TRUE) : types \in TypeLists}

\* One without a service takes the events without one, unless it has a label: such a
\* filter, which only the internal function makes, takes none.
ServiceFilters ==
    {Filter(service, types, FALSE) : service \in Services \cup {None}, types \in TypeLists} \cup
    {Filter(None, types, TRUE) : types \in TypeLists}

\* Here the label is dropped.
ExtendedFilters ==
    {Filter(service, types, service = None) : service \in Services \cup {None}, types \in TypeLists}

CreateFilter(t, kind, new) ==
    /\ MayCall(t) /\ MayEnter(t) /\ Len(filters[kind]) < MaxFilters /\ Made < MaxMade
    /\ filters' = [filters EXCEPT ![kind] = Append(@, new)]
    /\ UNCHANGED <<sdk, stateVars, pushes, drained, cbs, mutex, glock, stack, checks>>

NewFilters(kind) == CASE kind = "basic" -> BasicFilters
                      [] kind = "service" -> ServiceFilters
                      [] kind = "extended" -> ExtendedFilters

DeleteFilter(t, kind, f) ==
    /\ MayCall(t) /\ MayEnter(t) /\ filters[kind][f].there
    /\ filters' = [filters EXCEPT ![kind][f].there = FALSE]
    /\ UNCHANGED <<sdk, stateVars, pushes, drained, cbs, mutex, glock, stack, checks>>

IsThere(kind, f) == f \in DOMAIN filters[kind] /\ filters[kind][f].there

Callback(kind, f, u, internal) ==
    [there |-> TRUE, kind |-> kind, filter |-> f, user |-> u, internal |-> internal,
     since |-> Len(pushes), heard |-> <<>>]

\* Before 2.50 a basic or a service callback may name a filter that is not there.
BasicCallbacks ==
    {Callback("basic", f, u, FALSE) :
        f \in {f \in 1 .. MaxFilters : sdk >= 250 => IsThere("basic", f)}, u \in Users}

\* The internal functions register one that DrainPushEvents never calls.
ServiceCallbacks ==
    {Callback("service", f, u, internal) :
        f \in {f \in 1 .. MaxFilters : sdk >= 250 => IsThere("service", f)},
        u \in Users, internal \in BOOLEAN}

ExtendedCallbacks ==
    {Callback("extended", f, u, FALSE) :
        f \in {f \in 1 .. MaxFilters : IsThere("extended", f)}, u \in Users}

RegisterPush(t, new) ==
    /\ MayCall(t) /\ MayEnter(t) /\ Len(cbs) < MaxPushCbs /\ Made < MaxMade
    /\ new.kind \in Kinds
    /\ cbs' = Append(cbs, new)
    /\ UNCHANGED <<sdk, stateVars, pushes, drained, filters, mutex, glock, stack, checks>>

\* The callback that runs in the thread is not unregistered: the walk over the
\* table would go on from an erased entry.
UnregisterPush(t, c) ==
    /\ MayCall(t) /\ MayEnter(t) /\ cbs[c].there
    /\ \A i \in DOMAIN stack[t] : stack[t][i].pc = "event" => stack[t][i].callee # c
    /\ cbs' = [cbs EXCEPT ![c].there = FALSE]
    /\ UNCHANGED <<sdk, stateVars, pushes, drained, filters, mutex, glock, stack, checks>>

-----------------------------------------------------------------------------
(* DrainPushEvents: the walk.                                              *)

\* filterMatches; a basic filter only takes events without a service.
FilterMatches(kind, f, e) ==
    /\ IF kind = "basic" \/ f.catchAll THEN e.service = None
       ELSE e.service # None /\ f.service = e.service
    /\ e.type \in f.types

PhaseOf(c) == CHOOSE i \in DOMAIN Phases : Phases[i] = cbs[c].kind

\* The callback is called for the event: an internal one never is.
Hears(c, e) ==
    LET cb == cbs[c] IN
    /\ cb.there /\ ~cb.internal /\ cb.user = e.user
    /\ IsThere(cb.kind, cb.filter)
    /\ FilterMatches(cb.kind, filters[cb.kind][cb.filter], e)

\* c comes later in the walk than pos.
After(pos, c) == PhaseOf(c) > pos[1] \/ (PhaseOf(c) = pos[1] /\ c > pos[2])

BeginEvent(t) ==
    /\ At(t, "pushes") /\ Top(t).event < Top(t).upto /\ glock = None
    /\ glock' = t
    /\ Become(t, [Top(t) EXCEPT !.pc = "event", !.at = <<0, 0>>])
    /\ UNCHANGED <<sdk, stateVars, pushVars, mutex, checks>>

\* Those that hear the event and come after the last that did.
Due(t) == {c \in DOMAIN cbs : After(Top(t).at, c) /\ Hears(c, pushes[Top(t).event + 1])}

CallPush(t) ==
    /\ At(t, "event") /\ Top(t).callee = 0
    /\ \E c \in Due(t) :
        /\ \A d \in Due(t) : PhaseOf(c) <= PhaseOf(d) /\ (PhaseOf(c) = PhaseOf(d) => c <= d)
        /\ Become(t, [Top(t) EXCEPT !.callee = c, !.at = <<PhaseOf(c), c>>])
        /\ cbs' = [cbs EXCEPT ![c].heard = Append(@, Top(t).event + 1)]
    /\ UNCHANGED <<sdk, stateVars, pushes, drained, filters, mutex, glock, checks>>

\* Fault: the locks are kept when nobody heard the event.
Unlocked_IfHeard(t) == IF Top(t).at = <<0, 0>> THEN t ELSE None

Unlocked(t) == None

EndEvent(t) ==
    /\ At(t, "event") /\ Top(t).callee = 0 /\ Due(t) = {}
    /\ glock' = Unlocked(t)
    /\ Become(t, [Top(t) EXCEPT !.pc = "pushes", !.event = @ + 1])
    /\ UNCHANGED <<sdk, stateVars, pushVars, mutex, checks>>

-----------------------------------------------------------------------------
Queue ==
    \E u \in Users :
        \/ \E s \in {"SignedIn", "SignedOut"} : QueueNpStateEvent(u, s)
        \/ \E service \in Services \cup {None}, type \in Types : EnqueuePushEvent(u, service, type)

Game(t) ==
    \/ \E lib \in BOOLEAN : Check(t, lib)
    \/ UseMutex(t)
    \/ \E p \in Places : RegisterState(t, p) \/ UnregisterState(t, p)
    \/ \E kind \in Kinds :
        \/ \E new \in NewFilters(kind) : CreateFilter(t, kind, new)
        \/ \E f \in DOMAIN filters[kind] : DeleteFilter(t, kind, f)
    \/ \E new \in BasicCallbacks \cup ServiceCallbacks \cup ExtendedCallbacks : RegisterPush(t, new)
    \/ \E c \in DOMAIN cbs : UnregisterPush(t, c)

Work(t) ==
    \/ CallState(t) \/ CallbackReturns(t) \/ EndStates(t)
    \/ UsedMutex(t) \/ LockCallbacks(t) \/ EndPushes(t)
    \/ BeginEvent(t) \/ CallPush(t) \/ EndEvent(t)

Next == Queue \/ \E t \in Threads : Game(t) \/ Work(t)

Spec == Init /\ [][Next]_vars

-----------------------------------------------------------------------------
(* Properties.                                                             *)

FramesOf(t) == Range(stack[t])
Frames == UNION {FramesOf(t) : t \in Threads}

\* The variables hold what the declarations say; the locks are held by the thread
\* that is in the part of a check they guard.
TypeOK ==
    /\ sdk \in Sdks
    /\ taken \in 0 .. Len(states) /\ drained \in 0 .. Len(pushes)
    /\ \A p \in DOMAIN place : place[p] \in 0 .. Len(regs)
    /\ last \in [Users -> {"unknown", "Reachable", "Unavailable"}]
    /\ \A c \in DOMAIN cbs : cbs[c].kind \in Kinds /\ cbs[c].user \in Users
    /\ \A t \in Threads :
        /\ Len(stack[t]) <= MaxDepth
        /\ mutex = t <=> \E f \in FramesOf(t) : f.pc \in {"pushes", "event"}
        /\ glock = t <=> \E f \in FramesOf(t) : f.pc = "event"

Increasing(s) == \A i, j \in DOMAIN s : i < j => s[i] < s[j]

\* A state callback hears no state twice, and hears them in the order in which they
\* were queued unless two checks had states to deliver at the same time, on two
\* threads or one inside the other.
StatesInOrder ==
    \A r \in DOMAIN regs :
        /\ IsInjective(regs[r].heard)
        /\ ~overlapped => Increasing(regs[r].heard)

\* Once no check has states to deliver, a callback that is still registered has heard
\* every state that was taken and was queued after the registration.
StatesHeard ==
    ~Delivering =>
        \A r \in DOMAIN regs : place[regs[r].at] = r /\ regs[r].at # Reachability =>
            \A n \in regs[r].since + 1 .. taken : Contains(regs[r].heard, n)

Told(r, u) == SelectSeq(regs[r].heard, LAMBDA n : states[n].user = u)
Since(r, u) == {n \in regs[r].since + 1 .. taken : states[n].user = u}

\* With the same reservation, each call of a reachability callback tells a user's
\* change, and between checks the last one told is the truth of the last state taken.
ReachabilityIsNews ==
    \A r \in DOMAIN regs : regs[r].at = Reachability /\ ~overlapped => \A u \in Users :
        LET told == [i \in DOMAIN Told(r, u) |-> Reach(states[Told(r, u)[i]].state)] IN
        /\ \A i \in 1 .. Len(told) - 1 : told[i] # told[i + 1]
        /\ place[Reachability] = r /\ ~Delivering /\ Since(r, u) # {} =>
              told # <<>> /\ Last(told) = Reach(states[Max(Since(r, u))].state)

\* What a game learns of sign-in states: all of them, once, in order, as news.
StatesReachTheGame == StatesInOrder /\ StatesHeard /\ ReachabilityIsNews

\* A push callback hears the events in the order of their arrival, each at most once,
\* whatever the threads: the second half of a check is never two threads' at a time.
PushesInOrder == \A c \in DOMAIN cbs : Increasing(cbs[c].heard)

\* Between checks, a push callback whose filter takes an event that arrived after
\* both were made has heard it, unless it is of the internal kind, which is never
\* called.
PushesHeard ==
    mutex = None =>
        \A c \in DOMAIN cbs : \A n \in cbs[c].since + 1 .. drained :
            LET cb == cbs[c] IN
            cb.there /\ ~cb.internal /\ cb.user = pushes[n].user /\ IsThere(cb.kind, cb.filter) =>
                LET f == filters[cb.kind][cb.filter] IN
                n > f.since /\ FilterMatches(cb.kind, f, pushes[n]) => Contains(cb.heard, n)

\* A push callback that another thread has unregistered does not run any more once
\* the call has returned: the game may free what the callback uses.
UnregisteredIsSilent ==
    \A f \in Frames : f.pc = "event" /\ f.callee # 0 => cbs[f.callee].there

\* What a game learns of push events: all it registered for, in order, not after it
\* has unregistered.
PushesReachTheGame == TypeOK /\ PushesInOrder /\ PushesHeard /\ UnregisteredIsSilent

\* A callback that runs under g_np_callbacks_mutex has called what takes it.
Reentered == \E t \in Threads : mutex = t /\ ((StatesDone(t) /\ ~Top(t).lib) \/ At(t, "mutex"))

\* While a thread is in a check some thread can go on, whatever the callbacks register
\* and unregister, unless one that runs under g_np_callbacks_mutex calls what takes
\* that mutex.  Each such step leaves less to do, so that every check ends.
NobodyIsStuck ==
    (\E t \in Threads : Inside(t)) => Reentered \/ \E t \in Threads : ENABLED Work(t)
=============================================================================
