-------------------------------- MODULE WebApi --------------------------------
(***************************************************************************)
(* The web API library: library contexts, user contexts, requests and      *)
(* handles (np_web_api.cpp, np_web_api_internal.cpp).                      *)
(*                                                                         *)
(* Every object counts the calls that are using it.  A call counts itself  *)
(* in at its library context, its user context and its request, works      *)
(* without a lock, and counts itself out; what deletes an object waits,    *)
(* polling, until no other call is counted.  g_global_mutex guards the     *)
(* table of contexts and a recursive lock per context guards the rest.     *)
(* An erased object is never freed, so a call that still holds one works   *)
(* on something nobody else can reach.                                     *)
(*                                                                         *)
(* What np_web_api.cpp does around the internal functions, counting the    *)
(* contexts and marking the library as initialized, it does without a      *)
(* lock: a count up or down is a read and a write.                         *)
(*                                                                         *)
(* Push events are in Callbacks.  An argument the library turns down       *)
(* before it looks at its tables has no action.                            *)
(***************************************************************************)
EXTENDS Integers, Sequences, FiniteSets, Functions

CONSTANTS
    Threads,      \* game threads
    None,         \* no thread
    Users,        \* users that sign in on the console
    Sdks,         \* firmware generations a game may be built for: 200 is 2.00
    UserIdLimit,  \* 0x10000: the numbers of user contexts are below it
    Apis,         \* the calls on a request the game makes
    MaxContexts,  \* bound: library contexts made in one behaviour
    MaxRequests,  \* bound: requests made in one behaviour
    MaxHandles,   \* bound: handles made in one behaviour
    MaxCalls,     \* bound: calls the game makes in one behaviour
    MaxShared     \* bound: calls before one that finds a handle or two contexts, or makes them

\* The calls on a request, which count themselves in at it by Mark and out by Release.
MultipartCalls == {"setMultipartContentType", "addMultipartPart"}
RequestCalls == MultipartCalls \cup
    {"setRequestTimeout", "addHttpRequestHeader", "sendRequest", "readData", "getHttpStatusCode",
     "getHttpResponseHeaderValue", "abortRequest"}

Mark(api) == IF api \in MultipartCalls \cup {"abortRequest"} THEN 0 ELSE 1
Release(api) == IF api = "abortRequest" THEN 0 ELSE 1

ASSUME WebApiAssumption ==
    /\ IsFiniteSet(Threads) /\ None \notin Threads
    /\ Apis \subseteq RequestCalls
    /\ Sdks \subseteq Nat
    /\ {MaxContexts, MaxRequests, MaxHandles, MaxCalls, MaxShared} \subseteq Nat
    /\ UserIdLimit \in Nat /\ UserIdLimit > 1

VARIABLES
    sdk,       \* g_sdk_ver
    contexts,  \* the library contexts, in the order of their ids
    users,     \* the user contexts in their context's table, by <<context, number>>
    userCount, \* g_user_context_count
    requests,  \* the requests, in the order of their ids
    handles,   \* the handles, in the order of their ids
    glock,     \* who holds g_global_mutex across steps
    active,    \* g_active_library_contexts
    initialized, \* g_is_initialized
    outer,     \* what each thread is doing in sceNpWebApiInitialize or after terminateContext
    early,     \* history: the sceNpWebApiTerminate that reported success too early
    torn,      \* history: a count was written over one made since it was read
    overlapped, \* history: two threads were busy with the count or the mark at once
    call,      \* what each thread is doing inside the library
    calls      \* calls made so far

tables == <<contexts, users, userCount, requests, handles>>
library == <<active, initialized, outer, early, torn, overlapped>>
vars == <<tables, sdk, glock, library, call, calls>>

-----------------------------------------------------------------------------
Keys == (1 .. MaxContexts) \X (1 .. UserIdLimit - 1)

\* What a thread does: nested says that terminateContext is deleting the user
\* context u, ids are those it has still to delete.
Idle == [pc |-> "idle", api |-> "", c |-> 1, u |-> <<1, 1>>, user |-> 0, r |-> 0, h |-> 0,
         nested |-> FALSE, res |-> "ok", ids |-> {}]

\* owner and depth are the context's lock.  History: kept counts the calls that
\* returned without counting themselves out, lost the unlocks left out.
NewContext == [there |-> TRUE, count |-> 0, terminated |-> FALSE, owner |-> None, depth |-> 0,
               kept |-> 0, lost |-> 0]
NewUser(x) == [user |-> x, count |-> 0, deleted |-> FALSE]

\* http: what the request has made with the HTTP library.  History: below counts
\* the releases without a mark, cleared says that the request went with its user
\* context, orphan that HTTP objects were made over others, twice that two sends did
\* it, told that the HTTP library was asked to abort what http stands for, late that
\* it was made after the request had been aborted.
NewRequest(u, bad) ==
    [there |-> TRUE, u |-> u, count |-> 0, bad |-> bad, aborted |-> FALSE, timed |-> FALSE,
     timer |-> "off", http |-> "none", below |-> 0, cleared |-> FALSE, orphan |-> FALSE, twice |-> FALSE,
     told |-> FALSE, late |-> FALSE]
NewHandle(c) == [there |-> TRUE, c |-> c, count |-> 0, deleted |-> FALSE]

\* n is the count the thread has read or written, c the context it has made.
Outside == [pc |-> "none", n |-> 0, c |-> 1]

UsersOf(c) == {k \in DOMAIN users : k[1] = c}
RequestsOf(k) == {r \in DOMAIN requests : requests[r].there /\ requests[r].u = k}
HandlesOf(c) == {h \in DOMAIN handles : handles[h].there /\ handles[h].c = c}

Init ==
    /\ sdk \in Sdks
    /\ contexts = <<>> /\ requests = <<>> /\ handles = <<>>
    /\ users = <<>> /\ userCount = 0
    /\ glock = None
    /\ active = 0 /\ initialized = FALSE /\ outer = [t \in Threads |-> Outside]
    /\ early = 0 /\ torn = FALSE /\ overlapped = FALSE
    /\ call = [t \in Threads |-> Idle]
    /\ calls = 0

\* The context's lock can be taken: nobody holds it, or the thread itself does.
Free(t, c) == contexts[c].owner \in {t, None}

Locked(x, t) == [x EXCEPT !.owner = t, !.depth = @ + 1]

Unlocked(x) == [x EXCEPT !.owner = IF x.depth = 1 THEN None ELSE @, !.depth = @ - 1]

Go(t, pc) == call' = [call EXCEPT ![t].pc = pc]

\* The call is over; a deletion terminateContext asked for hands it the result.
Returned(t, res) ==
    [call EXCEPT ![t] = IF @.nested THEN [@ EXCEPT !.pc = "deleted", !.res = res] ELSE Idle]

Leaving(t, res) == call' = [call EXCEPT ![t].pc = "leaveContext", ![t].res = res]

CountContext(c, n) == contexts' = [contexts EXCEPT ![c].count = @ + n]

-----------------------------------------------------------------------------
(* The game's calls.                                                       *)

\* The contexts there will have been when all the calls that make one are through
Making == Len(contexts) + Cardinality({t \in Threads : outer[t].pc \in {"set", "create"}})

\* A thread calls when its last call has returned.
MayCall(t) ==
    /\ call[t].pc = "idle" /\ outer[t].pc = "none"
    /\ calls < MaxCalls
    /\ Making > 1 \/ handles # <<>> => calls < MaxShared

Begins(t, what) ==
    /\ calls' = calls + 1
    /\ call' = [call EXCEPT ![t] = what]
    /\ UNCHANGED <<tables, sdk, glock, library>>

\* The game knows a context once sceNpWebApiInitialize has returned its id.
Known == {c \in DOMAIN contexts :
             \A t \in Threads : outer[t].pc \in {"count", "counted"} => outer[t].c # c}

\* The bounds on what is made count what is being made.
Calling(api) == Cardinality({t \in Threads : call[t].api = api})

BeginContextCall(t, api, c) ==
    /\ api = "createHandle" => Len(handles) + Calling(api) < MaxHandles
    /\ Begins(t, [Idle EXCEPT !.pc = "find", !.api = api, !.c = c])

BeginCreateUserContext(t, c, x) ==
    Begins(t, [Idle EXCEPT !.pc = "find", !.api = "createUserContext", !.c = c, !.user = x])

BeginUserCall(t, api, k) ==
    /\ k[1] \in DOMAIN contexts
    /\ api = "createRequest" => Len(requests) + Calling(api) < MaxRequests
    /\ Begins(t, [Idle EXCEPT !.pc = "find", !.api = api, !.c = k[1], !.u = k])

BeginRequestCall(t, api, r) ==
    Begins(t, [Idle EXCEPT !.pc = "find", !.api = api, !.c = requests[r].u[1],
                           !.u = requests[r].u, !.r = r])

BeginHandleCall(t, api, h) ==
    Begins(t, [Idle EXCEPT !.pc = "find", !.api = api, !.c = handles[h].c, !.h = h])

\* sceNpWebApiCheckTimeout does nothing while the library counts no context.
BeginCheckTimeout(t) ==
    initialized /\ Begins(t, [Idle EXCEPT !.pc = "find", !.api = "checkTimeout"])

-----------------------------------------------------------------------------
(* sceNpWebApiInitialize and its variants, and the end of                  *)
(* sceNpWebApiTerminate: the count of the contexts and the mark of the     *)
(* library as initialized, one access at a time.                           *)

\* The thread begins to read or write them; another may be at it.
Enters(t, pc) ==
    /\ outer' = [outer EXCEPT ![t].pc = pc]
    /\ overlapped' = (overlapped \/ \E u \in Threads \ {t} : outer[u].pc # "none")

AtOuter(t, pc) == call[t].pc = "idle" /\ outer[t].pc = pc

GoOuter(t, pc) == outer' = [outer EXCEPT ![t].pc = pc]

\* if (!g_is_initialized)
Initialize(t) ==
    /\ Making < MaxContexts /\ (Making = 1 => calls < MaxShared)
    /\ calls' = calls + 1
    /\ Enters(t, IF initialized THEN "create" ELSE "set")
    /\ UNCHANGED <<tables, sdk, glock, active, initialized, early, torn, call>>

SetInitialized(t) ==
    /\ AtOuter(t, "set")
    /\ initialized' = TRUE
    /\ GoOuter(t, "create")
    /\ UNCHANGED <<tables, sdk, glock, active, early, torn, overlapped, call, calls>>

CreateLibraryContext(t) ==
    /\ AtOuter(t, "create") /\ glock = None /\ Len(contexts) < MaxContexts
    /\ contexts' = Append(contexts, NewContext)
    /\ outer' = [outer EXCEPT ![t].pc = "count", ![t].c = Len(contexts) + 1]
    /\ UNCHANGED <<users, userCount, requests, handles, sdk, glock, active, initialized, early,
                   torn, overlapped, call, calls>>

\* g_active_library_contexts++ and -- read the count
ReadCount(t, pc, read) ==
    /\ AtOuter(t, pc)
    /\ outer' = [outer EXCEPT ![t].pc = read, ![t].n = active]
    /\ UNCHANGED <<tables, sdk, glock, active, initialized, early, torn, overlapped, call, calls>>

\* and write what they make of it, over what others may have written.
WriteCount(t, n) ==
    /\ active' = n
    /\ torn' = (torn \/ active # outer[t].n)
    /\ UNCHANGED <<tables, sdk, glock, initialized, early, overlapped, call, calls>>

CountUp(t) ==
    /\ AtOuter(t, "counted")
    /\ WriteCount(t, outer[t].n + 1)
    /\ outer' = [outer EXCEPT ![t] = Outside]

CountDown(t) ==
    /\ AtOuter(t, "uncounted")
    /\ WriteCount(t, outer[t].n - 1)
    /\ outer' = [outer EXCEPT ![t].pc = "written", ![t].n = @ - 1]

\* if (g_active_library_contexts == 0): the build may compare what it has just written
\* or read the count again.
TestCount(t) ==
    /\ AtOuter(t, "written")
    /\ \E n \in {outer[t].n, active} :
          outer' = [outer EXCEPT ![t] = IF n = 0 THEN [Outside EXCEPT !.pc = "clear"] ELSE Outside]
    /\ UNCHANGED <<tables, sdk, glock, active, initialized, early, torn, overlapped, call, calls>>

ClearInitialized(t) ==
    /\ AtOuter(t, "clear")
    /\ initialized' = FALSE
    /\ outer' = [outer EXCEPT ![t] = Outside]
    /\ UNCHANGED <<tables, sdk, glock, active, early, torn, overlapped, call, calls>>

-----------------------------------------------------------------------------
(* The way in: findAndValidateContext takes g_global_mutex and, holding    *)
(* it, the context's lock.                                                 *)

LockGlobal(t) ==
    /\ call[t].pc = "find" /\ glock = None
    /\ glock' = t /\ Go(t, "global")
    /\ UNCHANGED <<tables, sdk, library, calls>>

FindAndValidateContext(t) ==
    LET c == call[t].c IN
    /\ call[t].pc = "global" /\ call[t].api # "checkTimeout"
    /\ glock' = None
    /\ \/ ~contexts[c].there /\ call' = Returned(t, "other") /\ UNCHANGED contexts
       \/ /\ contexts[c].there /\ Free(t, c)
          /\ IF contexts[c].terminated
             THEN call' = Returned(t, "other") /\ UNCHANGED contexts
             ELSE Go(t, "inContext") /\ CountContext(c, 1)
    /\ UNCHANGED <<users, userCount, requests, handles, sdk, library, calls>>

InContext(t, api) ==
    /\ call[t].pc = "inContext" /\ Free(t, call[t].c)
    /\ api = IF call[t].nested THEN "deleteUserContext" ELSE call[t].api

UserCalls == {"createRequest", "registerNotificationCallback"} \cup RequestCalls

\* findUserContext
Finds(k) == k \in DOMAIN users /\ ~users[k].deleted

FindUserContext(t) ==
    LET k == call[t].u IN
    /\ \E api \in UserCalls : InContext(t, api)
    /\ IF Finds(k) THEN users' = [users EXCEPT ![k].count = @ + 1] /\ Go(t, "inUser")
                   ELSE Go(t, "leaveContext") /\ UNCHANGED users
    /\ UNCHANGED <<contexts, userCount, requests, handles, sdk, glock, library, calls>>

\* findRequestAndMarkBusy and findRequest
FindRequest(t) ==
    LET r == call[t].r IN
    /\ call[t].pc = "inUser" /\ call[t].api \in RequestCalls /\ Free(t, call[t].c)
    /\ IF requests[r].there
       THEN /\ Go(t, "inRequest")
            /\ requests' = [requests EXCEPT ![r].count = @ + Mark(call[t].api)]
       ELSE Go(t, "leaveUser") /\ UNCHANGED requests
    /\ UNCHANGED <<contexts, users, userCount, handles, sdk, glock, library, calls>>

-----------------------------------------------------------------------------
(* The way out.                                                            *)

\* releaseRequest; abortRequest has none.
ReleaseRequest(t) ==
    LET r == call[t].r api == call[t].api IN
    /\ call[t].pc = "leaveRequest" /\ Free(t, call[t].c)
    /\ requests' = [requests EXCEPT ![r].count = @ - Release(api),
                                    ![r].below = IF Mark(api) = 0 THEN @ + 1 ELSE @]
    /\ Go(t, "leaveUser")
    /\ UNCHANGED <<contexts, users, userCount, handles, sdk, glock, library, calls>>

ReleaseUserContext(t) ==
    /\ call[t].pc = "leaveUser" /\ Free(t, call[t].c)
    /\ users' = [users EXCEPT ![call[t].u].count = @ - 1]
    /\ Go(t, "leaveContext")
    /\ UNCHANGED <<contexts, userCount, requests, handles, sdk, glock, library, calls>>

ReleaseContext(t) ==
    /\ call[t].pc = "leaveContext" /\ Free(t, call[t].c)
    /\ CountContext(call[t].c, -1)
    /\ call' = Returned(t, call[t].res)
    /\ UNCHANGED <<users, userCount, requests, handles, sdk, glock, library, calls>>

-----------------------------------------------------------------------------
(* User contexts.                                                          *)

\* createUserContext: findUserContextByUserId also finds one that is being deleted.
CheckUser(t) ==
    LET c == call[t].c same == {k \in UsersOf(c) : users[k].user = call[t].user} IN
    /\ InContext(t, "createUserContext")
    /\ IF same = {} THEN Go(t, "makeUser") /\ UNCHANGED users
       ELSE LET k == CHOOSE k \in same : \A l \in same : k[2] <= l[2] IN
            /\ users' = [users EXCEPT ![k].count = @ + 1]
            /\ call' = [call EXCEPT ![t].pc = "leaveUser", ![t].u = k]
    /\ UNCHANGED <<contexts, userCount, requests, handles, sdk, glock, library, calls>>

\* The number searched for is the next, or the first below it that is not taken;
\* when there is none the call returns without releaseContext.
MakeUser(t) ==
    LET c == call[t].c
        next == IF userCount + 1 >= UserIdLimit THEN 1 ELSE userCount + 1
        unused == {n \in 1 .. next : <<c, n>> \notin DOMAIN users}
    IN
    /\ call[t].pc = "makeUser" /\ Free(t, c)
    /\ userCount' = next
    /\ IF unused = {}
       THEN contexts' = [contexts EXCEPT ![c].kept = @ + 1] /\ UNCHANGED users
       ELSE LET k == <<c, CHOOSE n \in unused : \A m \in unused : m <= n>> IN
            /\ users' = [l \in DOMAIN users \cup {k} |->
                            IF l = k THEN NewUser(call[t].user) ELSE users[l]]
            /\ CountContext(c, -1)
    /\ call' = [call EXCEPT ![t] = Idle]
    /\ UNCHANGED <<requests, handles, sdk, glock, library, calls>>

\* registerNotificationCallback, unregisterNotificationCallback: nothing calls it.
SetNotificationCallback(t) ==
    /\ call[t].pc = "inUser" /\ call[t].api = "registerNotificationCallback"
    /\ Free(t, call[t].c)
    /\ Go(t, "leaveUser")
    /\ UNCHANGED <<tables, sdk, glock, library, calls>>

\* Fault: one call too many may be inside.
RequestBusy_OffByOne(q) == q.count > 1

\* isRequestBusy, asked by one who has counted the request itself
RequestBusy(q) == q.count > 0
RequestsBusy(k) == \E r \in RequestsOf(k) : RequestBusy(requests[r])

\* Fault: the HTTP library does not hear of it.
Aborted_Silently(q) == [q EXCEPT !.aborted = TRUE]

\* abortRequestInternal
Aborted(q) ==
    IF q.aborted THEN q ELSE [q EXCEPT !.aborted = TRUE, !.told = q.http = "whole"]

AbortedAll(rs) ==
    [r \in DOMAIN requests |-> IF r \in rs THEN Aborted(requests[r]) ELSE requests[r]]

Cleared(k) == [r \in DOMAIN requests |->
    IF r \in RequestsOf(k) THEN [requests[r] EXCEPT !.there = FALSE, !.cleared = TRUE] ELSE requests[r]]

\* Fault: the call that asks is one of those it waits for.
UserBusy_Self(x) == x.count > 0

\* isUserContextBusy
UserBusy(x) == x.count > 1

\* deleteUserContext before 4.00 refuses a user context in use; from 4.00 on it
\* aborts the requests, marks the user context and waits.
DeleteUserContext(t) ==
    LET k == call[t].u IN
    /\ InContext(t, "deleteUserContext")
    /\ \/ /\ ~Finds(k)
          /\ Leaving(t, "noUser") /\ UNCHANGED <<users, requests>>
       \/ /\ Finds(k) /\ sdk < 400 /\ (users[k].count > 0 \/ RequestsBusy(k))
          /\ Leaving(t, "other") /\ UNCHANGED <<users, requests>>
       \/ /\ Finds(k) /\ sdk < 400 /\ users[k].count = 0 /\ ~RequestsBusy(k)
          /\ Leaving(t, "ok") /\ users' = Restrict(users, DOMAIN users \ {k})
          /\ requests' = Cleared(k)
       \/ /\ Finds(k) /\ sdk >= 400
          /\ requests' = AbortedAll(RequestsOf(k))
          /\ users' = [users EXCEPT ![k].deleted = TRUE, ![k].count = @ + 1]
          /\ Go(t, "drainUser")
    /\ UNCHANGED <<contexts, userCount, handles, sdk, glock, library, calls>>

UserContextDrained(t) ==
    LET k == call[t].u IN
    /\ call[t].pc = "drainUser" /\ Free(t, call[t].c)
    /\ ~UserBusy(users[k]) /\ ~RequestsBusy(k)
    /\ users' = Restrict(users, DOMAIN users \ {k}) /\ requests' = Cleared(k)
    /\ Leaving(t, "ok")
    /\ UNCHANGED <<contexts, userCount, handles, sdk, glock, library, calls>>

-----------------------------------------------------------------------------
(* Requests.                                                               *)

\* createRequest.  Before 2.50 the method may be one sendRequest does not know.
CreateRequest(t, bad) ==
    LET k == call[t].u IN
    /\ call[t].pc = "inUser" /\ call[t].api = "createRequest" /\ Free(t, call[t].c)
    /\ bad => sdk < 250
    /\ requests' = IF sdk >= 400 /\ users[k].deleted THEN requests
                   ELSE Append(requests, NewRequest(k, bad))
    /\ Go(t, "leaveUser")
    /\ UNCHANGED <<contexts, users, userCount, handles, sdk, glock, library, calls>>

InRequest(t, api) == call[t].pc = "inRequest" /\ call[t].api = api

\* setRequestTimeout, with a time or with none; a timer that runs goes on.
SetRequestTimeout(t, timer) ==
    /\ InRequest(t, "setRequestTimeout")
    /\ requests' = [requests EXCEPT ![call[t].r].timer = IF @ = "runs" THEN @ ELSE timer]
    /\ Go(t, "leaveRequest")
    /\ UNCHANGED <<contexts, users, userCount, handles, sdk, glock, library, calls>>

\* addHttpRequestHeaderInternal, setMultipartContentType, addMultipartPart: what
\* they put in the request's body or headers is left out.
AddToRequest(t) ==
    /\ \E api \in MultipartCalls \cup {"addHttpRequestHeader"} : InRequest(t, api)
    /\ Go(t, "leaveRequest")
    /\ UNCHANGED <<tables, sdk, glock, library, calls>>

AbortRequest(t) ==
    /\ InRequest(t, "abortRequest") /\ Free(t, call[t].c)
    /\ requests' = [requests EXCEPT ![call[t].r] = Aborted(@)]
    /\ Go(t, "leaveUser")
    /\ UNCHANGED <<contexts, users, userCount, handles, sdk, glock, library, calls>>

Started(timer) == IF timer = "set" THEN "runs" ELSE timer

\* sendRequest: a part of a multipart request that is not the last sends nothing.
StartSend(t) ==
    /\ InRequest(t, "sendRequest")
    /\ requests' = [requests EXCEPT ![call[t].r].timer = Started(@)]
    /\ \/ Go(t, "leaveRequest")
       \/ Go(t, "sendCheck")
    /\ UNCHANGED <<contexts, users, userCount, handles, sdk, glock, library, calls>>

\* An aborted request is not sent, unless it was its own timeout that aborted it;
\* nor is one of a user who is not signed in.
CheckSend(t) ==
    LET q == requests[call[t].r] IN
    /\ call[t].pc = "sendCheck" /\ Free(t, call[t].c)
    /\ \/ Go(t, "leaveRequest")
       \/ (q.timed \/ ~q.aborted) /\ Go(t, "create")
    /\ UNCHANGED <<tables, sdk, glock, library, calls>>

\* Whether to make the HTTP objects is decided without the lock.
DecideHttp(t) ==
    /\ call[t].pc = "create"
    /\ Go(t, IF requests[call[t].r].http = "whole" THEN "http" ELSE "make")
    /\ UNCHANGED <<tables, sdk, glock, library, calls>>

\* The objects are made and put in the request, over those that are there.
Made(q, what) == [q EXCEPT !.http = what, !.orphan = @ \/ q.http # "none",
                           !.twice = @ \/ q.http = "whole", !.told = FALSE,
                           !.late = q.aborted]

\* Fault: the template and the connection stay when the HTTP request cannot be made.
Unmade_Keeps(q) == Made(q, IF q.http = "whole" THEN "whole" ELSE "partial")

\* What could be made is deleted and its ids forgotten.
Unmade(q) == Made(q, IF q.http = "whole" THEN "whole" ELSE "none")

\* A template, a connection and an HTTP request, undone when one of them fails; an
\* unknown method is only noticed once the first two are there.
MakeHttp(t) ==
    LET r == call[t].r q == requests[r] IN
    /\ call[t].pc = "make"
    /\ \/ /\ requests' = [requests EXCEPT ![r] = Made(q, IF q.bad THEN "partial" ELSE "whole")]
          /\ Go(t, IF q.bad THEN "leaveRequest" ELSE "http")
       \/ requests' \in {requests, [requests EXCEPT ![r] = Unmade(q)]}
          /\ Go(t, "leaveRequest")
    /\ UNCHANGED <<contexts, users, userCount, handles, sdk, glock, library, calls>>

\* readDataInternal: data it holds itself may be all that is asked for; an aborted
\* request is not read, unless its timeout aborted it.
StartRead(t) ==
    LET q == requests[call[t].r] IN
    /\ InRequest(t, "readData") /\ Free(t, call[t].c)
    /\ requests' = [requests EXCEPT ![call[t].r].timer = Started(@)]
    /\ \/ Go(t, "readDone")
       \/ (q.timed \/ ~q.aborted) /\ Go(t, "http")
    /\ UNCHANGED <<contexts, users, userCount, handles, sdk, glock, library, calls>>

\* getHttpStatusCodeInternal, getHttpResponseHeaderValueInternal
Ask(t) ==
    /\ \E api \in {"getHttpStatusCode", "getHttpResponseHeaderValue"} : InRequest(t, api)
    /\ Go(t, "http")
    /\ UNCHANGED <<tables, sdk, glock, library, calls>>

\* The HTTP library comes back, with whatever result.
HttpReturns(t) ==
    /\ call[t].pc = "http"
    /\ Go(t, IF call[t].api = "readData" THEN "readDone" ELSE "leaveRequest")
    /\ UNCHANGED <<tables, sdk, glock, library, calls>>

\* The end of readDataInternal stops the timer.
EndRead(t) ==
    /\ call[t].pc = "readDone" /\ Free(t, call[t].c)
    /\ requests' = [requests EXCEPT ![call[t].r].timer = IF @ = "runs" THEN "set" ELSE @]
    /\ Go(t, "leaveRequest")
    /\ UNCHANGED <<contexts, users, userCount, handles, sdk, glock, library, calls>>

\* Fault: the request stays counted.
Erased_Counted(q) == [q EXCEPT !.there = FALSE, !.http = "none"]

\* The HTTP objects are deleted and the request leaves its user context.
Erased(q) == [q EXCEPT !.there = FALSE, !.count = @ - 1, !.http = "none"]

\* The lock is taken and not given back.
LeftLocked(x, t) == [x EXCEPT !.owner = t, !.depth = @ + 1, !.lost = @ + 1]

\* deleteRequest holds the context's lock when it finds that there is nothing to
\* delete, or that it may not, and returns without unlocking it.
DeleteRequest(t) ==
    LET r == call[t].r k == call[t].u c == call[t].c
        found == Finds(k) /\ requests[r].there
        busy == found /\ RequestBusy(requests[r])
        q == [Aborted(requests[r]) EXCEPT !.count = @ + 1]
    IN
    /\ InContext(t, "deleteRequest")
    /\ \/ /\ ~found \/ (busy /\ sdk < 400)
          /\ contexts' = [contexts EXCEPT ![c] = LeftLocked(@, t)]
          /\ Go(t, "leaveContext") /\ UNCHANGED <<users, requests>>
       \/ /\ found /\ ~busy
          /\ requests' = [requests EXCEPT ![r] = Erased(q)]
          /\ Go(t, "leaveContext") /\ UNCHANGED <<contexts, users>>
       \/ /\ busy /\ sdk >= 400
          /\ requests' = [requests EXCEPT ![r] = q]
          /\ users' = [users EXCEPT ![k].count = @ + 1]
          /\ Go(t, "drainRequest") /\ UNCHANGED contexts
    /\ UNCHANGED <<userCount, handles, sdk, glock, library, calls>>

RequestDrained(t) ==
    LET r == call[t].r k == call[t].u IN
    /\ call[t].pc = "drainRequest" /\ Free(t, call[t].c)
    /\ requests[r].count <= 1
    /\ requests' = [requests EXCEPT ![r] = Erased(@)]
    /\ users' = [users EXCEPT ![k].count = @ - 1]
    /\ Go(t, "leaveContext")
    /\ UNCHANGED <<contexts, userCount, handles, sdk, glock, library, calls>>

-----------------------------------------------------------------------------
(* Timeouts.                                                               *)

\* checkTimeout: some of the timers that run have run out.  It holds g_global_mutex
\* while it takes the locks of all the contexts; abortRequest finds no request of a
\* context that is ending or of a user context that is being deleted.
CheckTimeout(t, rs) ==
    LET reached == {r \in rs : ~contexts[requests[r].u[1]].terminated /\ Finds(requests[r].u)} IN
    /\ call[t].pc = "global" /\ call[t].api = "checkTimeout"
    /\ \A c \in DOMAIN contexts : contexts[c].there => Free(t, c)
    /\ \A r \in rs : /\ requests[r].there /\ contexts[requests[r].u[1]].there
                     /\ requests[r].timer = "runs" /\ ~requests[r].timed
    /\ requests' = [r \in DOMAIN requests |->
                       IF r \in rs THEN [AbortedAll(reached)[r] EXCEPT !.timed = TRUE]
                                  ELSE requests[r]]
    /\ glock' = None
    /\ call' = [call EXCEPT ![t] = Idle]
    /\ UNCHANGED <<contexts, users, userCount, handles, sdk, library, calls>>

-----------------------------------------------------------------------------
(* Handles.  That one was aborted is written and read by nothing, and so   *)
(* are the handles' timers: both are left out.                             *)

CreateHandle(t) ==
    /\ InContext(t, "createHandle")
    /\ handles' = Append(handles, NewHandle(call[t].c))
    /\ Go(t, "leaveContext")
    /\ UNCHANGED <<contexts, users, userCount, requests, sdk, glock, library, calls>>

\* abortHandle: getHandle counts the call in, releaseHandle out.
GetHandle(t) ==
    LET h == call[t].h IN
    /\ InContext(t, "abortHandle")
    /\ IF handles[h].there
       THEN handles' = [handles EXCEPT ![h].count = @ + 1] /\ Go(t, "inHandle")
       ELSE Go(t, "leaveContext") /\ UNCHANGED handles
    /\ UNCHANGED <<contexts, users, userCount, requests, sdk, glock, library, calls>>

ReleaseHandle(t) ==
    /\ call[t].pc = "inHandle" /\ Free(t, call[t].c)
    /\ handles' = [handles EXCEPT ![call[t].h].count = @ - 1]
    /\ Go(t, "leaveContext")
    /\ UNCHANGED <<contexts, users, userCount, requests, sdk, glock, library, calls>>

\* deleteHandleInternal; the abortHandle it asks for only sets the flag left out.
DeleteHandle(t) ==
    LET h == call[t].h x == handles[h] IN
    /\ InContext(t, "deleteHandle")
    /\ \/ /\ ~x.there \/ x.deleted \/ (sdk < 400 /\ x.count > 0)
          /\ Go(t, "leaveContext") /\ UNCHANGED handles
       \/ /\ x.there /\ sdk < 400 /\ x.count = 0
          /\ handles' = [handles EXCEPT ![h].there = FALSE] /\ Go(t, "leaveContext")
       \/ /\ x.there /\ sdk >= 400 /\ ~x.deleted
          /\ handles' = [handles EXCEPT ![h].deleted = TRUE] /\ Go(t, "drainHandle")
    /\ UNCHANGED <<contexts, users, userCount, requests, sdk, glock, library, calls>>

HandleDrained(t) ==
    LET h == call[t].h IN
    /\ call[t].pc = "drainHandle" /\ Free(t, call[t].c)
    /\ handles[h].count = 0
    /\ handles' = [handles EXCEPT ![h].there = FALSE]
    /\ Go(t, "leaveContext")
    /\ UNCHANGED <<contexts, users, userCount, requests, sdk, glock, library, calls>>

-----------------------------------------------------------------------------
(* terminateContext and deleteContext.                                     *)

\* Fault: one call too many may be inside.
ContextBusy_OffByOne(c) == contexts[c].count > 2

\* isContextBusy
ContextBusy(c) == contexts[c].count > 1

TerminateContext(t) ==
    LET c == call[t].c IN
    /\ InContext(t, "terminateContext")
    /\ IF sdk < 400 /\ ContextBusy(c) THEN Go(t, "leaveContext") ELSE Go(t, "list")
    /\ UNCHANGED <<tables, sdk, glock, library, calls>>

ListUsers(t) ==
    /\ call[t].pc = "list"
    /\ call' = [call EXCEPT ![t].pc = "next", ![t].ids = UsersOf(call[t].c)]
    /\ UNCHANGED <<tables, sdk, glock, library, calls>>

\* The user contexts are deleted one after the other, as the game would do it.
DeleteNextUser(t) ==
    LET left == call[t].ids IN
    /\ call[t].pc = "next" /\ left # {}
    /\ LET k == CHOOSE k \in left : \A l \in left : k[2] <= l[2] IN
       call' = [call EXCEPT ![t].pc = "find", ![t].nested = TRUE, ![t].u = k,
                            ![t].ids = left \ {k}]
    /\ UNCHANGED <<tables, sdk, glock, library, calls>>

\* Fault: any result counts.
Succeeded_Any(res) == TRUE

\* sceNpWebApiTerminate only counts a success.
Succeeded(res) == res = "ok"

\* Only a user context that is gone lets the loop go on: any other result, success
\* too, is the result of the whole call, which does not count itself out.
GoesOn(res) == sdk >= 400 /\ res = "noUser"

UserDeleted(t) ==
    LET c == call[t].c res == call[t].res IN
    /\ call[t].pc = "deleted"
    /\ IF GoesOn(res)
       THEN /\ call' = [call EXCEPT ![t].pc = "next", ![t].nested = FALSE, ![t].res = "ok"]
            /\ UNCHANGED <<contexts, library>>
       ELSE /\ call' = [call EXCEPT ![t] = Idle]
            /\ contexts' = [contexts EXCEPT ![c].kept = @ + 1]
            /\ early' = IF res = "ok" THEN early + 1 ELSE early
            /\ IF Succeeded(res) THEN Enters(t, "uncount") ELSE UNCHANGED <<outer, overlapped>>
            /\ UNCHANGED <<active, initialized, torn>>
    /\ UNCHANGED <<users, userCount, requests, handles, sdk, glock, calls>>

HandlesBusy(c) == \E h \in HandlesOf(c) : handles[h].count > 0

\* The rest of terminateContext, with the lock in hand: unlocked says what becomes
\* of the context when it is given back.
Terminated(t, c, unlocked) ==
    IF sdk >= 400 /\ contexts[c].terminated
    THEN Go(t, "leaveContext") /\ contexts' = [contexts EXCEPT ![c] = unlocked]
    ELSE IF sdk >= 400 /\ (ContextBusy(c) \/ HandlesBusy(c))
         THEN Go(t, "drainContext")
              /\ contexts' = [contexts EXCEPT ![c] = [unlocked EXCEPT !.terminated = TRUE]]
         ELSE Go(t, "erase")
              /\ contexts' = [contexts EXCEPT ![c] =
                    [unlocked EXCEPT !.terminated = sdk >= 400, !.count = @ - 1]]

\* From 4.00 on the handles are aborted with the lock held: abortHandle takes
\* g_global_mutex.
LockToTerminate(t) ==
    LET c == call[t].c IN
    /\ call[t].pc = "next" /\ call[t].ids = {} /\ Free(t, c)
    /\ IF sdk >= 400 /\ HandlesOf(c) # {}
       THEN contexts' = [contexts EXCEPT ![c] = Locked(@, t)] /\ Go(t, "abortHandles")
       ELSE Terminated(t, c, contexts[c])
    /\ UNCHANGED <<users, userCount, requests, handles, sdk, glock, library, calls>>

AbortHandles(t) ==
    LET c == call[t].c IN
    /\ call[t].pc = "abortHandles" /\ glock = None
    /\ Terminated(t, c, Unlocked(contexts[c]))
    /\ UNCHANGED <<users, userCount, requests, handles, sdk, glock, library, calls>>

ContextDrained(t) ==
    LET c == call[t].c IN
    /\ call[t].pc = "drainContext" /\ Free(t, c)
    /\ ~ContextBusy(c) /\ ~HandlesBusy(c)
    /\ CountContext(c, -1)
    /\ Go(t, "erase")
    /\ UNCHANGED <<users, userCount, requests, handles, sdk, glock, library, calls>>

\* deleteContext takes the context and its handles away under g_global_mutex.
DeleteContext(t) ==
    LET c == call[t].c IN
    /\ call[t].pc = "erase" /\ glock = None
    /\ call' = [call EXCEPT ![t] = Idle]
    /\ IF contexts[c].there
       THEN /\ contexts' = [contexts EXCEPT ![c].there = FALSE]
            /\ handles' = [h \in DOMAIN handles |->
                  IF h \in HandlesOf(c) THEN [handles[h] EXCEPT !.there = FALSE] ELSE handles[h]]
            /\ Enters(t, "uncount") /\ UNCHANGED <<active, initialized, early, torn>>
       ELSE UNCHANGED <<contexts, handles, library>>
    /\ UNCHANGED <<users, userCount, requests, sdk, glock, calls>>

-----------------------------------------------------------------------------
Begin(t) ==
    /\ MayCall(t)
    /\ \/ Initialize(t) \/ BeginCheckTimeout(t)
       \/ \E c \in Known :
           \/ \E api \in {"createHandle", "terminateContext"} : BeginContextCall(t, api, c)
           \/ \E x \in Users : BeginCreateUserContext(t, c, x)
       \/ \E k \in Keys, api \in {"createRequest", "registerNotificationCallback",
                                 "deleteUserContext"} : BeginUserCall(t, api, k)
       \/ \E r \in DOMAIN requests, api \in Apis \cup {"deleteRequest"} :
           BeginRequestCall(t, api, r)
       \/ \E h \in DOMAIN handles, api \in {"abortHandle", "deleteHandle"} :
           BeginHandleCall(t, api, h)

Enter(t) == LockGlobal(t) \/ FindAndValidateContext(t) \/ FindUserContext(t) \/ FindRequest(t)
Leave(t) == ReleaseRequest(t) \/ ReleaseUserContext(t) \/ ReleaseContext(t)

WorkOnUser(t) ==
    \/ CheckUser(t) \/ MakeUser(t) \/ SetNotificationCallback(t)
    \/ DeleteUserContext(t) \/ UserContextDrained(t)

WorkOnRequest(t) ==
    \/ \E bad \in BOOLEAN : CreateRequest(t, bad)
    \/ \E timer \in {"set", "off"} : SetRequestTimeout(t, timer)
    \/ AddToRequest(t) \/ AbortRequest(t)
    \/ StartSend(t) \/ CheckSend(t) \/ DecideHttp(t) \/ MakeHttp(t)
    \/ StartRead(t) \/ EndRead(t) \/ Ask(t) \/ HttpReturns(t)
    \/ DeleteRequest(t) \/ RequestDrained(t)
    \/ \E rs \in SUBSET DOMAIN requests : CheckTimeout(t, rs)

WorkOnHandle(t) ==
    CreateHandle(t) \/ GetHandle(t) \/ ReleaseHandle(t) \/ DeleteHandle(t) \/ HandleDrained(t)

WorkOnContext(t) ==
    \/ TerminateContext(t) \/ ListUsers(t) \/ DeleteNextUser(t) \/ UserDeleted(t)
    \/ LockToTerminate(t) \/ AbortHandles(t) \/ ContextDrained(t) \/ DeleteContext(t)

WorkOuter(t) ==
    \/ SetInitialized(t) \/ CreateLibraryContext(t)
    \/ ReadCount(t, "count", "counted") \/ CountUp(t)
    \/ ReadCount(t, "uncount", "uncounted") \/ CountDown(t)
    \/ TestCount(t) \/ ClearInitialized(t)

Work(t) ==
    \/ WorkOuter(t) \/ Enter(t) \/ Leave(t)
    \/ WorkOnUser(t) \/ WorkOnRequest(t) \/ WorkOnHandle(t) \/ WorkOnContext(t)

Next == \E t \in Threads : Begin(t) \/ Work(t)

Spec == Init /\ [][Next]_vars

\* A thread inside the library goes on: the locks are ordinary mutexes, the waits
\* poll, and a call into the HTTP library comes back.
FairSpec == Spec /\ \A t \in Threads : WF_vars(Work(t))

-----------------------------------------------------------------------------
(* Properties.                                                             *)

InsideRequest == {"inRequest", "sendCheck", "create", "make", "http", "readDone", "leaveRequest",
                  "drainRequest"}
InsideUser == InsideRequest \cup {"inUser", "leaveUser", "drainUser"}
InsideContext == InsideUser \cup
    {"inContext", "leaveContext", "makeUser", "inHandle", "drainHandle", "list", "next",
     "abortHandles", "drainContext"}

\* Calls that are counted in at a request, a user context, a context.
Marks(t) == Mark(call[t].api) = 1
UsingRequest(r) == {t \in Threads : call[t].pc \in InsideRequest /\ call[t].r = r /\ Marks(t)}
UsingUser(k) == {t \in Threads : call[t].pc \in InsideUser /\ call[t].u = k}
UsingContext(c) == {t \in Threads : call[t].c = c /\ call[t].pc \in InsideContext}

\* A terminateContext that is deleting a user context is counted in twice.
NestedIn(c) == {t \in Threads : call[t].c = c /\ call[t].nested}

Contexts ==
    [there : BOOLEAN, count : Int, terminated : BOOLEAN, owner : Threads \cup {None},
     depth : Nat, kept : Nat, lost : Nat]
UserContexts == [user : Users, count : Int, deleted : BOOLEAN]
Requests ==
    [there : BOOLEAN, u : Keys, count : Int, bad : BOOLEAN, aborted : BOOLEAN, timed : BOOLEAN,
     timer : {"off", "set", "runs"}, http : {"none", "partial", "whole"}, below : Nat,
     cleared : BOOLEAN, orphan : BOOLEAN, twice : BOOLEAN, told : BOOLEAN, late : BOOLEAN]
Handles == [there : BOOLEAN, c : 1 .. MaxContexts, count : Int, deleted : BOOLEAN]
Places == InsideContext \cup {"idle", "find", "global", "deleted", "erase"}
GameCalls == Apis \cup
    {"", "checkTimeout", "createUserContext", "deleteUserContext", "createRequest",
     "registerNotificationCallback", "deleteRequest", "createHandle", "abortHandle",
     "deleteHandle", "terminateContext"}
Calls ==
    [pc : Places, api : GameCalls, c : Nat, u : Nat \X Nat, user : Users \cup {0}, r : Nat,
     h : Nat, nested : BOOLEAN, res : {"ok", "noUser", "other"}, ids : SUBSET Keys]

OuterPlaces ==
    {"none", "set", "create", "count", "counted", "uncount", "uncounted", "written", "clear"}
Outers == [pc : OuterPlaces, n : Int, c : Nat]

\* The tables hold what the structures declare; a request is of a context there was.
TypeOK ==
    /\ sdk \in Sdks
    /\ contexts \in Seq(Contexts) /\ Len(contexts) <= MaxContexts
    /\ DOMAIN users \subseteq Keys /\ users \in [DOMAIN users -> UserContexts]
    /\ userCount \in 0 .. UserIdLimit - 1
    /\ requests \in Seq(Requests) /\ \A r \in DOMAIN requests : requests[r].u[1] \in DOMAIN contexts
    /\ handles \in Seq(Handles) /\ \A h \in DOMAIN handles : handles[h].c \in DOMAIN contexts
    /\ call \in [Threads -> Calls]
    /\ glock \in Threads \cup {None}
    /\ outer \in [Threads -> Outers]
    /\ active \in Int /\ early \in Nat /\ initialized \in BOOLEAN
    /\ torn \in BOOLEAN /\ overlapped \in BOOLEAN
    /\ calls \in 0 .. MaxCalls

\* Every way out of a call gives back exactly what the way in counted, on all the
\* error paths too, but for the calls whose return leaves a count behind (kept) or
\* takes one too many (below).
CountsAreExact ==
    /\ \A c \in DOMAIN contexts :
          contexts[c].count = Cardinality(UsingContext(c)) + Cardinality(NestedIn(c)) + contexts[c].kept
    /\ \A k \in DOMAIN users : users[k].count = Cardinality(UsingUser(k))
    /\ \A r \in DOMAIN requests :
          requests[r].count = Cardinality(UsingRequest(r)) - requests[r].below

\* A request is not taken from under a call that is using it, nor its HTTP objects,
\* unless setMultipartContentType or addMultipartPart took its count below what is
\* in use; a user context never is.
InUseStays ==
    \A t \in Threads :
        /\ call[t].pc \in InsideUser => call[t].u \in DOMAIN users
        /\ call[t].pc \in InsideRequest /\ Marks(t) =>
              requests[call[t].r].there \/ requests[call[t].r].below > 0

\* From 4.00 on a context leaves the table only when no call is inside; before that
\* a call may find itself working on a context nobody can reach.
ContextOutlivesItsCalls ==
    \A t \in Threads : call[t].pc \in InsideContext /\ sdk >= 400 => contexts[call[t].c].there

\* A context that is made is counted a little later, one that is erased a little later not.
There == {c \in DOMAIN contexts : contexts[c].there}
Counting == {t \in Threads : outer[t].pc \in {"count", "counted"}}
Uncounting == {t \in Threads : outer[t].pc \in {"uncount", "uncounted"}}
AtRest == \A t \in Threads : outer[t].pc = "none"

\* The library counts the contexts there are, but for those whose sceNpWebApiInitialize
\* or sceNpWebApiTerminate has yet to do it, for the sceNpWebApiTerminate that returned
\* success after it had deleted one user context, and for a count lost to another that
\* was made at the same time.  It is marked as initialized, and so checks timeouts, while
\* it counts a context, unless such a call overlapped another (then the mark may be cleared
\* with a context there) or reported success too early.
ActiveIsTrue ==
    /\ ~torn =>
          active = Cardinality(There) - early - Cardinality(Counting) + Cardinality(Uncounting)
    /\ ~overlapped /\ early = 0 /\ AtRest => (initialized <=> active > 0)

\* What the library counts is what there is.
CountsAreTrue == TypeOK /\ CountsAreExact /\ ActiveIsTrue

\* The HTTP request of an aborted request has been aborted too, unless a send made it
\* after the abort: its check came before, or let the request pass for having timed out.
AbortIsHeard ==
    \A r \in DOMAIN requests :
        LET q == requests[r] IN q.aborted /\ q.http = "whole" => q.told \/ q.late

\* The ids of HTTP objects are overwritten, and nobody can delete the objects, only after
\* a method sendRequest does not know or by two sends of one request at a time; and with
\* a request they are left only by deleteUserContext, which deletes none, or if the
\* request was taken from under a send.
NothingLeftBehind ==
    \A r \in DOMAIN requests :
        LET q == requests[r] IN
        /\ q.orphan => q.bad \/ q.twice
        /\ ~q.there /\ q.http # "none" => q.cleared \/ q.below > 0

\* What a request has made with the HTTP library is aborted and deleted with it, but
\* for the races and the unknown method just named.
HttpGoesWithRequest == AbortIsHeard /\ NothingLeftBehind

\* Of two calls that delete the same user context, handle or library context only one
\* waits and deletes; a request has no such mark (TwoDelete below).
OneDeleterEach ==
    \A t, u \in Threads : t # u /\ call[t].pc = call[u].pc =>
        /\ call[t].pc = "drainUser" => call[t].u # call[u].u
        /\ call[t].pc = "drainHandle" => call[t].h # call[u].h
        /\ call[t].pc = "drainContext" => call[t].c # call[u].c

\* Nothing is deleted while it is in use, nor by two calls, but for what is named above.
DeletionsWait == InUseStays /\ ContextOutlivesItsCalls /\ OneDeleterEach

-----------------------------------------------------------------------------
(* What can keep a call from ending.                                       *)

\* deleteRequest kept the lock of a context.
LockLost == \E c \in DOMAIN contexts : contexts[c].lost > 0

\* terminateContext holds the context's lock and wants g_global_mutex, which is held
\* by a call that wants the lock.
LocksCrossed ==
    \E t, u \in Threads : /\ call[t].pc = "abortHandles" /\ glock = u
                         /\ call[u].pc = "global" /\ contexts[call[t].c].owner = t

\* Two deletions of one request wait for each other.
TwoDelete ==
    \E t, u \in Threads : t # u /\ call[t].pc = "drainRequest" /\ call[u].pc = "drainRequest"
                         /\ call[t].r = call[u].r

\* terminateContext waits for a call that has returned.
WaitsForReturned ==
    \E t \in Threads : call[t].pc = "drainContext" /\ contexts[call[t].c].kept > 0

Through(t) == call[t].pc = "idle" /\ outer[t].pc = "none"

\* Once the game makes no more calls every call ends, but for these four reasons:
\* there is no other way for the library to hang.
CallsEnd ==
    \A t \in Threads :
        ~Through(t) ~>
            (Through(t) \/ LockLost \/ LocksCrossed \/ TwoDelete \/ WaitsForReturned)
=============================================================================
