# A TLA+ verification of shadNet-PS4

shadNet-PS4 is a plugin for jailbroken PS4 consoles. It hooks the console's network-platform
libraries (`libSceNp*`) and answers the game's calls from a shadNet server instead of PSN. It is
C++ with threads everywhere: game threads call the hooked functions, every signed-in user has a
`ShadNetClient` with three threads of its own, a worker signs users in again, Matching2, signaling,
WebApi and the invitation dialog have threads as well. What crosses these threads is shared maps,
mutexes, condition variables, semaphores and atomics. This directory models that control and leaves
payloads alone.

Paths below are relative to `src/src/`. `np/` stands for `core/libraries/np/`.

## 1. Inventory

| part | state it keeps | operations | properties that make it correct |
|---|---|---|---|
| **NpAuth** `np/np_auth`, `np/np_handler/np_handler_auth.cpp` | `g_auth_requests` (limit 16), an `AuthRequestCtx` per started request, `m_pending_auth` | create, get authorization code / id token, wait, poll, abort, delete; reply; failure on sign-out | every request completed once; the game's buffer is written only before the game was told the end; nobody waits for ever |
| **ShadNetClient** `shadnet/client.cpp` | `m_state`, three flags, two semaphores, the send queue, the socket | start, connect/reader/writer threads, submit, two waits, stop | a wait reports Ok only for an accepted login; no lost wakeup; `Stop()` returns |
| **NpHandler** `np/np_handler/np_handler.cpp` | `m_clients`, `m_reconnects`, `m_initialized`, the state callback | user logs in / out, worker finds lost clients and reconnects, server rejects | a logged-out user stays out; the game is told what is; no client is lost or shared |
| **NpManager** `np/np_manager` | request table (limit 32), queue of state events, callback tables | create/check/abort/wait/poll/delete; register/unregister; `sceNpCheckCallback` | an aborted request reports ABORTED; events reach the game in order, each once |
| **Matching2** `np/np_matching2` | contexts, room cache, event queue, dispatcher thread, per-request callbacks | context create/start/stop/destroy, room requests, server events | no callback before the call that asked for it returns; no callback after destroy; stop of the dispatcher returns |
| **Signaling** `np/np_signaling` | contexts, connections, transports with a handshake state, activations waiting for an address, three threads | activate, deactivate, terminate, handshake and control packets over UDP, timeouts, events | the end of a connection is told, last; a closed transport stays closed; MUTUAL_ACTIVATED is mutual |
| **P2PTransport** `core/net_util/net_p2p.cpp` | one UDP socket, three byte-bounded queues | start, stop, send, receive per channel | a datagram is delivered to its channel once, in order, never from an earlier socket |
| **TUS** `np/np_tus`, `np/np_handler/np_handler_tus.cpp` | title contexts, requests with a context per operation and the state of a transfer, `m_pending_tus` | some sixty calls that start an operation; wait, poll, abort, delete; reply; failure on sign-out | every operation answered or known to be forgotten; a reply is its own; what is transferred in parts is whole |
| **Score** `np/np_score`, `np/np_handler/np_handler_score.cpp` | title contexts, requests whose one result serves operation after operation, a cache of game data, `m_pending_score` | record, rankings, comments, game data in pieces; wait, poll, abort, delete | a late reply does not complete a later operation; an aborted request stays aborted |
| **WebApi / WebApi2** `np/np_web_api*` | library contexts, user contexts, requests, push-event filters and queues | create/delete with reference counts, send, abort, push delivery | a handle in use is not freed; deletion waits or fails, never hangs |
| **Utility** `np/np_utility` | title contexts and lookup requests they own | word filter calls, abort, delete | deleting a title context completes and deletes what it owns |
| **Trophy, friends, invitations** `np/np_trophy`, `np/np_handler/*` | unlocked sets, friend states | sync on sign-in, unlock, notifications | unlocked trophies are never lost by a merge |
| **Dialogs** `core/libraries/invitation_dialog`, `shadnet/dialogs` | dialog status, its thread | open, update, close | status follows INITIALIZED, RUNNING, FINISHED; close ends the thread |
| the rest | stubs, hooks that pass on, parsers, configuration, jailbreak glue | | |

`PROJECT.json` "components" lists every part with its sources, including those left out, with reasons.

**How they interact.** `sceUserServiceGetEvent` (hooked) calls `UpdateNpStateFromEvent`, which calls
`NpHandler::OnUserLoggedIn/OnUserLoggedOut`. `NpHandler::ConnectUser` makes a `ShadNetClient`,
waits for its login, wires the notification callbacks, hands it to Matching2 (`SetMmShadNetClient`) and
stores it in `m_clients`. Library calls fetch a user's client from `m_clients`, submit a packet and
register the packet id in one of the `m_pending_*` maps. The client's reader thread looks the
reply's packet id up in that map and completes the request. `DisconnectUser` takes the client out of `m_clients`,
joins its threads, fails what is pending for the user and fires the state callback, which puts an event into
NpManager's queue; the game collects it in `sceNpCheckCallback`.

**Where it is hard.** The hook and the worker change one user's sign-in at the same time. The reader completes a request
while the game aborts, deletes or waits for it. Packet ids count from 1 in every client but key one map.
A reconnect is decided from lists copied before the user logged out. A client is destroyed under the mutex
its reader may need. Semaphores and condition variables are signalled from several exits.
`PROJECT.json` "hazards" lists each at its line, with the property that would catch it or the reason none does yet.

## 2. What is modelled

### NpAuth (`NpAuth.tla`, `MCNpAuth.tla`, `NpAuth_Proofs.tla`)

| model | code |
|---|---|
| `requests`, `result`, `code` | `g_auth_requests`; `AuthRequestCtx::result`; the contents of `*auth_code` |
| `call[t]` | where a game thread is inside the library, with the pointers it took along |
| `pending` | `m_pending_auth`, one entry per packet id |
| `clients`, `clientState`, `counter`, `inFlight` | `m_clients`; `IsConnected/IsAuthenticated`; `m_pkt_counter`; packets awaiting a reply |
| `reader[k]` | what the reader of client k holds between taking the entry and completing it |
| `task[h]` | `ConnectUser` / `DisconnectUser` in the hook and in the worker |
| `CreateNpAuthRequest`, `GetAuthorizationCode`, `GetIdToken`, `StubToken` | the entry points, up to the unlock of `g_auth_request_mutex` |
| `LookUpClient`, `CheckAuthenticated`, `SubmitRequest` | the three steps of `RequestAuthorizationCode` |
| `FindAsyncRequest`, `WaitReturns`, `PollReturns`, `AbortRequest`, `DeleteRequest` | the calls of the same names |
| `OnAuthReply`, `CompleteReply` | taking the entry under the mutex; writing code and result after it |
| `StopClient`, `FailPendingRequests` | the two halves of `DisconnectUser` after the erase |

A step is what one thread does under one mutex, so every unlock in the code is a point of
interleaving. Argument checks that change nothing, the text of codes and tokens, and the polling
period are left out.

### ShadNetClient (`ShadNetClient.tla`, `ShadNetClient_Proofs.tla`)

One client from `Start()` to the end of `Stop()`. Variables are the members (`state`, `terminate`,
`connected`, `authenticated`, `semAuth`, `queue`) and the program counters of the caller, the connect,
reader and writer threads and the submitting game threads. Atomics are read and
written one at a time; the writer holds `m_mutex_send_queue` from its test to its wait (`locked`,
`to_wait`). The server answers in order, refuses, sends an unusable header, sends a login reply
without a body, goes silent or closes at any time. `CheckAuthenticated`, `Acquire`, `Woken` and
`ReportState` are the steps of `WaitForAuthenticated`, each read of a flag one of its own; `ReaderLeaves` to
`ReaderExits` the end of the reader, in which the test of `m_authenticated`, the test and the store of `m_state`, the
release and the two resets are six steps.

### NpHandler (`NpHandler.tla`, `MCNpHandler.tla`, `NpHandler_Proofs.tla`)

`m_clients`, `m_reconnects`, `m_initialized`, the worker's two snapshots (`dropped`, `due`), the user the hook and the
worker are each working on (`task`), the reader of each client as far as it waits for `m_mutex_clients`
(`OnClientRejected`), the client Matching2 keeps (`mm`), and the last state told to the game.
`ConnectUser` is split where the code releases the mutex: `CheckSignedIn`, `ConnectSucceeds` or `ConnectFails`,
`PublishClient` (Matching2), `StoreClient`, `DestroyClient` (the client that was replaced, whose destructor joins
its reader *while the mutex is held*), `TellSignedIn`. `DisconnectUser`
is `DisconnectUser`, `StopClient`, `TellSignedOut`. The worker is `CollectDropped`, `NextDropped`, `CheckActive`,
`MarkForReconnect`, `CollectDue`, `NextDue`, `EndAttempt`. `raced` is a history
variable: users on whom both threads worked at one time. `scene` picks, at the start, the users there are and the
clients that will ever be made; `First` is the client with which Initialize signs a user in.

### Matching2's event dispatcher (`EventDispatcher.tla`, `EventQueue.tla`, `MCEventDispatcher.tla`, `EventDispatcher_Proofs.tla`)

Everything Matching2 tells the game goes through one queue and one thread of
`np_matching2_internal.cpp`. `EventQueue` is what that promises: events are delivered in the order in
which they were scheduled, each at most once, and none while the call it answers is open.
`EventDispatcher` is the code, and implements it (`DeliversInOrder`).

| model | code |
|---|---|
| `queue`, `ready` | `pending_events`; the dispatcher's local batch |
| `holds`, `Hold`, `Release` | `dispatch_holds`, `DispatchHold` and its destructor |
| `dispatcher` | where `EventDispatcherThreadMain` is; it owns `queue_mutex` in `locked` and `tested` |
| `Lock`, `TestRunning`, `Wait`, `TakeBatch`, `FireEvent` | one turn of its loop, cut where another thread can see the difference |
| `Push`, `ScheduleEvent`, `AnswerInCall` | `push_back` under the mutex; the notification (`Notify`, `NotifyInCall`) follows in a step of its own |
| `EnterCall`, `Submit` | a request call up to its hold; `MmSubmitRequest` |
| `InitEventDispatcher`, `Initialized` | `sceNpMatching2Initialize`, which goes on when no thread could be created |
| `Terminate`, `StopRunning`, `NotifyStop`, `Join`, `ClearEvents` | `sceNpMatching2Terminate` as far as `TermEventDispatcher` |

`waiting` of the abstract queue is `ready \o queue`, so taking a batch is a stutter and a
delivery is `FireEvent`; `open` is the set of events of held calls. `born`, `strays`, `missed` and `scheduled` are history.
Contexts, which `Terminate` resets as well, are in the next module; not modelled are callbacks that
call back into the library; every event is due at once because the code sets `fire_at` to the present.
Requests answered from the cache take no hold and are among the events nobody asked for.

### Matching2's contexts and requests (`Matching2.tla`, `MCMatching2.tla`, `Matching2_Proofs.tla`)

What the dispatcher's events are about. The dispatcher is in this module only by what `EventQueue` promises.

| model | code |
|---|---|
| `slots`, `nextId`; `started`, `stopping`, `doomed` | `m_contexts`, `m_next_id`; `started`, `stop_pending`, `destroy_pending` of each `ContextObject` |
| `parked` | `per_request_callback` and `per_request_callback_arg`, which no lock protects: written and read one at a time |
| `Park`, `StoreArgument`; `ConsumeCallback`, `ConsumeArgument` | `StoreRequestCallback`; `ConsumeRequestCallback` |
| `CheckClient`, `AnswerInCall`, `SubmitRequest`, `Register` | the steps of `MmSubmitRequest`, for requests, starts and stops alike |
| `mm`, `connected`, `counter`, `pending` | `g_mm.client`, authenticated clients, their packet counters, `g_mm.pending` |
| `OnMatching2Reply`, `DispatchRequestComplete` | a reader takes the entry; looks up the context *that has the id now* |
| `FireEvent`, `CompleteStop` | the callback of STOPPED, and what follows it |
| `refs`, `AddContextRef`, `ReleaseContextRef` | signaling's `context_refs` |
| `ContextStart`, `ContextStop`, `DestroyContext`, `Remove`, `Complete` | the `ContextManager`'s operations |
| `TermEventDispatcher`, `Reset` | the parts of `sceNpMatching2Terminate` |

One request stands for `sceNpMatching2CreateJoinRoom` and the other entry points of its form, which ignore
the failure of `MmSubmitRequest`. `ClearMmShadNetClient` has no caller, so nothing empties `pending`. The check of
`IsInitialized` is taken together with the operation that follows it. `asker` (the context that asked) and the sets
`lost`, `raced`, `overtaken`, `unpaired` are history. Request numbers, the room cache and server events are not in the module.

### A user's sessions (`UserSession.tla`)

What Tus and Score see of NpHandler and ShadNetClient: a sign-in is a session with a client whose packets are
numbered from one; a connection may be lost; `DisconnectUser` is cut where it releases its locks (`ClientRemoved`,
`ClientStopped`, `PendingFailed`). `missed` is history: packets answered before their entry was made. Tus and Score
conjoin to each of these actions what happens to their own tables.

### TUS (`TusApi.tla`, `Tus.tla`, `MCTus.tla`, `Tus_Proofs.tla`)

`TusApi` is the table of the calls of `np_tus.cpp` that start an operation: which command of
`np_handler_tus.cpp` a call submits, for whom, and which faulty arguments it turns down. `Ops` is what these rows leave
for the rest to tell apart: does the length of the game's array fit the reply, is a virtual user named, which part of the
transfer state does the call use.

| model | code |
|---|---|
| `titles`, `requests`, `made` | `g_title_ctxs`, `g_requests` and the next ids |
| `requests[r].xfer` | the `TusTransferState` of a request: target, total, chunks, bytes read |
| `ctxs` | the `TusRequestCtx` objects, a new one for each operation, in the order of their creation |
| `pending`, `reader` | `m_pending_tus`; the context whose reply the reader holds between the unlock and the result |
| `call[t]` | where a game thread is: `ResolveTus`, the transfer, the start, the submission, the registration, the wait |
| `ResolveTus`, `ReadData`, `ReadDataAt`, `WriteData`, `Stray` | the lookup; the transfer under the mutex, taken again after it was released; the same on a request deleted meanwhile |
| `StartOp`, `SubmitRequest`, `Register` | the three steps from NpHandler's search for the client to `m_pending_tus.emplace`, with no lock over them |
| `WaitAsync`, `WaitAgain`, `WaitReturns`, `PollAsync`, `AbortRequest`, `DeleteRequest` | the calls of the same names |
| `TakeReply`, `CompleteOp` | `OnTusReply` up to the unlock, and after it |
| `FailEntries` | the loop of `FailPendingRequests` over `m_pending_tus` |

A constant of the module, `Games`, says what a game does: which kinds of call, how many, how many sessions.
`lost`, `wrong`, `spoilt`, `read`, `blob`, `fits`, `astray` of a context are history.

### Score (`ScoreApi.tla`, `Score.tla`, `MCScore.tla`, `Score_Proofs.tla`)

Built like Tus, with the difference that matters: the object a reply completes is the request, and `BeginOp`
clears the result of the operation before, answered or not. `objs` are the `ScoreRequestCtx` objects; `ops` are the
operations, which the code does not know as such (history). Game data is read from the reply or from the
request's cache (`ReadData`, `Cached`, `AfterRead`) and written in pieces (`WriteData`, `Announced`). `mixed`
says that an operation was begun over one that had no result yet, and `turned` that the character was changed while
data were being read (`SetPlayerCharacterId`): the code allows both.

### WebApi (`WebApi.tla`, `MCWebApi.tla`, `WebApi_Proofs.tla`)

Library contexts, user contexts, requests and handles with their use counts, `g_global_mutex` (`glock`), one recursive
lock per context (`owner`, `depth`). A call enters by `LockGlobal`, `FindAndValidateContext`, `FindUserContext`, `FindRequest`, works
without a lock, and leaves by `ReleaseRequest`, `ReleaseUserContext`, `ReleaseContext`; each is a step of its own.

| model | code |
|---|---|
| `Initialize`, `SetInitialized`, `CreateLibraryContext`, `ReadCount`, `CountUp` | `sceNpWebApiInitialize`: test and store of the mark, `createLibraryContext`, the count |
| `CheckUser`, `MakeUser`, `DeleteUserContext`, `UserContextDrained` | `createUserContext`, `deleteUserContext` before and from firmware 4.00 |
| `CreateRequest`, `SetRequestTimeout`, `AddToRequest`, `StartSend` .. `MakeHttp`, `StartRead`, `EndRead`, `Ask`, `HttpReturns`, `AbortRequest`, `DeleteRequest`, `RequestDrained` | the calls on a request; `http` is what it has made with the HTTP library |
| `CheckTimeout` | `sceNpWebApiCheckTimeout` over all contexts |
| `CreateHandle` .. `HandleDrained` | handles |
| `TerminateContext`, `ListUsers`, `DeleteNextUser`, `UserDeleted`, `LockToTerminate`, `AbortHandles`, `ContextDrained`, `DeleteContext` | `sceNpWebApiTerminate`: it deletes the user contexts as the game would (`nested`), aborts the handles, waits, erases |
| `ReadCount`, `CountDown`, `TestCount`, `ClearInitialized` | the end of `sceNpWebApiTerminate` |

`Mark` and `Release` say which calls on a request count themselves in and out at it. `outer` is where a thread is in `sceNpWebApiInitialize` and after `terminateContext`: the mark `g_is_initialized` and the count
`g_active_library_contexts` are read and written there without a lock, one access at a time (`active`, `initialized`). `early`, `torn`, `overlapped`
(a Terminate that succeeded too early, a count written over another, two threads at the count at once), `kept` and `lost` of a
context, and `below`, `cleared`, `orphan`, `twice`, `told`, `late` of a request are history: by which of the code's own
slips a count or an HTTP object went astray.

### What `sceNpCheckCallback` delivers (`Callbacks.tla`, `MCCallbacks.tla`)

The queue of sign-in states of `np_manager_callbacks.cpp` and the queue of push events of `np_web_api_internal.cpp`.
A callback may call the library again, so that each thread has a `stack` of checks; its top says where
it is. `Check` is `DispatchPendingNpStateCallbacks` up to the unlock (copy of the callbacks, all queued states), `CallState` one call;
`LockCallbacks`, `BeginEvent`, `CallPush`, `EndEvent`, `EndPushes` are `DrainPushEvents` under
`g_np_callbacks_mutex` (`mutex`) and the two recursive locks (`glock`), walking the live tables. Registration and filters
are in the module with the rules of the firmware generations; `heard` of each callback is history.

### Signaling (`Signaling.tla`, `MCSignaling.tla`)

Two consoles run the code of `np_signaling_handler.cpp` and a network lies between them. `net` only grows: a packet that is
never received is lost, one received late is delayed or overtaken, one received again is a duplicate.

| model | code |
|---|---|
| `transports`, `conns`, `queue` | `peer_transports`, `connections` with `npid_to_conn`, `pending_activations` |
| `todo[s][th]` | what a thread has still to do after it released the mutex |
| `ActivateSig1`, `DeactivateSig1`, `TerminateConnection` | the game's calls |
| `HandleHandshakePacket`, `HandleActivation`, `HandleControlPacket`, `StepPendingConnections` | the runtime thread |
| `TakeActivations`, `ResolvePeer`, `ResolveFails` | the activation thread |
| `StartTransportHandshakeInitiator`, `EstablishConnection`, `DispatchConnectionEvent`, `CloseConnection`, `CloseTransport`, `RemoveConnections` | the functions those threads share |

A `scene` says which contexts there are, which of them are `strangers`, and the bounds. A stranger's console is not
modelled: any packet may come from it at any time. Between two modelled consoles the threads of one console take turns (`Free`); on
a console among strangers they interleave as they may. A reply is sent at once although the code takes the lock again
first, which `net` makes no difference to. `late`, `held`, `shared`, `crossed`, `heard`, `gone` are history.

### Interfaces

ShadNetClient appears in NpAuth, NpHandler, Matching2 and UserSession by its interface only: up, dropped, stopped.
`OkOnlyIfAccepted` and `LossIsVisible` of its own module are what justifies that interface. Modelled by how they are used:
the TCP connection, the server, the UDP network, the HTTP library.

## 3. What the runs show

A run's property is often the conjunction of several named parts; the parts are definitions of their own, each
with the comment that states it.

| run | bounds | shows |
|---|---|---|
| `npauth_requests` | 2 threads, 1 user, 2 clients, 2 contexts, table of 1 | `OneCompleter`, `CodeOnlyOnSuccess`, `UnansweredIsExplained`, `DeletedNeverBlocks`, `NoWriteAfterReturn` |
| `npauth_collision` | 1 thread, 2 users, 2 clients, 2 asynchronous requests at a time, no worker | `MisdeliveredOnlyIfLost` |
| `client` | 2 attempts, 2 requests, 1 game thread, fair | `OkOnlyIfAccepted`; `ReaderLeavesWord` (`StuckOnlyAfterAccept`, `LossIsVisible`); `NoWakeupIsLost` (`StopReturns`, `QueueIsTaken`) |
| `handler` | 2 users with 2 clients, or 1 user with 3, fair | `SettledIsRight` (`LoggedOutStaysOut`, `ToldRight`); `OneOwnerEach` (`ClientsAreOwned`, `OverwriteOnlyByRace`, `NoConnectionLeaks`); `WorkerKeepsUp` (`LossIsNoticed`, `RejectionEndsReconnects`) |
| `dispatcher` | 2 threads, 2 events, 2 lives, fair | `NoEarlyCallback`, `StuckOnlyByMissedWakeup`, `OldEventsAreStrays`, the refinement `DeliversInOrder`; `NoWakeupIsLost` (`EventsAreTaken`, `TerminateReturns`) |
| `matching2_contexts` | 2 threads, 2 contexts, 1 slot, 3 starts, 2 lives | `GoesWithItsStop` (`DoomedIsRemoved`, `StoppedBeforeRemoved`); `RefsCover` |
| `matching2_requests` | 2 threads, 2 requests, 2 contexts, 2 slots, 2 clients | `OwnCallback`; `OneAnswerOrLost` (`AnsweredOnce`, `RequestsWait`) |
| `tus` | 2 threads, 1 request, 2 operations and 2 sessions, or 3 transfers of 2 parts, fair | `UnansweredIsExplained`; `RepliesAreOwn` (`MisdeliveredOnlyIfLost`, `SpoiltOnlyByAbort`, `RepliesFit`, `NoneAstray`); `TransfersAreWhole` (`EachChunkOnce`, `BlobOneTarget`); `WaitEnds` |
| `score` | 2 threads, 1 request, 2 operations, 1 session, data of 2 parts | `UnansweredIsExplained`; `RepliesAreOwn` (`AnswerIsOwn`, `SpoiltIsExplained`, `RepliesFit`); `GameDataIsWhole` (`ReadsGoOn`, `BlobIsWhole`); `AbortSticks` |
| `webapi` | 2 threads, 2 contexts, 1 request, 1 handle, 6 calls, firmware 2.00 and 4.00, fair | `CountsAreTrue` (`CountsAreExact`, `ActiveIsTrue`); `DeletionsWait` (`InUseStays`, `ContextOutlivesItsCalls`, `OneDeleterEach`); `HttpGoesWithRequest` (`AbortIsHeard`, `NothingLeftBehind`); `CallsEnd` |
| `callbacks` | 2 threads, 2 checks, 4 things made in all | `StatesReachTheGame` (`StatesInOrder`, `StatesHeard`, `ReachabilityIsNews`); `PushesReachTheGame` (`PushesInOrder`, `PushesHeard`, `UnregisteredIsSilent`); `NobodyIsStuck` |
| `signaling` | four scenes, at most 3 calls of the games in each | `EndIsToldLast` (`EndIsTold`, `DeadIsLast`); `MapsAgree` (`StatusAgrees`); `SidesAgree` (`MutualIsMutual`, `HalfOpenIsExplained`); `ClosedStaysClosed` |

The type invariant of each module is a conjunct of one of its run's properties, except for NpAuth and
the event dispatcher, where it is proved (section 4) and no longer run.

**Why the bounds suffice.** *NpAuth*: two threads on a table of one slot reach both reuse of an id by the other
thread and every pair of racing calls; a second context is needed for that reuse and a third adds nothing
a symmetric pair does not show. Two clients give a sign-out followed by a sign-in, and the collision of
counters that start at one: `MaxPkt = 1` suffices since both first packets are numbered 1. `AsyncKinds` and `Handlers` cut the second run down to what it is
about: asynchronous requests, of which one thread has two outstanding, and one thread that signs users in and out. *Client*: two attempts have
a failed one before a successful one, two requests let one arrive while the writer holds the other. *Handler*: two
users with two clients let one user get both, or each lose theirs; one user with three is signed in, lost, and signed
in by both threads, so that a client is replaced. *Dispatcher*: two threads hold at once or one schedules while the
other holds; two lives let an event outlive the first. *Matching2*: two contexts in one slot reuse its id; the
third start is the stop of the second context that an old STOPPED could end; two clients let packet ids meet; contexts
are not started in the run of requests, since requests do not ask whether they are. *Tus*: what
can go wrong between operations takes two of them on one request, by two threads, and two sessions for
packet numbers that meet; a transfer takes three calls of two parts each (a third part's claim collides with the second's, or a
chunk for another target comes between two; two calls where reads meet writes), and no sign-in, since parts are counted before anything is sent. *Score*: two operations
on one request are an operation over another; of two characters one is changed for the other once. A second session would add only what the `tus` run shows of the same code. *WebApi*: six
calls are four that make a context, a user context, a request and a handle or a send, and two that race; with a second context in the making, or a
handle, four (`MaxShared`), which still have an Initialize overlap a Terminate and another Initialize; `UserIdLimit` is 2 so that the
second user context of a context finds no number. *Callbacks*: one of the eight slots, one kind of push
callback (the three kinds share the walk and differ in the filters' rules), and any four of states, registrations, pushes, filters and
push callbacks: a state callback with three states, a filter with a callback and two pushes. *Signaling*: `BothModelled` is two games that activate each
other and may leave; `Again` is one context that activates again after its connection ended, with two transports; `Shared` is two
contexts on one transport, whose peer is a stranger; `Crossed` is two contexts of one console and one of the other, all modelled, where nothing ends, so that the
requests of one context meet the connection of the other. The bounds are `MaxLives`, `MaxPkt`, `MaxStarts`, `MaxAttempts`, `MaxSubmits`, `MaxClients`, `MaxTitles`,
`MaxRequests`, `MaxOps`, `MaxSessions`, `MaxParts`, `MaxContexts`, `MaxHandles`, `MaxCalls`, `MaxShared`, `MaxMade`, `MaxStates`, `MaxPushes`, `MaxRegs`,
`MaxFilters`, `MaxPushCbs`, `MaxChecks`, `MaxDepth`, the records `Games` and `Scenes`, the finite sets of objects, and `Free`; each is a constant or
named where it is defined.

**What the properties say about known weak points.** Several properties have an exception in their
statement, because the code has one; the run shows that nothing else leads there:

- `UnansweredIsExplained` (NpAuth): `m_pending_auth` is keyed by the packet id and all clients count from one: a request whose id has an entry is dropped by
  `emplace` (`refused`). `RequestAuthorizationCode` keeps the client it has found: an entry made for it after the sign-out has failed the others, or left with it
  when another sign-in replaces it in `m_clients`, is nobody's (`stranded`). In each case the caller waits for ever. The run reaches all three.
- `MisdeliveredOnlyIfLost` (NpAuth): the reply meant for one user may complete the other's request, as it does in the run. This needs a packet still on its way
  without an entry of its own: refused by `emplace`, or left behind (`orphans`) when another client's reply of that number or the sign-out of its user's
  session before, which goes by user id, took the entry. The last way needs a third client, so no run reaches it: the proof did.
- `StuckOnlyAfterAccept`: the reader releases `m_sem_authenticated` only while `m_authenticated` is unset. A
  connection lost after the login was accepted but before the features arrived leaves
  `WaitForAuthenticated` waiting.
- `LoggedOutStaysOut`, `ToldRight`, `OverwriteOnlyByRace`, `NoConnectionLeaks`: the hook and the worker may meet on one
  user, and then a logged-out user can be signed in again, callbacks can be swapped and a client
  replaced. Without such a meeting none of it happens.
- `LossIsNoticed`, `RejectionEndsReconnects`: unless a thread that destroys a replaced client under
  `m_mutex_clients` waits for a reader that waits for this mutex, or the worker waits for ever for a login (`LoginHangs`: `StuckOnlyAfterAccept` says how that
  comes about). The hook's thread may hang there as well, which does not stop the worker.
- `StuckOnlyByMissedWakeup`, `TerminateReturns`: `TermEventDispatcher` stores `dispatch_running` and
  notifies without `queue_mutex`. If both fall between the dispatcher's test and its wait, the join waits
  for a thread that sleeps until somebody schedules another event.
- `OldEventsAreStrays`: an event scheduled after `Terminate`, or left because the dispatcher's thread was
  never created, is fired in the next life.
- `OwnCallback`: unless two calls of one context overlap. Callback and argument are parked in the context without
  a lock, so such calls can swap callbacks, or combine one's callback with the other's argument. Starts and stops consume
  a parked callback as well.
- `RequestsWait`: a request is known to be lost when its call found no connection (and returned `ORBIS_OK`), when its reply came before
  `g_mm.pending` had its entry, when another client's packet with the same number replaced it, or when its
  context, its connection or the library is gone. Nothing tells the game.
- `StoppedBeforeRemoved`: unless the context is started again while it is being stopped, or gets the STOPPED of a context that had its
  id before (`DispatchRequestComplete` goes by id). A start also forgets a destroy that waits.
- `RefsCover`: unless a context is destroyed twice while it is being stopped, is started after that, or `Terminate`
  releases one reference for all contexts.
- `UnansweredIsExplained`, `WaitEnds` (Tus): an operation is forgotten when it was not sent (the user is signed out or the communication id is
  not valid: the context stays in the request without a result), when its packet number was taken by an entry of an earlier session,
  when its reply came before its entry, or when its session ended before its entry. A game that waits for it waits for ever.
  In Score the ways are a comment that is too long, and the last three.
- `SpoiltOnlyByAbort`: a reply still fills the game's buffers after an abort or a delete told the game that it is over.
- `AnswerIsOwn`, `SpoiltIsExplained`, `ReadsGoOn`: unless an operation was begun on a Score request before the one before had its
  result; then the late reply to the first is taken for the second. `ReadsGoOn` also excepts a change of the character while data are being
  read: the cache is keyed by board and player only, and goes on serving the data of the character before.
- `CountsAreExact`: but for the counts `createUserContext` (no number left) and `terminateContext` (an error, or a success, in the middle) leave behind, and those
  that `setMultipartContentType` and `addMultipartPart` take without a mark. With the latter a request may be deleted under a call (`InUseStays`).
- `ActiveIsTrue`: but for a context whose Initialize or Terminate has yet to count it, a `sceNpWebApiTerminate` that deleted one user context and reports success
  for the whole (`early`), and a count written over one made meanwhile (`torn`). Once two threads were at it at the same time (`overlapped`), the library may be
  marked as not initialized with a context there: a Terminate clears the mark an Initialize has just relied on.
- `AbortIsHeard`, `NothingLeftBehind`: but for a send whose check came before the abort, two sends of one request at a time, a method `sendRequest` does not know,
  and `deleteUserContext`, which drops the requests of a user context (`cleared`) without deleting their HTTP objects.
- `CallsEnd`: but for four reasons: `LockLost` (`deleteRequest` returns with the lock), `LocksCrossed` (`terminateContext` takes
  `g_global_mutex` while it holds the context's lock), `TwoDelete`, `WaitsForReturned`.
- `StatesInOrder`, `ReachabilityIsNews`: unless two checks had states to deliver at the same time.
- `NobodyIsStuck`: but for a callback, run under `g_np_callbacks_mutex`, that calls what takes this mutex (`Reentered`).
- `DeadIsLast`: a connection stays in the map until its DEAD is queued, so a thread already at work on it may queue ESTABLISHED after it.
- `StatusAgrees`: a connection closes the transport that connections of other contexts share; those still show as active.
- `ClosedStaysClosed`: a thread that chose a transport under one lock starts its handshake under another, after it was closed.
- `MutualIsMutual`: where two contexts of a console share a transport, its requests name the context it was made for (`Carries`), and a request for a context without a
  connection marks the connection of another context with that peer (`instead`): a game hears MUTUAL_ACTIVATED for what another context activated.
- `HalfOpenIsExplained`: an offer that comes late puts a side that is checking back to accepting; an established peer ignores what it then sends.

No line of a document, comment or test promises otherwise, so none of these is recorded as a finding.

**Deadlock checking** is off: a client is used once and stopped, contexts, clients and calls run out, a game need not call anything; and in NpHandler and
WebApi the deadlocks just described are real. Termination is checked by `NoWakeupIsLost`, `WorkerKeepsUp`, `WaitEnds`, `CallsEnd`, and, as the absence of stuck
states, by `DeletedNeverBlocks` and `NobodyIsStuck`.

**Fairness.** Weak fairness of threads inside the program: the client's threads, the worker, a thread in `ConnectUser` or `DisconnectUser` except while it waits
for its login (`WaitForAuthenticated` has no timeout and may never return), a call in progress, a reader with a
reply in hand, the dispatcher, the thread in `Terminate`. The platform schedules runnable threads,
and mutexes here are held briefly except in the cases above. Strong fairness of `CollectDue` for each
scheduled user: `next_attempt` is at most thirty seconds ahead, so a user who stays scheduled is due in
infinitely many rounds; and of the joins in NpHandler, which wait for a reader that ends. Strong fairness of the steps of a Matching2 call, which need
`queue_mutex` while the dispatcher takes it again and again. In Tus a connected server answers at last, and the worker notices a lost connection. In WebApi a call into the HTTP library
comes back. The dispatcher's run makes each request once: a game that never stops making calls could keep `dispatch_holds` above zero for ever, and then
nothing is fired. A sleeping dispatcher is not assumed to wake by itself. Never fair: the game, the network, logging in or out. NpAuth, Matching2, Score, Callbacks and Signaling
are checked for safety only: in a network that may lose every packet nothing has to happen.

## 4. What is proved

`NpAuth_Proofs.tla` proves, for any number of threads, users, clients and contexts and any limits that
satisfy `ConstantsAssumption`, that `Spec` implies `[]TypeOK`, `[]OneCompleter`,
`[]CodeOnlyOnSuccess`, `[]DeletedNeverBlocks`, `[]UnansweredIsExplained`, `[]MisdeliveredOnlyIfLost` and the action property
`NoWriteAfterReturn`: everything its runs check. None of these but the first is inductive. The inductive invariant `IInv` adds

- `References`: contexts in the table, in calls, in `pending` and in readers have been started;
- `Untouched`: a context that was not started has no result, no code and no requester;
- `Tokens`, `Owners`: a thread writing a stub token works for itself, a client in use has the user it was made for;
- `CodeWithResult`: code and OK come together and only for started contexts (the reason for `CodeOnlyOnSuccess`);
- `ReturnedHaveResult`: a context whose end was reported has a result (the reason for `NoWriteAfterReturn`, since a
  result is written once: lemma `Monotone`);
- `CallsEnd`: a waiting thread's context is in the table or has a result;
- `Accounts`, `Requesters`, `Expected`, `HandedOver`: whose account a packet, an entry and a reader's reply belong to. A packet whose entry
  stands under its number is its own or lost (the reason for `MisdeliveredOnlyIfLost`; lemma `LostStays`: what is lost stays so).

The argument for `UnansweredIsExplained` follows the hand-over of the duty to complete: starting
thread, entry of `m_pending_auth`, reader. `OneCompleter` says that duty has one holder, and every step passes it on or
discharges it, except the `emplace` that does nothing (`ForgottenOnlyIfRefused`). That an entry is not held in vain is `Attended`: its packet is in flight while its
client is up, and the client is the user's, or the user is being signed out, or the entry is `stranded`; with `Held`, a client in `m_clients` is
up or waits for the worker.
Lemmas `LeastElement` and `FreshId` show that the loop of `CreateNpAuthRequest` finds an id within the limit.

`ShadNetClient_Proofs.tla` proves, for any numbers of attempts and requests and any set of game threads, `[]TypeOK`, `[]OkOnlyIfAccepted` and `[]ReaderLeavesWord`
(`THEOREM`s `TypeCorrect`, `OkIsTrue`, `ReaderEndsProperly`). Its inductive invariant adds

- `Stages`, `Beginning`, `OnePlace`: which stages of the three threads and of the handshake go together;
- `Permits`, `NoTrace`: what each semaphore holds, by the stage of the thread that releases it;
- `FailureFirst`: the state is a failure before the wait that reads it may end.

`NpHandler_Proofs.tla` proves, for any users and clients, any `First` that gives no client to two users, and any scenes
(`HandlerAssumption`), `[]TypeOK`, `[]SettledIsRight` and `[]OneOwnerEach` (`TypeCorrect`, `SettledUsers`, `OneOwner`). Its inductive invariant says what is so
of a user *while* a thread is at work on him, which `SettledIsRight` leaves open, and adds

- `Met`: users both threads are working on are in `raced`, so that on any other user one thread works alone (lemma `Alone`);
- `Entries`: by the stage of that thread the user has a client in `m_clients` or has none (`Absent`, `Present`); with it a client is stored where there was
  none, hence `OverwriteOnlyByRace`;
- `Hands`, `Accounted`: the client a thread has for itself is its user's and nobody else's; a connection is in `m_clients`, in a thread's hands, or its user is in `raced`;
- `Asked`: the worker finds a lost client, or a user in `m_reconnects`, only for users who are logged in: why a log-out is not undone;
- `Told`: while no thread is about to tell the game, what it was told is what is.

Each step is split into what it does to the user the thread works for (`OwnStep`) and that it touches nobody else (`OthersUntouched`).

`EventDispatcher_Proofs.tla` proves, for any finite set of threads, any events and any number of
lives (`DispatcherAssumption`), `[]TypeOK`, `[]NoEarlyCallback`, `[]StuckOnlyByMissedWakeup`, `[]OldEventsAreStrays` and
`Spec => DeliversInOrder`. Its inductive invariant adds

- `Counted`: `dispatch_holds` is the number of calls under way, so that it is never decremented below zero and a batch
  is taken only when there is none (finite sets and cardinality; `HoldersFinite`, `CountedStep`);
- `Calls`: two calls never share a request, and a request not yet sent has no reply: why a hold comes before its event;
- `Batches`: what is queued was scheduled, and a batch exists only while it is fired, so `TakeBatch` finds `ready` empty;
- `Stages`: where the dispatcher can be at each stage of a life, and who missed what between test and wait;
- `Ages`: between two lives everything queued is a stray.

The refinement uses four facts about sequences (`AppendBehind`, `FrontOf`, `EmptyPart`, `Elements`) and has one step
per action: `Push` is `Schedule`, `Hold` is `Open`, `Release` is `Close`, `FireEvent` is `Deliver`, `ClearEvents` is `Clear`,
and everything else stutters.

`Matching2_Proofs.tla` proves, for any finite set of threads, any requests, contexts, slots, clients, packets and lives that satisfy
`Matching2Assumption` and `NoneAssumption` (None is no entry and no event), what both runs of Matching2 check: `[]TypeOK`,
`[]OwnCallback`, `[]OneAnswerOrLost`, `[]RefsCover` and `[]GoesWithItsStop`. The invariant comes in layers, each inductive given those before it:

- `Typed`: the types; what a thread carries at each stage of a call (`Stage`); that its request or context has been made, and that a context has one id
  (`Known`). `FirstFreeIsFree` shows that the search for a slot finds a free one;
- `Callbacks`: what is parked in a context belongs to the call that is between its two writes and its two reads, unless their request is in `raced`; what was
  taken is carried unchanged through entry, reader and queue. Hence `OwnCallback`;
- `OnePlace`: the end of a request is prepared in one place only, a call, an entry, a reader, an event; `Waits`: a request that is registered, or about to be,
  has its packet on the network. Hence `OneAnswerOrLost`. `OnePlaceStep` says how a step moves it on, and serves stops as well;
- `Covered`: the equation of `RefsCover`, by cardinalities of finite sets: every step adds and removes the same on both sides;
- `Contexts`: the id of a stop is not that of another context, and what `CompleteStop` will remove is its context or nothing (`Stops`); a context that is stopping has
  its stop to come (`StopsEnd`). The converse, that the stop of a context finds it still stopping (`Meant`), holds as long as nothing confused the two (`Plain`: not started
  again, not lost, the first client and life), and needs the packet numbers: with one client a packet on the network belongs to one
  call or one entry (`Numbered`). Together they are `GoesWithItsStop`.

`Tus_Proofs.tla` proves, for any game (any programs that satisfy `TusAssumption`), any threads, titles, requests and parts, `[]TypeOK`,
`[]UnansweredIsExplained`, `[]RepliesAreOwn` and `[]TransfersAreWhole`: every invariant its run checks. The steps are first summed up in a few kinds (a step of
the game, an operation sent, submitted, registered, answered, completed, failed, a step of the session) and each part of the inductive invariant is kept by each kind:

- `Typed`: the types, what a thread carries at each stage, and that a session's end leaves nothing on the network;
- `OnePlace`: an operation is completed by a thread, an entry of `m_pending_tus` or the reader, and by one of them only;
- `Numbered`, `Answerable`, `Expectable`: the packet numbers of a session and who waits for them; an entry whose operation was not forgotten is of the newest session and
  its reply is still to come. Hence `UnansweredIsExplained`: each of the four ways to forget an operation is the branch of a step that would break this otherwise;
- `Misled`, `Results`: an operation that gets another session's reply had been forgotten, and a result comes before the reply only by an abort. With `Fitting`, which follows from
  the table of the library's calls (`AllChecked`: an array that is filled is of the size its length implies, a virtual user has a name), `RepliesAreOwn`;
- `Underway`, `Serials`, `Claims`, `Blobs`: what a read has claimed lies below the offset of its transfer, a transfer that begins has a serial of its own, and what is gathered is
  for the transfer's owner. Hence `TransfersAreWhole`; only the steps that touch a chunk matter (`Calm`, `HandsOn`, `ReadsChunk`, `WritesChunk`).

`Score_Proofs.tla` proves, for any threads, kinds of operation, characters, titles, requests, operations, pieces and sessions, all that the run of Score checks: `[]TypeOK`,
`[]UnansweredIsExplained`, `[]RepliesAreOwn`, `[]GameDataIsWhole` and the action property `AbortSticks`. `EveryStep` sums the steps up as in Tus (`Kind`); what else a proof
needs of a step is a relation between the two states (`Settles` for results, `Steady` and `Reads` for reads, `BlobsStay` and `Piece` for blobs), so that each part of the invariant is proved once from its relation:

- `Typed`, `OnePlace`, `Numbered`, `Expectable`, `Underway`: as in Tus, with `LastBegun`: the operation begun last on a request is one of its own;
- `Owed`: an operation without a result has one who will set it, unless it was forgotten; with `Expectable` this is `UnansweredIsExplained`;
- `Latest`, `Outcomes`: what an operation without a result finds in its request, its own or another operation's (`Finds`). Only `BeginOp` makes `mixed` true, and only where
  another operation was unfinished. With `Fitting`, from the table of calls (`AllChecked`, `OpsRight`), this is `RepliesAreOwn`; `Settles`, which lets a request have
  only its first result, is `AbortSticks`;
- `Unread`, `ReadsRight`: what a request keeps of a read (`KeptRight`), what an operation at the server asked for (`AskedRight`) and what it got (`GotRight`). The read before it that
  `ReadsGoOn` speaks of is found in the step that fills the cache, and `Latest` says that it came before;
- `Blobs`: what is collected is measured against what its first piece announced, an operation no call will announce anything for any more (`Settled`).

`WebApi_Proofs.tla` proves, for any finite set of threads, any users, firmwares, kinds of call and limits that satisfy `WebApiAssumption`, every invariant the run of WebApi
checks: `[]TypeOK`, `[]CountsAreTrue`, `[]DeletionsWait` and `[]HttpGoesWithRequest`. The inductive invariant `Inv` is these and

- `CallsFit`: at each place of a call, what the call is and that its ids are of what there has been;
- `LocksFit`: a context's lock is free when it was given back as often as it was taken, and who aborts the handles of a context holds it;
- `DeletersMark`: who waits to delete a user context, a handle or, from 4.00 on, a library context has marked it, so that a second deletion is turned away;
- `EraserIsAlone`, `NestingStays`: from 4.00 on nobody uses a context that is about to be erased, and it does not go while `sceNpWebApiTerminate` deletes
  its user contexts; why a context outlives its calls;
- `OuterIsIdle`, `LibraryFits`: a thread at the count is in no other call, and where no two were at it at once what a thread has read is the count, and count and
  mark fit its place (`ReadFits`, `MarkFits`);
- `PartialIsBad`: only a send that does not know the method leaves half of the HTTP objects.

A step is one call's. What it may do to each table is a relation of its own (`CtxMoves`, `UsrMoves`, `ReqMoves`, `HdlMoves`, `LibMoves`, `RestMoves`), and these together, `Moves`, say
that a count changes by what the call weighs in it after the step less what it weighed before, and what is deleted weighed nothing but the deleting call. The invariant is shown once to be kept by `Moves`
(`MovesKeep`); one lemma for each action shows that it is such a move (`BeginMoves`, `WorkMoves`). Counts are cardinalities of sets of threads (`SizeMoves`, `SizeBounds`);
`LeastNumber` shows that `terminateContext` finds the user context it deletes next.

Only model-checked: liveness (`NoWakeupIsLost` of both modules, `WorkerKeepsUp`, `WaitEnds`, `CallsEnd`) and `NobodyIsStuck`, which speaks of
ENABLED: both are out of the prover's reach. And, until their proofs are written, Callbacks and Signaling. Neither uses a recursive operator, and each states its
assumptions about its constants, so that proofs can be added beside them.

## 5. Not modelled, and why

Parts of the modelled components:

- **ShadNetClient**: what each notification callback does; `Stop()` and the reader closing `m_sock` at the same time, which is a race on a
  descriptor (its effect depends on what the system gives the number to next).
- **NpManager**: the request table whose slot keeps the last result; stubs that return a constant.
- **Matching2**: requests answered from the room cache, the cache itself and server events, beyond "an event nobody asked for"; the assignment of
  `on_room_event` while the reader runs (undefined behaviour of `std::function`).
- **TUS**: bytes of transfers beyond their number and owner. **Score**: texts; two threads that insert into `game_data_send_buf` at the same time
  (undefined behaviour of a vector).
- **WebApi**: accesses to the tables of requests and parts without the lock (undefined behaviour of a map); timers and aborted flags of handles,
  which are only written; the wrap of id counters after two to the thirty-one objects; multipart data.
- **Push events**: a push callback that unregisters itself: the walk goes on from an erased entry of a map. Invitations that wait for a context.
- **Signaling**: making and deleting contexts; `ActivateConnectionA`, which is `ActivateSig1` for a peer that Matching2 knows by its
  account and fails for any other; the flags and events PEER_ACTIVATED and PEER_DEACTIVATED; echo and round-trip time;
  STUN and the local address; Matching2's peers; the limit on packets per second; the race of `Start` and `Stop` of the threads; real time: the handshake's timeout counts from
  the last packet sent, which every repetition renews, so that a peer that never answers keeps a connection pending. A request for activation is
  sent once, so that a single loss leaves two games established and never MUTUAL_ACTIVATED: no property here promises more.

Components left out (each is in `PROJECT.json` with its reason): P2PTransport, WebApi2, the word filter, trophies, friends and invitations, the dialogs and
network control have state of their own and are worth a module each; HTTP hooks, partner stubs, system hooks, configuration, file formats and start-up keep no
state that two parties change. Builders and parsers of payloads are data.

## 6. Plan

In this order:

1. Proofs for the modules without one: `StatesReachTheGame` and `PushesReachTheGame` of Callbacks, `MapsAgree` of Signaling.
2. An abstract `OneShotRequest` (asked, completed once, reported once) which NpAuth refines, and which Tus and Score refine under the
   assumption their runs make visible.
3. `P2PTransport`: three byte-bounded queues over one socket; order per channel, none across a restart. Its channel is the network of Signaling.
4. Matching2's room cache; WebApi2, whose contexts and drain are WebApi's with other limits; the word filter and the dialogs.
