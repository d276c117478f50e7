---------------------------- MODULE ShadNetClient ----------------------------
(***************************************************************************)
(* One ShadNetClient (shadnet/client.cpp), from Start() to the end of      *)
(* Stop(): the thread that signs a user in and later stops the client, the *)
(* connect, reader and writer threads, the game threads that submit        *)
(* requests, and a server that answers in order but may refuse, send       *)
(* rubbish, go silent or close the connection at any moment.               *)
(*                                                                         *)
(* A client is started once: ConnectUser makes a new one for each sign-in. *)
(* Atomics are read and written one at a time, m_mutex_send_queue is held  *)
(* from the writer's test of its condition to the wait.                    *)
(***************************************************************************)
EXTENDS Naturals, Sequences

CONSTANTS
    MaxAttempts,   \* SHAD_CONNECT_MAX_ATTEMPTS
    MaxSubmits,    \* bound: requests the game submits
    Game           \* game threads that submit requests

ASSUME ClientAssumption == MaxAttempts \in Nat \ {0} /\ MaxSubmits \in Nat

VARIABLES
    caller,        \* the thread in ConnectUser, then in DisconnectUser
    connector,     \* m_thread_connect
    reader,        \* m_thread_reader
    writer,        \* m_thread_writer
    submitter,     \* what each game thread does in SubmitRequest
    attempt,       \* DoConnect calls made
    state,         \* m_state
    terminate, connected, authenticated,
    semAuth,       \* m_sem_authenticated
    queue,         \* m_send_queue
    batch,         \* the packets the writer took from it
    link,          \* the TCP connection: "none", "up" or "closed"
    toServer,      \* packets the server has yet to answer
    toClient,      \* packets the reader has yet to receive
    outcome,       \* what WaitForAuthenticated returned, "none" before
    accepted,      \* history: HandleLoginReply accepted the login
    submits        \* requests submitted

threadVars == <<caller, connector, reader, writer, submitter>>
flagVars == <<terminate, connected, authenticated, state, semAuth>>
wireVars == <<queue, batch, link, toServer, toClient>>
vars == <<threadVars, flagVars, wireVars, attempt, outcome, accepted, submits>>

-----------------------------------------------------------------------------
\* FailureConnect stands for every failure before the login but that of the protocol,
\* FailureAuth for every reason the server may give.
Failures == {"FailureConnect", "FailureProtocol", "FailureAuth", "FailureOther"}
Commands == {"Login", "GetToken", "GetServerFeatures", "SetClientVersion", "Request"}

\* What a reply makes of its request: an error, a body or neither.
Verdicts == {"ok", "error", "malformed", "empty"}
Reply == [cmd : Commands, verdict : Verdicts]
\* A packet whose header cannot be used
Corrupt == [cmd |-> "none", verdict |-> "malformed"]

Init ==
    /\ caller = "idle" /\ connector = "none" /\ reader = "none" /\ writer = "none"
    /\ submitter = [g \in Game |-> "idle"]
    /\ attempt = 0
    /\ state = "Ok"
    /\ terminate = FALSE /\ connected = FALSE /\ authenticated = FALSE
    /\ semAuth = 0
    /\ queue = <<>> /\ batch = <<>>
    /\ link = "none" /\ toServer = <<>> /\ toClient = <<>>
    /\ outcome = "none" /\ accepted = FALSE
    /\ submits = 0

-----------------------------------------------------------------------------
(* Building blocks.                                                        *)

\* m_sem_authenticated.release(); the platform's semaphore is a plain counter
Release == semAuth' = semAuth + 1

LastAttempt(n) == n = MaxAttempts

\* The writer owns m_mutex_send_queue from the test of its condition to the wait.
QueueFree == writer \notin {"locked", "to_wait"}

\* m_cv_send_queue.notify_one() and notify_all(): the writer alone waits on it.
Notify == writer' = IF writer = "asleep" THEN "locked" ELSE writer

\* push_back under the mutex, then notify_one(), as the reader does it
Push(cmd) == QueueFree /\ queue' = Append(queue, cmd) /\ Notify

\* shutdown() and close() of m_sock: nothing more is sent or received.
Disconnect ==
    /\ link' = IF link = "up" THEN "closed" ELSE link
    /\ toClient' = <<>>

-----------------------------------------------------------------------------
(* Sign-in: Start(), which joins the connect thread, then the wait for the *)
(* login.                                                                  *)

Start ==
    /\ caller = "idle"
    /\ caller' = "start"
    /\ connector' = "try"
    /\ UNCHANGED <<reader, writer, submitter, flagVars, wireVars, attempt, outcome,
                   accepted, submits>>

\* DoConnect fails; ConnectThread tries again after a pause unless the protocol
\* version is wrong or the attempts are used up.
ConnectFails(f) ==
    /\ connector = "try"
    /\ attempt' = attempt + 1
    /\ state' = f
    /\ IF f = "FailureProtocol" \/ LastAttempt(attempt')
       THEN connector' = "done" /\ Release
       ELSE UNCHANGED <<connector, semAuth>>
    /\ UNCHANGED <<caller, reader, writer, submitter, terminate, connected,
                   authenticated, wireVars, outcome, accepted, submits>>

\* DoConnect succeeds; the reader and the writer start.
ConnectSucceeds ==
    /\ connector = "try"
    /\ attempt' = attempt + 1
    /\ state' = "Ok"
    /\ connected' = TRUE
    /\ link' = "up"
    /\ connector' = "login" /\ reader' = "top" /\ writer' = "top"
    /\ UNCHANGED <<caller, submitter, terminate, authenticated, semAuth, queue,
                   batch, toServer, toClient, outcome, accepted, submits>>

\* ConnectThread sends the login request itself.
SendLogin ==
    /\ connector = "login"
    /\ connector' = "done"
    /\ IF link = "up"
       THEN toServer' = Append(toServer, "Login") /\ UNCHANGED state
       ELSE state' = "FailureOther" /\ UNCHANGED toServer
    /\ UNCHANGED <<caller, reader, writer, submitter, terminate, connected,
                   authenticated, semAuth, queue, batch, link, toClient, attempt,
                   outcome, accepted, submits>>

\* Start() returns; ConnectUser looks at GetState() and gives up on a failure.
Started ==
    /\ caller = "start" /\ connector = "done"
    /\ caller' = IF state = "Ok" THEN "check" ELSE "stop"
    /\ UNCHANGED <<connector, reader, writer, submitter, flagVars, wireVars,
                   attempt, outcome, accepted, submits>>

\* WaitForAuthenticated: the test, the semaphore and the second test.
CheckAuthenticated ==
    /\ caller = "check"
    /\ IF authenticated
       THEN caller' = "signed_in" /\ outcome' = "Ok"
       ELSE caller' = "wait" /\ UNCHANGED outcome
    /\ UNCHANGED <<connector, reader, writer, submitter, flagVars, wireVars,
                   attempt, accepted, submits>>

Acquire ==
    /\ caller = "wait" /\ semAuth > 0
    /\ semAuth' = semAuth - 1
    /\ caller' = "woken"
    /\ UNCHANGED <<connector, reader, writer, submitter, terminate, connected,
                   authenticated, state, wireVars, attempt, outcome, accepted,
                   submits>>

\* The reader may write m_state and m_authenticated before, between and after the two
\* reads.
Woken ==
    /\ caller = "woken"
    /\ IF authenticated
       THEN caller' = "signed_in" /\ outcome' = "Ok"
       ELSE caller' = "unconfirmed" /\ UNCHANGED outcome
    /\ UNCHANGED <<connector, reader, writer, submitter, flagVars, wireVars,
                   attempt, accepted, submits>>

ReportState ==
    /\ caller = "unconfirmed"
    /\ outcome' = state
    /\ caller' = IF state = "Ok" THEN "signed_in" ELSE "stop"
    /\ UNCHANGED <<connector, reader, writer, submitter, flagVars, wireVars,
                   attempt, accepted, submits>>

-----------------------------------------------------------------------------
(* Stop(), by ConnectUser after a failure or by DisconnectUser.            *)

SignOut ==
    /\ caller = "signed_in"
    /\ caller' = "stop"
    /\ UNCHANGED <<connector, reader, writer, submitter, flagVars, wireVars,
                   attempt, outcome, accepted, submits>>

StopTerminate ==
    /\ caller = "stop"
    /\ terminate' = TRUE
    /\ Release
    /\ caller' = "notify"
    /\ UNCHANGED <<connector, reader, writer, submitter, connected, authenticated,
                   state, wireVars, attempt, outcome, accepted, submits>>

\* Fault: the queue's mutex is not taken.
WakeWriter_Unlocked == Notify

\* notify_all() under m_mutex_send_queue
WakeWriter == QueueFree /\ Notify

StopNotify ==
    /\ caller = "notify"
    /\ WakeWriter
    /\ caller' = "close"
    /\ UNCHANGED <<connector, reader, submitter, flagVars, wireVars, attempt,
                   outcome, accepted, submits>>

StopDisconnect ==
    /\ caller = "close"
    /\ Disconnect
    /\ caller' = "join"
    /\ UNCHANGED <<connector, reader, writer, submitter, flagVars, queue, batch,
                   toServer, attempt, outcome, accepted, submits>>

StopJoins ==
    /\ caller = "join"
    /\ reader \in {"none", "gone"} /\ writer \in {"none", "gone"}
    /\ caller' = "stopped"
    /\ UNCHANGED <<connector, reader, writer, submitter, flagVars, wireVars,
                   attempt, outcome, accepted, submits>>

-----------------------------------------------------------------------------
(* ReaderThread.                                                           *)

ReaderLoops ==
    /\ reader = "top"
    /\ reader' = IF terminate THEN "leaving" ELSE "recv"
    /\ UNCHANGED <<caller, connector, writer, submitter, flagVars, wireVars, attempt,
                   outcome, accepted, submits>>

\* RecvN fails, or the header is corrupt.  What arrived before the connection was
\* lost may still be received first.
ReaderLeaves ==
    /\ reader = "recv"
    /\ \/ (link = "closed" \/ terminate) /\ UNCHANGED <<state, toClient>>
       \/ /\ toClient # <<>> /\ Head(toClient) = Corrupt
          /\ state' = "FailureProtocol"
          /\ toClient' = Tail(toClient)
    /\ reader' = "leaving"
    /\ UNCHANGED <<caller, connector, writer, submitter, terminate, connected,
                   authenticated, semAuth, queue, batch, link, toServer, attempt,
                   outcome, accepted, submits>>

\* Fault: the waiter is not released.
AfterLoop_Never == "resetting"

\* if (!m_authenticated): whoever waits for a login that will not be answered is released.
AfterLoop == IF authenticated THEN "resetting" ELSE "unauthenticated"

ReaderEnds ==
    /\ reader = "leaving"
    /\ reader' = AfterLoop
    /\ UNCHANGED <<caller, connector, writer, submitter, flagVars, wireVars, attempt,
                   outcome, accepted, submits>>

\* Fault: the waiter is released and finds the state Ok.
AfterTest_KeepsState == "releasing"

\* if (m_state == Ok): it must find a failure in m_state.
AfterTest == IF state = "Ok" THEN "failing" ELSE "releasing"

ReaderTests ==
    /\ reader = "unauthenticated"
    /\ reader' = AfterTest
    /\ UNCHANGED <<caller, connector, writer, submitter, flagVars, wireVars, attempt,
                   outcome, accepted, submits>>

ReaderFails ==
    /\ reader = "failing"
    /\ state' = "FailureOther"
    /\ reader' = "releasing"
    /\ UNCHANGED <<caller, connector, writer, submitter, terminate, connected,
                   authenticated, semAuth, wireVars, attempt, outcome, accepted,
                   submits>>

ReaderReleases ==
    /\ reader = "releasing"
    /\ Release
    /\ reader' = "resetting"
    /\ UNCHANGED <<caller, connector, writer, submitter, terminate, connected,
                   authenticated, state, wireVars, attempt, outcome, accepted,
                   submits>>

\* Fault: m_connected stays set.
Unconnected_Forgotten == UNCHANGED connected

Unconnected == connected' = FALSE

ReaderResets ==
    /\ reader = "resetting"
    /\ Unconnected
    /\ reader' = "connection_reset"
    /\ UNCHANGED <<caller, connector, writer, submitter, terminate, authenticated,
                   state, semAuth, wireVars, attempt, outcome, accepted, submits>>

ReaderExits ==
    /\ reader = "connection_reset"
    /\ authenticated' = FALSE
    /\ reader' = "gone"
    /\ UNCHANGED <<caller, connector, writer, submitter, terminate, connected, state,
                   semAuth, wireVars, attempt, outcome, accepted, submits>>

\* The reader takes a reply to cmd off the connection.
Receive(cmd, verdict) ==
    /\ reader = "recv"
    /\ toClient # <<>>
    /\ Head(toClient) = [cmd |-> cmd, verdict |-> verdict]
    /\ toClient' = Tail(toClient)

\* HandleLoginReply accepts the login; the packet for the token follows.
LoginAccepted ==
    /\ Receive("Login", "ok")
    /\ authenticated' = TRUE
    /\ accepted' = TRUE
    /\ reader' = "token"
    /\ UNCHANGED <<caller, connector, writer, submitter, terminate, connected,
                   state, semAuth, queue, batch, link, toServer, attempt, outcome,
                   submits>>

AskForToken ==
    /\ reader = "token"
    /\ Push("GetToken")
    /\ reader' = "top"
    /\ UNCHANGED <<caller, connector, submitter, flagVars, batch, link, toServer,
                   toClient, attempt, outcome, accepted, submits>>

\* HandleLoginReply refuses the login: m_state first, then the release.
LoginRefused ==
    /\ \/ Receive("Login", "error") /\ state' = "FailureAuth"
       \/ Receive("Login", "malformed") /\ state' = "FailureProtocol"
    /\ reader' = "refused"
    /\ UNCHANGED <<caller, connector, writer, submitter, terminate, connected,
                   authenticated, semAuth, queue, batch, link, toServer, attempt,
                   outcome, accepted, submits>>

RefusedReleases ==
    /\ reader = "refused"
    /\ Release
    /\ reader' = "closing"
    /\ UNCHANGED <<caller, connector, writer, submitter, terminate, connected,
                   authenticated, state, wireVars, attempt, outcome, accepted,
                   submits>>

RefusedDisconnects ==
    /\ reader = "closing"
    /\ Disconnect
    /\ reader' = "top"
    /\ UNCHANGED <<caller, connector, writer, submitter, flagVars, queue, batch,
                   toServer, attempt, outcome, accepted, submits>>

\* A login reply without a payload is reported to on_login_result and no more.
LoginEmpty ==
    /\ Receive("Login", "empty")
    /\ reader' = "top"
    /\ UNCHANGED <<caller, connector, writer, submitter, flagVars, queue, batch, link,
                   toServer, attempt, outcome, accepted, submits>>

\* HandleGetTokenReply asks for the features whatever the reply is.
TokenReply ==
    /\ Receive("GetToken", "ok")
    /\ Push("GetServerFeatures")
    /\ reader' = "top"
    /\ UNCHANGED <<caller, connector, submitter, flagVars, batch, link,
                   toServer, attempt, outcome, accepted, submits>>

\* HandleServerFeaturesReply reports the client's version and releases the waiter.
FeaturesReply ==
    /\ Receive("GetServerFeatures", "ok")
    /\ Push("SetClientVersion")
    /\ reader' = "features"
    /\ UNCHANGED <<caller, connector, submitter, flagVars, batch, link, toServer,
                   attempt, outcome, accepted, submits>>

FeaturesRelease ==
    /\ reader = "features"
    /\ Release
    /\ reader' = "top"
    /\ UNCHANGED <<caller, connector, writer, submitter, terminate, connected,
                   authenticated, state, wireVars, attempt, outcome, accepted,
                   submits>>

\* on_async_reply: the replies of the libraries, handled elsewhere
OtherReply ==
    /\ \E cmd \in {"SetClientVersion", "Request"} : Receive(cmd, "ok")
    /\ reader' = "top"
    /\ UNCHANGED <<caller, connector, writer, submitter, flagVars, queue, batch, link,
                   toServer, attempt, outcome, accepted, submits>>

-----------------------------------------------------------------------------
(* WriterThread.                                                           *)

WriterLocks ==
    /\ writer = "top"
    /\ writer' = IF terminate THEN "gone" ELSE "locked"
    /\ UNCHANGED <<caller, connector, reader, submitter, flagVars, wireVars,
                   attempt, outcome, accepted, submits>>

\* m_cv_send_queue.wait and, when it returns, the swap of the queue
WriterTakes ==
    /\ writer = "locked"
    /\ IF terminate
       THEN writer' = "gone" /\ UNCHANGED <<queue, batch>>
       ELSE IF queue = <<>>
       THEN writer' = "to_wait" /\ UNCHANGED <<queue, batch>>
       ELSE writer' = "send" /\ batch' = queue /\ queue' = <<>>
    /\ UNCHANGED <<caller, connector, reader, submitter, flagVars, link, toServer,
                   toClient, attempt, outcome, accepted, submits>>

WriterWaits ==
    /\ writer = "to_wait"
    /\ writer' = "asleep"
    /\ UNCHANGED <<caller, connector, reader, submitter, flagVars, wireVars,
                   attempt, outcome, accepted, submits>>

\* One packet of the batch; a failed send() ends the thread.
WriterSends ==
    /\ writer = "send"
    /\ IF batch = <<>> \/ ~connected
       THEN writer' = "top" /\ batch' = <<>> /\ UNCHANGED toServer
       ELSE IF link = "up"
       THEN /\ toServer' = Append(toServer, Head(batch))
            /\ batch' = Tail(batch)
            /\ UNCHANGED writer
       ELSE writer' = "gone" /\ UNCHANGED <<batch, toServer>>
    /\ UNCHANGED <<caller, connector, reader, submitter, flagVars, queue, link,
                   toClient, attempt, outcome, accepted, submits>>

-----------------------------------------------------------------------------
(* Game threads: SubmitRequest, once the client is in m_clients.           *)

Submit(g) ==
    /\ submitter[g] = "idle"
    /\ caller \in {"signed_in", "stop", "notify", "close", "join"}
    /\ outcome = "Ok"
    /\ submits < MaxSubmits
    /\ QueueFree
    /\ submits' = submits + 1
    /\ queue' = Append(queue, "Request")
    /\ submitter' = [submitter EXCEPT ![g] = "notify"]
    /\ UNCHANGED <<caller, connector, reader, writer, flagVars, batch, link,
                   toServer, toClient, attempt, outcome, accepted>>

\* notify_all() after the unlock
SubmitNotifies(g) ==
    /\ submitter[g] = "notify"
    /\ Notify
    /\ submitter' = [submitter EXCEPT ![g] = "idle"]
    /\ UNCHANGED <<caller, connector, reader, flagVars, wireVars, attempt, outcome,
                   accepted, submits>>

-----------------------------------------------------------------------------
(* The server and the network.                                             *)

\* The reader goes on in the same way whatever the other replies say.
ServerReplies(v) ==
    /\ link = "up" /\ toServer # <<>>
    /\ Head(toServer) # "Login" => v = "ok"
    /\ toClient' = Append(toClient, [cmd |-> Head(toServer), verdict |-> v])
    /\ toServer' = Tail(toServer)
    /\ UNCHANGED <<threadVars, flagVars, queue, batch, link, attempt, outcome,
                   accepted, submits>>

ServerBreaksProtocol ==
    /\ link = "up" /\ toServer # <<>>
    /\ toClient' = Append(toClient, Corrupt)
    /\ toServer' = Tail(toServer)
    /\ UNCHANGED <<threadVars, flagVars, queue, batch, link, attempt, outcome,
                   accepted, submits>>

ConnectionLost ==
    /\ link = "up"
    /\ link' = "closed"
    /\ UNCHANGED <<threadVars, flagVars, queue, batch, toServer, toClient, attempt,
                   outcome, accepted, submits>>

-----------------------------------------------------------------------------
ConnectorStep ==
    \/ \E f \in {"FailureConnect", "FailureProtocol"} : ConnectFails(f)
    \/ ConnectSucceeds
    \/ SendLogin

StopStep == StopTerminate \/ StopNotify \/ StopDisconnect \/ StopJoins
CallerStep == Started \/ CheckAuthenticated \/ Acquire \/ Woken \/ ReportState
              \/ StopStep

ReaderStep ==
    \/ ReaderLoops \/ ReaderLeaves
    \/ ReaderEnds \/ ReaderTests \/ ReaderFails \/ ReaderReleases
    \/ ReaderResets \/ ReaderExits
    \/ LoginAccepted \/ AskForToken \/ LoginEmpty
    \/ LoginRefused \/ RefusedReleases \/ RefusedDisconnects
    \/ TokenReply \/ FeaturesReply \/ FeaturesRelease \/ OtherReply

WriterStep == WriterLocks \/ WriterTakes \/ WriterWaits \/ WriterSends

ServerStep ==
    \/ \E v \in Verdicts : ServerReplies(v)
    \/ ServerBreaksProtocol
    \/ ConnectionLost

Next ==
    \/ Start \/ SignOut \/ CallerStep \/ ConnectorStep \/ ReaderStep \/ WriterStep
    \/ \E g \in Game : Submit(g) \/ SubmitNotifies(g)
    \/ ServerStep

Spec == Init /\ [][Next]_vars

(***************************************************************************)
(* Every thread of the client goes on when it can.  The server owes        *)
(* nothing: it may never answer and never close the connection.            *)
(***************************************************************************)
Fairness ==
    /\ WF_vars(CallerStep) /\ WF_vars(ConnectorStep)
    /\ WF_vars(ReaderStep) /\ WF_vars(WriterStep)
    /\ \A g \in Game : WF_vars(SubmitNotifies(g))

FairSpec == Spec /\ Fairness

-----------------------------------------------------------------------------
\* Types, with the bounds that ConnectThread and the releases keep: no more
\* than SHAD_CONNECT_MAX_ATTEMPTS attempts, and no more than three permits (a refused
\* login, the end of the reader and Stop() each release once).
TypeOK ==
    /\ caller \in {"idle", "start", "check", "wait", "woken", "unconfirmed", "signed_in",
                   "stop", "notify", "close", "join", "stopped"}
    /\ connector \in {"none", "try", "login", "done"}
    /\ reader \in {"none", "top", "recv", "token", "refused", "closing", "features",
                   "leaving", "unauthenticated", "failing", "releasing", "resetting",
                   "connection_reset", "gone"}
    /\ writer \in {"none", "top", "locked", "to_wait", "asleep", "send", "gone"}
    /\ submitter \in [Game -> {"idle", "notify"}]
    /\ attempt \in 0 .. MaxAttempts
    /\ state \in {"Ok"} \cup Failures
    /\ terminate \in BOOLEAN /\ connected \in BOOLEAN /\ authenticated \in BOOLEAN
    /\ semAuth \in 0 .. 3
    /\ queue \in Seq(Commands) /\ batch \in Seq(Commands)
    /\ link \in {"none", "up", "closed"}
    /\ toServer \in Seq(Commands)
    /\ toClient \in Seq(Reply \cup {Corrupt})
    /\ outcome \in {"none", "Ok"} \cup Failures
    /\ accepted \in BOOLEAN
    /\ submits \in 0 .. MaxSubmits

\* WaitForAuthenticated reports Ok only if the server accepted the login, although
\* it reads m_authenticated and m_state one after the other while the reader may be
\* leaving (every release without a login comes after a failure is in m_state).
OkOnlyIfAccepted == outcome = "Ok" => accepted

\* A thread is left in WaitForAuthenticated with nobody to release it only if the
\* connection was lost between the login reply and the features reply
\* (ReaderThread releases only while m_authenticated is unset).
StuckOnlyAfterAccept ==
    caller = "wait" /\ semAuth = 0 /\ reader = "gone" => accepted

\* The worker's poll finds every lost connection: once the reader is gone neither
\* IsConnected() nor IsAuthenticated() holds, and after Stop() no thread is left.
LossIsVisible ==
    /\ reader = "gone" => ~connected /\ ~authenticated
    /\ caller = "stopped" => ~connected /\ reader # "recv" /\ writer # "send"

\* What the reader leaves behind when it ends: flags that tell the worker, and a
\* permit for the thread that waits, unless the login had been accepted.
ReaderLeavesWord == TypeOK /\ StuckOnlyAfterAccept /\ LossIsVisible

\* Stop() returns: it wakes the writer whatever the writer was doing, and the
\* closed socket ends the reader.
StopReturns == (caller = "stop") ~> (caller = "stopped")

\* A packet in m_send_queue is taken by the writer, unless the writer has ended
\* (SubmitRequest, WriterThread: no wakeup is lost).
QueueIsTaken == (queue # <<>>) ~> (queue = <<>> \/ writer = "gone")

\* No thread of a client sleeps through what it waits for.
NoWakeupIsLost == StopReturns /\ QueueIsTaken
=============================================================================
