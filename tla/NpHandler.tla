------------------------------ MODULE NpHandler ------------------------------
(***************************************************************************)
(* The sign-in state of NpHandler (np_handler.cpp): which local users have *)
(* a ShadNetClient, who signs them in and out, who signs them in again     *)
(* after the connection is lost, and what the game is told.                *)
(*                                                                         *)
(* Two threads work on users at the same time: "hook", the game thread in  *)
(* sceUserServiceGetEvent, and "worker", NpHandler::WorkerThread.  Each    *)
(* client's reader thread may deliver a rejection by the server.  What is  *)
(* done under m_mutex_clients is one step, except for the assignment to    *)
(* m_clients in ConnectUser: it may destroy the client it replaces, which  *)
(* joins that client's reader while the mutex is held.                     *)
(***************************************************************************)
EXTENDS Naturals, FiniteSets

CONSTANTS
    Users,         \* local users with shadNet enabled
    Clients,       \* ShadNetClient objects that have completed a login
    NoUser, NoClient,
    First,         \* the client of each user whom Initialize signs in
    Scenes         \* the situations examined, see scene

Scene == [users : SUBSET Users, clients : SUBSET Clients]

ASSUME HandlerAssumption ==
    /\ NoUser \notin Users /\ NoClient \notin Clients
    /\ First \in [Users -> Clients]
    /\ \A u, v \in Users : First[u] = First[v] => u = v
    /\ Scenes \subseteq Scene

VARIABLES
    active,        \* m_initialized
    loggedIn,      \* users the user service reports as logged in
    clients,       \* m_clients
    conn,          \* each client: "unused", "up", "dropped" or "stopped"
    owner,         \* the user a client was made for
    reader,        \* each client's reader: "idle", or "rejecting" in OnClientRejected
    reconnects,    \* the users in m_reconnects
    task,          \* what the hook and the worker do for a user
    round,         \* what the worker does next: look for "lost" clients or "reconnect"
    dropped, due,  \* the worker's lists, as far as they are still to be worked off
    mm,            \* g_mm.client of Matching2, which keeps the newest client
    told,          \* the state the game was last told for each user
    locker,        \* the thread that destroys a client under m_mutex_clients
    raced,         \* history: users that hook and worker worked on at one time
    scene          \* the users there are, and a bound: the clients ever made

workerVars == <<round, dropped, due>>
clientVars == <<clients, conn, owner, reader, mm>>
vars == <<active, loggedIn, clientVars, reconnects, task, workerVars, told, locker,
          raced, scene>>

Handlers == {"hook", "worker"}

Idle == [op |-> "idle", user |-> NoUser, client |-> NoClient]
Task == [op : {"idle", "check", "connecting", "publish", "storing", "destroying",
               "tell_in", "connected", "failed", "disconnect", "stop", "tell_out",
               "mark", "marking"},
         user : Users \cup {NoUser}, client : Clients \cup {NoClient}]

Unlocked == locker = "nobody"

\* The users each thread is working on
Working(h) == IF h = "worker" THEN {task[h].user} \cup dropped \cup due
              ELSE {task[h].user}

\* A history variable: the users both threads are working on after the step
NoteRaces == raced' = raced \cup
    ((Working("hook")' \cap Working("worker")') \ {NoUser})

IsSignedIn(u) ==
    active /\ clients[u] # NoClient /\ conn[clients[u]] = "up"

\* Initialize has signed in some of the users who were logged in, and started the
\* worker; with no client at all it turns NpHandler off again.
Init ==
    /\ active = TRUE
    /\ scene \in Scenes
    /\ loggedIn \in SUBSET scene.users
    /\ \E signedIn \in SUBSET loggedIn :
         clients = [u \in Users |-> IF u \in signedIn THEN First[u] ELSE NoClient]
    /\ conn = [k \in Clients |-> IF \E u \in Users : clients[u] = k
                                 THEN "up" ELSE "unused"]
    /\ owner = [k \in Clients |-> IF \E u \in Users : clients[u] = k
                                  THEN CHOOSE u \in Users : clients[u] = k
                                  ELSE NoUser]
    /\ reader = [k \in Clients |-> "idle"]
    /\ reconnects = {}
    /\ task = [h \in Handlers |-> Idle]
    /\ round = "lost" /\ dropped = {} /\ due = {}
    /\ \E u \in Users : clients[u] # NoClient /\ mm = clients[u]
    /\ told = [u \in Users |-> IF clients[u] = NoClient THEN "nothing"
                               ELSE "SignedIn"]
    /\ locker = "nobody"
    /\ raced = {}

-----------------------------------------------------------------------------
(* UpdateNpStateFromEvent, in the hook of sceUserServiceGetEvent.  While   *)
(* NpHandler is off the game is told that the user is signed out, and that *)
(* is all.                                                                 *)

Begin(h, op, u) == task' = [task EXCEPT ![h] = [op |-> op, user |-> u,
                                                client |-> NoClient]]

\* Fault: a reconnection that is scheduled stays scheduled.
Unschedule_Skipped(u) == UNCHANGED reconnects

\* m_reconnects.erase(user_id)
Unschedule(u) == reconnects' = reconnects \ {u}

OnUserLoggedIn(u) ==
    /\ task["hook"] = Idle /\ u \notin loggedIn
    /\ loggedIn' = loggedIn \cup {u}
    /\ IF active
       THEN Begin("hook", "check", u) /\ UNCHANGED told
       ELSE told' = [told EXCEPT ![u] = "SignedOut"] /\ UNCHANGED task
    /\ UNCHANGED <<active, clientVars, reconnects, workerVars, locker>>
    /\ NoteRaces

OnUserLoggedOut(u) ==
    /\ task["hook"] = Idle /\ u \in loggedIn
    /\ loggedIn' = loggedIn \ {u}
    /\ IF active
       THEN /\ Unlocked
            /\ Unschedule(u)
            /\ Begin("hook", "disconnect", u)
            /\ UNCHANGED told
       ELSE told' = [told EXCEPT ![u] = "SignedOut"] /\ UNCHANGED <<reconnects, task>>
    /\ UNCHANGED <<active, clientVars, workerVars, locker>>
    /\ NoteRaces

-----------------------------------------------------------------------------
(* ConnectUserById and ConnectUser, by either thread.                      *)

GoTo(h, op) == task' = [task EXCEPT ![h].op = op]

\* The hook returns; the worker goes on with what follows the call.
Return(h, op) ==
    task' = [task EXCEPT ![h] =
        IF h = "hook" THEN Idle
        ELSE [op |-> op, user |-> task[h].user, client |-> NoClient]]

CheckSignedIn(h) ==
    /\ task[h].op = "check"
    /\ Unlocked
    /\ IF IsSignedIn(task[h].user) THEN Return(h, "connected")
                                   ELSE GoTo(h, "connecting")
    /\ UNCHANGED <<active, loggedIn, clientVars, reconnects, workerVars, told, locker>>
    /\ NoteRaces

\* The connection or the login fails: the client is stopped and forgotten.
ConnectFails(h) ==
    /\ task[h].op = "connecting"
    /\ Return(h, "failed")
    /\ UNCHANGED <<active, loggedIn, clientVars, reconnects, workerVars, told, locker>>
    /\ NoteRaces

\* A new client, whichever of those not yet used stands for it.
ConnectSucceeds(h) ==
    LET unused == {k \in scene.clients : conn[k] = "unused"}
        k == CHOOSE k \in unused : TRUE
    IN  /\ task[h].op = "connecting"
        /\ unused # {}
        /\ conn' = [conn EXCEPT ![k] = "up"]
        /\ owner' = [owner EXCEPT ![k] = task[h].user]
        /\ task' = [task EXCEPT ![h].op = "publish", ![h].client = k]
        /\ UNCHANGED <<active, loggedIn, clients, reader, mm, reconnects, workerVars, told,
                       locker>>
        /\ NoteRaces

\* Somebody holds a shared_ptr to the client (besides g_mm).
Held(k) == (\E u \in Users : clients[u] = k) \/ (\E h \in Handlers : task[h].client = k)

\* SetMmShadNetClient: the client g_mm had before is destroyed, and its reader
\* joined, when nobody else holds it.
PublishClient(h) ==
    /\ task[h].op = "publish"
    /\ mm' = task[h].client
    /\ IF mm = NoClient \/ Held(mm)
       THEN UNCHANGED conn
       ELSE reader[mm] = "idle" /\ conn' = [conn EXCEPT ![mm] = "stopped"]
    /\ GoTo(h, "storing")
    /\ UNCHANGED <<active, loggedIn, clients, owner, reader, reconnects, workerVars,
                   told, locker>>
    /\ NoteRaces

\* m_clients[user_id] = client.  A client that was there is destroyed on the spot,
\* unless it is the newest: then g_mm keeps it, connected and in nobody's entry.
StoreClient(h) ==
    LET u == task[h].user
    IN  /\ task[h].op = "storing"
        /\ Unlocked
        /\ clients' = [clients EXCEPT ![u] = task[h].client]
        /\ IF clients[u] \in {NoClient, mm}
           THEN GoTo(h, "tell_in") /\ UNCHANGED locker
           ELSE /\ task' = [task EXCEPT ![h].op = "destroying",
                                        ![h].client = clients[u]]
                /\ locker' = h
        /\ UNCHANGED <<active, loggedIn, conn, owner, reader, mm, reconnects, workerVars,
                       told>>
        /\ NoteRaces

\* Stop() in the destructor has joined the reader; m_mutex_clients is released.
DestroyClient(h) ==
    LET k == task[h].client
    IN  /\ task[h].op = "destroying"
        /\ reader[k] = "idle"
        /\ conn' = [conn EXCEPT ![k] = "stopped"]
        /\ locker' = "nobody"
        /\ GoTo(h, "tell_in")
        /\ UNCHANGED <<active, loggedIn, clients, owner, reader, mm, reconnects,
                       workerVars, told>>
        /\ NoteRaces

\* FireStateCallback(user_id, SignedIn)
TellSignedIn(h) ==
    /\ task[h].op = "tell_in"
    /\ told' = [told EXCEPT ![task[h].user] = "SignedIn"]
    /\ Return(h, "connected")
    /\ UNCHANGED <<active, loggedIn, clientVars, reconnects, workerVars, locker>>
    /\ NoteRaces

-----------------------------------------------------------------------------
(* DisconnectUser, by either thread.                                       *)

\* Fault: every user's client is erased.
Detach_All(u) == clients' = [v \in Users |-> NoClient]

\* m_clients.erase
Detach(u) == clients' = [clients EXCEPT ![u] = NoClient]

DisconnectUser(h) ==
    LET u == task[h].user
    IN  /\ task[h].op = "disconnect"
        /\ Unlocked
        /\ Detach(u)
        /\ IF clients[u] = NoClient
           THEN Return(h, "mark")
           ELSE task' = [task EXCEPT ![h].op = "stop", ![h].client = clients[u]]
        /\ UNCHANGED <<active, loggedIn, conn, owner, reader, mm, reconnects, workerVars,
                       told, locker>>
        /\ NoteRaces

\* client->Stop() has joined the reader; FailPendingRequests follows (NpAuth).
StopClient(h) ==
    LET k == task[h].client
    IN  /\ task[h].op = "stop"
        /\ reader[k] = "idle"
        /\ conn' = [conn EXCEPT ![k] = "stopped"]
        /\ GoTo(h, "tell_out")
        /\ UNCHANGED <<active, loggedIn, clients, owner, reader, mm, reconnects,
                       workerVars, told, locker>>
        /\ NoteRaces

\* Fault: the callback is left out.
Tell_Nobody(u, state) == UNCHANGED told

\* FireStateCallback
Tell(u, state) == told' = [told EXCEPT ![u] = state]

TellSignedOut(h) ==
    /\ task[h].op = "tell_out"
    /\ Tell(task[h].user, "SignedOut")
    /\ Return(h, "mark")
    /\ UNCHANGED <<active, loggedIn, clientVars, reconnects, workerVars, locker>>
    /\ NoteRaces

-----------------------------------------------------------------------------
(* WorkerThread.                                                           *)

BeginRound(r, next) ==
    /\ task["worker"] = Idle /\ dropped = {} /\ due = {}
    /\ round = r /\ round' = next
    /\ Unlocked

Lost == {u \in Users : clients[u] # NoClient /\ conn[clients[u]] # "up"}

CollectDropped ==
    /\ BeginRound("lost", "reconnect")
    /\ dropped' = Lost
    /\ UNCHANGED <<active, loggedIn, clientVars, reconnects, task, due, told, locker>>
    /\ NoteRaces

NextDropped(u) ==
    /\ task["worker"] = Idle /\ u \in dropped
    /\ dropped' = dropped \ {u}
    /\ Begin("worker", "disconnect", u)
    /\ UNCHANGED <<active, loggedIn, clientVars, reconnects, round, due, told, locker>>
    /\ NoteRaces

\* MarkForReconnect: the test of m_initialized, then the entry in m_reconnects.
CheckActive ==
    /\ task["worker"].op = "mark"
    /\ IF active THEN GoTo("worker", "marking")
                 ELSE task' = [task EXCEPT !["worker"] = Idle]
    /\ UNCHANGED <<active, loggedIn, clientVars, reconnects, workerVars, told, locker>>
    /\ NoteRaces

MarkForReconnect ==
    /\ task["worker"].op = "marking"
    /\ Unlocked
    /\ reconnects' = reconnects \cup {task["worker"].user}
    /\ task' = [task EXCEPT !["worker"] = Idle]
    /\ UNCHANGED <<active, loggedIn, clientVars, workerVars, told, locker>>
    /\ NoteRaces

\* TryReconnect: every user who has a client, and those whose time has come.
CollectDue ==
    /\ BeginRound("reconnect", "lost")
    /\ \E us \in SUBSET reconnects :
         /\ {u \in reconnects : clients[u] # NoClient} \subseteq us
         /\ due' = us
    /\ UNCHANGED <<active, loggedIn, clientVars, reconnects, task, dropped, told,
                   locker>>
    /\ NoteRaces

\* Fault: the users stay in m_reconnects.
GiveUp_Keeps(u) == UNCHANGED reconnects

\* TryReconnect while NpHandler is off
GiveUp(u) == reconnects' = reconnects \ {u}

NextDue(u) ==
    /\ task["worker"] = Idle /\ dropped = {} /\ u \in due
    /\ due' = due \ {u}
    /\ IF active
       THEN Begin("worker", "check", u) /\ UNCHANGED reconnects
       ELSE Unlocked /\ GiveUp(u) /\ UNCHANGED task
    /\ UNCHANGED <<active, loggedIn, clientVars, round, dropped, told, locker>>
    /\ NoteRaces

\* The end of an attempt: the entry goes when the user has a client, else it waits
\* for the next time.
EndAttempt ==
    LET u == task["worker"].user
    IN  /\ task["worker"].op \in {"connected", "failed"}
        /\ Unlocked
        /\ reconnects' = IF task["worker"].op = "connected" \/ clients[u] # NoClient
                         THEN reconnects \ {u} ELSE reconnects
        /\ task' = [task EXCEPT !["worker"] = Idle]
        /\ UNCHANGED <<active, loggedIn, clientVars, workerVars, told, locker>>
        /\ NoteRaces

-----------------------------------------------------------------------------
(* The clients.                                                            *)

LoseConnection(k) ==
    /\ conn[k] = "up" /\ reader[k] = "idle"
    /\ conn' = [conn EXCEPT ![k] = "dropped"]
    /\ UNCHANGED <<active, loggedIn, clients, owner, reader, mm, reconnects, task,
                   workerVars, told, locker, raced>>

\* The server rejects the build: OnClientRejected on the reader thread, which has to
\* wait for m_mutex_clients.
BeginReject(k) ==
    /\ conn[k] = "up" /\ reader[k] = "idle"
    /\ reader' = [reader EXCEPT ![k] = "rejecting"]
    /\ UNCHANGED <<active, loggedIn, clients, conn, owner, mm, reconnects, task,
                   workerVars, told, locker, raced>>

OnClientRejected(k) ==
    /\ reader[k] = "rejecting"
    /\ Unlocked
    /\ reader' = [reader EXCEPT ![k] = "idle"]
    /\ reconnects' = reconnects \ {owner[k]}
    /\ active' = FALSE
    /\ UNCHANGED <<loggedIn, clients, conn, owner, mm, task, workerVars, told, locker,
                   raced>>

-----------------------------------------------------------------------------
TaskStep(h) ==
    \/ CheckSignedIn(h) \/ ConnectFails(h) \/ ConnectSucceeds(h)
    \/ PublishClient(h) \/ StoreClient(h) \/ DestroyClient(h) \/ TellSignedIn(h)
    \/ DisconnectUser(h) \/ StopClient(h) \/ TellSignedOut(h)

WorkerStep ==
    \/ CollectDropped
    \/ \E u \in Users : NextDropped(u) \/ NextDue(u)
    \/ CheckActive \/ MarkForReconnect \/ CollectDue \/ EndAttempt

Join(h) == PublishClient(h) \/ StopClient(h) \/ DestroyClient(h)

ClientStep(k) == LoseConnection(k) \/ BeginReject(k) \/ OnClientRejected(k)

Next ==
    /\ \/ \E u \in scene.users : OnUserLoggedIn(u) \/ OnUserLoggedOut(u)
       \/ \E h \in Handlers : TaskStep(h)
       \/ WorkerStep
       \/ \E k \in scene.clients : ClientStep(k)
    /\ UNCHANGED scene

Spec == Init /\ [][Next]_vars

(***************************************************************************)
(* The threads go on when they can.  A mutex that is taken again and again *)
(* is still obtained in the end: the worker sleeps between two rounds and  *)
(* the hook runs for events only, hence weak fairness of each thread.      *)
(* No thread need ever leave the wait for its login: WaitForAuthenticated  *)
(* has no timeout and may have lost its wake-up (ShadNetClient's           *)
(* StuckOnlyAfterAccept), hence no fairness while a thread is connecting.  *)
(* Stop() sets m_terminate before it joins a reader, which therefore does  *)
(* not handle one rejection after the other: strong fairness of the joins. *)
(* next_attempt is at most thirty seconds away, so that a user who stays   *)
(* in m_reconnects is due in one of the worker's rounds: strong fairness.  *)
(***************************************************************************)
Fairness ==
    /\ \A h \in Handlers :
         /\ WF_vars(TaskStep(h) /\ task[h].op # "connecting" /\ UNCHANGED scene)
         /\ SF_vars(Join(h) /\ UNCHANGED scene)
    /\ WF_vars(WorkerStep /\ UNCHANGED scene)
    /\ \A u \in Users : SF_vars(CollectDue /\ u \in due' /\ UNCHANGED scene)
    /\ \A k \in Clients : WF_vars(OnClientRejected(k) /\ UNCHANGED scene)

FairSpec == Spec /\ Fairness

-----------------------------------------------------------------------------
\* Every variable has its type.
TypeOK ==
    /\ active \in BOOLEAN
    /\ loggedIn \subseteq Users
    /\ clients \in [Users -> Clients \cup {NoClient}]
    /\ conn \in [Clients -> {"unused", "up", "dropped", "stopped"}]
    /\ owner \in [Clients -> Users \cup {NoUser}]
    /\ reader \in [Clients -> {"idle", "rejecting"}]
    /\ reconnects \subseteq Users
    /\ task \in [Handlers -> Task]
    /\ mm \in Clients \cup {NoClient}
    /\ round \in {"lost", "reconnect"}
    /\ dropped \subseteq Users /\ due \subseteq Users
    /\ told \in [Users -> {"nothing", "SignedIn", "SignedOut"}]
    /\ locker \in Handlers \cup {"nobody"}
    /\ raced \subseteq Users
    /\ scene \in Scenes

\* Nobody is at work on user u, and nobody was at the same time as the other.
Settled(u) ==
    u \notin Working("hook") /\ u \notin Working("worker") /\ u \notin raced

\* A user who has logged out stays signed out and is not signed in again by the
\* worker, unless the hook and the worker worked on the user at the same time
\* (OnUserLoggedOut clears m_reconnects before DisconnectUser).
LoggedOutStaysOut ==
    \A u \in Users : active /\ Settled(u) /\ u \notin loggedIn =>
        clients[u] = NoClient /\ u \notin reconnects

\* What the game was last told is what is: signed in exactly while the user has a
\* client (FireStateCallback runs after the change, outside the mutex).
ToldRight ==
    \A u \in Users : active /\ Settled(u) =>
        (told[u] = "SignedIn" <=> clients[u] # NoClient)

\* After any interleaving of log-ins, log-outs, losses and reconnections the sign-in of a
\* user on whom the hook and the worker never met is what was asked for and what the
\* game was told.
SettledIsRight == LoggedOutStaysOut /\ ToldRight

\* A client is destroyed under m_mutex_clients, where its reader may be waiting for
\* that very mutex, only after the two threads met on a user (ConnectUserById and
\* the assignment in ConnectUser are not one step).
OverwriteOnlyByRace ==
    \A h \in Handlers : task[h].op = "destroying" => task[h].user \in raced

\* No connection is left behind: a client whose connection has not been stopped is
\* held by m_clients or by a thread at work with it, except after such a meeting
\* (g_mm may keep the client that lost).
NoConnectionLeaks ==
    \A k \in Clients : conn[k] \in {"up", "dropped"} => Held(k) \/ owner[k] \in raced

\* A client has one place: no two users share one, and a client that was stopped,
\* or never stored, is in nobody's entry.
ClientsAreOwned ==
    \A u \in Users : clients[u] # NoClient =>
        owner[clients[u]] = u /\ conn[clients[u]] \in {"up", "dropped"}

\* Every connection has one owner, and a client is destroyed under the mutex or left
\* behind only where the two threads met.
OneOwnerEach == TypeOK /\ ClientsAreOwned /\ OverwriteOnlyByRace /\ NoConnectionLeaks

\* A thread holds m_mutex_clients and waits for a reader that waits for the mutex.
Deadlocked ==
    \E h \in Handlers : task[h].op = "destroying" /\ reader[task[h].client] = "rejecting"

\* The worker waits for a login for ever.
LoginHangs == [](task["worker"].op = "connecting")

\* A lost connection is noticed: the client leaves m_clients, unless the worker hangs.
LossIsNoticed ==
    \A k \in Clients :
        (\E u \in Users : clients[u] = k /\ conn[k] = "dropped")
            ~> (Deadlocked \/ LoginHangs \/ \A u \in Users : clients[u] # k)

\* Once the server has rejected the build nobody stays scheduled for reconnection
\* (OnClientRejected, MarkForReconnect and TryReconnect read m_initialized at
\* different times), unless the worker hangs.
RejectionEndsReconnects ==
    ~active ~> (Deadlocked \/ LoginHangs \/ [](reconnects = {}))

\* The worker does what it is there for, unless it is deadlocked with a reader or waits
\* for a login that never ends; a hook that waits so does not keep it from it.
WorkerKeepsUp == LossIsNoticed /\ RejectionEndsReconnects
=============================================================================
