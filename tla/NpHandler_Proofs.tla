-------------------------- MODULE NpHandler_Proofs --------------------------
(***************************************************************************)
(* NpHandler for any sets of users and clients and any scenes: what the    *)
(* run checks of its states, proved with an inductive invariant.           *)
(***************************************************************************)
EXTENDS NpHandler, TLAPS

\* The stages at which a thread has a client for itself,
Exclusive == {"publish", "storing", "destroying", "stop"}
\* at which the user it works for has no client, or has one,
Absent == {"check", "connecting", "publish", "storing", "failed", "stop", "tell_out",
           "mark", "marking"}
Present == {"tell_in", "connected"}
\* at which the game is still to be told, and those of a log-out.
Telling == {"tell_in", "stop", "tell_out"}
LogOut == {"disconnect", "stop", "tell_out"}

Live == {"up", "dropped"}

\* A task has a user, and a client at the stages that need one.
Tasks ==
    \A h \in Handlers :
        /\ task[h].user = NoUser <=> task[h].op = "idle"
        /\ task[h].op \in Exclusive => task[h].client \in Clients

\* The worker works off one list, and has taken the user it works for from it.
Lists ==
    /\ dropped = {} \/ due = {}
    /\ task["worker"].user \notin dropped \cup due

\* Users both threads are working on are known.
Met == Working("hook") \cap Working("worker") \subseteq raced \cup {NoUser}

\* A client a thread has for itself is its user's, connected, and nobody else's.
Hands ==
    \A h \in Handlers : task[h].op \in Exclusive =>
        /\ owner[task[h].client] = task[h].user
        /\ conn[task[h].client] \in Live
        /\ \A u \in Users : clients[u] # task[h].client
        /\ \A g \in Handlers \ {h} :
              task[g].op \in Exclusive => task[g].client # task[h].client

\* A connection is in m_clients, or in a thread's hands, or was lost in a race.
Accounted ==
    \A k \in Clients : conn[k] \in Live =>
        \/ \E u \in Users : clients[u] = k
        \/ \E h \in Handlers : task[h].op \in Exclusive /\ task[h].client = k
        \/ owner[k] \in raced

\* While a thread works for a user alone the entry of m_clients is where the stage
\* says; who is scheduled has none, and the hook works for nobody who is scheduled.
Entries ==
    \A u \in Users \ raced :
        /\ \A h \in Handlers : task[h].user = u =>
              /\ task[h].op \in Absent => clients[u] = NoClient
              /\ task[h].op \in Present => clients[u] # NoClient
              /\ task[h].op # "destroying"
        /\ u \in due => clients[u] = NoClient
        /\ u \in reconnects =>
              \/ clients[u] = NoClient
              \/ task["worker"].user = u /\ task["worker"].op \in Present
        /\ task["hook"].user = u => u \notin reconnects

\* The worker works for users who are logged in, the hook for one who is or who is
\* not, and a user who is not has no client and is not scheduled.
Asked ==
    active => \A u \in Users \ raced :
        /\ u \in Working("worker") => u \in loggedIn
        /\ task["hook"].user = u =>
              (u \in loggedIn <=> task["hook"].op \notin LogOut)
        /\ u \notin loggedIn /\ task["hook"].user # u =>
              clients[u] = NoClient /\ u \notin reconnects

\* The game knows what is, unless a thread is about to tell it.
Told ==
    active => \A u \in Users \ raced :
        (\A h \in Handlers : task[h].user = u => task[h].op \notin Telling) =>
            (told[u] = "SignedIn" <=> clients[u] # NoClient)

IInv == /\ TypeOK /\ Tasks /\ Lists /\ Met /\ ClientsAreOwned /\ Hands /\ Accounted
        /\ Entries /\ Asked /\ Told


-----------------------------------------------------------------------------
\* The tasks keep their type: a thread takes a user from the events or its lists, and a
\* client that is new or the user's.
LEMMA TaskTyped ==
  ASSUME TypeOK, Tasks, [Next]_vars
  PROVE  task' \in [Handlers -> Task]
<1> USE HandlerAssumption DEF TypeOK, Scene, Task, Handlers, Idle, GoTo, Return, Begin
<1>1. CASE \E u \in scene.users : OnUserLoggedIn(u) \/ OnUserLoggedOut(u)
  <2>1. scene.users \subseteq Users
    OBVIOUS
  <2> QED
    BY <1>1, <2>1 DEF OnUserLoggedIn, OnUserLoggedOut
<1>2. ASSUME NEW h \in Handlers, TaskStep(h) PROVE task' \in [Handlers -> Task]
  <2>1. CASE ConnectSucceeds(h)
    <3>1. {k \in scene.clients : conn[k] = "unused"} \subseteq Clients
      OBVIOUS
    <3> QED
      BY <2>1, <3>1 DEF ConnectSucceeds
  <2>2. CASE StoreClient(h) \/ DisconnectUser(h)
    <3>1. task[h].op \in {"storing", "disconnect"}
      BY <2>2 DEF StoreClient, DisconnectUser
    <3>2. task[h].user \in Users
      BY <3>1 DEF Tasks
    <3>3. clients[task[h].user] \in Clients \cup {NoClient}
      BY <3>2
    <3> QED
      BY <2>2, <3>3 DEF StoreClient, DisconnectUser
  <2> QED
    BY <1>2, <2>1, <2>2 DEF TaskStep, CheckSignedIn, ConnectFails, PublishClient,
       DestroyClient, TellSignedIn, StopClient, TellSignedOut
<1>3. CASE WorkerStep
  BY <1>3 DEF WorkerStep, CollectDropped, NextDropped, NextDue, CheckActive,
     MarkForReconnect, CollectDue, EndAttempt
<1>4. CASE UNCHANGED task
  BY <1>4
<1> QED
  BY <1>1, <1>2, <1>3, <1>4 DEF Next, vars, ClientStep, LoseConnection, BeginReject,
     OnClientRejected

\* The other variables keep their types; the user of a task is a user.
LEMMA TypeStep ==
  ASSUME TypeOK, Tasks, [Next]_vars
  PROVE  TypeOK'
<1> USE HandlerAssumption DEF Scene, Handlers, clientVars, workerVars
<1>1. task' \in [Handlers -> Task]
  BY TaskTyped
<1>2. \A h \in Handlers : task[h].op # "idle" => task[h].user \in Users
  BY DEF TypeOK, Tasks, Task
<1>3. scene.users \subseteq Users /\ scene.clients \subseteq Clients
  BY DEF TypeOK
<1>4. /\ active' \in BOOLEAN /\ loggedIn' \subseteq Users /\ reconnects' \subseteq Users
      /\ round' \in {"lost", "reconnect"} /\ scene' \in Scenes
  <2>1. CASE \E u \in scene.users : OnUserLoggedIn(u) \/ OnUserLoggedOut(u)
    BY <1>3, <2>1 DEF TypeOK, Next, vars, OnUserLoggedIn, OnUserLoggedOut, Unschedule
  <2>2. ASSUME NEW h \in Handlers, TaskStep(h)
        PROVE  UNCHANGED <<active, loggedIn, reconnects, round>>
    BY <2>2 DEF TaskStep, CheckSignedIn, ConnectFails, ConnectSucceeds, PublishClient,
       StoreClient, DestroyClient, TellSignedIn, DisconnectUser, StopClient, TellSignedOut
  <2>3. CASE WorkerStep
    <3>1. MarkForReconnect => task["worker"].user \in Users
      BY <1>2 DEF MarkForReconnect
    <3> QED
      BY <2>3, <3>1 DEF TypeOK, Next, vars, WorkerStep, CollectDropped, NextDropped, NextDue, CheckActive,
         MarkForReconnect, CollectDue, EndAttempt, BeginRound, GiveUp
  <2>4. CASE \E k \in scene.clients : ClientStep(k)
    BY <2>4 DEF TypeOK, Next, vars, ClientStep, LoseConnection, BeginReject, OnClientRejected
  <2>5. scene' = scene
    BY DEF Next, vars
  <2> QED
    BY <2>1, <2>2, <2>3, <2>4, <2>5 DEF TypeOK, Next, vars
<1> DEFINE
  ClientsTyped ==
      /\ clients' \in [Users -> Clients \cup {NoClient}]
      /\ conn' \in [Clients -> {"unused", "up", "dropped", "stopped"}]
      /\ owner' \in [Clients -> Users \cup {NoUser}]
      /\ reader' \in [Clients -> {"idle", "rejecting"}]
      /\ mm' \in Clients \cup {NoClient}
  ListsTyped ==
      /\ dropped' \subseteq Users /\ due' \subseteq Users
      /\ told' \in [Users -> {"nothing", "SignedIn", "SignedOut"}]
      /\ locker' \in Handlers \cup {"nobody"}
<1>5. ClientsTyped
  <2>1. CASE \E u \in scene.users : OnUserLoggedIn(u) \/ OnUserLoggedOut(u)
    BY <2>1 DEF TypeOK, OnUserLoggedIn, OnUserLoggedOut
  <2>2. ASSUME NEW h \in Handlers, TaskStep(h)
        PROVE  ClientsTyped
    <3>1. task[h] \in Task
      BY DEF TypeOK
    <3> QED
      BY <1>3, <2>2, <3>1 DEF TypeOK, Task, TaskStep, CheckSignedIn, ConnectFails, ConnectSucceeds,
       PublishClient, StoreClient, DestroyClient, TellSignedIn, DisconnectUser, Detach,
       StopClient, TellSignedOut
  <2>3. CASE WorkerStep
    BY <2>3 DEF TypeOK, WorkerStep, CollectDropped, NextDropped, NextDue, CheckActive,
       MarkForReconnect, CollectDue, EndAttempt
  <2>4. CASE \E k \in scene.clients : ClientStep(k)
    BY <2>4 DEF TypeOK, ClientStep, LoseConnection, BeginReject, OnClientRejected
  <2> QED
    BY <2>1, <2>2, <2>3, <2>4 DEF TypeOK, Next, vars
<1>6. ListsTyped
  <2>1. CASE \E u \in scene.users : OnUserLoggedIn(u) \/ OnUserLoggedOut(u)
    BY <2>1 DEF TypeOK, OnUserLoggedIn, OnUserLoggedOut
  <2>2. ASSUME NEW h \in Handlers, TaskStep(h)
        PROVE  ListsTyped
    BY <2>2 DEF TypeOK, TaskStep, CheckSignedIn, ConnectFails, ConnectSucceeds, PublishClient,
       StoreClient, DestroyClient, TellSignedIn, DisconnectUser, StopClient, TellSignedOut, Tell
  <2>3. CASE WorkerStep
    BY <2>3 DEF TypeOK, WorkerStep, CollectDropped, NextDropped, NextDue, CheckActive,
       MarkForReconnect, CollectDue, EndAttempt, Lost
  <2>4. CASE \E k \in scene.clients : ClientStep(k)
    BY <2>4 DEF TypeOK, ClientStep, LoseConnection, BeginReject, OnClientRejected
  <2> QED
    BY <2>1, <2>2, <2>3, <2>4 DEF TypeOK, Next, vars
<1>7. raced' \subseteq Users
  <2>1. raced' = raced \/ NoteRaces
    BY DEF Next, vars, OnUserLoggedIn, OnUserLoggedOut, TaskStep, CheckSignedIn, ConnectFails, ConnectSucceeds, PublishClient,
       StoreClient, DestroyClient, TellSignedIn, DisconnectUser, StopClient, TellSignedOut,
       WorkerStep, CollectDropped, NextDropped, NextDue, CheckActive,
       MarkForReconnect, CollectDue, EndAttempt, ClientStep, LoseConnection, BeginReject, OnClientRejected
  <2>2. Working("hook")' \subseteq Users \cup {NoUser}
    BY <1>1 DEF Working, Task
  <2> QED
    BY <2>1, <2>2 DEF NoteRaces, TypeOK
<1> QED
  BY <1>1, <1>4, <1>5, <1>6, <1>7 DEF TypeOK

-----------------------------------------------------------------------------
\* What a step does to the tasks: h goes on with op for user u with client k, or is
\* done with its user, and the other thread stays where it is.
Moved(h, op, u, k) ==
    /\ task'[h].op = op /\ task'[h].user = u /\ task'[h].client = k
    /\ \A g \in Handlers \ {h} : task'[g] = task[g]

Returned(h, op) == IF h = "hook" THEN Moved(h, "idle", NoUser, NoClient)
                   ELSE Moved(h, op, task[h].user, NoClient)

\* How the tasks move in a step of a thread.
LEMMA ThreadMoves ==
  ASSUME TypeOK, NEW h \in Handlers
  PROVE  /\ CheckSignedIn(h) => \/ Moved(h, "connecting", task[h].user, task[h].client)
                                \/ IsSignedIn(task[h].user) /\ Returned(h, "connected")
         /\ ConnectFails(h) => Returned(h, "failed")
         /\ ConnectSucceeds(h) => \E k \in Clients :
                /\ conn[k] = "unused" /\ conn' = [conn EXCEPT ![k] = "up"]
                /\ owner' = [owner EXCEPT ![k] = task[h].user]
                /\ Moved(h, "publish", task[h].user, k)
         /\ PublishClient(h) => Moved(h, "storing", task[h].user, task[h].client)
         /\ StoreClient(h) =>
                \/ /\ clients[task[h].user] \in {NoClient, mm}
                   /\ Moved(h, "tell_in", task[h].user, task[h].client)
                \/ /\ clients[task[h].user] \notin {NoClient, mm}
                   /\ Moved(h, "destroying", task[h].user, clients[task[h].user])
         /\ DestroyClient(h) => Moved(h, "tell_in", task[h].user, task[h].client)
         /\ TellSignedIn(h) => Returned(h, "connected")
         /\ DisconnectUser(h) =>
                \/ clients[task[h].user] = NoClient /\ Returned(h, "mark")
                \/ /\ clients[task[h].user] # NoClient
                   /\ Moved(h, "stop", task[h].user, clients[task[h].user])
         /\ StopClient(h) => Moved(h, "tell_out", task[h].user, task[h].client)
         /\ TellSignedOut(h) => Returned(h, "mark")
<1>1. task \in [Handlers -> [op : {task[g].op : g \in Handlers}, user : Users \cup {NoUser},
                             client : Clients \cup {NoClient}]]
  BY DEF TypeOK, Task
<1> USE <1>1 DEF Moved, Returned, GoTo, Return, Idle, Handlers
<1>2. ASSUME NEW op, GoTo(h, op) PROVE Moved(h, op, task[h].user, task[h].client)
  BY <1>2
<1>3. ASSUME NEW op, Return(h, op) PROVE Returned(h, op)
  BY <1>3
<1>4. ASSUME NEW op, NEW k, task' = [task EXCEPT ![h].op = op, ![h].client = k]
      PROVE  Moved(h, op, task[h].user, k)
  BY <1>4
<1> HIDE DEF Moved, Returned, GoTo, Return
<1>5. ASSUME ConnectSucceeds(h)
      PROVE \E k \in Clients :
                /\ conn[k] = "unused" /\ conn' = [conn EXCEPT ![k] = "up"]
                /\ owner' = [owner EXCEPT ![k] = task[h].user]
                /\ Moved(h, "publish", task[h].user, k)
  <2>1. PICK k \in scene.clients :
                /\ conn[k] = "unused" /\ conn' = [conn EXCEPT ![k] = "up"]
                /\ owner' = [owner EXCEPT ![k] = task[h].user]
                /\ task' = [task EXCEPT ![h].op = "publish", ![h].client = k]
    BY <1>5 DEF ConnectSucceeds
  <2>2. k \in Clients
    BY HandlerAssumption DEF TypeOK, Scene
  <2>3. Moved(h, "publish", task[h].user, k)
    BY <1>4, <2>1
  <2> QED
    BY <2>1, <2>2, <2>3
<1> QED
  BY <1>2, <1>3, <1>4, <1>5 DEF CheckSignedIn, ConnectFails, PublishClient, StoreClient,
     DestroyClient, TellSignedIn, DisconnectUser, StopClient, TellSignedOut

\* How they move in a step of the worker on its lists, and in one of the user service.
LEMMA OtherMoves ==
  ASSUME TypeOK
  PROVE  /\ WorkerStep =>
                \/ UNCHANGED task
                \/ \E u \in dropped : NextDropped(u) /\ Moved("worker", "disconnect", u, NoClient)
                \/ \E u \in due : NextDue(u) /\ active /\ Moved("worker", "check", u, NoClient)
                \/ CheckActive /\ active /\ Moved("worker", "marking", task["worker"].user, task["worker"].client)
                \/ /\ task["worker"].op \in {"mark", "marking", "connected", "failed"}
                   /\ Moved("worker", "idle", NoUser, NoClient)
         /\ \A u \in Users : OnUserLoggedIn(u) =>
                \/ active /\ Moved("hook", "check", u, NoClient)
                \/ ~active /\ UNCHANGED task
         /\ \A u \in Users : OnUserLoggedOut(u) =>
                \/ active /\ Moved("hook", "disconnect", u, NoClient)
                \/ ~active /\ UNCHANGED task
<1>1. task \in [Handlers -> [op : {task[g].op : g \in Handlers}, user : Users \cup {NoUser},
                             client : Clients \cup {NoClient}]]
  BY DEF TypeOK, Task
<1>2. ASSUME NEW h \in Handlers, NEW op, GoTo(h, op) PROVE Moved(h, op, task[h].user, task[h].client)
  BY <1>1, <1>2 DEF Moved, GoTo, Handlers
<1>3. ASSUME NEW h \in Handlers, NEW op, NEW u, Begin(h, op, u) PROVE Moved(h, op, u, NoClient)
  BY <1>1, <1>3 DEF Moved, Begin, Handlers
<1>4. ASSUME task' = [task EXCEPT !["worker"] = Idle] PROVE Moved("worker", "idle", NoUser, NoClient)
  BY <1>1, <1>4 DEF Moved, Idle, Handlers
<1>5. "worker" \in Handlers /\ "hook" \in Handlers
  BY DEF Handlers
<1>6. ASSUME WorkerStep
      PROVE     \/ UNCHANGED task
                \/ \E u \in dropped : NextDropped(u) /\ Moved("worker", "disconnect", u, NoClient)
                \/ \E u \in due : NextDue(u) /\ active /\ Moved("worker", "check", u, NoClient)
                \/ CheckActive /\ active /\ Moved("worker", "marking", task["worker"].user, task["worker"].client)
                \/ /\ task["worker"].op \in {"mark", "marking", "connected", "failed"}
                   /\ Moved("worker", "idle", NoUser, NoClient)
  <2>1. ASSUME NEW u \in Users, NextDropped(u)
        PROVE  u \in dropped /\ Moved("worker", "disconnect", u, NoClient)
    BY <1>3, <1>5, <2>1 DEF NextDropped
  <2>2. ASSUME NEW u \in Users, NextDue(u)
        PROVE  /\ u \in due
               /\ \/ active /\ Moved("worker", "check", u, NoClient)
                  \/ UNCHANGED task
    BY <1>3, <1>5, <2>2 DEF NextDue
  <2>3. CASE CheckActive
    BY <1>2, <1>4, <1>5, <2>3 DEF CheckActive
  <2> QED
    BY <1>4, <1>6, <2>1, <2>2, <2>3 DEF WorkerStep, CollectDropped, MarkForReconnect, CollectDue,
       EndAttempt
<1> QED
  BY <1>3, <1>5, <1>6 DEF OnUserLoggedIn, OnUserLoggedOut

\* A step is one of a thread, of the worker on its lists, of the user service, of a
\* client, or none.
LEMMA Cases ==
  ASSUME TypeOK, [Next]_vars
  PROVE  \/ \E u \in Users : OnUserLoggedIn(u) \/ OnUserLoggedOut(u)
         \/ \E h \in Handlers : TaskStep(h)
         \/ WorkerStep
         \/ \E k \in Clients : ClientStep(k)
         \/ UNCHANGED vars
<1>1. scene.users \subseteq Users /\ scene.clients \subseteq Clients
  BY HandlerAssumption DEF TypeOK, Scene
<1> QED
  BY <1>1 DEF Next

\* A task has a user, and a client where it needs one.
LEMMA TasksStep ==
  ASSUME TypeOK, Tasks, [Next]_vars
  PROVE  Tasks'
<1> USE DEF Exclusive
<1>1. NoUser \notin Users /\ NoClient \notin Clients /\ {"hook", "worker"} = Handlers
  BY HandlerAssumption DEF Handlers
<1>2. \A h \in Handlers : task[h].op # "idle" => task[h].user \in Users
  BY DEF TypeOK, Tasks, Task
<1>3. \A u \in Users : clients[u] \in Clients \cup {NoClient}
  BY DEF TypeOK
<1>4. ASSUME NEW h \in Handlers, TaskStep(h) PROVE Tasks'
  <2>1. task[h].op # "idle"
    BY <1>4 DEF TaskStep, CheckSignedIn, ConnectFails, ConnectSucceeds, PublishClient,
       StoreClient, DestroyClient, TellSignedIn, DisconnectUser, StopClient, TellSignedOut
  <2>2. CASE CheckSignedIn(h) \/ ConnectFails(h) \/ TellSignedIn(h) \/ TellSignedOut(h) \/ DestroyClient(h) \/ StopClient(h)
    BY <1>1, <2>1, <2>2, ThreadMoves DEF Tasks, Moved, Returned
  <2>3. CASE PublishClient(h)
    <3>1. task[h].op = "publish"
      BY <2>3 DEF PublishClient
    <3> QED
      BY <1>1, <2>1, <2>3, <3>1, ThreadMoves DEF Tasks, Moved
  <2>4. CASE ConnectSucceeds(h) \/ StoreClient(h) \/ DisconnectUser(h)
    BY <1>1, <1>2, <1>3, <2>1, <2>4, ThreadMoves DEF Tasks, Moved, Returned
  <2> QED
    BY <1>4, <2>2, <2>3, <2>4 DEF TaskStep
<1>5. CASE WorkerStep
  <2>1. CheckActive => task["worker"].op = "mark"
    BY DEF CheckActive
  <2>2. dropped \subseteq Users /\ due \subseteq Users
    BY DEF TypeOK
  <2> QED
    BY <1>1, <1>5, <2>1, <2>2, OtherMoves DEF Tasks, Moved
<1>6. CASE \E u \in Users : OnUserLoggedIn(u) \/ OnUserLoggedOut(u)
  BY <1>1, <1>6, OtherMoves DEF Tasks, Moved
<1>7. CASE UNCHANGED task
  BY <1>7 DEF Tasks
<1> QED
  BY <1>4, <1>5, <1>6, <1>7, Cases DEF vars, ClientStep, LoseConnection, BeginReject,
     OnClientRejected

\* A list is filled when both are empty, and who is taken from it leaves it.
LEMMA ListsStep ==
  ASSUME TypeOK, Tasks, Lists, [Next]_vars
  PROVE  Lists'
<1>1. NoUser \notin Users /\ {"hook", "worker"} = Handlers
  BY HandlerAssumption DEF Handlers
<1>2. dropped \subseteq Users /\ due \subseteq Users
  BY DEF TypeOK
<1>3. ASSUME NEW h \in Handlers, TaskStep(h) PROVE Lists'
  <2>1. UNCHANGED <<dropped, due>>
    BY <1>3 DEF TaskStep, CheckSignedIn, ConnectFails, ConnectSucceeds, PublishClient, workerVars,
       StoreClient, DestroyClient, TellSignedIn, DisconnectUser, StopClient, TellSignedOut
  <2>2. task'["worker"].user \in {task["worker"].user, NoUser}
    BY <1>1, <1>3, ThreadMoves DEF TaskStep, Moved, Returned
  <2> QED
    BY <1>1, <1>2, <2>1, <2>2 DEF Lists
<1>4. CASE WorkerStep
  <2>1. CASE CollectDropped \/ CollectDue
    <3>1. task["worker"].user = NoUser /\ UNCHANGED task /\ dropped = {} /\ due = {}
      BY <2>1 DEF CollectDropped, CollectDue, BeginRound, Idle
    <3>2. (dropped' = {} \/ due' = {}) /\ dropped' \cup due' \subseteq Users
      BY <2>1, <3>1 DEF CollectDropped, CollectDue, Lost, TypeOK
    <3> QED
      BY <1>1, <3>1, <3>2 DEF Lists
  <2>2. ASSUME NEW u \in Users, NextDropped(u) \/ NextDue(u) PROVE Lists'
    <3>1. task["worker"].user = NoUser
      BY <2>2 DEF NextDropped, NextDue, Idle
    <3>2. CASE NextDropped(u)
      <4>1. task'["worker"].user = u /\ dropped' = dropped \ {u} /\ due' = due /\ u \in dropped
        BY <3>2 DEF NextDropped, Begin, TypeOK, Handlers, Task
      <4> QED
        BY <4>1 DEF Lists
    <3>3. CASE NextDue(u)
      <4>1. task'["worker"].user \in {u, NoUser} /\ due' = due \ {u} /\ UNCHANGED dropped
        BY <3>1, <3>3 DEF NextDue, Begin, TypeOK, Handlers, Task
      <4> QED
        BY <1>1, <1>2, <3>3, <4>1 DEF Lists, NextDue
    <3> QED
      BY <2>2, <3>2, <3>3
  <2>3. CASE CheckActive \/ MarkForReconnect \/ EndAttempt
    <3>1. UNCHANGED <<dropped, due>>
      BY <2>3 DEF CheckActive, MarkForReconnect, EndAttempt, workerVars
    <3>2. task'["worker"].user \in {task["worker"].user, NoUser}
      BY <2>3 DEF CheckActive, MarkForReconnect, EndAttempt, GoTo, TypeOK, Handlers, Task, Idle
    <3> QED
      BY <1>1, <1>2, <3>1, <3>2 DEF Lists
  <2> QED
    BY <1>4, <2>1, <2>2, <2>3 DEF WorkerStep
<1>5. CASE \E u \in Users : OnUserLoggedIn(u) \/ OnUserLoggedOut(u)
  <2>1. UNCHANGED <<dropped, due>>
    BY <1>5 DEF OnUserLoggedIn, OnUserLoggedOut, workerVars
  <2>2. task'["worker"] = task["worker"]
    BY <1>1, <1>5, OtherMoves DEF Moved
  <2> QED
    BY <2>1, <2>2 DEF Lists
<1>6. CASE UNCHANGED <<task, dropped, due>>
  BY <1>6 DEF Lists
<1> QED
  BY <1>3, <1>4, <1>5, <1>6, Cases DEF vars, workerVars, ClientStep, LoseConnection, BeginReject,
     OnClientRejected

\* raced grows by whom both threads are working on.
LEMMA RacedStep ==
  ASSUME [Next]_vars
  PROVE  /\ raced \subseteq raced'
         /\ NoteRaces \/ UNCHANGED <<task, dropped, due, raced>>
<1>1. NoteRaces \/ UNCHANGED <<task, dropped, due, raced>>
  BY DEF Next, vars, workerVars, OnUserLoggedIn, OnUserLoggedOut, TaskStep, CheckSignedIn, ConnectFails,
     ConnectSucceeds, PublishClient, StoreClient, DestroyClient, TellSignedIn, DisconnectUser,
     StopClient, TellSignedOut, WorkerStep, CollectDropped, NextDropped, NextDue, CheckActive,
     MarkForReconnect, CollectDue, EndAttempt, ClientStep, LoseConnection, BeginReject,
     OnClientRejected
<1> QED
  BY <1>1 DEF NoteRaces

\* Met follows raced.
LEMMA MetStep ==
  ASSUME Met, [Next]_vars
  PROVE  Met'
<1>1. CASE NoteRaces
  BY <1>1 DEF NoteRaces, Met
<1>2. CASE UNCHANGED <<task, dropped, due, raced>>
  BY <1>2 DEF Met, Working
<1> QED
  BY <1>1, <1>2, RacedStep

-----------------------------------------------------------------------------
\* A new client is nobody's, a stored one leaves the hands of its thread, and one that
\* is taken out of m_clients comes into the hands of one thread.
LEMMA ClientsStep ==
  ASSUME TypeOK, Tasks, ClientsAreOwned, Hands, [Next]_vars
  PROVE  ClientsAreOwned' /\ Hands'
<1>1. NoUser \notin Users /\ NoClient \notin Clients /\ {"hook", "worker"} = Handlers
  BY HandlerAssumption DEF Handlers
<1>2. \A h \in Handlers : task[h].op # "idle" => task[h].user \in Users
  BY DEF TypeOK, Tasks, Task
<1>3. /\ clients \in [Users -> Clients \cup {NoClient}] /\ mm \in Clients \cup {NoClient}
      /\ conn \in [Clients -> {"unused", "up", "dropped", "stopped"}]
      /\ owner \in [Clients -> Users \cup {NoUser}]
  BY DEF TypeOK
<1>4. \A h \in Handlers : task[h].op \in Exclusive => task[h].client \in Clients
  BY DEF Tasks
<1> USE <1>1, <1>3 DEF Exclusive, Live
<1>5. ASSUME UNCHANGED <<clients, conn, owner>>, NEW h \in Handlers, NEW op, NEW u, NEW k,
             Moved(h, op, u, k), op \notin Exclusive
      PROVE  ClientsAreOwned' /\ Hands'
  BY <1>5 DEF ClientsAreOwned, Hands, Moved
<1>6. ASSUME UNCHANGED <<clients, conn, owner>>, NEW h \in Handlers, NEW op,
             Returned(h, op), op \notin Exclusive
      PROVE  ClientsAreOwned' /\ Hands'
  BY <1>5, <1>6 DEF Returned
<1>7. ASSUME NEW h \in Handlers, TaskStep(h) PROVE ClientsAreOwned' /\ Hands'
  <2>1. CASE CheckSignedIn(h) \/ ConnectFails(h) \/ TellSignedIn(h) \/ TellSignedOut(h)
    <3>1. UNCHANGED <<clients, conn, owner>>
      BY <2>1 DEF CheckSignedIn, ConnectFails, TellSignedIn, TellSignedOut, clientVars
    <3> QED
      BY <1>5, <1>6, <2>1, <3>1, ThreadMoves
  <2>2. CASE ConnectSucceeds(h)
    <3>1. PICK k \in Clients :
                /\ conn[k] = "unused" /\ conn' = [conn EXCEPT ![k] = "up"]
                /\ owner' = [owner EXCEPT ![k] = task[h].user]
                /\ Moved(h, "publish", task[h].user, k)
      BY <2>2, ThreadMoves
    <3>2. UNCHANGED clients
      BY <2>2 DEF ConnectSucceeds
    <3>3. ClientsAreOwned'
      BY <3>1, <3>2 DEF ClientsAreOwned
    <3>4. Hands'
      BY <1>4, <3>1, <3>2 DEF Hands, Moved, ClientsAreOwned
    <3> QED
      BY <3>3, <3>4
  <2>3. CASE PublishClient(h)
    <3>1. task[h].op = "publish" /\ UNCHANGED <<clients, owner>>
      BY <2>3 DEF PublishClient
    <3>2. \/ conn' = conn
          \/ mm \in Clients /\ conn' = [conn EXCEPT ![mm] = "stopped"] /\ ~Held(mm)
      <4>1. CASE mm = NoClient \/ Held(mm)
        BY <2>3, <4>1 DEF PublishClient
      <4>2. CASE ~(mm = NoClient \/ Held(mm))
        <5>1. conn' = [conn EXCEPT ![mm] = "stopped"]
          BY <2>3, <4>2 DEF PublishClient
        <5> QED
          BY <4>2, <5>1
      <4> QED
        BY <4>1, <4>2
    <3>3. ClientsAreOwned'
      BY <3>1, <3>2 DEF ClientsAreOwned, Held
    <3>4. Moved(h, "storing", task[h].user, task[h].client)
      BY <2>3, ThreadMoves
    <3>5. Hands'
      BY <1>4, <3>1, <3>2, <3>4 DEF Hands, Moved, Held
    <3> QED
      BY <3>3, <3>5
  <2>4. CASE StoreClient(h)
    <3>1. task[h].op = "storing" /\ UNCHANGED <<conn, owner>>
          /\ clients' = [clients EXCEPT ![task[h].user] = task[h].client]
      BY <2>4 DEF StoreClient
    <3>2. task[h].user \in Users /\ task[h].client \in Clients
      BY <1>2, <1>4, <3>1
    <3>3. ClientsAreOwned'
      BY <3>1, <3>2 DEF ClientsAreOwned, Hands
    <3>4. CASE Moved(h, "tell_in", task[h].user, task[h].client)
      <4>1. \A g \in Handlers : task'[g].op \in Exclusive =>
               g # h /\ task'[g] = task[g] /\ task[g].client # task[h].client
        BY <3>1, <3>4 DEF Hands, Moved
      <4>2. \A g \in Handlers : task'[g].op \in Exclusive =>
               \A u \in Users : clients'[u] # task'[g].client
        BY <3>1, <3>2, <4>1 DEF Hands
      <4> QED
        <5>1. ASSUME NEW g \in Handlers, task'[g].op \in Exclusive
              PROVE  /\ owner'[task'[g].client] = task'[g].user
                     /\ conn'[task'[g].client] \in Live
                     /\ \A f \in Handlers \ {g} :
                           task'[f].op \in Exclusive => task'[f].client # task'[g].client
          <6>1. task'[g] = task[g] /\ task[g].op \in Exclusive
            BY <4>1, <5>1
          <6>2. /\ owner[task[g].client] = task[g].user /\ conn[task[g].client] \in Live
                /\ \A f \in Handlers \ {g} :
                      task[f].op \in Exclusive => task[f].client # task[g].client
            BY <6>1 DEF Hands
          <6>3. \A f \in Handlers \ {g} :
                      task'[f].op \in Exclusive => task'[f].client # task'[g].client
            BY <4>1, <6>1, <6>2
          <6> QED
            BY <3>1, <6>1, <6>2, <6>3
        <5> QED
          BY <3>3, <4>2, <5>1 DEF Hands
    <3>5. CASE /\ clients[task[h].user] \notin {NoClient, mm}
               /\ Moved(h, "destroying", task[h].user, clients[task[h].user])
      BY <1>4, <3>1, <3>2, <3>5 DEF Hands, Moved, ClientsAreOwned
    <3> QED
      BY <2>4, <3>3, <3>4, <3>5, ThreadMoves
  <2>5. CASE DestroyClient(h) \/ StopClient(h)
    <3>1. task[h].op \in {"destroying", "stop"} /\ UNCHANGED <<clients, owner>>
          /\ conn' = [conn EXCEPT ![task[h].client] = "stopped"]
      BY <2>5 DEF DestroyClient, StopClient
    <3>2. ClientsAreOwned'
      BY <1>4, <3>1 DEF ClientsAreOwned, Hands
    <3>3. \E op \in {"tell_in", "tell_out"} : Moved(h, op, task[h].user, task[h].client)
      BY <2>5, ThreadMoves
    <3> QED
      BY <1>4, <3>1, <3>2, <3>3 DEF Hands, Moved
  <2>6. CASE DisconnectUser(h)
    <3>1. task[h].op = "disconnect" /\ UNCHANGED <<conn, owner>>
          /\ clients' = [clients EXCEPT ![task[h].user] = NoClient]
      BY <2>6 DEF DisconnectUser, Detach
    <3>2. task[h].user \in Users
      BY <1>2, <3>1
    <3>3. ClientsAreOwned'
      BY <3>1, <3>2 DEF ClientsAreOwned
    <3>4. CASE clients[task[h].user] = NoClient /\ Returned(h, "mark")
      <4>1. clients' = clients
        BY <3>1, <3>2, <3>4
      <4> QED
        BY <1>6, <3>1, <3>4, <4>1
    <3>5. CASE /\ clients[task[h].user] # NoClient
               /\ Moved(h, "stop", task[h].user, clients[task[h].user])
      BY <1>4, <3>1, <3>2, <3>5 DEF Hands, Moved, ClientsAreOwned
    <3> QED
      BY <2>6, <3>3, <3>4, <3>5, ThreadMoves
  <2> QED
    BY <1>7, <2>1, <2>2, <2>3, <2>4, <2>5, <2>6 DEF TaskStep
<1>8. CASE WorkerStep
  <2>1. UNCHANGED <<clients, conn, owner>>
    BY <1>8 DEF WorkerStep, CollectDropped, NextDropped, NextDue, CheckActive, clientVars,
       MarkForReconnect, CollectDue, EndAttempt
  <2>2. CASE UNCHANGED task
    BY <2>1, <2>2 DEF ClientsAreOwned, Hands
  <2> QED
    BY <1>5, <1>8, <2>1, <2>2, OtherMoves
<1>9. CASE \E u \in Users : OnUserLoggedIn(u) \/ OnUserLoggedOut(u)
  <2>1. UNCHANGED <<clients, conn, owner>>
    BY <1>9 DEF OnUserLoggedIn, OnUserLoggedOut, clientVars
  <2>2. CASE UNCHANGED task
    BY <2>1, <2>2 DEF ClientsAreOwned, Hands
  <2> QED
    BY <1>5, <1>9, <2>1, <2>2, OtherMoves
<1>10. ASSUME NEW k \in Clients, ClientStep(k) PROVE ClientsAreOwned' /\ Hands'
  <2>1. UNCHANGED <<clients, owner, task>>
        /\ \/ conn' = conn
           \/ conn[k] = "up" /\ conn' = [conn EXCEPT ![k] = "dropped"]
    <3>1. CASE LoseConnection(k)
      BY <3>1 DEF LoseConnection
    <3>2. CASE BeginReject(k)
      BY <3>2 DEF BeginReject
    <3>3. CASE OnClientRejected(k)
      BY <3>3 DEF OnClientRejected
    <3> QED
      BY <1>10, <3>1, <3>2, <3>3 DEF ClientStep
  <2> QED
    BY <1>4, <2>1 DEF ClientsAreOwned, Hands
<1>11. CASE UNCHANGED vars
  BY <1>11 DEF vars, clientVars, ClientsAreOwned, Hands
<1> QED
  BY <1>7, <1>8, <1>9, <1>10, <1>11, Cases

\* A connection leaves m_clients for a thread's hands, and when a thread stores another
\* over it, which happens to a user both threads worked on.
LEMMA AccountedStep ==
  ASSUME TypeOK, Tasks, ClientsAreOwned, Accounted, Entries, [Next]_vars
  PROVE  Accounted'
<1>1. NoUser \notin Users /\ NoClient \notin Clients /\ {"hook", "worker"} = Handlers
  BY HandlerAssumption DEF Handlers
<1>2. \A h \in Handlers : task[h].op # "idle" => task[h].user \in Users
  BY DEF TypeOK, Tasks, Task
<1>3. /\ clients \in [Users -> Clients \cup {NoClient}] /\ mm \in Clients \cup {NoClient}
      /\ conn \in [Clients -> {"unused", "up", "dropped", "stopped"}]
      /\ owner \in [Clients -> Users \cup {NoUser}]
  BY DEF TypeOK
<1>4. \A h \in Handlers : task[h].op \in Exclusive => task[h].client \in Clients
  BY DEF Tasks
<1>5. raced \subseteq raced'
  BY RacedStep
<1> USE <1>1, <1>3, <1>5 DEF Exclusive, Live
<1>6. ASSUME UNCHANGED <<clients, conn, owner>>, NEW h \in Handlers, task[h].op \notin Exclusive,
             \A g \in Handlers \ {h} : task'[g] = task[g]
      PROVE  Accounted'
  BY <1>6 DEF Accounted
<1>7. ASSUME NEW h \in Handlers, TaskStep(h) PROVE Accounted'
  <2>1. CASE CheckSignedIn(h) \/ ConnectFails(h) \/ TellSignedIn(h) \/ TellSignedOut(h)
    <3>1. UNCHANGED <<clients, conn, owner>> /\ task[h].op \notin Exclusive
      BY <2>1 DEF CheckSignedIn, ConnectFails, TellSignedIn, TellSignedOut, clientVars
    <3>2. \A g \in Handlers \ {h} : task'[g] = task[g]
      BY <2>1, ThreadMoves DEF Moved, Returned
    <3> QED
      BY <1>6, <3>1, <3>2
  <2>2. CASE ConnectSucceeds(h)
    <3>1. PICK k \in Clients :
                /\ conn[k] = "unused" /\ conn' = [conn EXCEPT ![k] = "up"]
                /\ owner' = [owner EXCEPT ![k] = task[h].user]
                /\ Moved(h, "publish", task[h].user, k)
      BY <2>2, ThreadMoves
    <3>2. UNCHANGED clients /\ task[h].op \notin Exclusive
      BY <2>2 DEF ConnectSucceeds
    <3> QED
      BY <3>1, <3>2 DEF Accounted, Moved
  <2>3. CASE PublishClient(h)
    <3>1. UNCHANGED <<clients, owner>>
      BY <2>3 DEF PublishClient
    <3>2. \/ conn' = conn
          \/ mm \in Clients /\ conn' = [conn EXCEPT ![mm] = "stopped"]
      <4>1. CASE mm = NoClient \/ Held(mm)
        BY <2>3, <4>1 DEF PublishClient
      <4>2. CASE ~(mm = NoClient \/ Held(mm))
        BY <2>3, <4>2 DEF PublishClient
      <4> QED
        BY <4>1, <4>2
    <3>3. Moved(h, "storing", task[h].user, task[h].client)
      BY <2>3, ThreadMoves
    <3> QED
      BY <3>1, <3>2, <3>3 DEF Accounted, Moved
  <2>4. CASE StoreClient(h)
    <3>1. /\ task[h].op = "storing" /\ UNCHANGED <<conn, owner>>
          /\ clients' = [clients EXCEPT ![task[h].user] = task[h].client]
      BY <2>4 DEF StoreClient
    <3>2. task[h].user \in Users /\ task[h].client \in Clients
      BY <1>2, <1>4, <3>1
    <3>3. clients[task[h].user] # NoClient =>
             /\ task[h].user \in raced
             /\ owner[clients[task[h].user]] = task[h].user
      BY <3>1, <3>2 DEF Entries, Absent, ClientsAreOwned
    <3>4. \A g \in Handlers \ {h} : task'[g] = task[g]
      BY <2>4, ThreadMoves DEF Moved
    <3> SUFFICES ASSUME NEW k \in Clients, conn'[k] \in Live
                 PROVE  \/ \E u \in Users : clients'[u] = k
                        \/ \E g \in Handlers : task'[g].op \in Exclusive /\ task'[g].client = k
                        \/ owner'[k] \in raced'
      BY DEF Accounted
    <3>5. CASE k \in {task[h].client, clients[task[h].user]}
      BY <3>1, <3>2, <3>3, <3>5
    <3>6. CASE k \notin {task[h].client, clients[task[h].user]}
      BY <3>1, <3>2, <3>4, <3>6 DEF Accounted
    <3> QED
      BY <3>5, <3>6
  <2>5. CASE DestroyClient(h) \/ StopClient(h)
    <3>1. task[h].op \in {"destroying", "stop"} /\ UNCHANGED <<clients, owner>>
          /\ conn' = [conn EXCEPT ![task[h].client] = "stopped"]
      BY <2>5 DEF DestroyClient, StopClient
    <3>2. \A g \in Handlers \ {h} : task'[g] = task[g]
      BY <2>5, ThreadMoves DEF Moved
    <3> QED
      BY <1>4, <3>1, <3>2 DEF Accounted
  <2>6. CASE DisconnectUser(h)
    <3>1. /\ task[h].op = "disconnect" /\ UNCHANGED <<conn, owner>>
          /\ clients' = [clients EXCEPT ![task[h].user] = NoClient]
      BY <2>6 DEF DisconnectUser, Detach
    <3>2. task[h].user \in Users
      BY <1>2, <3>1
    <3>3. CASE clients[task[h].user] = NoClient /\ Returned(h, "mark")
      <4>1. clients' = clients /\ \A g \in Handlers \ {h} : task'[g] = task[g]
        BY <3>1, <3>2, <3>3 DEF Returned, Moved
      <4> QED
        BY <1>6, <3>1, <4>1
    <3>4. CASE /\ clients[task[h].user] # NoClient
               /\ Moved(h, "stop", task[h].user, clients[task[h].user])
      BY <3>1, <3>2, <3>4 DEF Accounted, Moved
    <3> QED
      BY <2>6, <3>3, <3>4, ThreadMoves
  <2> QED
    BY <1>7, <2>1, <2>2, <2>3, <2>4, <2>5, <2>6 DEF TaskStep
<1>8. CASE WorkerStep
  <2>1. UNCHANGED <<clients, conn, owner>>
    BY <1>8 DEF WorkerStep, CollectDropped, NextDropped, NextDue, CheckActive, clientVars,
       MarkForReconnect, CollectDue, EndAttempt
  <2>2. task["worker"].op \notin Exclusive
    BY <1>8 DEF WorkerStep, CollectDropped, NextDropped, NextDue, CheckActive, BeginRound, Idle,
       MarkForReconnect, CollectDue, EndAttempt
  <2>3. task'["hook"] = task["hook"]
    BY <1>8, OtherMoves DEF Moved
  <2> QED
    BY <1>6, <2>1, <2>2, <2>3
<1>9. CASE \E u \in Users : OnUserLoggedIn(u) \/ OnUserLoggedOut(u)
  <2>1. UNCHANGED <<clients, conn, owner>> /\ task["hook"].op \notin Exclusive
    BY <1>9 DEF OnUserLoggedIn, OnUserLoggedOut, clientVars, Idle
  <2>2. task'["worker"] = task["worker"]
    BY <1>9, OtherMoves DEF Moved
  <2> QED
    BY <1>6, <2>1, <2>2
<1>10. ASSUME NEW k \in Clients, ClientStep(k) PROVE Accounted'
  <2>1. /\ UNCHANGED <<clients, owner, task>>
        /\ \/ conn' = conn
           \/ conn[k] = "up" /\ conn' = [conn EXCEPT ![k] = "dropped"]
    <3>1. CASE LoseConnection(k)
      BY <3>1 DEF LoseConnection
    <3>2. CASE BeginReject(k)
      BY <3>2 DEF BeginReject
    <3>3. CASE OnClientRejected(k)
      BY <3>3 DEF OnClientRejected
    <3> QED
      BY <1>10, <3>1, <3>2, <3>3 DEF ClientStep
  <2> QED
    BY <2>1 DEF Accounted
<1>11. CASE UNCHANGED vars
  BY <1>11 DEF vars, clientVars, Accounted
<1> QED
  BY <1>7, <1>8, <1>9, <1>10, <1>11, Cases

-----------------------------------------------------------------------------
\* A thread's steps for a user leave the lists, the schedule and who is logged in alone.
LEMMA TaskKeeps ==
  ASSUME NEW h \in Handlers, TaskStep(h)
  PROVE  UNCHANGED <<active, loggedIn, reconnects, dropped, due>>
BY DEF TaskStep, CheckSignedIn, ConnectFails, ConnectSucceeds, PublishClient, workerVars,
   StoreClient, DestroyClient, TellSignedIn, DisconnectUser, StopClient, TellSignedOut

\* When the worker takes a step on its lists it is at none of a thread's stages.
LEMMA WorkerStage ==
  ASSUME WorkerStep
  PROVE  task["worker"].op \in {"idle", "mark", "marking", "connected", "failed"}
<1>1. (\E u \in Users : NextDropped(u) \/ NextDue(u)) \/ CollectDropped \/ CollectDue =>
        task["worker"].op = "idle"
  BY DEF CollectDropped, NextDropped, NextDue, BeginRound, CollectDue, Idle
<1> QED
  BY <1>1 DEF WorkerStep, CheckActive, MarkForReconnect, EndAttempt

\* On a user who is not in raced one thread works, and has taken the user from its lists.
LEMMA Alone ==
  ASSUME Lists, Met, NEW h \in Handlers, NEW u \in Users \ raced, task[h].user = u
  PROVE  /\ \A g \in Handlers \ {h} : task[g].user # u
         /\ u \notin dropped \cup due
<1>1. u # NoUser /\ Handlers = {"hook", "worker"}
  BY HandlerAssumption DEF Handlers
<1>2. task["hook"].user \in Working("hook") /\ task["worker"].user \in Working("worker")
      /\ dropped \cup due \subseteq Working("worker")
  BY DEF Working
<1>3. ~(u \in Working("hook") /\ u \in Working("worker"))
  BY <1>1 DEF Met
<1>4. CASE h = "hook"
  BY <1>1, <1>2, <1>3, <1>4
<1>5. CASE h = "worker"
  BY <1>1, <1>2, <1>3, <1>5 DEF Lists
<1> QED
  BY <1>1, <1>4, <1>5

\* A thread's step touches the user it works for only.
LEMMA OthersUntouched ==
  ASSUME TypeOK, Tasks, NEW h \in Handlers, TaskStep(h), NEW u \in Users, task[h].user # u
  PROVE  clients'[u] = clients[u] /\ told'[u] = told[u] /\ task'[h].user # u
<1>1. task[h].user \in Users /\ u # NoUser
  <2>1. task[h].op # "idle"
    BY DEF TaskStep, CheckSignedIn, ConnectFails, ConnectSucceeds, PublishClient,
       StoreClient, DestroyClient, TellSignedIn, DisconnectUser, StopClient, TellSignedOut
  <2> QED
    BY <2>1, HandlerAssumption DEF TypeOK, Tasks, Task
<1>2. clients'[u] = clients[u]
  BY <1>1 DEF TypeOK, TaskStep, CheckSignedIn, ConnectFails, ConnectSucceeds, PublishClient,
     StoreClient, DestroyClient, TellSignedIn, DisconnectUser, StopClient, TellSignedOut,
     Detach, clientVars
<1>3. told'[u] = told[u]
  BY <1>1 DEF TypeOK, TaskStep, CheckSignedIn, ConnectFails, ConnectSucceeds, PublishClient,
     StoreClient, DestroyClient, TellSignedIn, DisconnectUser, StopClient, TellSignedOut, Tell
<1>4. task'[h].user \in {task[h].user, NoUser}
  BY ThreadMoves DEF TaskStep, Moved, Returned
<1> QED
  BY <1>1, <1>2, <1>3, <1>4

\* A thread's step for a user it works for alone: the entry of m_clients is where the new
\* stage says, and a client is stored where there was none.
LEMMA OwnStep ==
  ASSUME TypeOK, Tasks, Entries, NEW h \in Handlers, TaskStep(h),
         NEW u \in Users \ raced, task[h].user = u
  PROVE  /\ task'[h].user \in {u, NoUser}
         /\ h = "worker" => task'[h].user = u
         /\ task'[h].user = u =>
               \/ task'[h].op \in Absent /\ clients'[u] = NoClient
               \/ task'[h].op \in Present /\ clients'[u] # NoClient
<1>1. NoUser \notin Users /\ NoClient \notin Clients /\ Handlers = {"hook", "worker"}
  BY HandlerAssumption DEF Handlers
<1>2. /\ clients \in [Users -> Clients \cup {NoClient}]
      /\ task[h].op \in Exclusive => task[h].client \in Clients
  BY DEF TypeOK, Tasks
<1>3. /\ task[h].op \in Absent => clients[u] = NoClient
      /\ task[h].op \in Present => clients[u] # NoClient
      /\ task[h].op # "destroying"
  BY DEF Entries
<1> USE <1>1, <1>2, <1>3 DEF Absent, Present, Exclusive
<1>4. CASE CheckSignedIn(h) \/ ConnectFails(h) \/ ConnectSucceeds(h) \/ PublishClient(h)
           \/ TellSignedOut(h) \/ StopClient(h)
  <2>1. clients' = clients
    BY <1>4 DEF CheckSignedIn, ConnectFails, ConnectSucceeds, PublishClient, TellSignedOut,
       StopClient, clientVars
  <2>2. clients[u] = NoClient /\ ~IsSignedIn(u)
    BY <1>4 DEF CheckSignedIn, ConnectFails, ConnectSucceeds, PublishClient, TellSignedOut,
       StopClient, IsSignedIn
  <2> QED
    BY <1>4, <2>1, <2>2, ThreadMoves DEF Moved, Returned
<1>5. CASE StoreClient(h)
  <2>1. task[h].op = "storing" /\ clients' = [clients EXCEPT ![u] = task[h].client]
    BY <1>5 DEF StoreClient
  <2>2. clients[u] = NoClient /\ clients'[u] \in Clients
    BY <2>1
  <2> QED
    BY <1>5, <2>2, ThreadMoves DEF Moved
<1>6. CASE DestroyClient(h)
  BY <1>6 DEF DestroyClient
<1>7. CASE TellSignedIn(h)
  <2>1. clients' = clients /\ task[h].op = "tell_in"
    BY <1>7 DEF TellSignedIn, clientVars
  <2> QED
    BY <1>7, <2>1, ThreadMoves DEF Moved, Returned
<1>8. CASE DisconnectUser(h)
  <2>1. clients'[u] = NoClient
    BY <1>8 DEF DisconnectUser, Detach
  <2> QED
    BY <1>8, <2>1, ThreadMoves DEF Moved, Returned
<1> QED
  BY <1>4, <1>5, <1>6, <1>7, <1>8 DEF TaskStep

\* The entry of m_clients is where the stage says: a log-in finds none (Asked), the worker
\* schedules a user without one, and takes the user from the schedule when it made one.
LEMMA EntriesStep ==
  ASSUME TypeOK, Tasks, Lists, Met, Met', Entries, Asked, [Next]_vars
  PROVE  Entries'
<1>1. NoUser \notin Users /\ NoClient \notin Clients /\ Handlers = {"hook", "worker"}
  BY HandlerAssumption DEF Handlers
<1> USE <1>1 DEF Absent, Present
<1> SUFFICES ASSUME NEW u \in Users \ raced'
             PROVE  /\ \A h \in Handlers : task'[h].user = u =>
                          /\ task'[h].op \in Absent => clients'[u] = NoClient
                          /\ task'[h].op \in Present => clients'[u] # NoClient
                          /\ task'[h].op # "destroying"
                    /\ u \in due' => clients'[u] = NoClient
                    /\ u \in reconnects' =>
                          \/ clients'[u] = NoClient
                          \/ task'["worker"].user = u /\ task'["worker"].op \in Present
                    /\ task'["hook"].user = u => u \notin reconnects'
  BY DEF Entries
<1>2. u \notin raced /\ u # NoUser
  BY RacedStep
<1>3. /\ \A h \in Handlers : task[h].user = u =>
            /\ task[h].op \in Absent => clients[u] = NoClient
            /\ task[h].op \in Present => clients[u] # NoClient
            /\ task[h].op # "destroying"
      /\ u \in due => clients[u] = NoClient
      /\ u \in reconnects =>
            \/ clients[u] = NoClient
            \/ task["worker"].user = u /\ task["worker"].op \in Present
      /\ task["hook"].user = u => u \notin reconnects
  BY <1>2 DEF Entries
<1>4. ~(task'["hook"].user = u /\ task'["worker"].user = u)
  BY <1>2 DEF Met, Working
<1>5. ASSUME NEW h \in Handlers, TaskStep(h)
      PROVE  /\ \A g \in Handlers : task'[g].user = u =>
                   /\ task'[g].op \in Absent => clients'[u] = NoClient
                   /\ task'[g].op \in Present => clients'[u] # NoClient
                   /\ task'[g].op # "destroying"
             /\ u \in due' => clients'[u] = NoClient
             /\ u \in reconnects' =>
                   \/ clients'[u] = NoClient
                   \/ task'["worker"].user = u /\ task'["worker"].op \in Present
             /\ task'["hook"].user = u => u \notin reconnects'
  <2>1. UNCHANGED <<due, reconnects>>
    BY <1>5, TaskKeeps
  <2>2. \A g \in Handlers \ {h} : task'[g] = task[g]
    BY <1>5, ThreadMoves DEF TaskStep, Moved, Returned
  <2>3. CASE task[h].user # u
    <3>1. clients'[u] = clients[u] /\ task'[h].user # u
      BY <1>5, <2>3, OthersUntouched
    <3> QED
      BY <1>3, <2>1, <2>2, <2>3, <3>1
  <2>4. CASE task[h].user = u
    <3>1. (\A g \in Handlers \ {h} : task[g].user # u) /\ u \notin due
      BY <1>2, <2>4, Alone
    <3>2. /\ task'[h].user \in {u, NoUser}
          /\ h = "worker" => task'[h].user = u
          /\ task'[h].user = u =>
                \/ task'[h].op \in Absent /\ clients'[u] = NoClient
                \/ task'[h].op \in Present /\ clients'[u] # NoClient
      BY <1>2, <1>5, <2>4, OwnStep
    <3>3. \A g \in Handlers : task'[g].user = u => g = h
      BY <2>2, <3>1
    <3>4. u \in reconnects' => h = "worker"
      BY <1>3, <2>1, <2>4
    <3> QED
      BY <1>3, <2>1, <2>4, <3>1, <3>2, <3>3, <3>4
  <2> QED
    BY <2>3, <2>4
<1>6. CASE WorkerStep
  <2>1. UNCHANGED clients /\ task'["hook"] = task["hook"]
    <3>1. UNCHANGED clients
      BY <1>6 DEF WorkerStep, CollectDropped, NextDropped, NextDue, CheckActive, clientVars,
         MarkForReconnect, CollectDue, EndAttempt
    <3> QED
      BY <1>6, <3>1, OtherMoves DEF Moved
  <2>2. task["worker"] = Idle /\ u \in reconnects => clients[u] = NoClient
    BY <1>2, <1>3 DEF Idle
  <2>3. CASE CollectDropped
    BY <1>3, <2>1, <2>3 DEF CollectDropped
  <2>4. CASE CollectDue
    BY <1>3, <2>1, <2>2, <2>4 DEF CollectDue, BeginRound
  <2>5. ASSUME NEW v \in Users, NextDropped(v)
        PROVE  /\ task["worker"] = Idle /\ UNCHANGED <<due, reconnects>>
               /\ task'["worker"].op = "disconnect"
    BY <2>5 DEF NextDropped, Begin, workerVars, TypeOK, Task
  <2>6. ASSUME NEW v \in Users, NextDue(v)
        PROVE  /\ task["worker"] = Idle /\ v \in due
               /\ due' \subseteq due /\ reconnects' \subseteq reconnects
               /\ \/ task'["worker"].op = "check" /\ task'["worker"].user = v
                  \/ task'["worker"] = task["worker"]
    BY <2>6 DEF NextDue, Begin, GiveUp, TypeOK, Task
  <2>7. CASE CheckActive
    <3>1. task["worker"].op = "mark" /\ UNCHANGED <<due, reconnects>>
      BY <2>7 DEF CheckActive, workerVars
    <3>2. \/ task'["worker"].op = "marking" /\ task'["worker"].user = task["worker"].user
          \/ task'["worker"] = Idle
      BY <2>7 DEF CheckActive, GoTo, TypeOK, Task
    <3> QED
      BY <1>2, <1>3, <2>1, <3>1, <3>2 DEF Idle
  <2>8. CASE MarkForReconnect
    <3>1. /\ task["worker"].op = "marking" /\ UNCHANGED due /\ task'["worker"] = Idle
          /\ reconnects' = reconnects \cup {task["worker"].user}
      BY <2>8 DEF MarkForReconnect, workerVars, TypeOK, Task
    <3>2. ~(task["hook"].user = u /\ task["worker"].user = u)
      BY <1>2 DEF Met, Working
    <3> QED
      BY <1>2, <1>3, <2>1, <3>1, <3>2 DEF Idle
  <2>9. CASE EndAttempt
    <3>1. /\ task["worker"].op \in {"connected", "failed"} /\ UNCHANGED due
          /\ task'["worker"] = Idle /\ reconnects' \subseteq reconnects
          /\ task["worker"].op = "connected" => task["worker"].user \notin reconnects'
      BY <2>9 DEF EndAttempt, workerVars, TypeOK, Task
    <3> QED
      BY <1>2, <1>3, <2>1, <3>1 DEF Idle
  <2> QED
    BY <1>2, <1>3, <1>6, <2>1, <2>2, <2>3, <2>4, <2>5, <2>6, <2>7, <2>8, <2>9 DEF WorkerStep, Idle
<1>7. ASSUME NEW v \in Users, OnUserLoggedIn(v) \/ OnUserLoggedOut(v)
      PROVE  /\ \A g \in Handlers : task'[g].user = u =>
                   /\ task'[g].op \in Absent => clients'[u] = NoClient
                   /\ task'[g].op \in Present => clients'[u] # NoClient
                   /\ task'[g].op # "destroying"
             /\ u \in due' => clients'[u] = NoClient
             /\ u \in reconnects' =>
                   \/ clients'[u] = NoClient
                   \/ task'["worker"].user = u /\ task'["worker"].op \in Present
             /\ task'["hook"].user = u => u \notin reconnects'
  <2>1. UNCHANGED <<clients, due>> /\ task'["worker"] = task["worker"] /\ task["hook"] = Idle
    <3>1. UNCHANGED <<clients, due>> /\ task["hook"] = Idle
      BY <1>7 DEF OnUserLoggedIn, OnUserLoggedOut, clientVars, workerVars
    <3> QED
      BY <1>7, <3>1, OtherMoves DEF Moved
  <2>2. CASE OnUserLoggedIn(v)
    <3>1. UNCHANGED reconnects /\ v \notin loggedIn
      BY <2>2 DEF OnUserLoggedIn
    <3>2. active /\ v = u => clients[u] = NoClient /\ u \notin reconnects
      BY <1>2, <2>1, <3>1 DEF Asked, Idle
    <3>3. \/ active /\ task'["hook"].op = "check" /\ task'["hook"].user = v
          \/ task'["hook"] = task["hook"]
      BY <2>2, OtherMoves DEF Moved
    <3> QED
      BY <1>2, <1>3, <2>1, <3>1, <3>2, <3>3 DEF Idle
  <2>3. CASE OnUserLoggedOut(v)
    <3>1. /\ reconnects' \subseteq reconnects
          /\ active => v \notin reconnects'
      BY <2>3 DEF OnUserLoggedOut, Unschedule
    <3>2. \/ active /\ task'["hook"].op = "disconnect" /\ task'["hook"].user = v
          \/ task'["hook"] = task["hook"]
      BY <2>3, OtherMoves DEF Moved
    <3> QED
      BY <1>2, <1>3, <2>1, <3>1, <3>2 DEF Idle
  <2> QED
    BY <1>7, <2>2, <2>3
<1>8. CASE UNCHANGED <<clients, task, due>> /\ reconnects' \subseteq reconnects
  BY <1>3, <1>8
<1>9. ASSUME NEW k \in Clients, ClientStep(k)
      PROVE  UNCHANGED <<clients, task, due>> /\ reconnects' \subseteq reconnects
  BY <1>9 DEF ClientStep, LoseConnection, BeginReject, OnClientRejected, workerVars
<1>10. UNCHANGED vars => UNCHANGED <<clients, task, due>> /\ reconnects' \subseteq reconnects
  BY DEF vars, clientVars, workerVars
<1> QED
  BY <1>5, <1>6, <1>7, <1>8, <1>9, <1>10, Cases

\* While it is on, NpHandler works for who is asked for: the worker finds a client, or a
\* user in the schedule, only for one who is logged in and whom the hook leaves alone.
LEMMA AskedStep ==
  ASSUME TypeOK, Tasks, Lists, Met, Met', Entries, Asked, [Next]_vars
  PROVE  Asked'
<1>1. NoUser \notin Users /\ NoClient \notin Clients /\ Handlers = {"hook", "worker"}
  BY HandlerAssumption DEF Handlers
<1>2. active' => active
  <2>1. WorkerStep => active' = active
    BY DEF WorkerStep, CollectDropped, NextDropped, NextDue, CheckActive,
       MarkForReconnect, CollectDue, EndAttempt
  <2>2. \A k \in Clients : ClientStep(k) => active' = active \/ active' = FALSE
    BY DEF ClientStep, LoseConnection, BeginReject, OnClientRejected
  <2> QED
    BY <2>1, <2>2, Cases, TaskKeeps DEF vars, OnUserLoggedIn, OnUserLoggedOut
<1> USE <1>1 DEF Absent, LogOut
<1> DEFINE
  P(u) == /\ u \in Working("worker") => u \in loggedIn
          /\ task["hook"].user = u =>
                (u \in loggedIn <=> task["hook"].op \notin LogOut)
          /\ u \notin loggedIn /\ task["hook"].user # u =>
                clients[u] = NoClient /\ u \notin reconnects
<1> SUFFICES ASSUME active, NEW u \in Users \ raced' PROVE P(u)'
  BY <1>2 DEF Asked
<1>3. u \notin raced /\ u # NoUser
  BY RacedStep
<1>4. P(u)
  BY <1>3 DEF Asked
<1>5. ~(u \in Working("hook")' /\ u \in Working("worker")')
  BY <1>3 DEF Met
<1>6. ASSUME NEW h \in Handlers, TaskStep(h) PROVE P(u)'
  <2>1. UNCHANGED <<loggedIn, reconnects, dropped, due>>
    BY <1>6, TaskKeeps
  <2>2. \A g \in Handlers \ {h} : task'[g] = task[g]
    BY <1>6, ThreadMoves DEF TaskStep, Moved, Returned
  <2>3. CASE task[h].user # u
    <3>1. clients'[u] = clients[u] /\ task'[h].user # u
      BY <1>6, <2>3, OthersUntouched
    <3> QED
      BY <1>4, <2>1, <2>2, <2>3, <3>1 DEF Working
  <2>4. CASE task[h].user = u /\ h = "worker"
    <3>1. u \in loggedIn /\ task["hook"].user # u
      BY <1>3, <1>4, <2>4, Alone DEF Working
    <3> QED
      BY <2>1, <2>2, <2>4, <3>1
  <2>5. CASE task[h].user = u /\ h = "hook"
    <3>1. u \notin Working("worker") /\ Working("worker")' = Working("worker")
      BY <1>3, <2>1, <2>2, <2>5, Alone DEF Working
    <3>2. u \notin reconnects /\ (u \in loggedIn <=> task[h].op \notin LogOut)
      BY <1>3, <1>4, <2>5 DEF Entries
    <3>3. CASE CheckSignedIn(h) \/ ConnectFails(h) \/ ConnectSucceeds(h) \/ PublishClient(h)
               \/ StoreClient(h) \/ DestroyClient(h) \/ TellSignedIn(h)
      <4>1. task[h].op \notin LogOut
        BY <3>3 DEF CheckSignedIn, ConnectFails, ConnectSucceeds, PublishClient, StoreClient,
           DestroyClient, TellSignedIn
      <4>2. task'[h].user = u => task'[h].op \notin LogOut
        BY <1>3, <2>5, <3>3, ThreadMoves DEF Moved, Returned
      <4> QED
        BY <2>1, <2>5, <3>1, <3>2, <4>1, <4>2
    <3>4. CASE DisconnectUser(h) \/ StopClient(h) \/ TellSignedOut(h)
      <4>1. task[h].op \in LogOut
        BY <3>4 DEF DisconnectUser, StopClient, TellSignedOut
      <4>2. task'[h].user = u => task'[h].op \in LogOut
        BY <1>3, <2>5, <3>4, ThreadMoves DEF Moved, Returned
      <4>3. clients'[u] = NoClient
        <5>1. CASE DisconnectUser(h)
          BY <2>5, <5>1 DEF DisconnectUser, Detach, TypeOK
        <5>2. CASE StopClient(h) \/ TellSignedOut(h)
          <6>1. clients' = clients /\ task[h].op \in Absent
            BY <5>2 DEF StopClient, TellSignedOut, clientVars
          <6> QED
            BY <1>3, <2>5, <6>1 DEF Entries
        <5> QED
          BY <3>4, <5>1, <5>2
      <4> QED
        BY <2>1, <2>5, <3>1, <3>2, <4>1, <4>2, <4>3
    <3> QED
      BY <1>6, <3>3, <3>4 DEF TaskStep
  <2> QED
    BY <2>3, <2>4, <2>5
<1>7. CASE WorkerStep
  <2>1. UNCHANGED <<clients, loggedIn>>
    BY <1>7 DEF WorkerStep, CollectDropped, NextDropped, NextDue, CheckActive, clientVars,
       MarkForReconnect, CollectDue, EndAttempt
  <2>2. task'["hook"] = task["hook"]
    BY <1>7, OtherMoves DEF Moved
  <2>3. CASE CollectDropped \/ CollectDue
    <3>1. /\ UNCHANGED <<reconnects, task>>
          /\ \/ dropped' = Lost /\ due' = due
             \/ dropped' = dropped /\ due' \subseteq reconnects
      BY <2>3 DEF CollectDropped, CollectDue
    <3>2. u \in Lost => clients[u] # NoClient
      BY DEF Lost
    <3>3. u \in Working("worker")' => u \in loggedIn
      BY <1>4, <1>5, <2>2, <3>1, <3>2 DEF Working
    <3> QED
      BY <1>4, <2>1, <2>2, <3>1, <3>3
  <2>4. CASE ~(CollectDropped \/ CollectDue)
    <3>1. Working("worker")' \subseteq Working("worker") \cup {NoUser}
      <4>1. ASSUME NEW v \in Users, NextDropped(v)
            PROVE  Working("worker")' \subseteq Working("worker") \cup {NoUser}
        <5>1. v \in dropped /\ dropped' \subseteq dropped /\ due' = due /\ task'["worker"].user = v
          BY <4>1 DEF NextDropped, Begin, TypeOK
        <5> QED
          BY <5>1 DEF Working
      <4>2. ASSUME NEW v \in Users, NextDue(v)
            PROVE  Working("worker")' \subseteq Working("worker") \cup {NoUser}
        <5>1. v \in due /\ due' \subseteq due /\ dropped' = dropped
              /\ task'["worker"].user \in {v, task["worker"].user}
          BY <4>2 DEF NextDue, Begin, TypeOK
        <5> QED
          BY <5>1 DEF Working
      <4>3. CASE CheckActive \/ MarkForReconnect \/ EndAttempt
        <5>1. UNCHANGED <<dropped, due>>
          BY <4>3 DEF CheckActive, MarkForReconnect, EndAttempt, workerVars
        <5>2. task'["worker"].user \in {NoUser, task["worker"].user}
          <6>1. task \in [Handlers -> Task]
            BY DEF TypeOK
          <6> QED
            <7>1. MarkForReconnect \/ EndAttempt => task'["worker"] = Idle
              BY <6>1 DEF MarkForReconnect, EndAttempt
            <7>2. CheckActive => task'["worker"] = Idle
                                 \/ task'["worker"] = [task["worker"] EXCEPT !.op = "marking"]
              BY <6>1 DEF CheckActive, GoTo
            <7>3. [task["worker"] EXCEPT !.op = "marking"].user = task["worker"].user
              BY <6>1 DEF Task
            <7>4. Idle.user = NoUser
              BY DEF Idle
            <7>5. task'["worker"] \in {Idle, [task["worker"] EXCEPT !.op = "marking"]}
              BY <4>3, <7>1, <7>2
            <7> QED
              BY <7>3, <7>4, <7>5
        <5> QED
          BY <5>1, <5>2 DEF Working
      <4> QED
        BY <1>7, <2>4, <4>1, <4>2, <4>3 DEF WorkerStep
    <3>2. reconnects' \subseteq reconnects \cup Working("worker")
      BY <1>7, <2>4 DEF WorkerStep, NextDropped, NextDue, CheckActive, MarkForReconnect, EndAttempt,
         GiveUp, Working
    <3> QED
      BY <1>3, <1>4, <2>1, <2>2, <3>1, <3>2
  <2> QED
    BY <2>3, <2>4
<1>8. ASSUME NEW v \in Users, OnUserLoggedIn(v) \/ OnUserLoggedOut(v) PROVE P(u)'
  <2>1. UNCHANGED <<clients, dropped, due>> /\ task["hook"] = Idle
    BY <1>8 DEF OnUserLoggedIn, OnUserLoggedOut, clientVars, workerVars
  <2>2. task'["worker"] = task["worker"] /\ Working("worker")' = Working("worker")
    BY <1>8, <2>1, OtherMoves DEF Moved, Working
  <2>3. CASE OnUserLoggedIn(v)
    <3>1. loggedIn' = loggedIn \cup {v} /\ UNCHANGED reconnects
      BY <2>3 DEF OnUserLoggedIn
    <3>2. task'["hook"].op = "check" /\ task'["hook"].user = v
      BY <2>3, OtherMoves DEF Moved
    <3> QED
      BY <1>3, <1>4, <2>1, <2>2, <3>1, <3>2 DEF Idle
  <2>4. CASE OnUserLoggedOut(v)
    <3>1. loggedIn' = loggedIn \ {v} /\ reconnects' \subseteq reconnects
      BY <2>4 DEF OnUserLoggedOut, Unschedule
    <3>2. task'["hook"].op = "disconnect" /\ task'["hook"].user = v
      BY <2>4, OtherMoves DEF Moved
    <3>3. u = v => u \notin Working("worker")'
      BY <1>5, <3>2 DEF Working
    <3> QED
      BY <1>3, <1>4, <2>1, <2>2, <3>1, <3>2, <3>3 DEF Idle
  <2> QED
    BY <1>8, <2>3, <2>4
<1>9. CASE UNCHANGED <<clients, loggedIn, task, dropped, due>> /\ reconnects' \subseteq reconnects
  BY <1>4, <1>9 DEF Working
<1>10. ASSUME NEW k \in Clients, ClientStep(k)
       PROVE  UNCHANGED <<clients, loggedIn, task, dropped, due>> /\ reconnects' \subseteq reconnects
  BY <1>10 DEF ClientStep, LoseConnection, BeginReject, OnClientRejected, workerVars
<1>11. UNCHANGED vars =>
         UNCHANGED <<clients, loggedIn, task, dropped, due>> /\ reconnects' \subseteq reconnects
  BY DEF vars, clientVars, workerVars
<1> QED
  BY <1>6, <1>7, <1>8, <1>9, <1>10, <1>11, Cases

\* While a thread is not about to tell the game, what the game knows is what is.
LEMMA ToldStep ==
  ASSUME TypeOK, Tasks, Lists, Met, Entries, Told, [Next]_vars
  PROVE  Told'
<1>1. NoUser \notin Users /\ NoClient \notin Clients /\ Handlers = {"hook", "worker"}
  BY HandlerAssumption DEF Handlers
<1> USE <1>1 DEF Absent, Present, Telling
<1> DEFINE
  Quiet(u) == \A h \in Handlers : task[h].user = u => task[h].op \notin Telling
  Right(u) == told[u] = "SignedIn" <=> clients[u] # NoClient
<1> SUFFICES ASSUME active', NEW u \in Users \ raced', Quiet(u)' PROVE Right(u)'
  BY DEF Told
<1>2. u \notin raced /\ u # NoUser
  BY RacedStep
<1>3. active /\ Quiet(u) => Right(u)
  BY <1>2 DEF Told
<1>4. ASSUME NEW h \in Handlers, TaskStep(h) PROVE Right(u)'
  <2>1. active
    BY <1>4, TaskKeeps
  <2>2. \A g \in Handlers \ {h} : task'[g] = task[g]
    BY <1>4, ThreadMoves DEF TaskStep, Moved, Returned
  <2>3. CASE task[h].user # u
    <3>1. clients'[u] = clients[u] /\ told'[u] = told[u] /\ task'[h].user # u
      BY <1>4, <2>3, OthersUntouched
    <3> QED
      BY <1>3, <2>1, <2>2, <2>3, <3>1
  <2>4. CASE task[h].user = u
    <3>1. \A g \in Handlers \ {h} : task[g].user # u
      BY <1>2, <2>4, Alone
    <3>2. /\ task[h].op \in Absent => clients[u] = NoClient
          /\ task[h].op \in Present => clients[u] # NoClient
          /\ task[h].op # "destroying"
      BY <1>2, <2>4 DEF Entries
    <3>3. task[h].op \notin Telling => Right(u)
      BY <1>3, <2>1, <2>4, <3>1
    <3>4. CASE CheckSignedIn(h) \/ ConnectFails(h) \/ ConnectSucceeds(h) \/ PublishClient(h)
      <4>1. UNCHANGED <<clients, told>> /\ task[h].op \notin Telling
        BY <3>4 DEF CheckSignedIn, ConnectFails, ConnectSucceeds, PublishClient, clientVars
      <4> QED
        BY <3>3, <4>1
    <3>5. CASE StoreClient(h)
      <4>1. task[h].op = "storing"
        BY <3>5 DEF StoreClient
      <4>2. task'[h].op = "tell_in" /\ task'[h].user = u
        BY <2>4, <3>2, <3>5, <4>1, ThreadMoves DEF Moved
      <4> QED
        BY <4>2
    <3>6. CASE DestroyClient(h)
      BY <3>2, <3>6 DEF DestroyClient
    <3>7. CASE TellSignedIn(h)
      <4>1. task[h].op = "tell_in" /\ told'[u] = "SignedIn" /\ clients' = clients
        BY <2>4, <3>7 DEF TellSignedIn, TypeOK, clientVars
      <4> QED
        BY <3>2, <4>1
    <3>8. CASE DisconnectUser(h)
      <4>1. told' = told /\ clients'[u] = NoClient /\ task[h].op \notin Telling
        BY <2>4, <3>8 DEF DisconnectUser, Detach, TypeOK
      <4>2. clients[u] = NoClient
        <5>1. CASE clients[u] # NoClient
          <6>1. task'[h].op = "stop" /\ task'[h].user = u
            BY <2>4, <3>8, <5>1, ThreadMoves DEF Moved
          <6> QED
            BY <6>1
        <5> QED
          BY <5>1
      <4> QED
        BY <3>3, <4>1, <4>2
    <3>9. CASE StopClient(h)
      <4>1. task'[h].op = "tell_out" /\ task'[h].user = u
        BY <2>4, <3>9, ThreadMoves DEF Moved
      <4> QED
        BY <4>1
    <3>10. CASE TellSignedOut(h)
      <4>1. task[h].op = "tell_out" /\ told'[u] = "SignedOut" /\ clients' = clients
        BY <2>4, <3>10 DEF TellSignedOut, Tell, TypeOK, clientVars
      <4> QED
        BY <3>2, <4>1
    <3> QED
      BY <1>4, <3>4, <3>5, <3>6, <3>7, <3>8, <3>9, <3>10 DEF TaskStep
  <2> QED
    BY <2>3, <2>4
<1>5. CASE WorkerStep
  <2>1. UNCHANGED <<active, clients, told>>
    BY <1>5 DEF WorkerStep, CollectDropped, NextDropped, NextDue, CheckActive, clientVars,
       MarkForReconnect, CollectDue, EndAttempt
  <2>2. task["worker"].op \notin Telling
    BY <1>5, WorkerStage
  <2>3. task'["hook"] = task["hook"]
    BY <1>5, OtherMoves DEF Moved
  <2> QED
    BY <1>3, <2>1, <2>2, <2>3
<1>6. ASSUME NEW v \in Users, OnUserLoggedIn(v) \/ OnUserLoggedOut(v) PROVE Right(u)'
  <2>1. UNCHANGED <<clients, told>> /\ active
    <3>1. UNCHANGED active
      BY <1>6 DEF OnUserLoggedIn, OnUserLoggedOut
    <3>2. active
      BY <3>1
    <3>3. UNCHANGED told
      BY <1>6, <3>2 DEF OnUserLoggedIn, OnUserLoggedOut
    <3> QED
      BY <1>6, <3>2, <3>3 DEF OnUserLoggedIn, OnUserLoggedOut, clientVars
  <2>2. task["hook"].op \notin Telling
    <3>1. task["hook"] = Idle
      BY <1>6 DEF OnUserLoggedIn, OnUserLoggedOut
    <3> QED
      BY <3>1 DEF Idle
  <2>3. task'["worker"] = task["worker"]
    BY <1>6, OtherMoves DEF Moved
  <2> QED
    BY <1>3, <2>1, <2>2, <2>3
<1>7. CASE UNCHANGED <<clients, task, told>> /\ active
  BY <1>3, <1>7
<1>8. ASSUME NEW k \in Clients, ClientStep(k) PROVE UNCHANGED <<clients, task, told>> /\ active
  BY <1>8 DEF ClientStep, LoseConnection, BeginReject, OnClientRejected
<1>9. UNCHANGED vars => UNCHANGED <<clients, task, told>> /\ active
  BY DEF vars, clientVars
<1> QED
  BY <1>4, <1>5, <1>6, <1>7, <1>8, <1>9, Cases

-----------------------------------------------------------------------------
\* Initialize has made one client for each user it signed in, and no two share one.
LEMMA InitOK ==
  ASSUME Init
  PROVE  IInv
<1>1. /\ NoUser \notin Users /\ NoClient \notin Clients /\ Handlers = {"hook", "worker"}
      /\ First \in [Users -> Clients] /\ \A u, v \in Users : First[u] = First[v] => u = v
      /\ scene.users \subseteq Users
  BY HandlerAssumption DEF Handlers, Init, Scene
<1>2. PICK signedIn \in SUBSET loggedIn :
         clients = [u \in Users |-> IF u \in signedIn THEN First[u] ELSE NoClient]
  BY DEF Init
<1>3. /\ active = TRUE /\ loggedIn \subseteq scene.users /\ scene \in Scenes
      /\ conn = [k \in Clients |-> IF \E u \in Users : clients[u] = k THEN "up" ELSE "unused"]
      /\ owner = [k \in Clients |-> IF \E u \in Users : clients[u] = k
                                    THEN CHOOSE u \in Users : clients[u] = k ELSE NoUser]
      /\ reader = [k \in Clients |-> "idle"] /\ reconnects = {}
      /\ task = [h \in Handlers |-> Idle] /\ round = "lost" /\ dropped = {} /\ due = {}
      /\ told = [u \in Users |-> IF clients[u] = NoClient THEN "nothing" ELSE "SignedIn"]
      /\ locker = "nobody" /\ raced = {}
  BY DEF Init
<1>4. \A h \in Handlers : /\ task[h] = Idle
                          /\ task[h].op = "idle" /\ task[h].user = NoUser
  BY <1>3 DEF Idle
<1>5. clients \in [Users -> Clients \cup {NoClient}]
  BY <1>1, <1>2
<1>6. \A k \in Clients : (\E u \in Users : clients[u] = k) =>
         /\ conn[k] = "up"
         /\ owner[k] \in Users /\ clients[owner[k]] = k
  BY <1>3
<1>7. \A k \in Clients : conn[k] \in {"unused", "up"} /\ owner[k] \in Users \cup {NoUser}
  BY <1>3, <1>6
<1>8. TypeOK
  <2>1. mm \in Clients \cup {NoClient}
    BY <1>5 DEF Init
  <2>2. task \in [Handlers -> Task]
    BY <1>3 DEF Idle, Task
  <2>3. /\ conn \in [Clients -> {"unused", "up", "dropped", "stopped"}]
        /\ owner \in [Clients -> Users \cup {NoUser}]
        /\ reader \in [Clients -> {"idle", "rejecting"}]
    BY <1>3, <1>7
  <2>4. told \in [Users -> {"nothing", "SignedIn", "SignedOut"}]
    BY <1>3
  <2> QED
    BY <1>1, <1>3, <1>5, <2>1, <2>2, <2>3, <2>4 DEF TypeOK
<1>9. Tasks /\ Hands
  BY <1>4 DEF Tasks, Hands, Exclusive
<1>10. Lists /\ Met
  BY <1>1, <1>3, <1>4 DEF Lists, Met, Working
<1>11. ClientsAreOwned
  <2>1. ASSUME NEW u \in Users, clients[u] # NoClient
        PROVE  owner[clients[u]] = u /\ conn[clients[u]] = "up"
    <3>1. clients[u] = First[u] /\ First[u] \in Clients
      BY <1>1, <1>2, <2>1
    <3>2. /\ conn[First[u]] = "up"
          /\ owner[First[u]] \in Users /\ clients[owner[First[u]]] = First[u]
      BY <1>6, <3>1
    <3>3. First[owner[First[u]]] = First[u]
      BY <1>1, <1>2, <3>1, <3>2
    <3> QED
      BY <1>1, <3>1, <3>2, <3>3
  <2> QED
    BY <2>1 DEF ClientsAreOwned
<1>12. Accounted
  BY <1>3 DEF Accounted, Live
<1>13. Entries
  BY <1>1, <1>3, <1>4 DEF Entries
<1>14. Asked
  BY <1>1, <1>2, <1>3, <1>4 DEF Asked, Working
<1>15. Told
  BY <1>3 DEF Told
<1> QED
  BY <1>8, <1>9, <1>10, <1>11, <1>12, <1>13, <1>14, <1>15 DEF IInv

\* The invariant holds of every state.
LEMMA Invariance == Spec => []IInv
<1>1. Init => IInv
  BY InitOK
<1>2. IInv /\ [Next]_vars => IInv'
  BY TypeStep, TasksStep, ListsStep, MetStep, ClientsStep, AccountedStep, EntriesStep,
     AskedStep, ToldStep DEF IInv
<1> QED
  BY <1>1, <1>2, PTL DEF Spec

\* Every variable of NpHandler keeps its type.
THEOREM TypeCorrect == Spec => []TypeOK
<1>1. IInv => TypeOK
  BY DEF IInv
<1> QED
  BY <1>1, Invariance, PTL

\* After any interleaving of log-ins, log-outs, losses and reconnections, a user on whom
\* the hook and the worker never met is signed in only while logged in, and the game was
\* told what is (OnUserLoggedOut, TryReconnect, ConnectUser, DisconnectUser).
THEOREM SettledUsers == Spec => []SettledIsRight
<1>1. IInv => SettledIsRight
  <2> SUFFICES ASSUME IInv, active, NEW u \in Users, Settled(u)
               PROVE  /\ u \notin loggedIn => clients[u] = NoClient /\ u \notin reconnects
                      /\ told[u] = "SignedIn" <=> clients[u] # NoClient
    BY DEF SettledIsRight, LoggedOutStaysOut, ToldRight
  <2>1. u \notin raced /\ \A h \in Handlers : task[h].user # u
    BY DEF Settled, Working, Handlers
  <2>2. "hook" \in Handlers
    BY DEF Handlers
  <2> QED
    BY <2>1, <2>2 DEF IInv, Asked, Told
<1> QED
  BY <1>1, Invariance, PTL

\* Every connection has one owner, a client is destroyed under m_mutex_clients only for a
\* user on whom the two threads met, and no other connection is left behind (ConnectUser,
\* DisconnectUser).
THEOREM OneOwner == Spec => []OneOwnerEach
<1>1. IInv => OneOwnerEach
  <2> SUFFICES ASSUME IInv PROVE OneOwnerEach
    OBVIOUS
  <2>1. TypeOK /\ ClientsAreOwned /\ Tasks /\ Accounted /\ Entries
    BY DEF IInv
  <2>2. OverwriteOnlyByRace
    <3> SUFFICES ASSUME NEW h \in Handlers, task[h].op = "destroying",
                        task[h].user \notin raced
                 PROVE  FALSE
      BY DEF OverwriteOnlyByRace
    <3>1. task[h].user \in Users
      BY <2>1, HandlerAssumption DEF TypeOK, Tasks, Task
    <3> QED
      BY <2>1, <3>1 DEF Entries
  <2>3. NoConnectionLeaks
    BY <2>1 DEF Accounted, NoConnectionLeaks, Held, Live
  <2> QED
    BY <2>1, <2>2, <2>3 DEF OneOwnerEach
<1> QED
  BY <1>1, Invariance, PTL
=============================================================================
