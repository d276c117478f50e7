------------------------ MODULE ShadNetClient_Proofs ------------------------
(***************************************************************************)
(* The safety properties of ShadNetClient for any number of attempts to    *)
(* connect, of game threads and of requests.                               *)
(***************************************************************************)
EXTENDS ShadNetClient, TLAPS

-----------------------------------------------------------------------------
(* The packets of the sign-in, wherever they are.                          *)

\* One of the elements in M is in the sequence, and no more than one.
In(s, M) == \E i \in 1 .. Len(s) : s[i] \in M
Single(s, M) == \A i, j \in 1 .. Len(s) : s[i] \in M /\ s[j] \in M => i = j

\* Each command of the sign-in follows from the reply to the one before it.
SignIn == {"Login", "GetToken", "GetServerFeatures"}
AfterLogin == SignIn \ {"Login"}

\* The replies to a set of commands
To(C) == {r \in Reply : r.cmd \in C}

\* The sign-in is in the hands of the connector, of the reader, or of a packet.
WithConnector == connector # "done"
WithReader == reader \in {"token", "refused", "features"}
Underway ==
    \/ WithConnector \/ WithReader
    \/ In(queue, SignIn) \/ In(batch, SignIn) \/ In(toServer, SignIn)
    \/ In(toClient, To(SignIn))

-----------------------------------------------------------------------------
(* The inductive invariant.                                                *)

Places ==
    /\ caller \in {"idle", "start", "check", "wait", "woken", "unconfirmed", "signed_in",
                   "stop", "notify", "close", "join", "stopped"}
    /\ connector \in {"none", "try", "login", "done"}
    /\ reader \in {"none", "top", "recv", "token", "refused", "closing", "features",
                   "leaving", "unauthenticated", "failing", "releasing", "resetting",
                   "connection_reset", "gone"}
    /\ writer \in {"none", "top", "locked", "to_wait", "asleep", "send", "gone"}
    /\ submitter \in [Game -> {"idle", "notify"}]
    /\ link \in {"none", "up", "closed"}
    /\ state \in {"Ok"} \cup Failures
    /\ outcome \in {"none", "Ok"} \cup Failures
Flags ==
    /\ terminate \in BOOLEAN /\ connected \in BOOLEAN /\ authenticated \in BOOLEAN
    /\ accepted \in BOOLEAN
Numbers ==
    /\ attempt \in 0 .. MaxAttempts /\ submits \in 0 .. MaxSubmits
    /\ semAuth \in Nat
Packets ==
    /\ queue \in Seq(Commands) /\ batch \in Seq(Commands)
    /\ toServer \in Seq(Commands)
    /\ toClient \in Seq(Reply \cup {Corrupt})

\* Who runs when: the caller waits in Start() for the connector, which starts the other
\* threads; after Stop() none of them is left.
Stages ==
    /\ connector = "none" <=> caller = "idle"
    /\ connector \in {"try", "login"} => caller = "start"
    /\ connector \in {"none", "try"} => reader = "none" /\ writer = "none"
    /\ reader \in {"none", "gone"} => ~connected /\ ~authenticated
    /\ reader = "connection_reset" => ~connected
    /\ caller = "stopped" => reader \in {"none", "gone"} /\ writer \in {"none", "gone"}

\* What the connector still has to give, and the writer's batch while it is between two
Beginning ==
    /\ connector \in {"none", "try"} => semAuth = 0
    /\ connector \in {"none", "try"} => attempt < MaxAttempts
    /\ writer \notin {"send", "gone"} => batch = <<>>

\* The sign-in is in one place at a time.
OnePlace ==
    /\ Single(queue, SignIn) /\ Single(batch, SignIn) /\ Single(toServer, SignIn)
    /\ Single(toClient, To(SignIn))
    /\ WithConnector \/ WithReader =>
         ~(WithConnector /\ WithReader) /\ ~In(queue, SignIn) /\ ~In(batch, SignIn)
         /\ ~In(toServer, SignIn) /\ ~In(toClient, To(SignIn))
    /\ In(queue, SignIn) => ~In(batch, SignIn) /\ ~In(toServer, SignIn) /\ ~In(toClient, To(SignIn))
    /\ In(batch, SignIn) => ~In(toServer, SignIn) /\ ~In(toClient, To(SignIn))
    /\ In(toServer, SignIn) => ~In(toClient, To(SignIn))

\* The reader is past the release that ends it.
Reset == {"resetting", "connection_reset", "gone"}

\* m_sem_authenticated is released at most once by the sign-in, which is then over, by
\* the reader on its way out, and by Stop().
Permits ==
    semAuth <= (IF Underway THEN 0 ELSE 1) + (IF reader \in Reset THEN 1 ELSE 0)
               + (IF caller \in {"notify", "close", "join", "stopped"} THEN 1 ELSE 0)

\* Without an accepted login nothing comes after the login, and the waiter is not told
\* of a success.
NoTrace ==
    ~accepted =>
        /\ ~authenticated /\ outcome # "Ok" /\ reader \notin {"token", "features"}
        /\ ~In(queue, AfterLogin) /\ ~In(batch, AfterLogin) /\ ~In(toServer, AfterLogin)
        /\ ~In(toClient, To(AfterLogin))

\* ConnectUser has yet to learn how the sign-in ended.
Waiting == {"start", "check", "wait", "woken", "unconfirmed"}

\* Without an accepted login whoever is given a permit finds a failure in m_state, and
\* the reader that ends has given one.
FailureFirst ==
    ~accepted =>
        /\ reader \in {"refused", "releasing"} => state # "Ok"
        /\ caller \in Waiting /\ (semAuth > 0 \/ caller \in {"woken", "unconfirmed"})
             => state # "Ok"
        /\ caller \in {"start", "check", "wait"} /\ reader \in Reset
             => semAuth > 0

IInv == Places /\ Flags /\ Numbers /\ Packets /\ Stages /\ Beginning /\ OnePlace /\ Permits
        /\ NoTrace /\ FailureFirst

-----------------------------------------------------------------------------
(* Sequences: what sending and receiving a packet does to these predicates. *)

\* An empty queue has no packet of any kind.
LEMMA Nothing ==
    ASSUME NEW M
    PROVE  ~In(<<>>, M) /\ Single(<<>>, M)
  BY DEF In, Single

\* A packet is put behind the others.
LEMMA Appended ==
    ASSUME NEW S, NEW M, NEW s \in Seq(S), NEW e \in S
    PROVE  /\ Append(s, e) \in Seq(S)
           /\ In(Append(s, e), M) <=> In(s, M) \/ e \in M
           /\ Single(s, M) /\ ~(e \in M /\ In(s, M)) => Single(Append(s, e), M)
  <1> DEFINE a == Append(s, e)
  <1>1. /\ a \in Seq(S) /\ Len(a) = Len(s) + 1 /\ Len(s) \in Nat
        /\ a[Len(s) + 1] = e
        /\ \A i \in 1 .. Len(s) : a[i] = s[i]
    OBVIOUS
  <1>2. \A i \in 1 .. Len(a) : i \in 1 .. Len(s) \/ i = Len(s) + 1
    BY <1>1
  <1>3. 1 .. Len(s) \subseteq 1 .. Len(a) /\ Len(s) + 1 \in 1 .. Len(a)
    BY <1>1
  <1> HIDE DEF a
  <1>4. In(a, M) <=> In(s, M) \/ e \in M
    BY <1>1, <1>2, <1>3 DEF In
  <1>5. Single(s, M) /\ ~(e \in M /\ In(s, M)) => Single(a, M)
    BY <1>1, <1>2 DEF In, Single
  <1> QED
    BY <1>1, <1>4, <1>5 DEF a

\* The packet in front is taken.
LEMMA Taken ==
    ASSUME NEW S, NEW M, NEW s \in Seq(S), s # <<>>
    PROVE  /\ Tail(s) \in Seq(S) /\ Head(s) \in S
           /\ In(s, M) <=> Head(s) \in M \/ In(Tail(s), M)
           /\ Single(s, M) => Single(Tail(s), M) /\ ~(Head(s) \in M /\ In(Tail(s), M))
  <1> DEFINE r == Tail(s)
  <1>1. /\ r \in Seq(S) /\ Len(s) \in Nat \ {0} /\ Len(r) = Len(s) - 1
        /\ Head(s) = s[1] /\ s[1] \in S
        /\ \A i \in 1 .. Len(r) : r[i] = s[i + 1]
    OBVIOUS
  <1>2. \A i \in 1 .. Len(r) : i + 1 \in 1 .. Len(s) /\ i + 1 # 1
    BY <1>1
  <1>3. \A i \in 1 .. Len(s) : i = 1 \/ (i - 1 \in 1 .. Len(r) /\ s[i] = r[i - 1])
    BY <1>1
  <1>4. 1 \in 1 .. Len(s)
    BY <1>1
  <1> HIDE DEF r
  <1>5. In(s, M) <=> Head(s) \in M \/ In(r, M)
    BY <1>1, <1>2, <1>3, <1>4 DEF In
  <1>6. ASSUME Single(s, M)
        PROVE  Single(r, M) /\ ~(Head(s) \in M /\ In(r, M))
    <2>1. Single(r, M)
      <3> SUFFICES ASSUME NEW i \in 1 .. Len(r), NEW j \in 1 .. Len(r), r[i] \in M, r[j] \in M
                   PROVE  i = j
        BY DEF Single
      <3>1. i + 1 = j + 1
        BY <1>1, <1>2, <1>6 DEF Single
      <3> QED
        BY <3>1
    <2>2. ~(Head(s) \in M /\ In(r, M))
      BY <1>1, <1>2, <1>4, <1>6 DEF In, Single
    <2> QED
      BY <2>1, <2>2
  <1> QED
    BY <1>1, <1>5, <1>6 DEF r

-----------------------------------------------------------------------------
(* Types and stages.                                                       *)

\* A new client satisfies the invariant.
LEMMA Initially == Init => IInv
  <1> SUFFICES ASSUME Init PROVE IInv
    OBVIOUS
  <1>1. Places
    BY DEF Init, Places
  <1>2. Flags
    BY DEF Init, Flags
  <1>3. Numbers
    BY ClientAssumption DEF Init, Numbers
  <1>4. Packets
    BY DEF Init, Packets
  <1>5. /\ ~In(<<>>, SignIn) /\ ~In(<<>>, AfterLogin) /\ ~In(<<>>, To(SignIn))
        /\ ~In(<<>>, To(AfterLogin)) /\ Single(<<>>, SignIn) /\ Single(<<>>, To(SignIn))
    BY Nothing
  <1>6. OnePlace
    BY <1>5 DEF Init, OnePlace, WithReader, WithConnector
  <1>7. NoTrace /\ FailureFirst
    BY <1>5 DEF Init, NoTrace, FailureFirst
  <1>8. Permits
    BY <1>5 DEF Init, Permits, Underway, WithReader, WithConnector
  <1>9. Stages
    BY DEF Init, Stages
  <1>10. Beginning
    BY ClientAssumption DEF Init, Beginning
  <1> QED
    BY <1>1, <1>2, <1>3, <1>4, <1>6, <1>7, <1>8, <1>9, <1>10 DEF IInv

\* Every step keeps the places where the threads can be, and what they report.
LEMMA PlacesStep == Places /\ [Next]_vars => Places'
  <1> SUFFICES ASSUME Places, [Next]_vars PROVE Places'
    OBVIOUS
  <1> USE DEF Places, Failures, threadVars, flagVars, wireVars
  <1>1. CASE Start \/ SignOut \/ CallerStep
    BY <1>1 DEF Start, SignOut, CallerStep, Started, CheckAuthenticated, Acquire, Woken,
       ReportState, StopStep,
       StopTerminate, StopNotify, WakeWriter, Notify, StopDisconnect, Disconnect, StopJoins
  <1>2. CASE ConnectorStep
    BY <1>2 DEF ConnectorStep, ConnectFails, ConnectSucceeds, SendLogin
  <1>3. CASE ReaderStep
    BY <1>3 DEF ReaderStep, ReaderLoops, ReaderLeaves, ReaderEnds, AfterLoop, ReaderTests,
       AfterTest, ReaderFails, ReaderReleases,
       ReaderResets, Unconnected, ReaderExits, LoginAccepted, AskForToken, LoginRefused,
       RefusedReleases, RefusedDisconnects, LoginEmpty,
       TokenReply, FeaturesReply, FeaturesRelease, OtherReply, Push, Notify, Disconnect
  <1>4. CASE WriterStep
    BY <1>4 DEF WriterStep, WriterLocks, WriterTakes, WriterWaits, WriterSends
  <1>5. CASE (\E g \in Game : Submit(g) \/ SubmitNotifies(g)) \/ ServerStep
    BY <1>5 DEF Submit, SubmitNotifies, Notify, ServerStep, ServerReplies, ServerBreaksProtocol,
       ConnectionLost
  <1>6. CASE UNCHANGED vars
    BY <1>6 DEF vars
  <1> QED
    BY <1>1, <1>2, <1>3, <1>4, <1>5, <1>6 DEF Next

\* Flags are set and cleared by the connector, the reader and Stop() alone.
LEMMA FlagsStep == Flags /\ [Next]_vars => Flags'
  <1> SUFFICES ASSUME Flags, [Next]_vars PROVE Flags'
    OBVIOUS
  <1> USE DEF Flags, threadVars, flagVars, wireVars
  <1>1. CASE Start \/ SignOut \/ CallerStep
    BY <1>1 DEF Start, SignOut, CallerStep, Started, CheckAuthenticated, Acquire, Woken,
       ReportState, StopStep,
       StopTerminate, StopNotify, StopDisconnect, StopJoins
  <1>2. CASE ConnectorStep
    BY <1>2 DEF ConnectorStep, ConnectFails, ConnectSucceeds, SendLogin
  <1>3. CASE ReaderStep
    BY <1>3 DEF ReaderStep, ReaderLoops, ReaderLeaves, ReaderEnds, AfterLoop, ReaderTests,
       AfterTest, ReaderFails, ReaderReleases,
       ReaderResets, Unconnected, ReaderExits, LoginAccepted, AskForToken, LoginRefused,
       RefusedReleases, RefusedDisconnects, LoginEmpty,
       TokenReply, FeaturesReply, FeaturesRelease, OtherReply
  <1>4. CASE WriterStep
    BY <1>4 DEF WriterStep, WriterLocks, WriterTakes, WriterWaits, WriterSends
  <1>5. CASE (\E g \in Game : Submit(g) \/ SubmitNotifies(g)) \/ ServerStep
    BY <1>5 DEF Submit, SubmitNotifies, ServerStep, ServerReplies, ServerBreaksProtocol,
       ConnectionLost
  <1>6. CASE UNCHANGED vars
    BY <1>6 DEF vars
  <1> QED
    BY <1>1, <1>2, <1>3, <1>4, <1>5, <1>6 DEF Next

\* Attempts and requests stay within their bounds, and no permit is taken that is not there.
LEMMA NumbersStep == Numbers /\ Beginning /\ [Next]_vars => Numbers'
  <1> SUFFICES ASSUME Numbers, Beginning, [Next]_vars PROVE Numbers'
    OBVIOUS
  <1> USE ClientAssumption DEF Numbers, Release, threadVars, flagVars, wireVars
  <1>1. CASE Start \/ SignOut \/ CallerStep
    BY <1>1 DEF Start, SignOut, CallerStep, Started, CheckAuthenticated, Acquire, Woken,
       ReportState, StopStep,
       StopTerminate, StopNotify, StopDisconnect, StopJoins
  <1>2. CASE ConnectorStep
    BY <1>2 DEF ConnectorStep, ConnectFails, ConnectSucceeds, SendLogin, Beginning
  <1>3. CASE ReaderStep
    BY <1>3 DEF ReaderStep, ReaderLoops, ReaderLeaves, ReaderEnds, AfterLoop, ReaderTests,
       AfterTest, ReaderFails, ReaderReleases,
       ReaderResets, Unconnected, ReaderExits, LoginAccepted, AskForToken, LoginRefused,
       RefusedReleases, RefusedDisconnects, LoginEmpty,
       TokenReply, FeaturesReply, FeaturesRelease, OtherReply
  <1>4. CASE WriterStep
    BY <1>4 DEF WriterStep, WriterLocks, WriterTakes, WriterWaits, WriterSends
  <1>5. ASSUME NEW g \in Game, Submit(g) \/ SubmitNotifies(g) PROVE Numbers'
    BY <1>5 DEF Submit, SubmitNotifies, Notify
  <1>6. CASE ServerStep
    BY <1>6 DEF ServerStep, ServerReplies, ServerBreaksProtocol, ConnectionLost
  <1>7. CASE UNCHANGED vars
    BY <1>7 DEF vars
  <1> QED
    BY <1>1, <1>2, <1>3, <1>4, <1>5, <1>6, <1>7 DEF Next

\* The queues hold commands, the wire replies to them.
LEMMA PacketsStep == Packets /\ [Next]_vars => Packets'
  <1> SUFFICES ASSUME Packets, [Next]_vars PROVE Packets'
    OBVIOUS
  <1>0. <<>> \in Seq(Commands) /\ <<>> \in Seq(Reply \cup {Corrupt})
    OBVIOUS
  <1> USE <1>0 DEF Packets, threadVars, flagVars, wireVars
  <1>1. CASE Start \/ SignOut \/ CallerStep
    BY <1>1 DEF Start, SignOut, CallerStep, Started, CheckAuthenticated, Acquire, Woken,
       ReportState, StopStep,
       StopTerminate, StopNotify, StopDisconnect, Disconnect, StopJoins
  <1>2. CASE ConnectorStep
    <2>1. Append(toServer, "Login") \in Seq(Commands)
      BY Appended DEF Commands
    <2> QED
      BY <1>2, <2>1 DEF ConnectorStep, ConnectFails, ConnectSucceeds, SendLogin
  <1>3. CASE ReaderStep
    <2>1. toClient # <<>> => Tail(toClient) \in Seq(Reply \cup {Corrupt})
      BY Taken
    <2>2. \A cmd \in Commands : Append(queue, cmd) \in Seq(Commands)
      BY Appended
    <2> QED
      BY <1>3, <2>1, <2>2 DEF ReaderStep, ReaderLoops, ReaderLeaves, ReaderEnds, AfterLoop,
         ReaderTests, AfterTest, ReaderFails, ReaderReleases, ReaderResets, Unconnected,
         ReaderExits,
         LoginAccepted, AskForToken, LoginRefused, RefusedReleases, RefusedDisconnects, LoginEmpty,
         TokenReply,
         FeaturesReply, FeaturesRelease, OtherReply, Receive, Push, Disconnect, Commands
  <1>4. CASE WriterStep
    <2>1. batch # <<>> => /\ Append(toServer, Head(batch)) \in Seq(Commands)
                          /\ Tail(batch) \in Seq(Commands)
      BY Appended, Taken
    <2> QED
      BY <1>4, <2>1 DEF WriterStep, WriterLocks, WriterTakes, WriterWaits, WriterSends
  <1>5. ASSUME NEW g \in Game, Submit(g) \/ SubmitNotifies(g) PROVE Packets'
    <2>1. Append(queue, "Request") \in Seq(Commands)
      BY Appended DEF Commands
    <2>2. CASE Submit(g)
      BY <2>1, <2>2 DEF Submit
    <2>3. CASE SubmitNotifies(g)
      BY <2>3 DEF SubmitNotifies
    <2> QED
      BY <1>5, <2>2, <2>3
  <1>6. CASE ServerStep
    <2>1. toServer # <<>> => Tail(toServer) \in Seq(Commands) /\ Head(toServer) \in Commands
      BY Taken
    <2>2. ASSUME NEW v \in Verdicts, ServerReplies(v) PROVE Packets'
      <3>1. [cmd |-> Head(toServer), verdict |-> v] \in Reply
        BY <2>1, <2>2 DEF ServerReplies, Reply
      <3> QED
        BY <2>1, <2>2, <3>1, Appended DEF ServerReplies
    <2>3. Append(toClient, Corrupt) \in Seq(Reply \cup {Corrupt})
      BY Appended
    <2> QED
      BY <1>6, <2>1, <2>2, <2>3 DEF ServerStep, ServerBreaksProtocol, ConnectionLost
  <1>7. CASE UNCHANGED vars
    BY <1>7 DEF vars
  <1> QED
    BY <1>1, <1>2, <1>3, <1>4, <1>5, <1>6, <1>7 DEF Next

\* Every step keeps the order in which the threads begin and end.
LEMMA StagesStep == Places /\ Stages /\ [Next]_vars => Stages'
  <1> SUFFICES ASSUME Places, Stages, [Next]_vars PROVE Stages'
    OBVIOUS
  <1> USE DEF Places, Stages, threadVars, flagVars, wireVars
  <1>1. CASE Start \/ SignOut \/ CallerStep
    BY <1>1 DEF Start, SignOut, CallerStep, Started, CheckAuthenticated, Acquire, Woken,
       ReportState, StopStep,
       StopTerminate, StopNotify, WakeWriter, Notify, StopDisconnect, StopJoins
  <1>2. CASE ConnectorStep
    BY <1>2 DEF ConnectorStep, ConnectFails, ConnectSucceeds, SendLogin
  <1>3. CASE ReaderStep
    BY <1>3 DEF ReaderStep, ReaderLoops, ReaderLeaves, ReaderEnds, AfterLoop, ReaderTests,
       AfterTest, ReaderFails, ReaderReleases,
       ReaderResets, Unconnected, ReaderExits, LoginAccepted, AskForToken, LoginRefused,
       RefusedReleases, RefusedDisconnects, LoginEmpty,
       TokenReply, FeaturesReply, FeaturesRelease, OtherReply, Receive, Push, Notify
  <1>4. CASE WriterStep
    BY <1>4 DEF WriterStep, WriterLocks, WriterTakes, WriterWaits, WriterSends
  <1>5. ASSUME NEW g \in Game, Submit(g) \/ SubmitNotifies(g) PROVE Stages'
    BY <1>5 DEF Submit, SubmitNotifies, Notify
  <1>6. CASE ServerStep
    <2>1. UNCHANGED <<caller, connector, reader, writer, connected, authenticated>>
      BY <1>6 DEF ServerStep, ServerReplies, ServerBreaksProtocol, ConnectionLost
    <2> QED
      BY <2>1
  <1>7. CASE UNCHANGED vars
    BY <1>7 DEF vars
  <1> QED
    BY <1>1, <1>2, <1>3, <1>4, <1>5, <1>6, <1>7 DEF Next

\* ... and what they have at their beginning.
LEMMA BeginningStep == Places /\ Numbers /\ Stages /\ Beginning /\ [Next]_vars => Beginning'
  <1> SUFFICES ASSUME Places, Numbers, Stages, Beginning, [Next]_vars PROVE Beginning'
    OBVIOUS
  <1> USE ClientAssumption DEF Numbers, Places, Beginning, Release, threadVars, flagVars, wireVars
  <1>1. CASE Start \/ SignOut \/ CallerStep
    BY <1>1 DEF Stages, Start, SignOut, CallerStep, Started, CheckAuthenticated, Acquire, Woken,
       ReportState, StopStep,
       StopTerminate, StopNotify, WakeWriter, Notify, StopDisconnect, Disconnect, StopJoins
  <1>2. CASE ConnectorStep
    BY <1>2 DEF Stages, ConnectorStep, ConnectFails, LastAttempt, ConnectSucceeds, SendLogin
  <1>3. CASE ReaderStep
    BY <1>3 DEF Stages, ReaderStep, ReaderLoops, ReaderLeaves, ReaderEnds, AfterLoop, ReaderTests,
       AfterTest, ReaderFails, ReaderReleases,
       ReaderResets, Unconnected, ReaderExits, LoginAccepted, AskForToken, LoginRefused,
       RefusedReleases, RefusedDisconnects, LoginEmpty,
       TokenReply, FeaturesReply, FeaturesRelease, OtherReply, Receive, Push, Notify, Disconnect
  <1>4. CASE WriterStep
    BY <1>4 DEF WriterStep, WriterLocks, WriterTakes, WriterWaits, WriterSends
  <1>5. CASE (\E g \in Game : Submit(g) \/ SubmitNotifies(g)) \/ ServerStep
    BY <1>5 DEF Submit, SubmitNotifies, Notify, ServerStep, ServerReplies, ServerBreaksProtocol,
       ConnectionLost
  <1>6. CASE UNCHANGED vars
    BY <1>6 DEF vars
  <1> QED
    BY <1>1, <1>2, <1>3, <1>4, <1>5, <1>6 DEF Next

-----------------------------------------------------------------------------
(* The sign-in.                                                            *)

\* A reply belongs to a set of commands as its command does; rubbish belongs to none.
LEMMA RepliesTo ==
    ASSUME NEW c \in Commands, NEW v \in Verdicts, NEW C
    PROVE  /\ [cmd |-> c, verdict |-> v] \in Reply
           /\ [cmd |-> c, verdict |-> v] \in To(C) <=> c \in C
           /\ Corrupt \notin To(C)
  BY DEF Reply, To, Corrupt, Commands

\* What is left of a sequence, and what is put behind it, with respect to a kind M
Shrinks(s, M) ==
    s # <<>> =>
        /\ In(s, M) <=> Head(s) \in M \/ In(Tail(s), M)
        /\ Single(s, M) => Single(Tail(s), M) /\ ~(Head(s) \in M /\ In(Tail(s), M))
Grows(s, M, S) ==
    \A e \in S :
        /\ In(Append(s, e), M) <=> In(s, M) \/ e \in M
        /\ Single(s, M) /\ ~(e \in M /\ In(s, M)) => Single(Append(s, e), M)
Empties(M) == ~In(<<>>, M) /\ Single(<<>>, M)

\* What the steps that move packets do to the packets of a set C of commands
LEMMA Moves ==
    ASSUME Packets, NEW C
    PROVE  /\ Empties(C) /\ Empties(To(C))
           /\ Grows(queue, C, Commands) /\ Grows(toServer, C, Commands)
           /\ Shrinks(batch, C) /\ Shrinks(toServer, C) /\ Shrinks(toClient, To(C))
           /\ Grows(toClient, To(C), Reply \cup {Corrupt})
           /\ batch # <<>> => Head(batch) \in Commands
           /\ toServer # <<>> => Head(toServer) \in Commands
  <1>1. Empties(C) /\ Empties(To(C))
    BY Nothing DEF Empties
  <1>2. Grows(queue, C, Commands) /\ Grows(toServer, C, Commands)
    BY Appended DEF Packets, Grows
  <1>3. Grows(toClient, To(C), Reply \cup {Corrupt})
    BY Appended DEF Packets, Grows
  <1>4. Shrinks(batch, C) /\ Shrinks(toServer, C)
    BY Taken DEF Packets, Shrinks
  <1>5. Shrinks(toClient, To(C))
    BY Taken DEF Packets, Shrinks
  <1>6. /\ batch # <<>> => Head(batch) \in Commands
        /\ toServer # <<>> => Head(toServer) \in Commands
    BY Taken DEF Packets
  <1> QED
    BY <1>1, <1>2, <1>3, <1>4, <1>5, <1>6

\* The sign-in stays in one place, each command being sent once its predecessor was
\* answered, and does not begin again.
LEMMA OnePlaceStep ==
    Places /\ Packets /\ Stages /\ Beginning /\ OnePlace /\ [Next]_vars
      => OnePlace' /\ (Underway' => Underway)
  <1> SUFFICES ASSUME Places, Packets, Stages, Beginning, OnePlace, [Next]_vars
               PROVE  OnePlace' /\ (Underway' => Underway)
    OBVIOUS
  <1> DEFINE M == SignIn
             R == To(SignIn)
  <1>0. /\ {"Login", "GetToken", "GetServerFeatures"} \subseteq M /\ M \subseteq Commands
        /\ "Request" \in Commands \ M /\ "SetClientVersion" \in Commands \ M
    BY DEF SignIn, Commands
  <1>m. /\ Empties(M) /\ Empties(R)
        /\ Grows(queue, M, Commands) /\ Grows(toServer, M, Commands)
        /\ Shrinks(batch, M) /\ Shrinks(toServer, M) /\ Shrinks(toClient, R)
        /\ Grows(toClient, R, Reply \cup {Corrupt})
        /\ batch # <<>> => Head(batch) \in Commands
        /\ toServer # <<>> => Head(toServer) \in Commands
    BY Moves
  <1>r. /\ \A c \in Commands, v \in Verdicts :
             /\ [cmd |-> c, verdict |-> v] \in Reply \cup {Corrupt}
             /\ [cmd |-> c, verdict |-> v] \in R <=> c \in M
        /\ Corrupt \notin R /\ Corrupt \in Reply \cup {Corrupt}
    BY RepliesTo DEF Commands, Verdicts
  <1> HIDE DEF M, R
  <1>p. OnePlace <=> /\ Single(queue, M) /\ Single(batch, M) /\ Single(toServer, M)
                     /\ Single(toClient, R)
                     /\ WithConnector \/ WithReader =>
                          ~(WithConnector /\ WithReader) /\ ~In(queue, M) /\ ~In(batch, M)
                          /\ ~In(toServer, M) /\ ~In(toClient, R)
                     /\ In(queue, M) => ~In(batch, M) /\ ~In(toServer, M) /\ ~In(toClient, R)
                     /\ In(batch, M) => ~In(toServer, M) /\ ~In(toClient, R)
                     /\ In(toServer, M) => ~In(toClient, R)
    BY DEF OnePlace, M, R
  <1>q. /\ Single(queue', M) /\ Single(batch', M) /\ Single(toServer', M)
        /\ Single(toClient', R)
        /\ WithConnector' \/ WithReader' =>
             ~(WithConnector' /\ WithReader') /\ ~In(queue', M) /\ ~In(batch', M)
             /\ ~In(toServer', M) /\ ~In(toClient', R)
        /\ In(queue', M) => ~In(batch', M) /\ ~In(toServer', M) /\ ~In(toClient', R)
        /\ In(batch', M) => ~In(toServer', M) /\ ~In(toClient', R)
        /\ In(toServer', M) => ~In(toClient', R)
        /\ \/ WithConnector' \/ WithReader'
           \/ In(queue', M) \/ In(batch', M) \/ In(toServer', M) \/ In(toClient', R)
           => \/ WithConnector \/ WithReader
              \/ In(queue, M) \/ In(batch, M) \/ In(toServer, M) \/ In(toClient, R)
    <2> USE <1>p DEF WithConnector, WithReader, threadVars, flagVars, wireVars
    <2>1. CASE Start \/ SignOut \/ CallerStep
      BY <1>m, <2>1 DEF Empties, Stages, Start, SignOut, CallerStep, Started, CheckAuthenticated,
         Acquire,
         Woken, ReportState, StopStep, StopTerminate, StopNotify, StopDisconnect, Disconnect,
         StopJoins
    <2>2. CASE ConnectorStep
      BY <1>0, <1>m, <2>2 DEF Places, Stages, Grows, ConnectorStep, ConnectFails, ConnectSucceeds,
         SendLogin
    <2>3. CASE \/ ReaderLoops \/ ReaderEnds \/ ReaderTests \/ ReaderFails \/ ReaderReleases
               \/ ReaderResets \/ ReaderExits \/ RefusedReleases \/ FeaturesRelease
      BY <2>3 DEF ReaderLoops, ReaderEnds, AfterLoop, ReaderTests, AfterTest, ReaderFails,
         ReaderReleases, ReaderResets, Unconnected, ReaderExits, RefusedReleases, FeaturesRelease
    <2>4. CASE ReaderLeaves
      BY <1>m, <2>4 DEF ReaderLeaves, Shrinks
    <2>5. ASSUME NEW c \in Commands, NEW v \in Verdicts, Receive(c, v)
          PROVE  /\ Head(toClient) \in R <=> c \in M
                 /\ toClient # <<>> /\ toClient' = Tail(toClient) /\ reader = "recv"
                 /\ In(toClient, R) <=> c \in M \/ In(toClient', R)
                 /\ Single(toClient', R) /\ ~(c \in M /\ In(toClient', R))
      BY <1>m, <1>r, <2>5 DEF Receive, Shrinks
    <2>v. {"ok", "error", "malformed", "empty"} \subseteq Verdicts
      BY DEF Verdicts
    <2>6. CASE LoginAccepted \/ LoginRefused \/ LoginEmpty \/ OtherReply
      BY <1>0, <2>5, <2>6, <2>v DEF LoginAccepted, LoginRefused, LoginEmpty, OtherReply
    <2>7. CASE RefusedDisconnects \/ AskForToken
      BY <1>0, <1>m, <2>7 DEF RefusedReleases, RefusedDisconnects, AskForToken, Push, Disconnect,
         Grows, Empties
    <2>8. CASE TokenReply \/ FeaturesReply
      BY <1>0, <1>m, <2>5, <2>8, <2>v DEF TokenReply, FeaturesReply, Push, Grows
    <2>9. CASE WriterStep
      BY <1>m, <2>9 DEF Beginning, WriterStep, WriterLocks, WriterTakes, WriterWaits, WriterSends,
         Grows, Shrinks, Empties
    <2>10. CASE \E g \in Game : Submit(g) \/ SubmitNotifies(g)
      BY <1>0, <1>m, <2>10 DEF Submit, SubmitNotifies, Grows
    <2>11. CASE ServerStep
      BY <1>m, <1>r, <2>11 DEF ServerStep, ServerReplies, ServerBreaksProtocol, ConnectionLost,
         Grows, Shrinks
    <2>12. CASE UNCHANGED vars
      BY <2>12 DEF vars
    <2> QED
      BY <2>1, <2>2, <2>3, <2>4, <2>6, <2>7, <2>8, <2>9, <2>10, <2>11, <2>12 DEF Next, ReaderStep
  <1> QED
    BY <1>q DEF OnePlace, Underway, M, R

\* A permit that the sign-in gives is its last step.
LEMMA SignInOver ==
    ASSUME OnePlace, Stages, Places, Packets,
           RefusedReleases \/ FeaturesRelease \/ (ConnectorStep /\ semAuth' # semAuth)
    PROVE  Underway /\ ~Underway'
  <1> USE DEF OnePlace, Underway, WithConnector, WithReader, wireVars
  <1>2. CASE RefusedReleases
    BY <1>2 DEF RefusedReleases, Stages
  <1>3. CASE FeaturesRelease
    BY <1>3 DEF FeaturesRelease
  <1>4. CASE ConnectorStep /\ semAuth' # semAuth
    BY <1>4 DEF ConnectorStep, ConnectFails, ConnectSucceeds, SendLogin, Stages
  <1> QED
    BY <1>2, <1>3, <1>4

\* Every step keeps the account of the permits.
LEMMA PermitsStep ==
    Places /\ Numbers /\ Packets /\ Stages /\ Beginning /\ OnePlace /\ Permits /\ [Next]_vars => Permits'
  <1> SUFFICES ASSUME Places, Numbers, Packets, Stages, Beginning, OnePlace, Permits, [Next]_vars
               PROVE  Permits'
    OBVIOUS
  <1>1. Underway' => Underway
    BY OnePlaceStep
  <1>2. semAuth \in Nat
    BY DEF Numbers
  <1> USE <1>1, <1>2 DEF Permits, Places, Reset, threadVars, flagVars, wireVars
  <1>3. CASE Start \/ SignOut \/ CallerStep
    BY <1>3 DEF Start, SignOut, CallerStep, Started, CheckAuthenticated, Acquire, Woken,
       ReportState, StopStep,
       StopTerminate, Release, StopNotify, StopDisconnect, StopJoins
  <1>4. CASE ConnectorStep
    <2>1. reader' \notin Reset \/ reader' = reader
      BY <1>4 DEF ConnectorStep, ConnectFails, ConnectSucceeds, SendLogin
    <2>2. caller' = caller /\ (semAuth' = semAuth \/ (semAuth' = semAuth + 1 /\ reader' = reader))
      BY <1>4 DEF ConnectorStep, ConnectFails, ConnectSucceeds, SendLogin, Release
    <2>3. semAuth' # semAuth => Underway /\ ~Underway'
      BY <1>4, SignInOver
    <2>4. reader \notin Reset \/ semAuth' # semAuth \/ reader' = reader
      BY <1>4 DEF ConnectorStep, ConnectFails, ConnectSucceeds, SendLogin, Stages
    <2> QED
      BY <2>1, <2>2, <2>3, <2>4
  <1>5. CASE RefusedReleases \/ FeaturesRelease
    <2>1. Underway /\ ~Underway'
      BY <1>5, SignInOver
    <2> QED
      BY <1>5, <2>1 DEF RefusedReleases, FeaturesRelease, Release
  <1>6. CASE ReaderReleases
    BY <1>6 DEF ReaderEnds, AfterLoop, ReaderTests, AfterTest, ReaderFails, ReaderReleases, Release
  <1>7. CASE \/ ReaderLoops \/ ReaderLeaves \/ ReaderEnds \/ ReaderTests \/ ReaderFails
             \/ ReaderResets \/ ReaderExits \/ LoginAccepted \/ AskForToken
             \/ LoginRefused \/ RefusedDisconnects \/ LoginEmpty
             \/ TokenReply \/ FeaturesReply \/ OtherReply
    BY <1>7 DEF ReaderLoops, ReaderLeaves, ReaderEnds, AfterLoop, ReaderTests, AfterTest,
       ReaderFails,
       ReaderResets, ReaderExits, LoginAccepted, AskForToken, LoginRefused, RefusedDisconnects,
       LoginEmpty, TokenReply, FeaturesReply, OtherReply, Receive
  <1>8. CASE WriterStep
    BY <1>8 DEF WriterStep, WriterLocks, WriterTakes, WriterWaits, WriterSends
  <1>9. CASE (\E g \in Game : Submit(g) \/ SubmitNotifies(g)) \/ ServerStep
    <2>1. UNCHANGED <<semAuth, caller, reader>>
      BY <1>9 DEF Submit, SubmitNotifies, ServerStep, ServerReplies, ServerBreaksProtocol,
         ConnectionLost
    <2> QED
      BY <2>1
  <1>10. CASE UNCHANGED vars
    BY <1>10 DEF vars
  <1> QED
    BY <1>3, <1>4, <1>5, <1>6, <1>7, <1>8, <1>9, <1>10 DEF Next, ReaderStep
\* An accepted login is not forgotten.
LEMMA AcceptedStays == accepted /\ [Next]_vars => accepted'
  <1> SUFFICES ASSUME accepted, [Next]_vars PROVE accepted'
    OBVIOUS
  <1> USE DEF threadVars, flagVars, wireVars
  <1>1. CASE Start \/ SignOut \/ CallerStep
    BY <1>1 DEF Start, SignOut, CallerStep, Started, CheckAuthenticated, Acquire,
       Woken, ReportState, StopStep, StopTerminate, StopNotify, StopDisconnect, StopJoins
  <1>2. CASE ConnectorStep
    BY <1>2 DEF ConnectorStep, ConnectFails, ConnectSucceeds, SendLogin
  <1>3. CASE ReaderStep
    BY <1>3 DEF ReaderStep, ReaderLoops, ReaderLeaves, ReaderEnds, AfterLoop, ReaderTests,
       AfterTest, ReaderFails, ReaderReleases, ReaderResets, Unconnected, ReaderExits,
       LoginAccepted,
       AskForToken, LoginRefused, RefusedReleases, RefusedDisconnects, LoginEmpty, TokenReply,
       FeaturesReply,
       FeaturesRelease, OtherReply
  <1>4. CASE WriterStep
    BY <1>4 DEF WriterStep, WriterLocks, WriterTakes, WriterWaits, WriterSends
  <1>5. CASE (\E g \in Game : Submit(g) \/ SubmitNotifies(g)) \/ ServerStep
    BY <1>5 DEF Submit, SubmitNotifies, ServerStep, ServerReplies, ServerBreaksProtocol,
       ConnectionLost
  <1>6. CASE UNCHANGED vars
    BY <1>6 DEF vars
  <1> QED
    BY <1>1, <1>2, <1>3, <1>4, <1>5, <1>6 DEF Next

\* What the connection carries once the login is accepted comes after the acceptance.
LEMMA NoTraceStep ==
    Places /\ Packets /\ Stages /\ Beginning /\ NoTrace /\ FailureFirst /\ [Next]_vars => NoTrace'
  <1> SUFFICES ASSUME Places, Packets, Stages, Beginning, NoTrace, FailureFirst, [Next]_vars, ~accepted'
               PROVE  NoTrace'
    BY DEF NoTrace
  <1> DEFINE M == AfterLogin
             R == To(AfterLogin)
  <1>0. /\ {"GetToken", "GetServerFeatures"} \subseteq M
        /\ {"Login", "Request", "SetClientVersion"} \subseteq Commands \ M
    BY DEF AfterLogin, SignIn, Commands
  <1>m. /\ Empties(M) /\ Empties(R)
        /\ Grows(queue, M, Commands) /\ Grows(toServer, M, Commands)
        /\ Shrinks(batch, M) /\ Shrinks(toServer, M) /\ Shrinks(toClient, R)
        /\ Grows(toClient, R, Reply \cup {Corrupt})
        /\ batch # <<>> => Head(batch) \in Commands
        /\ toServer # <<>> => Head(toServer) \in Commands
    BY Moves
  <1>r. /\ \A c \in Commands, v \in Verdicts :
             /\ [cmd |-> c, verdict |-> v] \in Reply \cup {Corrupt}
             /\ [cmd |-> c, verdict |-> v] \in R <=> c \in M
        /\ Corrupt \notin R /\ Corrupt \in Reply \cup {Corrupt}
    BY RepliesTo DEF Commands, Verdicts
  <1> HIDE DEF M, R
  <1>p. NoTrace <=>
          (~accepted => /\ ~authenticated /\ outcome # "Ok" /\ reader \notin {"token", "features"}
                        /\ ~In(queue, M) /\ ~In(batch, M) /\ ~In(toServer, M) /\ ~In(toClient, R))
    BY DEF NoTrace, M, R
  <1>a. ~accepted
    BY AcceptedStays
  <1>s. /\ ~authenticated /\ outcome # "Ok" /\ reader \notin {"token", "features"}
        /\ ~In(queue, M) /\ ~In(batch, M) /\ ~In(toServer, M) /\ ~In(toClient, R)
    BY <1>a, <1>p
  <1>q. /\ ~authenticated' /\ outcome' # "Ok" /\ reader' \notin {"token", "features"}
        /\ ~In(queue', M) /\ ~In(batch', M) /\ ~In(toServer', M) /\ ~In(toClient', R)
    <2> USE <1>s DEF threadVars, flagVars, wireVars
    <2>f. caller \in {"woken", "unconfirmed"} => state # "Ok"
      BY <1>a DEF FailureFirst, Waiting
    <2>1. CASE Start \/ SignOut \/ CallerStep
      BY <1>m, <2>1, <2>f DEF Empties, Start, SignOut, CallerStep, Started, CheckAuthenticated,
         Acquire,
         Woken, ReportState, StopStep, StopTerminate, StopNotify, StopDisconnect, Disconnect,
         StopJoins
    <2>2. CASE ConnectorStep
      <3>1. /\ UNCHANGED <<authenticated, outcome, queue, batch, toClient>>
            /\ reader' \in {reader, "top"}
        BY <2>2 DEF ConnectorStep, ConnectFails, ConnectSucceeds, SendLogin
      <3>2. ~In(toServer', M)
        BY <1>0, <1>m, <2>2 DEF Grows, ConnectorStep, ConnectFails, ConnectSucceeds, SendLogin
      <3> QED
        BY <3>1, <3>2
    <2>3. CASE \/ ReaderLoops \/ ReaderEnds \/ ReaderTests \/ ReaderFails \/ ReaderReleases
               \/ ReaderResets \/ ReaderExits \/ RefusedReleases \/ FeaturesRelease
      BY <2>3 DEF ReaderLoops, ReaderEnds, AfterLoop, ReaderTests, AfterTest, ReaderFails,
         ReaderReleases, ReaderResets, Unconnected, ReaderExits, RefusedReleases, FeaturesRelease
    <2>4. CASE ReaderLeaves
      BY <1>m, <2>4 DEF ReaderLeaves, Shrinks
    <2>5. ASSUME NEW c \in Commands, NEW v \in Verdicts, Receive(c, v)
          PROVE  c \notin M /\ toClient' = Tail(toClient) /\ ~In(toClient', R)
      BY <1>m, <1>r, <2>5 DEF Receive, Shrinks
    <2>v. {"ok", "error", "malformed", "empty"} \subseteq Verdicts
      BY DEF Verdicts
    <2>6. CASE LoginRefused \/ LoginEmpty \/ OtherReply
      BY <1>0, <2>5, <2>6, <2>v DEF LoginRefused, LoginEmpty, OtherReply
    <2>7. CASE LoginAccepted
      BY <2>7 DEF LoginAccepted
    <2>8. CASE RefusedDisconnects \/ AskForToken
      BY <1>m, <2>8 DEF RefusedReleases, RefusedDisconnects, AskForToken, Disconnect, Empties
    <2>9. CASE TokenReply \/ FeaturesReply
      <3>1. {"GetToken", "GetServerFeatures"} \subseteq Commands
        BY DEF Commands
      <3> QED
        BY <1>0, <2>5, <2>9, <2>v, <3>1 DEF TokenReply, FeaturesReply
    <2>10. CASE WriterStep
      <3>1. UNCHANGED <<authenticated, outcome, reader, toClient>>
        BY <2>10 DEF WriterStep, WriterLocks, WriterTakes, WriterWaits, WriterSends
      <3>2. ~In(queue', M) /\ ~In(batch', M) /\ ~In(toServer', M)
        BY <1>m, <2>10 DEF WriterStep, WriterLocks, WriterTakes, WriterWaits, WriterSends,
           Grows, Shrinks, Empties
      <3> QED
        BY <3>1, <3>2
    <2>11. CASE \E g \in Game : Submit(g) \/ SubmitNotifies(g)
      BY <1>0, <1>m, <2>11 DEF Submit, SubmitNotifies, Grows
    <2>12. CASE ServerStep
      <3>1. UNCHANGED <<authenticated, outcome, reader, queue, batch>>
        BY <2>12 DEF ServerStep, ServerReplies, ServerBreaksProtocol, ConnectionLost
      <3>2. ~In(toServer', M) /\ ~In(toClient', R)
        BY <1>m, <1>r, <2>12 DEF ServerStep, ServerReplies, ServerBreaksProtocol, ConnectionLost,
           Grows, Shrinks
      <3> QED
        BY <3>1, <3>2
    <2>13. CASE UNCHANGED vars
      BY <2>13 DEF vars
    <2> QED
      BY <2>1, <2>2, <2>3, <2>4, <2>6, <2>7, <2>8, <2>9, <2>10, <2>11, <2>12, <2>13 DEF Next,
         ReaderStep
  <1> QED
    BY <1>q DEF NoTrace, M, R

\* A permit without a login comes after its failure, which stays.
LEMMA FailureFirstStep ==
    Places /\ Numbers /\ Stages /\ Beginning /\ NoTrace /\ FailureFirst /\ NoTrace' /\ [Next]_vars
      => FailureFirst'
  <1> SUFFICES ASSUME Places, Numbers, Stages, Beginning, NoTrace, FailureFirst, NoTrace', [Next]_vars,
                      ~accepted'
               PROVE  FailureFirst'
    BY DEF FailureFirst
  <1>n. semAuth \in Nat
    BY DEF Numbers
  <1>a. ~accepted
    BY AcceptedStays
  <1>s. ~authenticated /\ reader \notin {"token", "features"} /\ outcome' # "Ok"
    BY <1>a DEF NoTrace
  <1>p. /\ reader \in {"refused", "releasing"} => state # "Ok"
        /\ caller \in Waiting /\ (semAuth > 0 \/ caller \in {"woken", "unconfirmed"})
             => state # "Ok"
        /\ caller \in {"start", "check", "wait"} /\ reader \in Reset
             => semAuth > 0
    BY <1>a DEF FailureFirst
  <1> USE <1>n, <1>s, <1>p DEF Places, Failures, Reset, Waiting, threadVars, flagVars, wireVars
  <1>q. /\ reader' \in {"refused", "releasing"} => state' # "Ok"
        /\ caller' \in Waiting /\ (semAuth' > 0 \/ caller' \in {"woken", "unconfirmed"})
             => state' # "Ok"
        /\ caller' \in {"start", "check", "wait"} /\ reader' \in Reset
             => semAuth' > 0
    <2>1. CASE Start \/ SignOut \/ CallerStep
      BY <2>1 DEF Stages, Beginning, Start, SignOut, CallerStep, Started, CheckAuthenticated,
         Acquire,
         Woken, ReportState, StopStep, StopTerminate, Release, StopNotify, StopDisconnect, StopJoins
    <2>2. CASE ConnectorStep
      BY <2>2 DEF Stages, Beginning, ConnectorStep, ConnectFails, ConnectSucceeds, SendLogin,
         Release
    <2>3. CASE ReaderReleases
      BY <2>3 DEF ReaderEnds, AfterLoop, ReaderTests, AfterTest, ReaderFails, ReaderReleases,
         Release
    <2>4. CASE RefusedReleases
      BY <2>4 DEF RefusedReleases, Release
    <2>5. CASE \/ ReaderLoops \/ ReaderLeaves \/ ReaderEnds \/ ReaderTests \/ ReaderFails
               \/ ReaderResets \/ ReaderExits \/ LoginAccepted \/ AskForToken
               \/ LoginRefused \/ RefusedDisconnects \/ LoginEmpty
               \/ TokenReply \/ FeaturesReply \/ FeaturesRelease \/ OtherReply
      BY <2>5 DEF ReaderLoops, ReaderLeaves, ReaderEnds, AfterLoop, ReaderTests, AfterTest,
         ReaderFails,
         ReaderResets, ReaderExits, LoginAccepted, AskForToken, LoginRefused, RefusedDisconnects,
         LoginEmpty, TokenReply, FeaturesReply, FeaturesRelease, OtherReply
    <2>6. CASE WriterStep \/ (\E g \in Game : Submit(g) \/ SubmitNotifies(g)) \/ ServerStep \/ UNCHANGED vars
      <3>1. UNCHANGED <<caller, reader, state, semAuth>>
        BY <2>6 DEF WriterStep, WriterLocks, WriterTakes, WriterWaits, WriterSends, Submit,
           SubmitNotifies,
           ServerStep, ServerReplies, ServerBreaksProtocol, ConnectionLost, vars
      <3> QED
        BY <3>1
    <2> QED
      BY <2>1, <2>2, <2>3, <2>4, <2>5, <2>6 DEF Next, ReaderStep
  <1> QED
    BY <1>q DEF FailureFirst

\* Every reachable state satisfies the invariant.
THEOREM Invariance == Spec => []IInv
  <1>1. Init => IInv
    BY Initially
  <1>2. IInv /\ [Next]_vars => IInv'
    BY PlacesStep, FlagsStep, NumbersStep, PacketsStep, StagesStep, BeginningStep, OnePlaceStep,
       PermitsStep, NoTraceStep, FailureFirstStep DEF IInv
  <1> QED
    BY <1>1, <1>2, PTL DEF Spec

-----------------------------------------------------------------------------
(* What the invariant says to whoever uses a client.                       *)

\* Each variable keeps its type: no more than SHAD_CONNECT_MAX_ATTEMPTS attempts, and no
\* more than three permits on m_sem_authenticated.
THEOREM TypeCorrect == Spec => []TypeOK
  <1>1. IInv => TypeOK
    <2> SUFFICES ASSUME IInv PROVE TypeOK
      OBVIOUS
    <2>1. semAuth \in 0 .. 3
      BY DEF IInv, Numbers, Permits
    <2> QED
      BY <2>1 DEF IInv, TypeOK, Places, Flags, Numbers, Packets
  <1> QED
    BY <1>1, Invariance, PTL

\* WaitForAuthenticated reports Ok only after HandleLoginReply accepted the login, in
\* whatever order m_authenticated and m_state were written between its two reads.
THEOREM OkIsTrue == Spec => []OkOnlyIfAccepted
  <1>1. IInv => OkOnlyIfAccepted
    BY DEF IInv, NoTrace, OkOnlyIfAccepted
  <1> QED
    BY <1>1, Invariance, PTL

\* A reader that ends has told the worker, through the flags, and the thread in
\* WaitForAuthenticated, through a permit, unless the login had been accepted.
THEOREM ReaderEndsProperly == Spec => []ReaderLeavesWord
  <1>1. IInv => StuckOnlyAfterAccept
    BY DEF IInv, FailureFirst, Reset, StuckOnlyAfterAccept
  <1>2. IInv => LossIsVisible
    BY DEF IInv, Stages, LossIsVisible
  <1> QED
    BY <1>1, <1>2, Invariance, TypeCorrect, PTL DEF ReaderLeavesWord
=============================================================================
