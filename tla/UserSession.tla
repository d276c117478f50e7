----------------------------- MODULE UserSession -----------------------------
(***************************************************************************)
(* One user's sign-ins as the services above NpHandler see them            *)
(* (np_handler.cpp, client.cpp): each sign-in is a session, with a client  *)
(* whose packets count from one; a session ends when DisconnectUser has    *)
(* taken the client out of m_clients, stopped it, and failed what was      *)
(* pending.  A service adds what FailPendingRequests does to it and what   *)
(* its replies do; each action here is half of one of its actions.         *)
(***************************************************************************)
EXTENDS Naturals

CONSTANT MaxSessions   \* bound: sign-ins in one behaviour

ASSUME SessionAssumption == MaxSessions \in Nat

VARIABLES
    session,    \* m_clients: the session that is signed in, or 0
    last,       \* the newest session
    up,         \* does the newest session's reader run?
    counter,    \* the packets each session's client has numbered
    task,       \* how far DisconnectUser has come
    inFlight,   \* packets of the newest session not yet answered
    missed      \* history: packets of the newest session answered before their entry

sessionVars == <<session, last, up, counter, task, inFlight, missed>>

Sessions == 1 .. MaxSessions

SessionInit ==
    /\ session = 0 /\ last = 0 /\ up = FALSE /\ task = "none"
    /\ counter = [s \in Sessions |-> 0]
    /\ inFlight = {} /\ missed = {}

\* ConnectUser
ConnectUser ==
    /\ session = 0 /\ task = "none" /\ last < MaxSessions
    /\ session' = last + 1 /\ last' = last + 1 /\ up' = TRUE
    /\ missed' = {}
    /\ UNCHANGED <<counter, task, inFlight>>

\* The connection is lost: the reader ends and what was sent is not answered.
ConnectionLost ==
    /\ session # 0 /\ up
    /\ up' = FALSE /\ inFlight' = {}
    /\ UNCHANGED <<session, last, counter, task, missed>>

\* DisconnectUser: the client leaves m_clients ...
ClientRemoved ==
    /\ session # 0 /\ task = "none"
    /\ session' = 0 /\ task' = "stop"
    /\ UNCHANGED <<last, up, counter, inFlight, missed>>

\* ... Stop() joins the reader ...
ClientStopped ==
    /\ task = "stop"
    /\ up' = FALSE /\ inFlight' = {} /\ task' = "fail"
    /\ UNCHANGED <<session, last, counter, missed>>

\* ... and what is pending for the user has failed.
PendingFailed ==
    /\ task = "fail"
    /\ task' = "none"
    /\ UNCHANGED <<session, last, up, counter, inFlight, missed>>

\* ShadNetClient::SubmitRequest: a stopped client numbers the packet all the same.
NextPacket(s) == counter[s] + 1
PacketSubmitted(s) ==
    /\ counter' = [counter EXCEPT ![s] = @ + 1]
    /\ inFlight' = IF up /\ s = last THEN inFlight \cup {NextPacket(s)} ELSE inFlight
    /\ UNCHANGED <<session, last, up, task, missed>>

\* The reply to packet p arrives; known says whether its entry was there.
PacketAnswered(p, known) ==
    /\ p \in inFlight
    /\ inFlight' = inFlight \ {p}
    /\ missed' = IF known THEN missed ELSE missed \cup {p}
    /\ UNCHANGED <<session, last, up, counter, task>>

\* DisconnectUser has failed the operations of session s.
Over(s) == s # last \/ (session # s /\ task = "none")

\* Packet p of the newest session will be answered, or a sign-out will fail it.
StillExpected(p) == p \in inFlight \/ (session = last /\ ~up) \/ task # "none"

SessionTypeOK ==
    /\ session \in {0, last} /\ last \in 0 .. MaxSessions /\ up \in BOOLEAN
    /\ counter \in [Sessions -> Nat]
    /\ inFlight \subseteq Nat /\ missed \subseteq Nat
    /\ task \in {"none", "stop", "fail"}
=============================================================================
