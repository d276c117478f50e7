----------------------- MODULE EventDispatcher_Proofs -----------------------
(***************************************************************************)
(* The safety properties of EventDispatcher for any number of threads,     *)
(* events and lives, and that it implements EventQueue.                    *)
(***************************************************************************)
EXTENDS EventDispatcher, FiniteSetTheorems, TLAPS

-----------------------------------------------------------------------------
(* Sequences.                                                              *)

\* What is appended to a queue goes behind what stands in front of the queue.
LEMMA AppendBehind ==
    ASSUME NEW S, NEW r \in Seq(S), NEW q \in Seq(S), NEW e \in S
    PROVE  r \o Append(q, e) = Append(r \o q, e)
  OBVIOUS

\* The head of a concatenation is that of its first part.
LEMMA FrontOf ==
    ASSUME NEW S, NEW r \in Seq(S), NEW q \in Seq(S), r # <<>>
    PROVE  /\ r \o q # <<>>
           /\ Head(r \o q) = Head(r)
           /\ Tail(r \o q) = Tail(r) \o q
  OBVIOUS

\* An empty part of a concatenation can be left out.
LEMMA EmptyPart ==
    ASSUME NEW S, NEW q \in Seq(S)
    PROVE  <<>> \o q = q /\ q \o <<>> = q
  OBVIOUS

\* The elements of a sequence that grew, and of one that lost its head.
LEMMA Elements ==
    ASSUME NEW S, NEW q \in Seq(S), NEW e \in S
    PROVE  /\ {Append(q, e)[i] : i \in 1 .. Len(Append(q, e))}
                  = {q[i] : i \in 1 .. Len(q)} \cup {e}
           /\ q # <<>> => {Tail(q)[i] : i \in 1 .. Len(Tail(q))}
                              \subseteq {q[i] : i \in 1 .. Len(q)}
           /\ q # <<>> => Head(q) \in {q[i] : i \in 1 .. Len(q)}
  OBVIOUS

-----------------------------------------------------------------------------
(* The inductive invariant.                                                *)

Types ==
    /\ initialized \in BOOLEAN /\ running \in BOOLEAN
    /\ queue \in Seq(Events) /\ ready \in Seq(Events)
    /\ dispatcher \in {"none", "start", "locked", "tested", "asleep", "woken", "fire",
                       "gone"}
    /\ call \in [Threads -> [pc : {"idle", "entered", "notify"} \cup HoldPcs,
                             ev : Events \cup {NoEvent}]]
    /\ control \in {"idle", "created", "stop", "notify", "join", "clear"}
    /\ made \subseteq Events /\ asked \subseteq made /\ scheduled \subseteq Events
    /\ life \in 0 .. MaxLives
    /\ born \in [Events -> 0 .. MaxLives]
    /\ strays \subseteq Events
    /\ missed \in BOOLEAN

\* dispatch_holds counts the calls under way.
Counted == holds = Cardinality(Holders)

\* A call has a request of its own, which is answered only once it was sent.
InCall == {"entered"} \cup HoldPcs
Calls == \A t \in Threads :
    /\ call[t].pc \in InCall => call[t].ev \in made
    /\ call[t].pc \in {"entered", "held"} => call[t].ev \notin asked \cup scheduled
    /\ \A u \in Threads :
         call[t].pc \in InCall /\ call[u].pc \in InCall /\ call[t].ev = call[u].ev
            => t = u

\* What is queued was scheduled, and there is a batch only while it is fired.
Batches == /\ Queued \cup Ready \subseteq scheduled
           /\ ready # <<>> => dispatcher = "fire"

\* Where the dispatcher can be at each stage of its life
Stages ==
    /\ control \in {"notify", "join", "clear"} => ~running
    /\ control \in {"idle", "created", "stop"} /\ ~running
          => dispatcher \in {"none", "gone"}
    /\ control \in {"idle", "clear"} /\ ~initialized => dispatcher \in {"none", "gone"}
    /\ control \in {"stop", "notify", "join", "clear"} => ~initialized
    /\ control = "created" => ~initialized
    /\ control = "join" /\ dispatcher = "tested" => missed

Ages ==
    /\ \A e \in Queued \cup Ready : born[e] = life \/ e \in strays
    /\ ~initialized /\ control = "idle" => Queued \subseteq strays

IInv == /\ Types /\ Counted /\ Calls /\ Batches /\ NoEarlyCallback
        /\ Stages /\ StuckOnlyByMissedWakeup /\ Ages

\* A library that was never initialized satisfies the invariant.
LEMMA Initially == Init => IInv
  <1> SUFFICES ASSUME Init PROVE IInv
    OBVIOUS
  <1>1. Holders = {}
    BY DEF Init, Holders, HoldPcs, Idle
  <1>2. Counted
    BY <1>1, FS_EmptySet DEF Init, Counted
  <1>3. Types
    <2>1. Idle \in [pc : {"idle", "entered", "notify"} \cup HoldPcs,
                    ev : Events \cup {NoEvent}]
      BY DEF Idle
    <2>2. <<>> \in Seq(Events)
      OBVIOUS
    <2>3. call \in [Threads -> [pc : {"idle", "entered", "notify"} \cup HoldPcs,
                               ev : Events \cup {NoEvent}]]
      BY <2>1 DEF Init
    <2>4. 0 \in 0 .. MaxLives
      BY DispatcherAssumption
    <2>5. born \in [Events -> 0 .. MaxLives]
      BY <2>4 DEF Init
    <2> QED
      BY <2>2, <2>3, <2>4, <2>5 DEF Init, Types
  <1>4. Queued = {} /\ Ready = {}
    BY DEF Init, Queued, Ready
  <1>5. Calls /\ NoEarlyCallback
    BY <1>4 DEF Init, Calls, InCall, HoldPcs, Idle, NoEarlyCallback
  <1> QED
    BY <1>2, <1>3, <1>4, <1>5
    DEF Init, IInv, Batches, Stages, StuckOnlyByMissedWakeup, Ages

-----------------------------------------------------------------------------
(* The calls under way, as the steps of a thread change them.              *)

\* Only finitely many calls are under way.
LEMMA HoldersFinite == IsFiniteSet(Holders)
  BY DispatcherAssumption, FS_Subset DEF Holders

\* Taking and giving up a hold counts the calls up and down.
LEMMA CountedStep == IInv /\ [Next]_vars => Counted'
  <1> SUFFICES ASSUME IInv, [Next]_vars PROVE Counted'
    OBVIOUS
  <1> USE DEF IInv
  <1>1. CASE UNCHANGED <<call, holds>>
    BY <1>1 DEF Counted, Holders
  <1>2. ASSUME NEW t \in Threads, Hold(t) PROVE Counted'
    <2>1. t \notin Holders /\ Holders' = Holders \cup {t}
      BY <1>2 DEF Hold, Goto, Holders, HoldPcs, Types
    <2> QED
      BY <1>2, <2>1, HoldersFinite, FS_AddElement DEF Hold, TakeHold, Counted
  <1>3. ASSUME NEW t \in Threads, Release(t) PROVE Counted'
    <2>1. t \in Holders /\ Holders' = Holders \ {t}
      BY <1>3 DEF Release, Holders, HoldPcs, Types
    <2> QED
      BY <1>3, <2>1, HoldersFinite, FS_RemoveElement DEF Release, Counted
  <1>4. ASSUME NEW t \in Threads, NEW e \in Events,
               EnterCall(t, e) \/ ScheduleEvent(t, e)
        PROVE  Counted'
    <2>1. Holders' = Holders /\ holds' = holds
      BY <1>4 DEF EnterCall, ScheduleEvent, Idle, Holders, HoldPcs, Types
    <2> QED
      BY <2>1 DEF Counted
  <1>5. ASSUME NEW t \in Threads, Submit(t) \/ AnswerInCall(t) \/ NotifyInCall(t) \/ Notify(t)
        PROVE  Counted'
    <2>1. /\ call[t].pc \in HoldPcs <=> call'[t].pc \in HoldPcs
          /\ \A u \in Threads \ {t} : call'[u] = call[u]
          /\ holds' = holds
      BY <1>5 DEF Submit, AnswerInCall, NotifyInCall, Notify, Goto, Idle, HoldPcs, Types
    <2>2. Holders' = Holders
      BY <2>1 DEF Holders
    <2> QED
      BY <2>1, <2>2 DEF Counted
  <1> QED
    BY <1>1, <1>2, <1>3, <1>4, <1>5 DEF Next, CallStep, DispatcherStep, ControlStep, Lock, TestRunning,
       Wait, TakeBatch, FireEvent, SpuriousWakeup, InitEventDispatcher, Terminate,
       Initialized, StopRunning, NotifyStop, Join, ClearEvents, vars, threadVars

-----------------------------------------------------------------------------
(* Types, and what the queue and the batch hold.                           *)

\* Push keeps the types of what it changes.
LEMMA PushTyped ==
    ASSUME Types, NEW e \in Events, Push(e)
    PROVE  /\ queue' \in Seq(Events) /\ scheduled' \subseteq Events
           /\ born' \in [Events -> 0 .. MaxLives] /\ strays' \subseteq Events
           /\ Queued' = Queued \cup {e}
  <1>1. queue' = Append(queue, e) /\ queue \in Seq(Events)
    BY DEF Push, Types
  <1>2. Queued' = Queued \cup {e}
    BY <1>1, Elements DEF Queued
  <1> QED
    BY <1>1, <1>2 DEF Push, Types

\* Every step of a thread keeps the types.
LEMMA TypesStep == Types /\ Calls /\ [Next]_vars => Types'
  <1> SUFFICES ASSUME Types, Calls, [Next]_vars PROVE Types'
    OBVIOUS
  <1>1. CASE UNCHANGED vars
    BY <1>1 DEF Types, vars, queueVars, threadVars, controlVars
  <1>2. ASSUME NEW t \in Threads, NEW e \in Events, EnterCall(t, e) PROVE Types'
    BY <1>2 DEF EnterCall, Types, queueVars, controlVars
  <1>3. ASSUME NEW t \in Threads, Hold(t) PROVE Types'
    BY <1>3 DEF Hold, Goto, Types, HoldPcs, queueVars, controlVars
  <1>4. ASSUME NEW t \in Threads, Submit(t) PROVE Types'
    <2>1. call[t].ev \in made
      BY <1>4 DEF Submit, Calls, InCall, HoldPcs
    <2> QED
      BY <1>4, <2>1 DEF Submit, Goto, Types, HoldPcs, queueVars, controlVars
  <1>5. ASSUME NEW t \in Threads, AnswerInCall(t) PROVE Types'
    <2>1. call[t].ev \in Events
      BY <1>5 DEF AnswerInCall, Calls, InCall, HoldPcs, Types
    <2> QED
      BY <1>5, <2>1, PushTyped DEF AnswerInCall, Goto, Types, HoldPcs, controlVars
  <1>6. ASSUME NEW t \in Threads, NotifyInCall(t) PROVE Types'
    BY <1>6 DEF NotifyInCall, NotifyAll, Goto, Types, HoldPcs, queueVars, controlVars
  <1>7. ASSUME NEW t \in Threads, Release(t) PROVE Types'
    BY <1>7 DEF Release, Types, queueVars, controlVars
  <1>8. ASSUME NEW t \in Threads, NEW e \in Events, ScheduleEvent(t, e) PROVE Types'
    BY <1>8, PushTyped DEF ScheduleEvent, Types, controlVars
  <1>9. ASSUME NEW t \in Threads, Notify(t) PROVE Types'
    BY <1>9 DEF Notify, NotifyAll, Idle, Types, queueVars, controlVars
  <1>10. CASE TakeBatch
    BY <1>10 DEF TakeBatch, Types, threadVars, controlVars
  <1>11. CASE FireEvent
    BY <1>11 DEF FireEvent, Types, threadVars, controlVars
  <1>12. CASE Lock \/ TestRunning \/ Wait \/ SpuriousWakeup
    BY <1>12 DEF Lock, TestRunning, Wait, SpuriousWakeup, Types, queueVars, threadVars,
       controlVars
  <1>13. ASSUME NEW created \in BOOLEAN, InitEventDispatcher(created) PROVE Types'
    BY <1>13, DispatcherAssumption DEF InitEventDispatcher, Types, queueVars, threadVars
  <1>14. CASE Initialized \/ Terminate \/ NotifyStop \/ Join
    BY <1>14 DEF Initialized, Terminate, NotifyStop, NotifyAll, Join, Types, queueVars,
       threadVars
  <1>15. CASE StopRunning
    <2>1. Queued \subseteq Events
      BY DEF Types, Queued
    <2> QED
      BY <1>15, <2>1 DEF StopRunning, Types, threadVars
  <1>16. CASE ClearEvents
    BY <1>16 DEF ClearEvents, Discard, Types, threadVars
  <1> QED
    BY <1>1, <1>2, <1>3, <1>4, <1>5, <1>6, <1>7, <1>8, <1>9, <1>10, <1>11, <1>12,
       <1>13, <1>14, <1>15, <1>16
    DEF Next, CallStep, DispatcherStep, ControlStep

\* Two calls never share a request, and a request is answered after it was sent.
LEMMA CallsStep == Types /\ Calls /\ [Next]_vars => Calls'
  <1> SUFFICES ASSUME Types, Calls, [Next]_vars PROVE Calls'
    OBVIOUS
  <1>1. CASE UNCHANGED <<call, made, asked, scheduled>>
    BY <1>1 DEF Calls
  <1>2. ASSUME NEW t \in Threads, NEW e \in Events, EnterCall(t, e) PROVE Calls'
    BY <1>2 DEF EnterCall, Calls, InCall, HoldPcs, Types, Idle, queueVars
  <1>3. ASSUME NEW t \in Threads, Hold(t) PROVE Calls'
    BY <1>3 DEF Hold, Goto, Calls, InCall, HoldPcs, Types, queueVars
  <1>4. ASSUME NEW t \in Threads, Submit(t) PROVE Calls'
    BY <1>4 DEF Submit, Goto, Calls, InCall, HoldPcs, Types, queueVars
  <1>5. ASSUME NEW t \in Threads, AnswerInCall(t) PROVE Calls'
    BY <1>5 DEF AnswerInCall, Push, Goto, Calls, InCall, HoldPcs, Types
  <1>6. ASSUME NEW t \in Threads, NotifyInCall(t) PROVE Calls'
    BY <1>6 DEF NotifyInCall, Goto, Calls, InCall, HoldPcs, Types, queueVars
  <1>7. ASSUME NEW t \in Threads, Release(t) PROVE Calls'
    BY <1>7 DEF Release, Calls, InCall, HoldPcs, Types, queueVars
  <1>8. ASSUME NEW t \in Threads, NEW e \in Events, ScheduleEvent(t, e) PROVE Calls'
    BY <1>8 DEF ScheduleEvent, Push, Calls, InCall, HoldPcs, Types
  <1>9. ASSUME NEW t \in Threads, Notify(t) PROVE Calls'
    BY <1>9 DEF Notify, Calls, InCall, HoldPcs, Types, Idle, queueVars
  <1>10. CASE \/ DispatcherStep \/ SpuriousWakeup \/ Terminate \/ ControlStep
              \/ \E created \in BOOLEAN : InitEventDispatcher(created)
    BY <1>1, <1>10 DEF DispatcherStep, Lock, TestRunning, Wait, TakeBatch, FireEvent,
       SpuriousWakeup, Terminate, ControlStep, Initialized, StopRunning, NotifyStop, Join,
       ClearEvents, InitEventDispatcher, threadVars, queueVars
  <1> QED
    BY <1>1, <1>2, <1>3, <1>4, <1>5, <1>6, <1>7, <1>8, <1>9, <1>10
    DEF Next, CallStep, vars, threadVars, queueVars

\* The batch and the queue, apart from the calls that push to them
LEMMA BatchesStep == IInv /\ [Next]_vars => Batches'
  <1> SUFFICES ASSUME IInv, [Next]_vars PROVE Batches'
    OBVIOUS
  <1> USE DEF IInv
  <1>1. CASE UNCHANGED <<queue, ready, scheduled>> /\ (dispatcher = "fire" => dispatcher' = "fire")
    BY <1>1 DEF Batches, Queued, Ready
  <1>2. ASSUME NEW t \in Threads, AnswerInCall(t) PROVE Batches'
    <2>1. call[t].ev \in Events
      BY <1>2 DEF AnswerInCall, Calls, InCall, HoldPcs, Types
    <2>2. Queued' = Queued \cup {call[t].ev} /\ scheduled' = scheduled \cup {call[t].ev}
      BY <1>2, <2>1, PushTyped DEF AnswerInCall, Push
    <2> QED
      BY <1>2, <2>2 DEF AnswerInCall, Batches, Ready
  <1>3. ASSUME NEW t \in Threads, NEW e \in Events, ScheduleEvent(t, e) PROVE Batches'
    <2>1. Queued' = Queued \cup {e} /\ scheduled' = scheduled \cup {e}
      BY <1>3, PushTyped DEF ScheduleEvent, Push
    <2> QED
      BY <1>3, <2>1 DEF ScheduleEvent, Batches, Ready
  <1>4. CASE Lock
    BY <1>4 DEF Lock, Batches, Queued, Ready, queueVars
  <1>5. CASE TakeBatch
    BY <1>5 DEF TakeBatch, Batches, Queued, Ready
  <1>6. CASE FireEvent
    <2>1. Ready' \subseteq Ready /\ Queued' = Queued
      BY <1>6, Elements DEF FireEvent, Ready, Queued, Types
    <2> QED
      BY <1>6, <2>1 DEF FireEvent, Batches
  <1>7. CASE ClearEvents
    BY <1>7 DEF ClearEvents, Discard, Batches, Queued, Ready
  <1>8. ASSUME NEW created \in BOOLEAN, InitEventDispatcher(created) PROVE Batches'
    <2>1. dispatcher \in {"none", "gone"}
      BY <1>8 DEF InitEventDispatcher, Stages
    <2> QED
      BY <1>8, <2>1 DEF InitEventDispatcher, Batches, Queued, Ready, queueVars
  <1>9. ASSUME NEW t \in Threads, NEW e \in Events, EnterCall(t, e) PROVE Batches'
    BY <1>1, <1>9 DEF EnterCall, queueVars
  <1>10. CASE \/ TestRunning \/ Wait \/ SpuriousWakeup \/ Terminate \/ Initialized
              \/ StopRunning \/ NotifyStop \/ Join
    BY <1>1, <1>10 DEF TestRunning, Wait, SpuriousWakeup, Terminate, Initialized,
       StopRunning, NotifyStop, NotifyAll, Join, queueVars
  <1>11. ASSUME NEW t \in Threads,
               \/ Hold(t) \/ Submit(t) \/ NotifyInCall(t) \/ Release(t) \/ Notify(t)
        PROVE  Batches'
    BY <1>1, <1>11 DEF Hold, Submit, NotifyInCall, Release, Notify, NotifyAll, queueVars
  <1> QED
    BY <1>1, <1>2, <1>3, <1>4, <1>5, <1>6, <1>7, <1>8, <1>9, <1>10, <1>11
    DEF Next, CallStep, DispatcherStep, ControlStep, vars, queueVars

\* No event of a held call gets into the batch: the batch is taken only when nothing
\* is held, and a hold is taken before the request is sent.
LEMMA EarlyStep == IInv /\ [Next]_vars => NoEarlyCallback'
  <1> SUFFICES ASSUME IInv, [Next]_vars PROVE NoEarlyCallback'
    OBVIOUS
  <1> USE DEF IInv
  <1>1. CASE UNCHANGED <<call, ready>>
    BY <1>1 DEF NoEarlyCallback, Ready
  <1>2. ASSUME NEW t \in Threads, Hold(t) PROVE NoEarlyCallback'
    <2>1. call[t].ev \notin Ready /\ Ready' = Ready
      BY <1>2 DEF Hold, Calls, Batches, Ready, queueVars
    <2> QED
      BY <1>2, <2>1 DEF Hold, Goto, NoEarlyCallback, Types, HoldPcs
  <1>3. ASSUME NEW t \in Threads, Submit(t) \/ AnswerInCall(t) \/ NotifyInCall(t)
        PROVE  NoEarlyCallback'
    <2>1. Ready' = Ready
      BY <1>3 DEF Submit, AnswerInCall, NotifyInCall, Ready, queueVars
    <2>2. \A u \in Threads : call'[u].pc \in HoldPcs
             => call[u].pc \in HoldPcs /\ call'[u].ev = call[u].ev
      BY <1>3 DEF Submit, AnswerInCall, NotifyInCall, Goto, HoldPcs, Types
    <2> QED
      BY <2>1, <2>2 DEF NoEarlyCallback
  <1>4. ASSUME NEW t \in Threads, NEW e \in Events,
               EnterCall(t, e) \/ ScheduleEvent(t, e)
        PROVE  NoEarlyCallback'
    <2>1. Ready' = Ready
      BY <1>4 DEF EnterCall, ScheduleEvent, Ready, queueVars
    <2>2. /\ call'[t].pc \notin HoldPcs
          /\ \A u \in Threads \ {t} : call'[u] = call[u]
      BY <1>4 DEF EnterCall, ScheduleEvent, HoldPcs, Types
    <2> QED
      BY <2>1, <2>2 DEF NoEarlyCallback
  <1>5. CASE TakeBatch
    <2>1. Holders = {}
      BY <1>5, HoldersFinite, FS_EmptySet DEF TakeBatch, MayFire, Counted
    <2> QED
      BY <1>5, <2>1 DEF TakeBatch, NoEarlyCallback, Holders, threadVars
  <1>6. CASE FireEvent
    <2>1. Ready' \subseteq Ready
      BY <1>6, Elements DEF FireEvent, Ready, Types
    <2> QED
      BY <1>6, <2>1 DEF FireEvent, NoEarlyCallback, threadVars
  <1>7. CASE \/ Lock \/ TestRunning \/ Wait \/ SpuriousWakeup \/ Terminate
             \/ ControlStep \/ \E created \in BOOLEAN : InitEventDispatcher(created)
    BY <1>1, <1>7 DEF Lock, TestRunning, Wait, SpuriousWakeup, Terminate, ControlStep,
       Initialized, StopRunning, NotifyStop, Join, ClearEvents, InitEventDispatcher,
       threadVars, queueVars
  <1>8. ASSUME NEW t \in Threads, Release(t) \/ Notify(t) PROVE NoEarlyCallback'
    <2>1. Ready' = Ready
      BY <1>8 DEF Release, Notify, Ready, queueVars
    <2>2. /\ call'[t].pc \notin HoldPcs
          /\ \A u \in Threads \ {t} : call'[u] = call[u]
      BY <1>8 DEF Release, Notify, Idle, HoldPcs, Types
    <2> QED
      BY <2>1, <2>2 DEF NoEarlyCallback
  <1> QED
    BY <1>1, <1>2, <1>3, <1>4, <1>5, <1>6, <1>7, <1>8
    DEF Next, CallStep, DispatcherStep, vars, queueVars, threadVars

-----------------------------------------------------------------------------
(* The life of the dispatcher.                                             *)

\* Where the dispatcher can be at a stage of its life; it sleeps through the join
\* only after a missed notification.
LEMMA StagesStep == IInv /\ [Next]_vars => Stages' /\ StuckOnlyByMissedWakeup'
  <1> SUFFICES ASSUME IInv, [Next]_vars PROVE Stages' /\ StuckOnlyByMissedWakeup'
    OBVIOUS
  <1> USE DEF IInv, Stages, StuckOnlyByMissedWakeup
  <1>1. CASE UNCHANGED <<control, running, initialized, dispatcher, missed>>
    BY <1>1
  <1>2. ASSUME NEW t \in Threads, NotifyInCall(t) \/ Notify(t)
        PROVE  Stages' /\ StuckOnlyByMissedWakeup'
    BY <1>2 DEF NotifyInCall, Notify, NotifyAll, controlVars
  <1>3. CASE Lock
    BY <1>3 DEF Lock, controlVars
  <1>4. CASE TestRunning
    BY <1>4 DEF TestRunning, controlVars, Types
  <1>5. CASE Wait \/ SpuriousWakeup \/ TakeBatch
    BY <1>5 DEF Wait, SpuriousWakeup, TakeBatch, controlVars
  <1>6. ASSUME NEW created \in BOOLEAN, InitEventDispatcher(created)
        PROVE  Stages' /\ StuckOnlyByMissedWakeup'
    BY <1>6 DEF InitEventDispatcher
  <1>7. CASE Initialized
    BY <1>7 DEF Initialized
  <1>8. CASE Terminate
    BY <1>8 DEF Terminate
  <1>9. CASE StopRunning
    BY <1>9 DEF StopRunning, Types
  <1>10. CASE NotifyStop
    BY <1>10 DEF NotifyStop, NotifyAll
  <1>11. CASE Join
    BY <1>11 DEF Join
  <1>12. CASE ClearEvents
    BY <1>12 DEF ClearEvents, Types
  <1>13. CASE FireEvent
    BY <1>1, <1>13 DEF FireEvent, controlVars
  <1>14. ASSUME NEW t \in Threads,
                \/ Hold(t) \/ Submit(t) \/ AnswerInCall(t) \/ Release(t)
                \/ \E e \in Events : EnterCall(t, e) \/ ScheduleEvent(t, e)
         PROVE  Stages' /\ StuckOnlyByMissedWakeup'
    BY <1>1, <1>14 DEF Hold, Submit, AnswerInCall, Release, EnterCall, ScheduleEvent,
       controlVars
  <1> QED
    BY <1>1, <1>2, <1>3, <1>4, <1>5, <1>6, <1>7, <1>8, <1>9, <1>10, <1>11, <1>12,
       <1>13, <1>14
    DEF Next, CallStep, DispatcherStep, ControlStep, vars, controlVars

\* An event that is pushed belongs to the present life, or is a stray.
LEMMA PushAges ==
    ASSUME Types, Ages, NEW e \in Events, Push(e),
           UNCHANGED <<ready, initialized, control, life>>
    PROVE  Ages'
  <1>1. Queued' = Queued \cup {e} /\ Ready' = Ready
    BY PushTyped DEF Ready
  <1>2. born'[e] = life /\ \A x \in Events \ {e} : born'[x] = born[x]
    BY DEF Push, Types
  <1>3. Queued \cup Ready \subseteq Events
    BY DEF Types, Queued, Ready
  <1> QED
    BY <1>1, <1>2, <1>3 DEF Push, Ages

\* Every event queued or in the batch is of the present life or a stray, and all are
\* strays between a Terminate and the next Initialize.
LEMMA AgesStep == IInv /\ [Next]_vars => Ages'
  <1> SUFFICES ASSUME IInv, [Next]_vars PROVE Ages'
    OBVIOUS
  <1> USE DEF IInv
  <1>1. CASE UNCHANGED <<queueVars, initialized, control, life>>
    BY <1>1 DEF Ages, Queued, Ready, queueVars
  <1>2. ASSUME NEW t \in Threads, AnswerInCall(t) PROVE Ages'
    <2>1. call[t].ev \in Events
      BY <1>2 DEF AnswerInCall, Calls, InCall, HoldPcs, Types
    <2> QED
      BY <1>2, <2>1, PushAges DEF AnswerInCall, controlVars
  <1>3. ASSUME NEW t \in Threads, NEW e \in Events, ScheduleEvent(t, e) PROVE Ages'
    BY <1>3, PushAges DEF ScheduleEvent, controlVars
  <1>4. CASE TakeBatch
    <2>1. Queued' = {} /\ Ready' = Queued
      BY <1>4 DEF TakeBatch, Queued, Ready
    <2> QED
      BY <1>4, <2>1 DEF TakeBatch, Ages, controlVars
  <1>5. CASE FireEvent
    <2>1. Ready' \subseteq Ready /\ Queued' = Queued
      BY <1>5, Elements DEF FireEvent, Ready, Queued, Types
    <2> QED
      BY <1>5, <2>1 DEF FireEvent, Ages, controlVars
  <1>6. ASSUME NEW created \in BOOLEAN, InitEventDispatcher(created) PROVE Ages'
    <2>1. dispatcher \in {"none", "gone"}
      BY <1>6 DEF InitEventDispatcher, Stages
    <2>2. Queued' = Queued /\ Ready' = {}
      BY <1>6, <2>1 DEF InitEventDispatcher, Batches, Queued, Ready, queueVars
    <2> QED
      BY <1>6, <2>2 DEF InitEventDispatcher, Ages, queueVars
  <1>7. CASE Initialized \/ Terminate \/ NotifyStop \/ Join
    BY <1>7 DEF Initialized, Terminate, NotifyStop, Join, Ages, Queued, Ready, queueVars
  <1>8. CASE StopRunning
    BY <1>8 DEF StopRunning, Ages, Queued, Ready
  <1>9. CASE ClearEvents
    <2>1. Queued' = {} /\ Ready' = Ready
      BY <1>9 DEF ClearEvents, Discard, Queued, Ready
    <2> QED
      BY <1>9, <2>1 DEF ClearEvents, Ages
  <1>10. CASE Lock \/ TestRunning \/ Wait \/ SpuriousWakeup
    BY <1>1, <1>10 DEF Lock, TestRunning, Wait, SpuriousWakeup, controlVars
  <1>11. ASSUME NEW t \in Threads,
                \/ Hold(t) \/ Submit(t) \/ NotifyInCall(t) \/ Release(t) \/ Notify(t)
                \/ \E e \in Events : EnterCall(t, e)
         PROVE  Ages'
    BY <1>1, <1>11 DEF Hold, Submit, NotifyInCall, Release, Notify, EnterCall, controlVars
  <1> QED
    BY <1>1, <1>2, <1>3, <1>4, <1>5, <1>6, <1>7, <1>8, <1>9, <1>10, <1>11
    DEF Next, CallStep, DispatcherStep, ControlStep, vars, controlVars

-----------------------------------------------------------------------------
(* The theorems.                                                           *)

\* The invariant holds in every reachable state.
LEMMA Invariance == Spec => []IInv
  <1>1. IInv /\ [Next]_vars => IInv'
    BY TypesStep, CountedStep, CallsStep, BatchesStep, EarlyStep, StagesStep, AgesStep
    DEF IInv
  <1> QED
    BY Initially, <1>1, PTL DEF Spec

\* Every variable keeps its type, and every ~DispatchHold gives back a hold that was
\* taken: dispatch_holds, an unsigned counter, never wraps.
THEOREM TypeCorrect == Spec => []TypeOK
  <1>1. IInv => TypeOK
    <2>1. Cardinality(Holders) \in Nat
      BY HoldersFinite, FS_CardinalityType
    <2> QED
      BY <2>1 DEF IInv, Types, Counted, TypeOK
  <1> QED
    BY Invariance, <1>1, PTL

\* No event of a request call is fired while the call is under way (DispatchHold).
THEOREM NoEarly == Spec => []NoEarlyCallback
  <1>1. IInv => NoEarlyCallback
    BY DEF IInv
  <1> QED
    BY Invariance, <1>1, PTL

\* TermEventDispatcher joins a sleeping dispatcher only after its notification fell
\* between the dispatcher's test and its wait.
THEOREM OnlyMissed == Spec => []StuckOnlyByMissedWakeup
  <1>1. IInv => StuckOnlyByMissedWakeup
    BY DEF IInv
  <1> QED
    BY Invariance, <1>1, PTL

\* What is fired belongs to the present life of the library, or was scheduled outside
\* any life, or was left by a Terminate that had no dispatcher to stop.
THEOREM OldEvents == Spec => []OldEventsAreStrays
  <1>1. IInv => OldEventsAreStrays
    BY DEF IInv, Ages, OldEventsAreStrays
  <1> QED
    BY Invariance, <1>1, PTL

-----------------------------------------------------------------------------
(* The refinement of EventQueue.                                           *)

\* The events whose calls are under way, as EventQueue sees them
Opened == {call[t].ev : t \in Holders}

\* A step that touches neither the queue nor a held call is a stutter.
LEMMA Stutter ==
    ASSUME UNCHANGED <<ready, queue, scheduled>>, Opened' = Opened
    PROVE  UNCHANGED Queue!vars
  BY DEF Queue!vars, Opened

\* Pushing an event that was not scheduled is EventQueue's Schedule.
LEMMA PushRefines ==
    ASSUME Types, NEW e \in Events, e \notin scheduled, Push(e), ready' = ready,
           Opened' = Opened
    PROVE  Queue!Next
  <1>1. (ready \o queue)' = Append(ready \o queue, e)
    BY AppendBehind DEF Push, Types
  <1>2. Queue!Schedule(e)
    BY <1>1 DEF Queue!Schedule, Push, Opened
  <1> QED
    BY <1>2 DEF Queue!Next

\* Every step of the dispatcher and of the calls is a step of EventQueue or changes
\* nothing that EventQueue sees.
LEMMA StepRefines == IInv /\ [Next]_vars => [Queue!Next]_Queue!vars
  <1> SUFFICES ASSUME IInv, [Next]_vars PROVE Queue!Next \/ UNCHANGED Queue!vars
    OBVIOUS
  <1> USE DEF IInv
  <1>1. CASE UNCHANGED <<call, ready, queue, scheduled>>
    <2>1. Opened' = Opened
      BY <1>1 DEF Opened, Holders
    <2> QED
      BY <1>1, <2>1, Stutter
  <1>2. ASSUME NEW t \in Threads, NEW e \in Events, EnterCall(t, e)
        PROVE  UNCHANGED Queue!vars
    <2>1. Holders' = Holders /\ \A u \in Holders : call'[u] = call[u]
      BY <1>2 DEF EnterCall, Idle, Holders, HoldPcs, Types
    <2>2. Opened' = Opened
      BY <2>1 DEF Opened
    <2> QED
      BY <1>2, <2>2, Stutter DEF EnterCall, queueVars
  <1>3. ASSUME NEW t \in Threads, Hold(t) PROVE Queue!Next
    <2>1. Holders' = Holders \cup {t} /\ \A u \in Threads : call'[u].ev = call[u].ev
      BY <1>3 DEF Hold, Goto, Holders, HoldPcs, Types
    <2>2. Opened' = Opened \cup {call[t].ev}
      BY <2>1 DEF Opened, Holders
    <2>3. call[t].ev \in Events \ scheduled
      BY <1>3 DEF Hold, Calls, InCall, Types
    <2>4. Queue!Open(call[t].ev)
      BY <1>3, <2>2, <2>3 DEF Hold, Queue!Open, Opened, queueVars
    <2> QED
      BY <2>3, <2>4 DEF Queue!Next, Queue!Open
  <1>4. ASSUME NEW t \in Threads, Submit(t) \/ NotifyInCall(t)
        PROVE  UNCHANGED Queue!vars
    <2>1. /\ {call[t].pc, call'[t].pc} \subseteq HoldPcs /\ call'[t].ev = call[t].ev
          /\ \A u \in Threads \ {t} : call'[u] = call[u]
      BY <1>4 DEF Submit, NotifyInCall, Goto, HoldPcs, Types
    <2>2. Opened' = Opened
      BY <2>1 DEF Opened, Holders
    <2> QED
      BY <1>4, <2>2, Stutter DEF Submit, NotifyInCall, queueVars
  <1>5. ASSUME NEW t \in Threads, AnswerInCall(t) PROVE Queue!Next
    <2>1. Holders' = Holders /\ \A u \in Threads : call'[u].ev = call[u].ev
      BY <1>5 DEF AnswerInCall, Goto, Holders, HoldPcs, Types
    <2>2. Opened' = Opened
      BY <2>1 DEF Opened, Holders
    <2>3. call[t].ev \in Events \ scheduled
      BY <1>5 DEF AnswerInCall, Calls, InCall, HoldPcs, Types
    <2> QED
      BY <1>5, <2>2, <2>3, PushRefines DEF AnswerInCall
  <1>6. ASSUME NEW t \in Threads, Release(t) PROVE Queue!Next
    <2>1. t \in Holders /\ Holders' = Holders \ {t}
      BY <1>6 DEF Release, Holders, HoldPcs, Types
    <2>2. \A u \in Holders \ {t} : call'[u] = call[u] /\ call[u].ev # call[t].ev
      BY <1>6 DEF Release, Calls, InCall, Holders, HoldPcs, Types
    <2>3. Opened' = Opened \ {call[t].ev}
      BY <2>1, <2>2 DEF Opened
    <2>4. call[t].ev \in Events
      BY <2>1 DEF Calls, InCall, Holders, Types
    <2>5. Queue!Close(call[t].ev)
      BY <1>6, <2>3 DEF Release, Queue!Close, Opened, queueVars
    <2> QED
      BY <2>4, <2>5 DEF Queue!Next, Queue!Close
  <1>7. ASSUME NEW t \in Threads, NEW e \in Events, ScheduleEvent(t, e) PROVE Queue!Next
    <2>1. Holders' = Holders /\ \A u \in Holders : call'[u] = call[u]
      BY <1>7 DEF ScheduleEvent, Idle, Holders, HoldPcs, Types
    <2>2. Opened' = Opened
      BY <2>1 DEF Opened
    <2> QED
      BY <1>7, <2>2, PushRefines DEF ScheduleEvent
  <1>8. ASSUME NEW t \in Threads, Notify(t) PROVE UNCHANGED Queue!vars
    <2>1. Holders' = Holders /\ \A u \in Holders : call'[u] = call[u]
      BY <1>8 DEF Notify, Idle, Holders, HoldPcs, Types
    <2>2. Opened' = Opened
      BY <2>1 DEF Opened
    <2> QED
      BY <1>8, <2>2, Stutter DEF Notify, queueVars
  <1>9. CASE TakeBatch
    <2>1. ready = <<>>
      BY <1>9 DEF TakeBatch, Batches
    <2>2. (ready \o queue)' = ready \o queue
      BY <1>9, <2>1, EmptyPart DEF TakeBatch, Types
    <2> QED
      BY <1>9, <2>2 DEF TakeBatch, Queue!vars, Holders, threadVars
  <1>10. CASE FireEvent
    <2>1. /\ ready \o queue # <<>>
          /\ Head(ready \o queue) = Head(ready)
          /\ (ready \o queue)' = Tail(ready \o queue)
      BY <1>10, FrontOf DEF FireEvent, Types
    <2>2. Head(ready) \in Ready
      BY <1>10, Elements DEF FireEvent, Ready, Types
    <2>3. Head(ready) \notin Opened
      BY <2>2 DEF NoEarlyCallback, Opened, Holders
    <2>4. Queue!Deliver
      BY <1>10, <2>1, <2>3 DEF FireEvent, Queue!Deliver, Opened, Holders, threadVars
    <2> QED
      BY <2>4 DEF Queue!Next
  <1>11. CASE ClearEvents
    <2>1. ready = <<>>
      BY <1>11 DEF ClearEvents, Batches, Stages
    <2>2. Queue!Clear
      BY <1>11, <2>1, EmptyPart DEF ClearEvents, Discard, Queue!Clear, Holders, threadVars
    <2> QED
      BY <2>2 DEF Queue!Next
  <1>12. CASE \/ Lock \/ TestRunning \/ Wait \/ SpuriousWakeup \/ Terminate
              \/ Initialized \/ StopRunning \/ NotifyStop \/ Join
              \/ \E created \in BOOLEAN : InitEventDispatcher(created)
    BY <1>1, <1>12 DEF Lock, TestRunning, Wait, SpuriousWakeup, Terminate, Initialized,
       StopRunning, NotifyStop, Join, InitEventDispatcher, threadVars, queueVars
  <1> QED
    BY <1>1, <1>2, <1>3, <1>4, <1>5, <1>6, <1>7, <1>8, <1>9, <1>10, <1>11, <1>12
    DEF Next, CallStep, DispatcherStep, ControlStep, vars, threadVars, queueVars

\* The dispatcher implements EventQueue: events are fired in the order in which they
\* were scheduled, at most once, and none of a call that is under way.
THEOREM Refinement == Spec => DeliversInOrder
  <1>1. Init => Queue!Init
    <2> SUFFICES ASSUME Init PROVE Queue!Init
      OBVIOUS
    <2>1. Holders = {}
      BY DEF Init, Holders, HoldPcs, Idle
    <2> QED
      BY <2>1 DEF Init, Queue!Init
  <1> QED
    BY Invariance, <1>1, StepRefines, PTL DEF Spec, DeliversInOrder, Queue!Spec
=============================================================================
