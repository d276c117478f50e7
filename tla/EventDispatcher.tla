--------------------------- MODULE EventDispatcher ---------------------------
(***************************************************************************)
(* The event dispatcher of Matching2 (np_matching2_internal.cpp): the      *)
(* queue of pending events, the thread that fires them, the holds that     *)
(* keep it from firing while a request call is under way, and the calls    *)
(* that start and end it.                                                  *)
(*                                                                         *)
(* "Threads" are the game's threads in a request call and the threads that *)
(* schedule events of their own: the clients' readers and signaling.  One  *)
(* more thread calls sceNpMatching2Initialize and sceNpMatching2Terminate  *)
(* in turn.  queue_mutex is held by the dispatcher in "locked" and         *)
(* "tested" and by everybody else within one step; dispatch_running and    *)
(* the notifications do not take it.  All events are due when they are     *)
(* scheduled: fire_at is the time they were made.                          *)
(***************************************************************************)
EXTENDS Naturals, FiniteSets, Sequences

CONSTANTS
    Threads,
    Events,     \* the replies to requests, and what is scheduled unasked
    NoEvent,
    MaxLives    \* bound: calls of sceNpMatching2Initialize

ASSUME DispatcherAssumption ==
    MaxLives \in Nat /\ NoEvent \notin Events /\ IsFiniteSet(Threads)

VARIABLES
    initialized,  \* state->initialized
    running,      \* state->dispatch_running
    holds,        \* state->dispatch_holds
    queue,        \* state->pending_events
    dispatcher,   \* where the dispatcher thread is
    ready,        \* the batch it is firing
    call,         \* where each thread is in a call, and for which event
    control,      \* where the thread that initializes and terminates is
    made,         \* requests that have been made, each once
    asked,        \* those the server was asked for
    scheduled,    \* history: events that have been put into the queue
    life,         \* history: the number of calls of Initialize
    born,         \* history: the life in which an event was scheduled
    strays,       \* history: events scheduled while terminated, or left over
    missed        \* history: Terminate's notification fell between test and wait

queueVars   == <<queue, ready, scheduled, born, strays>>
threadVars  == <<call, holds, made, asked>>
controlVars == <<initialized, control, life>>
vars == <<queueVars, threadVars, controlVars, running, dispatcher, missed>>

-----------------------------------------------------------------------------
Idle == [pc |-> "idle", ev |-> NoEvent]
Queued == {queue[i] : i \in 1 .. Len(queue)}
Ready  == {ready[i] : i \in 1 .. Len(ready)}

\* The calls that keep events back: a DispatchHold lives from its constructor to
\* the end of the call.
HoldPcs == {"held", "held_notify", "submitted"}
Holders == {t \in Threads : call[t].pc \in HoldPcs}

Init ==
    /\ initialized = FALSE /\ running = FALSE
    /\ holds = 0
    /\ queue = <<>> /\ ready = <<>>
    /\ dispatcher = "none" /\ control = "idle"
    /\ call = [t \in Threads |-> Idle]
    /\ made = {} /\ asked = {} /\ scheduled = {}
    /\ life = 0 /\ born = [e \in Events |-> 0]
    /\ strays = {} /\ missed = FALSE

\* The dispatcher does not own queue_mutex.
MutexFree == dispatcher \notin {"locked", "tested"}

\* Fault: nobody is woken.
NotifyAll_Nobody == UNCHANGED dispatcher

\* queue_cv.notify_all(): the dispatcher alone waits on it, and hears it only if it
\* is waiting already.
NotifyAll ==
    dispatcher' = IF dispatcher = "asleep" THEN "woken" ELSE dispatcher

\* Fault: the newest event goes first.
Push_Front(e) ==
    /\ queue' = <<e>> \o queue
    /\ scheduled' = scheduled \cup {e}
    /\ born' = [born EXCEPT ![e] = life]
    /\ strays' = IF initialized THEN strays ELSE strays \cup {e}

\* pending_events.push_back(ev)
Push(e) ==
    /\ queue' = Append(queue, e)
    /\ scheduled' = scheduled \cup {e}
    /\ born' = [born EXCEPT ![e] = life]
    /\ strays' = IF initialized THEN strays ELSE strays \cup {e}

-----------------------------------------------------------------------------
(* A request call, and the threads that schedule an event.                 *)

Goto(t, pc) == call' = [call EXCEPT ![t].pc = pc]

\* A request call has found the library initialized.
EnterCall(t, e) ==
    /\ call[t] = Idle /\ initialized
    /\ e \notin made \cup scheduled
    /\ made' = made \cup {e}
    /\ call' = [call EXCEPT ![t] = [pc |-> "entered", ev |-> e]]
    /\ UNCHANGED <<queueVars, holds, asked, controlVars, running, dispatcher, missed>>

TakeHold == holds' = holds + 1

\* const DispatchHold dispatch_hold;
Hold(t) ==
    /\ call[t].pc = "entered" /\ MutexFree
    /\ TakeHold
    /\ Goto(t, "held")
    /\ UNCHANGED <<queueVars, made, asked, controlVars, running, dispatcher, missed>>

\* MmSubmitRequest sends the request, or finds that there is no connection.
Submit(t) ==
    /\ call[t].pc = "held"
    /\ asked' \in {asked, asked \cup {call[t].ev}}
    /\ Goto(t, "submitted")
    /\ UNCHANGED <<queueVars, holds, made, controlVars, running, dispatcher, missed>>

\* MmSubmitRequest answers itself if the server has no Matching2.
AnswerInCall(t) ==
    /\ call[t].pc = "held" /\ MutexFree
    /\ Push(call[t].ev)
    /\ Goto(t, "held_notify")
    /\ UNCHANGED <<ready, holds, made, asked, controlVars, running, dispatcher, missed>>

NotifyInCall(t) ==
    /\ call[t].pc = "held_notify"
    /\ NotifyAll
    /\ Goto(t, "submitted")
    /\ UNCHANGED <<queueVars, holds, made, asked, controlVars, running, missed>>

\* ~DispatchHold: the count under the mutex, the notification after it
Release(t) ==
    /\ call[t].pc = "submitted" /\ MutexFree
    /\ holds' = holds - 1
    /\ call' = [call EXCEPT ![t] = [pc |-> "notify", ev |-> NoEvent]]
    /\ UNCHANGED <<queueVars, made, asked, controlVars, running, dispatcher, missed>>

\* ScheduleEvent: by a reader for a reply; by anybody for an event that was not
\* asked for, calls that are answered from the cache included.  Nothing keeps a
\* thread that has found the context from scheduling after Terminate.
ScheduleEvent(t, e) ==
    /\ call[t] = Idle /\ MutexFree
    /\ e \notin scheduled
    /\ \/ e \in asked
       \/ life > 0 /\ e \notin made
    /\ Push(e)
    /\ call' = [call EXCEPT ![t] = [pc |-> "notify", ev |-> NoEvent]]
    /\ UNCHANGED <<ready, holds, made, asked, controlVars, running, dispatcher, missed>>

Notify(t) ==
    /\ call[t].pc = "notify"
    /\ NotifyAll
    /\ call' = [call EXCEPT ![t] = Idle]
    /\ UNCHANGED <<queueVars, holds, made, asked, controlVars, running, missed>>

-----------------------------------------------------------------------------
(* EventDispatcherThreadMain.                                              *)

\* The mutex, at the start, after a wait and after a batch
Lock ==
    /\ \/ dispatcher \in {"start", "woken"}
       \/ dispatcher = "fire" /\ ready = <<>>
    /\ dispatcher' = "locked"
    /\ UNCHANGED <<queueVars, threadVars, controlVars, running, missed>>

TestRunning ==
    /\ dispatcher = "locked"
    /\ dispatcher' = IF running THEN "tested" ELSE "gone"
    /\ UNCHANGED <<queueVars, threadVars, controlVars, running, missed>>

\* Fault: holds are not looked at.
MayFire_Always == queue # <<>>

MayFire == holds = 0 /\ queue # <<>>

\* queue_cv.wait releases the mutex.
Wait ==
    /\ dispatcher = "tested" /\ ~MayFire
    /\ dispatcher' = "asleep"
    /\ UNCHANGED <<queueVars, threadVars, controlVars, running, missed>>

TakeBatch ==
    /\ dispatcher = "tested" /\ MayFire
    /\ ready' = queue
    /\ queue' = <<>>
    /\ dispatcher' = "fire"
    /\ UNCHANGED <<scheduled, born, strays, threadVars, controlVars, running, missed>>

\* FireEvent, without the mutex
FireEvent ==
    /\ dispatcher = "fire" /\ ready # <<>>
    /\ ready' = Tail(ready)
    /\ UNCHANGED <<queue, scheduled, born, strays, threadVars, controlVars, running,
                   dispatcher, missed>>

SpuriousWakeup ==
    /\ dispatcher = "asleep"
    /\ dispatcher' = "woken"
    /\ UNCHANGED <<queueVars, threadVars, controlVars, running, missed>>

-----------------------------------------------------------------------------
(* sceNpMatching2Initialize and sceNpMatching2Terminate.                   *)

\* InitEventDispatcher; whether the thread was created is not reported.
InitEventDispatcher(created) ==
    /\ control = "idle" /\ ~initialized /\ life < MaxLives
    /\ running' = created
    /\ dispatcher' = IF created THEN "start" ELSE "none"
    /\ control' = "created"
    /\ life' = life + 1
    /\ UNCHANGED <<queueVars, threadVars, initialized, missed>>

Initialized ==
    /\ control = "created"
    /\ initialized' = TRUE
    /\ control' = "idle"
    /\ UNCHANGED <<queueVars, threadVars, life, running, dispatcher, missed>>

Terminate ==
    /\ control = "idle" /\ initialized
    /\ initialized' = FALSE
    /\ control' = "stop"
    /\ UNCHANGED <<queueVars, threadVars, life, running, dispatcher, missed>>

\* dispatch_running.exchange(false); without a dispatcher nothing else is done.
StopRunning ==
    /\ control = "stop"
    /\ running' = FALSE
    /\ control' = IF running THEN "notify" ELSE "idle"
    /\ strays' = IF running THEN strays ELSE strays \cup Queued
    /\ UNCHANGED <<queue, ready, scheduled, born, threadVars, initialized, life,
                   dispatcher, missed>>

NotifyStop ==
    /\ control = "notify"
    /\ NotifyAll
    /\ missed' = (dispatcher = "tested")
    /\ control' = "join"
    /\ UNCHANGED <<queueVars, threadVars, initialized, life, running>>

Join ==
    /\ control = "join" /\ dispatcher = "gone"
    /\ control' = "clear"
    /\ UNCHANGED <<queueVars, threadVars, initialized, life, running, dispatcher,
                   missed>>

\* Fault: the events are kept.
Discard_Nothing == UNCHANGED queue

\* pending_events.clear()
Discard == queue' = <<>>

ClearEvents ==
    /\ control = "clear"
    /\ Discard
    /\ control' = "idle"
    /\ UNCHANGED <<ready, scheduled, born, strays, threadVars, initialized, life,
                   running, dispatcher, missed>>

-----------------------------------------------------------------------------
CallStep(t) ==
    Hold(t) \/ Submit(t) \/ AnswerInCall(t) \/ NotifyInCall(t) \/ Release(t) \/ Notify(t)

DispatcherStep == Lock \/ TestRunning \/ Wait \/ TakeBatch \/ FireEvent

ControlStep == Initialized \/ StopRunning \/ NotifyStop \/ Join \/ ClearEvents

Next ==
    \/ \E t \in Threads :
         \/ CallStep(t)
         \/ \E e \in Events : EnterCall(t, e) \/ ScheduleEvent(t, e)
    \/ DispatcherStep
    \/ SpuriousWakeup
    \/ \E created \in BOOLEAN : InitEventDispatcher(created)
    \/ Terminate
    \/ ControlStep

Spec == Init /\ [][Next]_vars

(***************************************************************************)
(* Threads inside the library and the dispatcher go on, and callbacks      *)
(* return.  The fairness is strong where a thread needs queue_mutex: a     *)
(* mutex that is free again and again is obtained in the end.  Nobody has  *)
(* to make a call, and a sleeping dispatcher need not wake by itself.      *)
(***************************************************************************)
Fairness ==
    /\ \A t \in Threads : SF_vars(CallStep(t))
    /\ WF_vars(DispatcherStep)
    /\ WF_vars(ControlStep)

FairSpec == Spec /\ Fairness

-----------------------------------------------------------------------------
\* Every variable has its type; in particular dispatch_holds never falls below zero.
TypeOK ==
    /\ initialized \in BOOLEAN /\ running \in BOOLEAN
    /\ holds \in Nat
    /\ queue \in Seq(Events) /\ ready \in Seq(Events)
    /\ dispatcher \in {"none", "start", "locked", "tested", "asleep", "woken", "fire",
                       "gone"}
    /\ call \in [Threads -> [pc : {"idle", "entered", "notify"} \cup HoldPcs,
                             ev : Events \cup {NoEvent}]]
    /\ control \in {"idle", "created", "stop", "notify", "join", "clear"}
    /\ made \subseteq Events /\ asked \subseteq made /\ scheduled \subseteq Events
    /\ life \in 0 .. MaxLives
    /\ born \in [Events -> 0 .. MaxLives]
    /\ strays \subseteq Events
    /\ missed \in BOOLEAN

\* The event of a request is not on its way to the game while the call that made
\* the request is under way (DispatchHold, against a batch taken before or after).
NoEarlyCallback ==
    \A t \in Threads : call[t].pc \in HoldPcs => call[t].ev \notin Ready

\* The dispatcher implements its abstract specification: order, once, and not
\* while held, across all interleavings and terminations.
Queue == INSTANCE EventQueue WITH
    waiting <- ready \o queue,
    open <- {call[t].ev : t \in Holders}
DeliversInOrder == Queue!Spec

\* The join in TermEventDispatcher waits for a sleeping dispatcher only if the
\* notification came between the dispatcher's test of dispatch_running and its
\* wait: the store and the notification do not take queue_mutex.
StuckOnlyByMissedWakeup ==
    control = "join" /\ dispatcher = "asleep" => missed

\* An event of an earlier life is fired only if it was scheduled while the library
\* was being or had been terminated, or the dispatcher of that life was never
\* created and TermEventDispatcher left without clearing the queue.
OldEventsAreStrays ==
    \A e \in Ready : born[e] = life \/ e \in strays

\* While there is a dispatcher what is scheduled is taken from the queue, to be fired
\* or dropped, until nothing is left: no wakeup is lost to ScheduleEvent or
\* ~DispatchHold.
EventsAreTaken == (Queued # {} /\ dispatcher \notin {"none", "gone"}) ~> Queued = {}

\* Terminate returns unless its notification was missed.
TerminateReturns == (control = "stop") ~> (control = "idle" \/ missed)

\* The dispatcher wakes for what is scheduled and for the end.
NoWakeupIsLost == EventsAreTaken /\ TerminateReturns
=============================================================================
