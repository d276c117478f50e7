----------------------------- MODULE EventQueue -----------------------------
(***************************************************************************)
(* What the event dispatcher of Matching2 promises the game: events reach  *)
(* their callbacks in the order in which they were scheduled, each at most *)
(* once, and none while the call that asked for it is held open.  Nothing  *)
(* is said of threads, locks or wakeups; EventDispatcher implements this.  *)
(***************************************************************************)
EXTENDS Sequences

CONSTANT Events

VARIABLES
    waiting,   \* the events scheduled and not yet delivered, the oldest first
    scheduled, \* the events that have been scheduled
    open       \* the events whose call holds delivery back

vars == <<waiting, scheduled, open>>

Init == waiting = <<>> /\ scheduled = {} /\ open = {}

Schedule(e) ==
    /\ e \notin scheduled
    /\ scheduled' = scheduled \cup {e}
    /\ waiting' = Append(waiting, e)
    /\ UNCHANGED open

Open(e) ==
    /\ e \notin scheduled
    /\ open' = open \cup {e}
    /\ UNCHANGED <<waiting, scheduled>>

Close(e) ==
    /\ open' = open \ {e}
    /\ UNCHANGED <<waiting, scheduled>>

Deliver ==
    /\ waiting # <<>>
    /\ Head(waiting) \notin open
    /\ waiting' = Tail(waiting)
    /\ UNCHANGED <<scheduled, open>>

\* Termination drops what has not been delivered.
Clear == waiting' = <<>> /\ UNCHANGED <<scheduled, open>>

Next ==
    \/ \E e \in Events : Schedule(e) \/ Open(e) \/ Close(e)
    \/ Deliver
    \/ Clear

Spec == Init /\ [][Next]_vars
=============================================================================
