\* Two events, two threads, two lives of the dispatcher.
CONSTANTS
    Threads = {t1, t2}
    Events = {e1, e2}
    NoEvent = NoEvent
    MaxLives = 2
SPECIFICATION FairSpec
INVARIANT NoEarlyCallback
INVARIANT StuckOnlyByMissedWakeup
INVARIANT OldEventsAreStrays
PROPERTY DeliversInOrder
PROPERTY NoWakeupIsLost
CHECK_DEADLOCK FALSE
