\* Every answer of the server and every moment of a loss, with two requests.
CONSTANTS
    MaxAttempts = 2
    MaxSubmits = 2
    Game = {g1}
SPECIFICATION FairSpec
INVARIANT OkOnlyIfAccepted
INVARIANT ReaderLeavesWord
PROPERTY NoWakeupIsLost
CHECK_DEADLOCK FALSE
