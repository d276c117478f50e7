SPECIFICATION Spec
CONSTANTS
    t1 = t1
    t2 = t2
    Kinds = {"send", "comment", "nothing", "write", "npid", "acc"}
    Threads = {t1, t2}
    Characters = {0, 1}
    CtxLimit = 1
    MaxTitles = 1
    MaxRequests = 1
    MaxOps = 2
    MaxSessions = 1
    MaxParts = 2
INVARIANT UnansweredIsExplained
 
INVARIANT GameDataIsWhole
PROPERTY AbortSticks
SYMMETRY Symmetry
CHECK_DEADLOCK FALSE
