CONSTANTS
    Threads = {t1, t2}
    Requests = {r1, r2}
    Own = {r1}
    Objects = {o1, o2}
    None = None
    Starting = Starting
    Stopping = Stopping
    kMaxContexts = 2
    MaxStarts = 0
    MaxClients = 2
    MaxPkt = 2
    MaxLives = 1
SYMMETRY Symmetry
SPECIFICATION Spec
INVARIANT OwnCallback
INVARIANT OneAnswerOrLost
CHECK_DEADLOCK FALSE
