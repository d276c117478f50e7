CONSTANTS
    Threads = {t1, t2}
    Requests = {}
    Own = {}
    Objects = {o1, o2}
    None = None
    Starting = Starting
    Stopping = Stopping
    kMaxContexts = 1
    MaxStarts = 3
    MaxClients = 1
    MaxPkt = 2
    MaxLives = 2
SYMMETRY Symmetry
SPECIFICATION Spec
INVARIANT GoesWithItsStop
INVARIANT RefsCover
CHECK_DEADLOCK FALSE
