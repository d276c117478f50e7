SPECIFICATION Spec
CONSTANTS
    t1 = t1
    t2 = t2
    svc = svc
    None = None
    Threads = {t1, t2}
    Users = {1}
    Sdks = {200}
    Slots = 1
    Services = {svc}
    Types = {1}
    Places = {1, 2, 3}
    Kinds = {"service"}
    MaxMade = 4
    MaxStates = 2
    MaxPushes = 2
    MaxRegs = 2
    MaxFilters = 1
    MaxPushCbs = 2
    MaxChecks = 2
    MaxDepth = 2
SYMMETRY Symmetry
INVARIANT StatesReachTheGame
INVARIANT NobodyIsStuck
INVARIANT PushesReachTheGame
CHECK_DEADLOCK FALSE
