\* Two game threads race on one request slot while the user's client comes and goes.
CONSTANTS
    Threads = {t1, t2}
    Handlers = {"hook", "worker"}
    Users = {u1}
    Clients = {k1, k2}
    Ctxs = {c1, c2}
    ServerErrors = {}
    RequestLimit = 1
    AsyncKinds = {TRUE, FALSE}
    MaxPkt = 1
    NoUser = NoUser
    NoClient = NoClient
    NoCtx = NoCtx
SYMMETRY Symmetry
SPECIFICATION Spec
INVARIANT OneCompleter
INVARIANT CodeOnlyOnSuccess
INVARIANT UnansweredIsExplained
INVARIANT DeletedNeverBlocks
PROPERTY NoWriteAfterReturn
CHECK_DEADLOCK FALSE
