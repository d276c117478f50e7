\* Two users whose clients number their packets alike.
CONSTANTS
    Threads = {t1}
    Handlers = {"hook"}
    Users = {u1, u2}
    Clients = {k1, k2}
    Ctxs = {c1, c2}
    ServerErrors = {}
    RequestLimit = 2
    AsyncKinds = {TRUE}
    MaxPkt = 1
    NoUser = NoUser
    NoClient = NoClient
    NoCtx = NoCtx
SYMMETRY Symmetry
SPECIFICATION Spec
INVARIANT MisdeliveredOnlyIfLost
CHECK_DEADLOCK FALSE
