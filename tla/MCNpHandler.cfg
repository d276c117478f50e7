\* Two users, three clients, two scenes.
CONSTANTS
    u1 = u1
    u2 = u2
    k1 = k1
    k2 = k2
    k3 = k3
    Users = {u1, u2}
    Clients = {k1, k2, k3}
    NoUser = NoUser
    NoClient = NoClient
    First <- FirstClients
    Scenes <- TwoScenes
SPECIFICATION FairSpec
INVARIANT SettledIsRight
INVARIANT OneOwnerEach
PROPERTY WorkerKeepsUp
CHECK_DEADLOCK FALSE
