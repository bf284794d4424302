\* Owner a and non-owner b on a reliable LAN; both may leave and join the
\* network again, PATCH requests at a.  Liveness under HostFairSpec.
CONSTANTS
    a = a  b = b  c = c  d1 = d1  m1 = m1  m2 = m2  m3 = m3  m4 = m4
    ZeroId = ZeroId
    Host <- MCHost2
    Device = {d1}
    Owner <- MCOwner
    Clients = {a}
    DeviceState = {0, 1}
    MsgId <- MCMsgId3
    InitStore <- MCInitStore2
    RandomPeerCount = 1
    TTL = 1
    MaxVersion = 3
    MaxRequests = 1
    MaxTasks = 1
    StoreFaults = FALSE
    Lossy = FALSE
    Duplicating = FALSE
    Movers = {b}
    CanRestart = FALSE
    Deleters = {}
    MaxEvents = 2
SPECIFICATION HostFairSpec
PROPERTY AttachedConvergence
