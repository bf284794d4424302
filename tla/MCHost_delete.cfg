\* Non-owner b receives DELETE /device for its copy of d1 while EventSyncs
\* of d1 are in flight; PATCH requests at b; reliable LAN.
CONSTANTS
    a = a  b = b  c = c  d1 = d1  m1 = m1  m2 = m2  m3 = m3  m4 = m4
    ZeroId = ZeroId
    Host <- MCHost2
    Device = {d1}
    Owner <- MCOwner
    Clients = {b}
    DeviceState = {0, 1}
    MsgId <- MCMsgId3
    InitStore <- MCInitStore2
    RandomPeerCount = 1
    TTL = 1
    MaxVersion = 3
    MaxRequests = 2
    MaxTasks = 1
    StoreFaults = FALSE
    Lossy = FALSE
    Duplicating = FALSE
    Movers = {}
    CanRestart = FALSE
    Deleters = {b}
    MaxEvents = 3
SPECIFICATION HostSpec
INVARIANT NoRegression
