\* The owner a and one other host b; PATCH requests at b only, a
\* reliable LAN, no database faults.  Liveness under HostFairSpec.
CONSTANTS
    a = a  b = b  c = c  d1 = d1  m1 = m1  m2 = m2  m3 = m3  m4 = m4
    ZeroId = ZeroId
    Host <- MCHost2
    Device = {d1}
    Owner <- MCOwner
    Clients = {b}
    DeviceState = {0, 1}
    MsgId <- MCMsgId4
    InitStore <- MCInitStore2
    RandomPeerCount = 1
    TTL = 1
    MaxVersion = 3
    MaxRequests = 3
    MaxTasks = 1
    StoreFaults = FALSE
    Lossy = FALSE
    Duplicating = FALSE
    Movers = {}
    CanRestart = FALSE
    Deleters = {}
    MaxEvents = 0
SPECIFICATION HostFairSpec
PROPERTY Convergence
