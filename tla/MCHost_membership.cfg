\* Owner a and non-owner b; b leaves, joins, restarts or adds a as a peer
\* again; DELETE /device at both; PATCH requests at the owner a, one at a
\* time, so every write to d1 runs on a's HTTP goroutine; a LAN that
\* redelivers datagrams, which b's emptied cache takes for new ones after a
\* restart.
CONSTANTS
    a = a  b = b  c = c  d1 = d1  m1 = m1  m2 = m2  m3 = m3  m4 = m4
    ZeroId = ZeroId
    Host <- MCHost2
    Device = {d1}
    Owner <- MCOwner
    Clients = {a}
    DeviceState = {0, 1}
    MsgId <- MCMsgId3
    InitStore <- MCInitStore2
    RandomPeerCount = 1
    TTL = 1
    MaxVersion = 3
    MaxRequests = 2
    MaxTasks = 1
    StoreFaults = FALSE
    Lossy = FALSE
    Duplicating = TRUE
    Movers = {b}
    CanRestart = TRUE
    Deleters = {a, b}
    MaxEvents = 2
SPECIFICATION HostSpec
INVARIANT VersionDeterminesState OwnerHoldsNewest
PROPERTY VersionMonotonic
