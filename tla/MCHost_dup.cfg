\* Owner a and one other host b on a LAN that loses and redelivers
\* datagrams, starting before d1 is created; PATCH requests at b only
\* (possibly before b, or even a, knows d1), no membership changes.
CONSTANTS
    a = a  b = b  c = c  d1 = d1  m1 = m1  m2 = m2  m3 = m3  m4 = m4
    ZeroId = ZeroId
    Host <- MCHost2
    Device = {d1}
    Owner <- MCOwner
    Clients = {b}
    DeviceState = {0, 1}
    MsgId <- MCMsgId3
    InitStore <- MCEmptyStore2
    RandomPeerCount = 1
    TTL = 2
    MaxVersion = 3
    MaxRequests = 2
    MaxTasks = 1
    StoreFaults = FALSE
    Lossy = TRUE
    Duplicating = TRUE
    Movers = {}
    CanRestart = FALSE
    Deleters = {}
    MaxEvents = 0
SPECIFICATION HostSpec
INVARIANT VersionDeterminesState OwnerHoldsNewest
PROPERTY VersionMonotonic RegisterRefinement
