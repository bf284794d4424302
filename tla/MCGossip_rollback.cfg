\* Database calls may fail (each one opens badger; a concurrent open of
\* the same directory fails).  PATCH requests arrive at b only.
CONSTANTS
    a = a  b = b  c = c  d1 = d1  m1 = m1  m2 = m2  m3 = m3  m4 = m4
    ZeroId = ZeroId
    Host <- MCHost2
    Device = {d1}
    Owner <- MCOwner
    Clients = {b}
    DeviceState = {0, 1}
    MsgId <- MCMsgId3
    InitStore <- MCInitStore2
    RandomPeerCount = 1
    TTL = 1
    MaxVersion = 3
    MaxRequests = 2
    MaxTasks = 1
    StoreFaults = TRUE
    Lossy = FALSE
    Duplicating = FALSE
SPECIFICATION Spec
PROPERTY VersionMonotonic
