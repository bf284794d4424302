\* PATCH requests at the owner and at a non-owner: the owner's HTTP
\* goroutine and its UDP goroutine both read-modify-write d1.
CONSTANTS
    a = a  b = b  c = c  d1 = d1  m1 = m1  m2 = m2  m3 = m3  m4 = m4
    ZeroId = ZeroId
    Host <- MCHost2
    Device = {d1}
    Owner <- MCOwner
    Clients = {a, b}
    DeviceState = {0, 1}
    MsgId <- MCMsgId3
    InitStore <- MCInitStore2
    RandomPeerCount = 1
    TTL = 1
    MaxVersion = 3
    MaxRequests = 2
    MaxTasks = 1
    StoreFaults = FALSE
    Lossy = FALSE
    Duplicating = FALSE
SPECIFICATION Spec
INVARIANT VersionDeterminesState
