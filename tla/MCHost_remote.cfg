\* PATCH requests arrive at the two non-owners only: every owner-side
\* write runs on a's UDP goroutine.  Lossy LAN, no membership changes.
CONSTANTS
    a = a  b = b  c = c  d1 = d1  m1 = m1  m2 = m2  m3 = m3  m4 = m4
    ZeroId = ZeroId
    Host <- MCHost3
    Device = {d1}
    Owner <- MCOwner
    Clients = {b, c}
    DeviceState = {0, 1}
    MsgId <- MCMsgId3
    InitStore <- MCInitStore3
    RandomPeerCount = 1
    TTL = 1
    MaxVersion = 3
    MaxRequests = 2
    MaxTasks = 1
    StoreFaults = FALSE
    Lossy = TRUE
    Duplicating = FALSE
    Movers = {}
    CanRestart = FALSE
    Deleters = {}
    MaxEvents = 0
SPECIFICATION HostSpec
SYMMETRY MCSymmetry
INVARIANT HostTypeOK VersionDeterminesState OwnerHoldsNewest
PROPERTY VersionMonotonic RegisterRefinement
