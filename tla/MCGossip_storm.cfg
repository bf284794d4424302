\* PATCH requests at the owner only, a reliable LAN, no database faults:
\* does the gossip die out once the requests stop?
CONSTANTS
    a = a  b = b  c = c  d1 = d1  m1 = m1  m2 = m2  m3 = m3  m4 = m4
    ZeroId = ZeroId
    Host <- MCHost3
    Device = {d1}
    Owner <- MCOwner
    Clients = {a}
    DeviceState = {0, 1}
    MsgId <- MCMsgId3
    InitStore <- MCInitStore3
    RandomPeerCount = 2
    TTL = 1
    MaxVersion = 3
    MaxRequests = 2
    MaxTasks = 1
    StoreFaults = FALSE
    Lossy = FALSE
    Duplicating = FALSE
SPECIFICATION FairSpec
PROPERTY Quiescence
