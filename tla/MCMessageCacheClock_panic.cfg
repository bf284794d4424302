\* An EventSync whose version field is cut short, 1 to 7 bytes, reaches
\* SaveDevice and panics on the UDP goroutine.
CONSTANTS
    IdLen = 2
    SampleId <- MCSampleId
    SampleVersion <- MCSampleVersion
    SampleAddress <- MCSampleAddress
    Msg <- MCMsg
    Peer <- MCPeer
    Datagram <- MCDatagram
    TTL = 2
    MaxTime = 3
    MapRaceFatal = FALSE
SPECIFICATION Spec
INVARIANT ReceiveLoopAlive
