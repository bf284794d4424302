\* Whole hails are the only datagrams, so no reader panics, and the
\* runtime never catches the map race: DELETE /network's Stop lands
\* between a UDP-goroutine send's nil check and its WriteTo.
CONSTANTS
    IdLen = 2
    SampleId <- MCSampleId
    SampleVersion <- MCSampleVersion
    SampleAddress <- MCSampleAddress
    Msg <- MCMsg
    Peer <- MCPeer
    Datagram <- MCHailOnly
    TTL = 2
    MaxTime = 3
    MapRaceFatal = FALSE
SPECIFICATION Spec
INVARIANT ReceiveLoopAlive
