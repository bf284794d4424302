\* Two message ids and two peers, TTL 2 over 4 ticks: holds at every age,
\* deadlines reaching "now", expiry, lazy clearing, Reset, every prefix of
\* three frames at ingress, the panicking ones included, and send loops on
\* the UDP and an HTTP goroutine with ticks and datagrams between their
\* steps.  The view counts a receipt older than TTL as none, which no
\* property of this run tells apart.
CONSTANTS
    IdLen = 2
    SampleId <- MCSampleId
    SampleVersion <- MCSampleVersion
    SampleAddress <- MCSampleAddress
    Msg <- MCMsg
    Peer <- MCPeer
    Datagram <- MCDatagram
    TTL = 2
    MaxTime = 4
    MapRaceFatal = TRUE
SPECIFICATION Spec
VIEW MCView
INVARIANT TypeOK QueriesAgree IngressDedup
PROPERTY TickRefinement
