\* Two streams, one of them a chat stream of a single chunk, channels with room for one.
SPECIFICATION Spec
CONSTANTS
    r1 = r1
    r2 = r2
    Requests = {r1, r2}
    ProtocolsOf <- AnyAndChat
    ChunkCap = 1
    EventCap = 1
    BufferLimit = 1
    MaxChunks <- TwoAndOne
INVARIANTS
    StayingClientGetsAll
    OwnStreamRemembered
PROPERTIES
    DeliversInOrder
    HandlersReturn
\* All streams end; the goroutines of one that was broken off may not.
CHECK_DEADLOCK FALSE
