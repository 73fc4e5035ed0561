SPECIFICATION Spec
CONSTANTS
    None = None
    Error = Error
    Own = own
    Others = {other}
    OwnSession = "s"
    States <- PeerStates
    Times = {1, 2}
    Buffers <- AudioBuffers
    BadBuffers <- SpoiledBuffers
    NameSizes = {1, 256}
    MaxSinks = 5
    ByeCounts = {1, 145, 146, 291}
INVARIANTS
    Understood
    SpoiledDiscarded
    EchoVerbatim
    RoundComplete
