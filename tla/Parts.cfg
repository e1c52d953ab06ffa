SPECIFICATION PartsSpec
CONSTANTS
    Producers = {send, drain}
    Events = {mouse, key, wakeup}
    QueueSize = 4
    PipeCap = 7
    ReadSize = 2
    MaxPushes = 7
    RowBytes = 10
    Rows = 3
    PixelBytes = 2
    MaxMatch = 5
    Window = 8
    MaxLiterals = 10
    GenMod = 3
    DstMax = 33
    TempMax = 20
    Bytes = {0, 1}
    Opaque = 1
    Slots = {0, 1, 2}
    Hash <- MCHash
    Tiles <- MCTiles
    Prevs <- MCPrevs
    MaxTiles = 3
    Certs = {"ours", "theirs"}
    Pinned = "ours"
    Configs = {"insecure", "cert_file", "cert_fingerprint", "none"}
    Length = 4
    Tls = {a, b}
    Subs = {x, y}
CHECK_DEADLOCK FALSE
INVARIANTS
    NoLostWakeup
    RoundTrip
    FitsBuffer
    AnswerIsTile
    Answered
    ListenersLive
    ShownIsTracked
    VerifiedAndFreed
    WholeOrError
PROPERTIES
    RingIsFifo
    AllTaken
