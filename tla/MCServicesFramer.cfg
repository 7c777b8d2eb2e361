SPECIFICATION FramerSpec
CONSTANTS
    Thread = {ui}
    \* kHz.  The two sides of the direct-sampling edge share a receive window at
    \* the full rate, and at the lowest one with the narrower bandwidth only;
    \* the channel is in the IF2 span of the other at the full rate only.
    Freqs = {23950, 24050}
    Start = 24050
    AprsFreqs = {24050}
    Rates = {2048, 256}
    If2 <- If2Of
    Bandwidths = {10, 25}
    DsModes <- AutoOrDirect
    HFEdge = 24000
    ServerKeeps = TRUE
    MaxDepth = 2
    MaxSession = 1
    Frames = 1
    Chunk = 3
    Window = 2
    Ttl3 = 3
    Gap = 5
    MaxBad = 2
    MaxBuffer = 3
    MaxPerPkt = 2
    Described = 3
    MaxSpots = 7
    MaxPkts = 5
    Savers = {"ui", "web"}
    Whole = 2
    MaxGen = 3
    \* Ticks of 10 s: 30 s between a station's frames.
    Stations = {"own", "a", "b", "c"}
    Own = "own"
    Guard = 3
    Minute = 6
    Limit = 2
    Old = 8
    Lists = {"host", "beast", "bm"}
    MaxLen = 2
    KbRow <- Narrow
PROPERTY
    FeedReturns
CHECK_DEADLOCK FALSE
