SPECIFICATION AllSpec
CONSTANTS
    Remote = {north, south}
    Usb = usb
    Off = off
    ConnId = {1, 2, 3}
    None = None
    Stalls = FALSE
    Browsers = {b1, b2}
    FeedHosts = {"h", "g"}
    FeedOff = "off"
    MapViews = {"v", "w"}
    MapCover <- OneTile
    PageViews = {"v"}
    PageCover <- TwoTiles
    PageTiles <- WebTile
    Ports = {1, 2}
    MaxStarts = 3
    TaskCap = 2
    Highest = 1
    MaxTurns = 3
    ChanCap = 2
    MaxBlocks = 4
    LogCap = 2
    MaxLines = 4
    QueueCap = 2
    PipeCap = 1
    MsgCap = 2
    MaxChunks = 4
    ChunkLens = {1, 2, 5}
    MaxIn = 20
INVARIANTS
    LiveTypeOK
    HostObeyedUnlessLate
    NothingLeftOpen
    PageFollows
PROPERTIES
    SessionReconnects
    FeedAndMapComeBack
    EndsWhenTold
