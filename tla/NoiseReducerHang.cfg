SPECIFICATION FairSpec
CONSTANTS
    Thread = {ui}
    Proc = {p1, p2}
    MayHang = TRUE
PROPERTY CallsReturn
