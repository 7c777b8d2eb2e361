SPECIFICATION AllSpec
CONSTANTS
    Pair = {ui, web}
    Single = {solo}
    Procs = {p1}
    LastBuild = 2
    RevOf <- Revisions
    Bundled <- Files
    Fetchers = {"ota", "ft8", "ham"}
    Updater = "ota"
    FetchedBy <- Names
    OnCard = {"ft8ts", "hamnoise"}
    Tries = 1
    Deaths = 1
    Presses = 1
    DaySeconds = 4
    Passed = 1
    FollowedFor = 2
    LookEvery = 2
    PortRates = 2
    LastSecond = 4
    FirstError = 3
SYMMETRY PairSymmetry
INVARIANT EffectsSurviveRebuilds
