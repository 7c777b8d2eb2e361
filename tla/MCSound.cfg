SPECIFICATION FairSpec
CONSTANTS
    Players = {1, 2}
    Most = 3
    Rates = {8, 32}
    OnlyRate = 8
INVARIANTS
    TypeOK
    OpenHasPlayer
    HandsBack
PROPERTIES
    PlayerKept
    SpeakerComesBack
\* The speaker may be closed for good.
CHECK_DEADLOCK FALSE
