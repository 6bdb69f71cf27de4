SPECIFICATION FairSpec

CONSTANTS
    Ecus = {"transmission", "body"}
    Modes = {"normal", "highway"}
    AccelSpeeds = {55}
    BrakeSpeeds = {30}
    Verbose = FALSE
    Duration = 1
    Nobody = nobody
    MaxFrames = 2

CHECK_DEADLOCK FALSE

INVARIANT ReadingsPlausible
INVARIANT FinalTotal
PROPERTY AllThreadsEnd
