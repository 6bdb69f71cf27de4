SPECIFICATION FairSpec
CONSTANTS
    None = None
    TotalFrames = 4
    NormalIds = {272, 384}
CHECK_DEADLOCK FALSE
PROPERTY StressTestEnds
