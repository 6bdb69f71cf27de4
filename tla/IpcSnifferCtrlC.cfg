CONSTANTS
    Tools = {"sniffer"}
    Transports = {"unix"}
    FrameSize = 3
    RecvMax = 4
    PipeCap = 7
    RxCap = 2
    MaxCount = 0
    MaxBus = 3
SPECIFICATION FairSpec
PROPERTY CtrlCStops
CHECK_DEADLOCK FALSE
