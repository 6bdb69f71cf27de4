CONSTANTS
    Tools = {"sniffer", "bridge"}
    Transports = {"unix", "tcp"}
    FrameSize = 3
    RecvMax = 4
    PipeCap = 7
    RxCap = 2
    MaxCount = 3
    MaxBus = 4
SPECIFICATION FairSpec
INVARIANT DeliveredIntact
INVARIANT DeliveredInBusOrder
INVARIANT OnlyStopBreaksWriter
PROPERTY WrittenIsDispatched
PROPERTY HandlerEnds
PROPERTY ImplementsChannel
CHECK_DEADLOCK FALSE
