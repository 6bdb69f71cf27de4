CONSTANTS
    Clients = {c1}
    MaxStarts = 1
SPECIFICATION ServerSpec
INVARIANT StopCleansUp
CHECK_DEADLOCK FALSE
