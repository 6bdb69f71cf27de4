CONSTANTS
    Clients = {c1}
    MaxStarts = 3
SPECIFICATION ServerFairSpec
INVARIANT ServiceReachable
INVARIANT OrderlyStopCleansUp
PROPERTY StartServes
PROPERTY ConnectedIsAccepted
CHECK_DEADLOCK FALSE
