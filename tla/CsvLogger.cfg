CONSTANTS
    Threads = {t1, t2}
    Direct = {t1}
    BufferSize = 2
    NoOne = noone
    MaxRows = 3
    MaxSessions = 2
    MaxFailures = 1
SPECIFICATION FairSpec
INVARIANT OneHeader
INVARIANT NoRowForgotten
INVARIANT InOrderOnce
INVARIANT CrashLosesLess
INVARIANT ClosedIsComplete
PROPERTY LockReleased
CHECK_DEADLOCK FALSE
