CONSTANTS
    Threads = {t1, t2}
    Ids = {brake, trans, zero}
    Payloads = {"plain", "noisy"}
    KnownIds = {brake, rpm, trans}
    ZeroId = zero
    BrakeId = brake
    RpmId = rpm
    TransId = trans
    WindowSize = 2
    MaxHistory = 1
    FloodMs = 1
    Never = never
    MaxTime = 1
    MaxFrames = 3
SPECIFICATION Spec
INVARIANT DensityIsPercentage
INVARIANT NothingLost
INVARIANT LogNumbersIncrease
INVARIANT FloodIffFastOrFirst
CHECK_DEADLOCK FALSE
SYMMETRY ThreadSymmetry
