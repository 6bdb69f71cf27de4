SPECIFICATION FairSpec

CONSTANTS
    Loops = {"body"}
    MaxRuns = 2
    MaxSteps = 200

CHECK_DEADLOCK FALSE

INVARIANT RunningIsServed
INVARIANT OneOfEach
INVARIANT LateIsBounded
INVARIANT BatchHasRates
PROPERTY StopEnds
PROPERTY ClosedBusEndsSenders
