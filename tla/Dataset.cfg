SPECIFICATION Spec
CONSTANTS
    CsvWindow = 2
    Windows = {1, 2, 3}
    None = None
    Contamination = 40
    Frames <- MCFrames
    Times = {0, 4, 8}
    Labels = {"NORMAL", "FLOOD"}
    Scores = {0, 1, 2}
    MaxFrames = 3
    BufferSize = 2
CHECK_DEADLOCK FALSE
INVARIANTS OfflineIsLive ScoredAsParsed VectorsMatchHistory TrainingFlagsFew
