SPECIFICATION FairSpec
CONSTANTS
    p1 = p1
    p2 = p2
    Programs <- MCPrograms
    Absent = Absent
    Torn = Torn
    MaxSaves = 3
    MaxFaults = 1
CHECK_DEADLOCK FALSE
INVARIANTS ServedIsSaved MetaNeverAhead
PROPERTIES AuditedPair AnswersDespiteTorn
