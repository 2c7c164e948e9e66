SPECIFICATION MCSpec
CONSTANTS
    F = 3
    Runners = {r1, r2}
    MaxIds = 7
    MaxFaults = 1
INVARIANTS OrderSound RecordedIsMade TreeMirrored OrphansEmpty
PROPERTIES AllFiled
CHECK_DEADLOCK FALSE
