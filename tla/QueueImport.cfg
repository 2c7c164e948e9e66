\* One Quip import, whose terminal effect may fail.
SPECIFICATION LiveSpec
CONSTANTS
    Jobs = {j1}
    Uploads = {}
    Unreadable = {}
    c1 = c1
    s1 = s1
    s2 = s2
    s3 = s3
    w1 = w1
    w2 = w2
    Workers = {w1, w2}
    Consumers = {c1}
    Slots = {s1, s2}
    Host <- MCHost
    NoJob = NoJob
    NoName = NoName
    MAX_RETRIES = 1
    REAPER_BATCH = 16
    MaxCount = 6
    MaxFaults = 2
    MaxCrashes = 1
INVARIANTS EffectOwedOrDone
PROPERTIES ImplementsLedger EveryJobEnds EffectsSettle
CHECK_DEADLOCK FALSE
