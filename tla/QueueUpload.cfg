\* One upload and one unreadable job; every failure of a call, a stall or a crash.
SPECIFICATION Spec
CONSTANTS
    Jobs = {j1,j2}
    Uploads = {j1}
    Unreadable = {j2}
    c1 = c1
    s1 = s1
    s2 = s2
    s3 = s3
    w1 = w1
    w2 = w2
    Workers = {w1, w2}
    Consumers = {c1}
    Slots = {s2,s3}
    Host <- MCHost
    NoJob = NoJob
    NoName = NoName
    MAX_RETRIES = 1
    REAPER_BATCH = 16
    MaxCount = 4
    MaxFaults = 1
    MaxCrashes = 1
INVARIANTS OneEntryPerOpenJob ReaperKeepsItsReceipts DeadLetterEarned AcceptedUploadStaged
PROPERTIES NewestClaimDecides
CHECK_DEADLOCK FALSE
