SPECIFICATION Spec
CONSTANTS
    Docs = {d1, d2}
    Bystanders = {d2}
    Requests = {1, 2}
    Sweeper = sweeper
    Compactor = compactor
    Reconciler = reconciler
    Nowhere = nowhere
    V = 2
    Updates = {1}
    MaxRequests = 3
    MaxAtWork = 3
    MaxFaults = 1
INVARIANTS ErasedWhenAudited Intact
PROPERTIES PurgedFromTrash RetentionUnlessGhost LeftoversCollected
CHECK_DEADLOCK FALSE
