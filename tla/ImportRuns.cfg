SPECIFICATION SafeSpec
SYMMETRY Symmetry
CONSTANTS
    Workers = {w1, w2}
    Nobody = Nobody
    Gone = Gone
    R = 2
    N = 1
    MAX_THREAD_ATTEMPTS = 1
    MAX_RETRIES = 0
    MaxMishaps = 2
    Mixed = FALSE
    UserActs = TRUE
INVARIANTS OneDocPerThread DoneHasDocument EditsDisturbedOnlyIfOpen
           OneRunnerPerLease
PROPERTIES EndedUnlessLate
CHECK_DEADLOCK FALSE
