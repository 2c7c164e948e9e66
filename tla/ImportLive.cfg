SPECIFICATION Spec
CONSTANTS
    Workers = {w1, w2}
    Nobody = Nobody
    Gone = Gone
    R = 1
    N = 1
    MAX_THREAD_ATTEMPTS = 2
    MAX_RETRIES = 1
    MaxMishaps = 1
    Mixed = FALSE
    UserActs = FALSE
PROPERTIES EveryRunEnds
CHECK_DEADLOCK FALSE
