\* Manifests of six threads in every order, a fault and an outage.
SPECIFICATION MCSpec
CONSTANTS
    N = 6
    MAX_THREAD_ATTEMPTS = 3
    MAX_CONSECUTIVE_THREAD_FAILURES = 2
    MAX_RETRIES = 3
    MaxFaults = 1
    MaxOutages = 1
INVARIANTS DeadLetterIffTooManyBlocks SucceededDecided OutageRadius GivenUpLate
CHECK_DEADLOCK FALSE
