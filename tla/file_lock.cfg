\* The lock file, call by call; times in units of five seconds.
SPECIFICATION FairSpec
CONSTANTS
    Tasks = {t1, t2}
    Ttl = 8
    RetryAfter = 8
    TouchEvery = 6
    MaxDelay = 1
    Cap = 9
    MaxCrashes = 1
    MaxErrors = 1

INVARIANTS
    NotForgotten

PROPERTIES
    Finishes
