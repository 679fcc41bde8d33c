\* The lock in IndexedDB; times in units of five seconds.
SPECIFICATION FairSpec
CONSTANTS
    Tasks = {t1, t2}
    Ttl = 8
    RetryAfter = 8
    TouchEvery = 6
    MaxDelay = 1
    Cap = 9
    MaxCrashes = 2
    MaxErrors = 1
    NoTask = NoTask

INVARIANTS
    Exclusive
    NotForgotten

PROPERTIES
    Finishes
