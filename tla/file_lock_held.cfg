\* A second task meets a punctual holder.
SPECIFICATION FairSpec
CONSTANTS
    Tasks = {t1, t2}
    Ttl = 8
    RetryAfter = 8
    TouchEvery = 6
    MaxDelay = 1
    Cap = 9
    MaxCrashes = 0
    MaxErrors = 0

PROPERTIES
    LockedReturnsNone
