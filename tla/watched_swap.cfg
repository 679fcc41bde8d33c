\* No step takes longer than a tick; one crash, and the taker's node may stay down once.
CONSTANTS
  LockDuration = 10
  MaxStartedAtDiff = 0
  NegotiationTimeout = 1
  FeeTimeout = 2
  CommTimeout = 1
  RefundGrace = 1
  AutoRefundable = {}
  UseWatcherReward = FALSE
  UseWatchers = TRUE
  Synchronous = TRUE
  StartWindow = 0
  MaxTime = 22
  MaxFaults = 0
  MaxCrashes = 1
  Watchers = {w1}

SPECIFICATION MCSpec

INVARIANTS
  WatchedNotOneSided
  WatcherKnows
  QuietIsSettled

PROPERTIES
  SecretInTime
  PromiseSteps

\* Both swaps may be over, or dead after a crash.
CHECK_DEADLOCK FALSE
