\* No crash, no error.
CONSTANTS
  LockDuration = 5
  MaxStartedAtDiff = 0
  NegotiationTimeout = 0
  FeeTimeout = 1
  CommTimeout = 0
  RefundGrace = 1
  AutoRefundable = {}
  UseWatcherReward = FALSE
  UseWatchers = FALSE
  Synchronous = FALSE
  StartWindow = 0
  MaxTime = 12
  MaxFaults = 0
  MaxCrashes = 0

SPECIFICATION Spec

INVARIANTS
  SpendConfirmedIsMined

\* Both swaps may be over, or dead after a crash.
CHECK_DEADLOCK FALSE
