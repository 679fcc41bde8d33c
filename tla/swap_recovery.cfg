\* One crash and one error anywhere; recover_funds is called.
CONSTANTS
  LockDuration = 3
  MaxStartedAtDiff = 0
  NegotiationTimeout = 0
  FeeTimeout = 1
  CommTimeout = 0
  RefundGrace = 1
  AutoRefundable = {}
  UseWatcherReward = FALSE
  UseWatchers = FALSE
  Synchronous = FALSE
  StartWindow = 0
  MaxTime = 8
  MaxFaults = 1
  MaxCrashes = 1

SPECIFICATION RecoverySpec

PROPERTIES
  Termination
  FundsSettle

\* Both swaps may be over, or dead after a crash.
CHECK_DEADLOCK FALSE
