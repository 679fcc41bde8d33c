\* Both coins are lightning; one crash.
CONSTANTS
  LockDuration = 5
  MaxStartedAtDiff = 0
  NegotiationTimeout = 0
  FeeTimeout = 1
  CommTimeout = 0
  RefundGrace = 1
  AutoRefundable = {"maker_payment", "taker_payment"}
  UseWatcherReward = FALSE
  UseWatchers = FALSE
  Synchronous = FALSE
  StartWindow = 0
  MaxTime = 11
  MaxFaults = 0
  MaxCrashes = 1

SPECIFICATION RecoverySpec

INVARIANTS
  IndInv

PROPERTIES
  Termination

\* Both swaps may be over, or dead after a crash.
CHECK_DEADLOCK FALSE
