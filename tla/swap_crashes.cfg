\* One crash and one error anywhere; arbitrary delays.
CONSTANTS
  LockDuration = 5
  MaxStartedAtDiff = 0
  NegotiationTimeout = 0
  FeeTimeout = 1
  CommTimeout = 0
  RefundGrace = 1
  AutoRefundable = {}
  UseWatcherReward = TRUE
  UseWatchers = TRUE
  Synchronous = FALSE
  StartWindow = 1
  MaxTime = 13
  MaxFaults = 1
  MaxCrashes = 1

SPECIFICATION Spec

INVARIANTS
  NoDoublePayment
  LogTellsChain
  PaymentOrder
  Unwraps
  NotStranded
  LostWithoutFunds
  KickStartContinues
  RecreatedSwapSound

PROPERTIES
  KeepsPromise

\* Both swaps may be over, or dead after a crash.
CHECK_DEADLOCK FALSE
