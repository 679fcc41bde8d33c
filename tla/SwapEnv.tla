------------------------------ MODULE SwapEnv ------------------------------
(***************************************************************************)
(* What a maker and a taker of one atomic swap share: the clock, the two   *)
(* hash-time-locked payments as the two chains show them, the gossip topic *)
(* of the swap, and the budgets that bound errors and crashes.             *)
(*                                                                         *)
(* Time is counted in ticks.  LockDuration is lock_duration in ticks, and  *)
(* every deadline below is the integer expression of the code over it.     *)
(***************************************************************************)
EXTENDS Integers, Sequences, FiniteSets

CONSTANTS
  LockDuration,        \* lock_duration of the swap
  MaxStartedAtDiff,    \* the 60 seconds negotiate() tolerates
  NegotiationTimeout,  \* NEGOTIATION_TIMEOUT_SEC + BASIC_COMM_TIMEOUT
  FeeTimeout,          \* TAKER_FEE_RECV_TIMEOUT_SEC + BASIC_COMM_TIMEOUT
  CommTimeout,         \* BASIC_COMM_TIMEOUT
  RefundGrace,         \* the 3700 seconds of wait_refund_until
  AutoRefundable,      \* payments whose coin is_auto_refundable(): lightning
  UseWatcherReward,    \* environment variable USE_WATCHER_REWARD
  UseWatchers,         \* use_watchers() and both coins supported by watchers
  Synchronous,         \* no actor is more than one tick late
  StartWindow,         \* bound: both parties start by this tick
  MaxTime,             \* bound: the clock stops here
  MaxFaults,           \* bound: RPC, validation and broadcast errors
  MaxCrashes           \* bound: crashes of the two processes

Payments == {"maker_payment", "taker_payment"}
Transfers == Payments \cup {"taker_fee"}

ASSUME LockAssumption ==
  /\ LockDuration \in Nat \ {0}
  /\ MaxStartedAtDiff \in Nat
  /\ NegotiationTimeout \in Nat
  /\ FeeTimeout \in Nat
  /\ CommTimeout \in Nat
  /\ RefundGrace \in Nat
  /\ AutoRefundable \subseteq Payments

ASSUME BoundAssumption ==
  /\ UseWatcherReward \in BOOLEAN
  /\ UseWatchers \in BOOLEAN
  /\ Synchronous \in BOOLEAN
  /\ StartWindow \in Nat
  /\ MaxTime \in Nat \ {0}
  /\ MaxFaults \in Nat
  /\ MaxCrashes \in Nat

VARIABLES
  now,      \* the clock both parties read
  htlc,     \* state of each payment on its chain
  lock,     \* time lock each payment was sent with
  paid,     \* how many transactions were broadcast for each transfer
  net,      \* messages broadcast on the swap topic so far
  faults,   \* errors spent from the budget
  crashes,  \* crashes spent from the budget
  overdue   \* synchronous runs: actors that must step before the next tick

envVars == <<now, htlc, lock, paid, net, faults, crashes, overdue>>

HtlcStates == {"none", "mempool", "confirmed", "spending", "spent",
               "refunding", "refunded"}

PlainMessages == [kind : {"TakerFee", "MakerPayment", "TakerPayment"}]
NegotiatedMessages == [kind : {"Negotiated"}, ok : BOOLEAN]
NegotiationMessages ==
  [kind : {"Negotiation", "NegotiationReply"}, started_at : Nat, payment_locktime : Nat]

\* enum SwapMsg, reduced to the fields the handlers test.
SwapMsg == PlainMessages \cup NegotiatedMessages \cup NegotiationMessages

EnvTypeOK ==
  /\ now \in Nat
  /\ htlc \in [Payments -> HtlcStates]
  /\ lock \in [Payments -> Nat]
  /\ paid \in [Transfers -> Nat]
  /\ net \subseteq SwapMsg
  /\ faults \in Nat
  /\ crashes \in Nat
  /\ overdue \subseteq {"maker", "taker"} \cup Payments

EnvInit ==
  /\ now = 0
  /\ htlc = [p \in Payments |-> "none"]
  /\ lock = [p \in Payments |-> 0]
  /\ paid = [t \in Transfers |-> 0]
  /\ net = {}
  /\ faults = 0
  /\ crashes = 0
  /\ overdue = {}

-----------------------------------------------------------------------------
(* Deadlines.                                                              *)

\* Faulty variant: the multiplier is forgotten.
MakerLockDurationShort == LockDuration

\* Twice maker_locktime_multiplier() of the taker coin: lightning has its own.
MultiplierHalves == IF "taker_payment" \in AutoRefundable THEN 3 ELSE 4

MakerLockDuration == (LockDuration * MultiplierHalves + 1) \div 2
PaymentSendDeadline(start) == start + LockDuration \div 3
MakerPaymentConfDeadline(start) == start + (LockDuration * 2) \div 5
TakerPaymentRecvTimeout == (LockDuration * 3) \div 5 + CommTimeout
TakerPaymentSpendDeadline(start) == start + (LockDuration * 4) \div 5

\* The clock at MaxTime stands for any later time: it is past every deadline.
WaitUntil(timeout) ==
  IF now + timeout < MaxTime THEN now + timeout ELSE MaxTime - 1

\* negotiate() on both sides: the other party's clock and lock time are as expected.
NegotiationDataOk(msg, start, lockDuration) ==
  /\ msg.started_at - start <= MaxStartedAtDiff
  /\ start - msg.started_at <= MaxStartedAtDiff
  /\ msg.payment_locktime = msg.started_at + lockDuration

-----------------------------------------------------------------------------
(* The chains.                                                             *)

OnChain(p) == htlc[p] # "none"
Confirmed(p) == htlc[p] \notin {"none", "mempool"}
Unclaimed(p) == htlc[p] \in {"mempool", "confirmed"}
Spent(p) == htlc[p] \in {"spending", "spent"}
Refunded(p) == htlc[p] \in {"refunding", "refunded"}

\* The secret is in the spend of the taker payment: whoever sees it knows it.
SecretPublic == Spent("taker_payment")

\* send_maker_payment / send_taker_payment reach the chain.
SendPayment(p, locktime) ==
  /\ htlc' = [htlc EXCEPT ![p] = "mempool"]
  /\ lock' = [lock EXCEPT ![p] = locktime]
  /\ paid' = [paid EXCEPT ![p] = @ + 1]

\* A spend with the secret, or a refund after the lock time, reaches the chain.
SpendPayment(p) == htlc' = [htlc EXCEPT ![p] = "spending"] /\ UNCHANGED <<lock, paid>>
RefundPayment(p) == htlc' = [htlc EXCEPT ![p] = "refunding"] /\ UNCHANGED <<lock, paid>>

\* can_refund_htlc() answers CanRefundNow.
CanRefundHtlc(p) == now > lock[p]

ChainUnchanged == UNCHANGED <<htlc, lock, paid>>

\* The block with the payment, with its spend or with its refund is mined.
Mine(p) ==
  /\ htlc[p] \in {"mempool", "spending", "refunding"}
  /\ htlc' = [htlc EXCEPT ![p] = CASE @ = "mempool" -> "confirmed"
                                   [] @ = "spending" -> "spent"
                                   [] @ = "refunding" -> "refunded"]
  /\ overdue' = overdue \ {p}
  /\ UNCHANGED <<now, lock, paid, net, faults, crashes>>

\* A lightning node gives an expired payment back by itself.
AutoRefund(p) ==
  /\ p \in AutoRefundable
  /\ Unclaimed(p)
  /\ CanRefundHtlc(p)
  /\ htlc' = [htlc EXCEPT ![p] = "refunded"]
  /\ overdue' = overdue \ {p}
  /\ UNCHANGED <<now, lock, paid, net, faults, crashes>>

-----------------------------------------------------------------------------
(* Errors of the outside world, and the topic of the swap.                 *)

Fault == faults < MaxFaults /\ faults' = faults + 1
NoFault == UNCHANGED faults

Broadcast(msg) == net' = net \cup {msg}

\* What recv_swap_msg may find in the slot that process_swap_msg fills: a message
\* broadcast at any time before, the newest or an older one, delayed or repeated.
\* A lost message is one that is not received before the deadline.
Received(kind) == {msg \in net : msg.kind = kind}

=============================================================================
