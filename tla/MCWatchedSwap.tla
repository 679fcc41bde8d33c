--------------------------- MODULE MCWatchedSwap ---------------------------
(***************************************************************************)
(* The watched swap for TLC, from the point on where the taker is about to *)
(* send its payment: the watchers are told about the swap by that step,    *)
(* and two crashes, of the taker and of someone else, are within reach.    *)
(***************************************************************************)
EXTENDS WatchedSwapInduction

\* Both started at tick 0, and every message so far was delivered.
DeliveredMessages ==
  {[kind |-> "Negotiation", started_at |-> 0, payment_locktime |-> MakerLockDuration],
   [kind |-> "NegotiationReply", started_at |-> 0, payment_locktime |-> LockDuration],
   [kind |-> "Negotiated", ok |-> TRUE],
   [kind |-> "TakerFee"],
   [kind |-> "MakerPayment"]}

\* The maker waits for the taker payment: confirm is the await before recv.
MakerWaits ==
  /\ \/ m_pc = "WaitForTakerPayment.confirm" /\ m_deadline = 0
     \/ /\ m_pc = "WaitForTakerPayment.recv"
        /\ m_deadline \in {start + TakerPaymentRecvTimeout : start \in 0..now}
  /\ m_saved = {"Started", "Negotiated", "MakerPaymentInstructionsReceived",
                "TakerFeeValidated", "MakerPaymentSent"}
  /\ m_last = "MakerPaymentSent"
  /\ m_next = "None" /\ m_pending = <<>>
  /\ m_started_at = 0 /\ m_taker_lock = LockDuration /\ m_reward = FALSE

\* The taker read the clock and is about to send.
TakerPays ==
  /\ t_pc = "SendTakerPayment.send"
  /\ t_saved = {"Started", "Negotiated", "TakerFeeSent", "TakerPaymentInstructionsReceived",
                "MakerPaymentReceived", "MakerPaymentWaitConfirmStarted",
                "MakerPaymentValidatedAndConfirmed"}
  /\ t_last = "MakerPaymentValidatedAndConfirmed"
  /\ t_next = "None" /\ t_pending = <<>> /\ t_deadline = 0
  /\ t_started_at = 0 /\ t_maker_lock = MakerLockDuration /\ t_reward = FALSE

MCInit ==
  /\ now \in 0..MakerPaymentConfDeadline(0)
  /\ htlc = [p \in Payments |-> IF p = "maker_payment" THEN "confirmed" ELSE "none"]
  /\ lock = [p \in Payments |-> IF p = "maker_payment" THEN MakerLockDuration ELSE 0]
  /\ paid = [p \in Transfers |-> IF p = "taker_payment" THEN 0 ELSE 1]
  /\ net = DeliveredMessages
  /\ faults = 0 /\ crashes = 0 /\ overdue = {}
  /\ MakerWaits
  /\ TakerPays
  /\ WatcherInit
  /\ away = FALSE

MCSpec == MCInit /\ [][WatchedNext]_watchedVars

=============================================================================
