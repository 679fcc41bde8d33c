----------------------------- MODULE MakerSwap -----------------------------
(***************************************************************************)
(* The maker's side of one swap: the event-sourced state machine that      *)
(* run_maker_swap drives.  A command handler runs, returns the next        *)
(* command and a list of events; the events are saved to the database and  *)
(* applied one by one; then the next command runs.  A crash loses the      *)
(* handler's progress and its unsaved events, and a restart derives the    *)
(* command from the last event saved.                                      *)
(*                                                                         *)
(* m_pc is a command, a command with an await inside it (".recv"), or one  *)
(* of "Saving", "None" (the swap is over), "Down" (crashed) and "Lost"     *)
(* (crashed with nothing in the database that a kick-start accepts).       *)
(***************************************************************************)
EXTENDS SwapEnv

VARIABLES
  m_pc,          \* where run_maker_swap is
  m_next,        \* command to run once the pending events are saved
  m_pending,     \* events returned by the handler and not saved yet
  m_saved,       \* events in the database
  m_last,        \* the last of them, "NoEvent" at first
  m_started_at,  \* data.started_at
  m_taker_lock,  \* taker_payment_lock, from the Negotiated event
  m_reward,      \* watcher_reward: in memory only
  m_deadline     \* wait_until of the recv_swap_msg in progress

makerVars == <<m_pc, m_next, m_pending, m_saved, m_last, m_started_at,
               m_taker_lock, m_reward, m_deadline>>

MakerCommands ==
  {"Start", "Negotiate", "WaitForTakerFee", "SendPayment", "WaitForTakerPayment",
   "ValidateTakerPayment", "SpendTakerPayment", "ConfirmTakerPaymentSpend",
   "PrepareForMakerPaymentRefund", "RefundMakerPayment",
   "FinalizeMakerPaymentRefund", "Finish"}

MakerAwaits ==
  {"Negotiate.recv", "WaitForTakerFee.recv", "SendPayment.send",
   "WaitForTakerPayment.confirm", "WaitForTakerPayment.recv", "SpendTakerPayment.send"}

MakerEvents ==
  {"Started", "StartFailed", "Negotiated", "NegotiateFailed",
   "MakerPaymentInstructionsReceived", "TakerFeeValidated", "TakerFeeValidateFailed",
   "MakerPaymentSent", "MakerPaymentTransactionFailed", "MakerPaymentDataSendFailed",
   "MakerPaymentWaitConfirmFailed", "TakerPaymentReceived",
   "TakerPaymentWaitConfirmStarted", "TakerPaymentValidatedAndConfirmed",
   "TakerPaymentValidateFailed", "TakerPaymentWaitConfirmFailed", "TakerPaymentSpent",
   "TakerPaymentSpendFailed", "TakerPaymentSpendConfirmStarted",
   "TakerPaymentSpendConfirmed", "TakerPaymentSpendConfirmFailed",
   "MakerPaymentWaitRefundStarted", "MakerPaymentRefundStarted", "MakerPaymentRefunded",
   "MakerPaymentRefundFailed", "MakerPaymentRefundFinished", "Finished"}

MakerTypeOK ==
  /\ m_pc \in MakerCommands \cup MakerAwaits \cup {"Saving", "None", "Down", "Lost"}
  /\ m_next \in MakerCommands \cup {"None"}
  /\ m_pending \in Seq(MakerEvents)
  /\ m_saved \subseteq MakerEvents
  /\ m_last \in m_saved \cup {"NoEvent"}
  /\ m_started_at \in Nat
  /\ m_taker_lock \in Nat
  /\ m_reward \in BOOLEAN
  /\ m_deadline \in Nat

MakerInit ==
  /\ m_pc = "Start"
  /\ m_next = "None"
  /\ m_pending = <<>>
  /\ m_saved = {}
  /\ m_last = "NoEvent"
  /\ m_started_at = 0
  /\ m_taker_lock = 0
  /\ m_reward = FALSE
  /\ m_deadline = 0

MakerPaymentLock == m_started_at + MakerLockDuration
MakerWaitRefundUntil == MakerPaymentLock + RefundGrace

\* A handler returns Ok((command, events)); nothing of its waits is kept.
MakerReturn(command, events) ==
  /\ m_pc' = "Saving"
  /\ m_next' = command
  /\ m_pending' = events
  /\ m_deadline' = 0
  /\ UNCHANGED <<m_saved, m_last>>

\* A handler moves on to its next await.
MakerAwait(pc, deadline) ==
  /\ m_pc' = pc
  /\ m_deadline' = deadline
  /\ UNCHANGED <<m_next, m_pending, m_saved, m_last>>

\* The return of every failure after the maker payment was sent.
MakerReturnRefund(event) ==
  MakerReturn("PrepareForMakerPaymentRefund", <<event, "MakerPaymentWaitRefundStarted">>)

MakerDataUnchanged == UNCHANGED <<m_started_at, m_taker_lock, m_reward>>

-----------------------------------------------------------------------------
(* Start and negotiation.                                                  *)

MakerStart ==
  /\ m_pc = "Start"
  /\ now <= StartWindow
  /\ \/ /\ Fault
        /\ MakerReturn("Finish", <<"StartFailed">>)
        /\ UNCHANGED <<m_started_at, m_reward>>
     \/ /\ NoFault
        /\ MakerReturn("Negotiate", <<"Started">>)
        /\ m_started_at' = now
        /\ m_reward' = UseWatcherReward
  /\ ChainUnchanged
  /\ UNCHANGED <<net, m_taker_lock>>

MakerNegotiate ==
  /\ m_pc = "Negotiate"
  /\ Broadcast([kind |-> "Negotiation", started_at |-> m_started_at,
                payment_locktime |-> MakerPaymentLock])
  /\ MakerAwait("Negotiate.recv", WaitUntil(NegotiationTimeout))
  /\ NoFault
  /\ ChainUnchanged
  /\ MakerDataUnchanged

MakerNegotiateFailed ==
  /\ Broadcast([kind |-> "Negotiated", ok |-> FALSE])
  /\ MakerReturn("Finish", <<"NegotiateFailed">>)
  /\ UNCHANGED m_taker_lock

MakerNegotiateRecv ==
  /\ m_pc = "Negotiate.recv"
  /\ \E msg \in Received("NegotiationReply") :
       /\ \/ /\ \/ NoFault /\ ~NegotiationDataOk(msg, m_started_at, LockDuration)
                \/ Fault
             /\ MakerNegotiateFailed
          \/ /\ NegotiationDataOk(msg, m_started_at, LockDuration)
             /\ NoFault
             /\ MakerReturn("WaitForTakerFee", <<"Negotiated">>)
             /\ m_taker_lock' = msg.payment_locktime
             /\ UNCHANGED net
  /\ ChainUnchanged
  /\ UNCHANGED <<m_started_at, m_reward>>

MakerNegotiateTimeout ==
  /\ m_pc = "Negotiate.recv"
  /\ now > m_deadline
  /\ MakerNegotiateFailed
  /\ NoFault
  /\ ChainUnchanged
  /\ UNCHANGED <<m_started_at, m_reward>>

MakerWaitTakerFee ==
  /\ m_pc = "WaitForTakerFee"
  /\ Broadcast([kind |-> "Negotiated", ok |-> TRUE])
  /\ MakerAwait("WaitForTakerFee.recv", WaitUntil(FeeTimeout))
  /\ NoFault
  /\ ChainUnchanged
  /\ MakerDataUnchanged

MakerWaitTakerFeeRecv ==
  /\ m_pc = "WaitForTakerFee.recv"
  /\ \E msg \in Received("TakerFee") :
       /\ \/ Fault /\ MakerReturn("Finish", <<"TakerFeeValidateFailed">>)
          \/ /\ NoFault
             /\ MakerReturn("SendPayment",
                            <<"MakerPaymentInstructionsReceived", "TakerFeeValidated">>)
  /\ ChainUnchanged
  /\ MakerDataUnchanged
  /\ UNCHANGED net

MakerWaitTakerFeeTimeout ==
  /\ m_pc = "WaitForTakerFee.recv"
  /\ now > m_deadline
  /\ MakerReturn("Finish", <<"TakerFeeValidateFailed">>)
  /\ NoFault
  /\ ChainUnchanged
  /\ MakerDataUnchanged
  /\ UNCHANGED net

-----------------------------------------------------------------------------
(* The payments.                                                           *)

\* maker_payment: the clock is read first, the transaction goes out later.
MakerSendPayment ==
  /\ m_pc = "SendPayment"
  /\ \/ /\ now > PaymentSendDeadline(m_started_at)
        /\ MakerReturn("Finish", <<"MakerPaymentTransactionFailed">>)
     \/ /\ now <= PaymentSendDeadline(m_started_at)
        /\ MakerAwait("SendPayment.send", 0)
  /\ NoFault
  /\ ChainUnchanged
  /\ MakerDataUnchanged
  /\ UNCHANGED net

\* Faulty variant: check_if_my_payment_sent is not called.
MakerPaymentSentAgain == SendPayment("maker_payment", MakerPaymentLock)

\* check_if_my_payment_sent finds the payment of an earlier attempt, or it is sent.
MakerPaymentFound ==
  IF OnChain("maker_payment")
  THEN ChainUnchanged
  ELSE SendPayment("maker_payment", MakerPaymentLock)

\* The error of send_maker_payment does not tell whether the transaction got out.
MakerSendPaymentSend ==
  /\ m_pc = "SendPayment.send"
  /\ \/ /\ NoFault
        /\ MakerPaymentFound
        /\ MakerReturn("WaitForTakerPayment", <<"MakerPaymentSent">>)
     \/ /\ Fault
        /\ ChainUnchanged \/ MakerPaymentFound
        /\ MakerReturn("Finish", <<"MakerPaymentTransactionFailed">>)
  /\ MakerDataUnchanged
  /\ UNCHANGED net

MakerWaitForTakerPayment ==
  /\ m_pc = "WaitForTakerPayment"
  /\ \/ Fault /\ MakerReturnRefund("MakerPaymentDataSendFailed") /\ UNCHANGED net
     \/ /\ NoFault
        /\ Broadcast([kind |-> "MakerPayment"])
        /\ MakerAwait("WaitForTakerPayment.confirm", 0)
  /\ ChainUnchanged
  /\ MakerDataUnchanged

MakerPaymentWaitConfirm ==
  /\ m_pc = "WaitForTakerPayment.confirm"
  /\ \/ /\ NoFault
        /\ now <= MakerPaymentConfDeadline(m_started_at)
        /\ Confirmed("maker_payment")
        /\ MakerAwait("WaitForTakerPayment.recv", WaitUntil(TakerPaymentRecvTimeout))
     \/ /\ \/ NoFault /\ now > MakerPaymentConfDeadline(m_started_at)
           \/ Fault
        /\ MakerReturnRefund("MakerPaymentWaitConfirmFailed")
  /\ ChainUnchanged
  /\ MakerDataUnchanged
  /\ UNCHANGED net

MakerTakerPaymentRecv ==
  /\ m_pc = "WaitForTakerPayment.recv"
  /\ \E msg \in Received("TakerPayment") :
       /\ \/ Fault /\ MakerReturnRefund("TakerPaymentValidateFailed")
          \/ /\ NoFault
             /\ MakerReturn("ValidateTakerPayment",
                            <<"TakerPaymentReceived", "TakerPaymentWaitConfirmStarted">>)
  /\ ChainUnchanged
  /\ MakerDataUnchanged
  /\ UNCHANGED net

\* Faulty variant: the wait has no timeout.
TakerPaymentRecvNeverOver == FALSE

TakerPaymentRecvOver == now > m_deadline

MakerTakerPaymentRecvTimeout ==
  /\ m_pc = "WaitForTakerPayment.recv"
  /\ TakerPaymentRecvOver
  /\ MakerReturnRefund("TakerPaymentValidateFailed")
  /\ NoFault
  /\ ChainUnchanged
  /\ MakerDataUnchanged
  /\ UNCHANGED net

\* validate_taker_payment checks the lock time the taker announced, among others.
TakerPaymentValid == lock["taker_payment"] = m_taker_lock

\* Faulty variant: zero confirmations are enough.
TakerPaymentSeenInTime ==
  now <= TakerPaymentSpendDeadline(m_started_at) /\ OnChain("taker_payment")

\* wait_for_confirmations of the taker payment succeeds.
TakerPaymentConfirmedInTime ==
  now <= TakerPaymentSpendDeadline(m_started_at) /\ Confirmed("taker_payment")

MakerValidateTakerPayment ==
  /\ m_pc = "ValidateTakerPayment"
  /\ \/ /\ \/ NoFault /\ now > TakerPaymentSpendDeadline(m_started_at)
           \/ Fault
        /\ MakerReturnRefund("TakerPaymentWaitConfirmFailed")
     \/ /\ TakerPaymentConfirmedInTime
        /\ \/ /\ m_reward
              /\ Fault
              /\ MakerReturn("Finish", <<"MakerPaymentTransactionFailed">>)
           \/ /\ IF TakerPaymentValid THEN Fault ELSE NoFault
              /\ MakerReturnRefund("TakerPaymentValidateFailed")
           \/ /\ NoFault
              /\ TakerPaymentValid
              /\ MakerReturn("SpendTakerPayment", <<"TakerPaymentValidatedAndConfirmed">>)
  /\ ChainUnchanged
  /\ MakerDataUnchanged
  /\ UNCHANGED net

\* Faulty variant: the clock is not read.
SpendTooLateNever == FALSE

\* spend_taker_payment: the clock is read first, the secret goes out later.
SpendTooLate == now > TakerPaymentSpendDeadline(m_started_at)

MakerSpendTakerPayment ==
  /\ m_pc = "SpendTakerPayment"
  /\ \/ /\ SpendTooLate
        /\ MakerReturnRefund("TakerPaymentSpendFailed")
     \/ /\ ~SpendTooLate
        /\ MakerAwait("SpendTakerPayment.send", 0)
  /\ NoFault
  /\ ChainUnchanged
  /\ MakerDataUnchanged
  /\ UNCHANGED net

\* An error either kept the spend from the chain, or its transaction was handed to
\* the tx helpers (broadcast_p2p_tx_msg) and appears there all the same.
MakerSpendTakerPaymentSend ==
  /\ m_pc = "SpendTakerPayment.send"
  /\ \/ /\ NoFault
        /\ Unclaimed("taker_payment")
        /\ SpendPayment("taker_payment")
        /\ MakerReturn("ConfirmTakerPaymentSpend",
                       <<"TakerPaymentSpent", "TakerPaymentSpendConfirmStarted">>)
     \/ /\ NoFault
        /\ ~Unclaimed("taker_payment")
        /\ ChainUnchanged
        /\ MakerReturnRefund("TakerPaymentSpendFailed")
     \/ /\ Fault
        /\ Unclaimed("taker_payment")
        /\ ChainUnchanged \/ SpendPayment("taker_payment")
        /\ MakerReturnRefund("TakerPaymentSpendFailed")
  /\ MakerDataUnchanged
  /\ UNCHANGED net

\* The transaction whose confirmation is awaited is the taker payment itself.
MakerConfirmTakerPaymentSpend ==
  /\ m_pc = "ConfirmTakerPaymentSpend"
  /\ \/ /\ NoFault
        /\ now <= MakerWaitRefundUntil
        /\ Confirmed("taker_payment")
        /\ MakerReturn("Finish", <<"TakerPaymentSpendConfirmed">>)
     \/ /\ \/ NoFault /\ now > MakerWaitRefundUntil
           \/ Fault
        /\ MakerReturnRefund("TakerPaymentSpendConfirmFailed")
  /\ ChainUnchanged
  /\ MakerDataUnchanged
  /\ UNCHANGED net

-----------------------------------------------------------------------------
(* The refund.                                                             *)

\* on_maker_payment_refund_start: a lightning taker payment is failed backwards.
MakerPrepareForRefund ==
  /\ m_pc = "PrepareForMakerPaymentRefund"
  /\ IF /\ "TakerPaymentReceived" \in m_saved
        /\ "taker_payment" \in AutoRefundable
        /\ Unclaimed("taker_payment")
     THEN htlc' = [htlc EXCEPT !["taker_payment"] = "refunded"] /\ UNCHANGED <<lock, paid>>
     ELSE ChainUnchanged
  /\ MakerReturn("RefundMakerPayment", <<"MakerPaymentRefundStarted">>)
  /\ NoFault
  /\ MakerDataUnchanged
  /\ UNCHANGED net

\* wait_for_htlc_refund of an auto-refundable coin.
MakerWaitAutoRefund ==
  /\ m_pc = "RefundMakerPayment"
  /\ "maker_payment" \in AutoRefundable
  /\ \/ /\ Refunded("maker_payment")
        /\ NoFault
        /\ MakerReturn("FinalizeMakerPaymentRefund", <<"MakerPaymentRefunded">>)
     \/ /\ \/ NoFault /\ (Spent("maker_payment") \/ now > MakerPaymentLock)
           \/ Fault
        /\ MakerReturn("Finish", <<"MakerPaymentRefundFailed">>)
  /\ ChainUnchanged
  /\ MakerDataUnchanged
  /\ UNCHANGED net

MakerRefundPayment ==
  /\ m_pc = "RefundMakerPayment"
  /\ "maker_payment" \notin AutoRefundable
  /\ now > MakerPaymentLock
  /\ \/ /\ NoFault
        /\ Unclaimed("maker_payment")
        /\ RefundPayment("maker_payment")
        /\ MakerReturn("FinalizeMakerPaymentRefund", <<"MakerPaymentRefunded">>)
     \/ /\ NoFault
        /\ ~Unclaimed("maker_payment")
        /\ ChainUnchanged
        /\ MakerReturn("Finish", <<"MakerPaymentRefundFailed">>)
     \/ /\ Fault
        /\ Unclaimed("maker_payment")
        /\ ChainUnchanged \/ RefundPayment("maker_payment")
        /\ MakerReturn("Finish", <<"MakerPaymentRefundFailed">>)
  /\ MakerDataUnchanged
  /\ UNCHANGED net

MakerFinalizeRefund ==
  /\ m_pc = "FinalizeMakerPaymentRefund"
  /\ MakerReturn("Finish", <<"MakerPaymentRefundFinished">>)
  /\ NoFault
  /\ ChainUnchanged
  /\ MakerDataUnchanged
  /\ UNCHANGED net

MakerFinish ==
  /\ m_pc = "Finish"
  /\ MakerReturn("None", <<"Finished">>)
  /\ NoFault
  /\ ChainUnchanged
  /\ MakerDataUnchanged
  /\ UNCHANGED net

-----------------------------------------------------------------------------
(* The driver: saving events, crashing, starting again.                    *)

\* Faulty variant: the record is overwritten by the last event.
MakerSavedForgetful(event) == {event}

\* Faulty variant: the event is applied and not saved.
MakerSavedNot(event) == m_saved

\* save_my_maker_swap_event appends to the events of the record.
MakerSaved(event) == m_saved \cup {event}

\* The loop of run_maker_swap: one event saved and applied.
MakerSaveEvent ==
  /\ m_pc = "Saving"
  /\ m_saved' = MakerSaved(Head(m_pending))
  /\ m_last' = Head(m_pending)
  /\ m_pending' = Tail(m_pending)
  /\ IF Len(m_pending) = 1
     THEN m_pc' = m_next /\ m_next' = "None"
     ELSE UNCHANGED <<m_pc, m_next>>
  /\ NoFault
  /\ ChainUnchanged
  /\ MakerDataUnchanged
  /\ UNCHANGED <<net, m_deadline>>

\* Faulty variant: a payment that was never sent is refunded.
MakerRefundEventsWide ==
  {"MakerPaymentDataSendFailed", "MakerPaymentWaitConfirmFailed",
   "TakerPaymentValidateFailed", "TakerPaymentWaitConfirmFailed",
   "TakerPaymentSpendFailed", "TakerPaymentSpendConfirmFailed",
   "MakerPaymentWaitRefundStarted", "MakerPaymentTransactionFailed"}

\* Events after which get_command refunds, and after which it finishes.
MakerRefundEvents ==
  {"MakerPaymentDataSendFailed", "MakerPaymentWaitConfirmFailed",
   "TakerPaymentValidateFailed", "TakerPaymentWaitConfirmFailed",
   "TakerPaymentSpendFailed", "TakerPaymentSpendConfirmFailed",
   "MakerPaymentWaitRefundStarted"}

MakerFinishEvents ==
  {"StartFailed", "NegotiateFailed", "TakerFeeValidateFailed",
   "MakerPaymentTransactionFailed", "TakerPaymentSpendConfirmed",
   "MakerPaymentRefundFailed", "MakerPaymentRefundFinished"}

\* MakerSavedEvent::get_command.
MakerGetCommand(event) ==
  CASE event = "Started" -> "Negotiate"
    [] event \in {"Negotiated", "MakerPaymentInstructionsReceived"} -> "WaitForTakerFee"
    [] event = "TakerFeeValidated" -> "SendPayment"
    [] event = "MakerPaymentSent" -> "WaitForTakerPayment"
    [] event \in {"TakerPaymentReceived", "TakerPaymentWaitConfirmStarted"}
         -> "ValidateTakerPayment"
    [] event = "TakerPaymentValidatedAndConfirmed" -> "SpendTakerPayment"
    [] event \in {"TakerPaymentSpent", "TakerPaymentSpendConfirmStarted"}
         -> "ConfirmTakerPaymentSpend"
    [] event \in MakerRefundEvents -> "PrepareForMakerPaymentRefund"
    [] event = "MakerPaymentRefundStarted" -> "RefundMakerPayment"
    [] event = "MakerPaymentRefunded" -> "FinalizeMakerPaymentRefund"
    [] event \in MakerFinishEvents -> "Finish"
    [] OTHER -> "None"

MakerRunning == m_pc \notin {"None", "Down", "Lost"}

\* load_from_saved refuses a swap whose first event is not Started.
MakerCrash ==
  /\ MakerRunning
  /\ crashes < MaxCrashes
  /\ crashes' = crashes + 1
  /\ m_pc' = IF "Started" \in m_saved THEN "Down" ELSE "Lost"
  /\ m_next' = "None"
  /\ m_pending' = <<>>
  /\ m_deadline' = 0
  /\ m_reward' = FALSE
  /\ m_taker_lock' = IF "Negotiated" \in m_saved THEN m_taker_lock ELSE 0
  /\ UNCHANGED <<now, htlc, lock, paid, net, faults, overdue>>
  /\ UNCHANGED <<m_saved, m_last, m_started_at>>

\* swap_kick_starts, load_from_db_by_uuid and init_msg_store.
MakerKickStart ==
  /\ m_pc = "Down"
  /\ m_pc' = MakerGetCommand(m_last)
  /\ NoFault
  /\ ChainUnchanged
  /\ UNCHANGED <<net, m_next, m_pending, m_saved, m_last, m_started_at, m_taker_lock,
                 m_reward, m_deadline>>

-----------------------------------------------------------------------------
(* recover_funds_of_swap on a finished maker swap.                         *)

\* Faulty variant: a failed send counts as nothing to recover.
MakerUnrecoverableEventsWide ==
  {"StartFailed", "NegotiateFailed", "TakerFeeValidateFailed",
   "TakerPaymentSpendConfirmed", "MakerPaymentRefunded", "MakerPaymentTransactionFailed"}

\* Events after which is_recoverable answers no.
MakerUnrecoverableEvents ==
  {"StartFailed", "NegotiateFailed", "TakerFeeValidateFailed",
   "TakerPaymentSpendConfirmed", "MakerPaymentRefunded"}

MakerIsRecoverable ==
  /\ "Finished" \in m_saved
  /\ m_saved \cap MakerUnrecoverableEvents = {}

\* MakerPaymentRefunded of an auto-refundable coin carries no transaction.
MakerRefundTxKnown ==
  "MakerPaymentRefunded" \in m_saved /\ "maker_payment" \notin AutoRefundable

\* Faulty variant: check_if_my_payment_sent is not asked for a payment the record misses.
MakerRecoverFundsRecorded == {"Started", "Finished", "MakerPaymentSent"} \subseteq m_saved

MakerRecoverFundsAccepts ==
  /\ {"Started", "Finished"} \subseteq m_saved
  /\ ~MakerRefundTxKnown
  /\ ~({"TakerPaymentSpent", "TakerPaymentSpendConfirmed"} \subseteq m_saved)
  /\ OnChain("maker_payment")

\* The action of RecoveredSwap, or "Error".
MakerRecovery ==
  IF ~MakerRecoverFundsAccepts THEN "Error"
  ELSE IF /\ Spent("maker_payment")
          /\ "TakerPaymentReceived" \in m_saved
          /\ Unclaimed("taker_payment")
       THEN "SpentOtherPayment"
  ELSE IF /\ Unclaimed("maker_payment")
          /\ "maker_payment" \notin AutoRefundable
          /\ CanRefundHtlc("maker_payment")
       THEN "RefundedMyPayment"
  ELSE "Error"

\* recover_funds writes nothing to the database.
MakerRecoverFunds ==
  /\ m_pc = "None"
  /\ MakerRecovery # "Error"
  /\ IF MakerRecovery = "SpentOtherPayment"
     THEN SpendPayment("taker_payment")
     ELSE RefundPayment("maker_payment")
  /\ UNCHANGED <<now, net, faults, crashes, overdue>>
  /\ UNCHANGED makerVars

-----------------------------------------------------------------------------
MakerHandler ==
  \/ MakerStart
  \/ MakerNegotiate
  \/ MakerNegotiateRecv
  \/ MakerNegotiateTimeout
  \/ MakerWaitTakerFee
  \/ MakerWaitTakerFeeRecv
  \/ MakerWaitTakerFeeTimeout
  \/ MakerSendPayment
  \/ MakerSendPaymentSend
  \/ MakerWaitForTakerPayment
  \/ MakerPaymentWaitConfirm
  \/ MakerTakerPaymentRecv
  \/ MakerTakerPaymentRecvTimeout
  \/ MakerValidateTakerPayment
  \/ MakerSpendTakerPayment
  \/ MakerSpendTakerPaymentSend
  \/ MakerConfirmTakerPaymentSpend
  \/ MakerPrepareForRefund
  \/ MakerWaitAutoRefund
  \/ MakerRefundPayment
  \/ MakerFinalizeRefund
  \/ MakerFinish
  \/ MakerSaveEvent
  \/ MakerKickStart

\* One step of the maker's swap task.
MakerStep ==
  /\ MakerHandler
  /\ overdue' = overdue \ {"maker"}
  /\ UNCHANGED <<now, crashes>>

\* The task has something to do at once, rather than something to wait for.
MakerReady ==
  CASE m_pc = "Negotiate.recv" ->
         now > m_deadline \/ Received("NegotiationReply") # {}
    [] m_pc = "WaitForTakerFee.recv" ->
         now > m_deadline \/ Received("TakerFee") # {}
    [] m_pc = "WaitForTakerPayment.confirm" ->
         \/ now > MakerPaymentConfDeadline(m_started_at)
         \/ Confirmed("maker_payment")
    [] m_pc = "WaitForTakerPayment.recv" ->
         now > m_deadline \/ Received("TakerPayment") # {}
    [] m_pc = "ValidateTakerPayment" ->
         \/ now > TakerPaymentSpendDeadline(m_started_at)
         \/ Confirmed("taker_payment")
    [] m_pc = "ConfirmTakerPaymentSpend" ->
         now > MakerWaitRefundUntil \/ Confirmed("taker_payment")
    [] m_pc = "RefundMakerPayment" ->
         \/ now > MakerPaymentLock
         \/ "maker_payment" \in AutoRefundable /\ ~Unclaimed("maker_payment")
    [] OTHER -> m_pc \notin {"None", "Lost"}

=============================================================================
