----------------------------- MODULE TakerSwap -----------------------------
(***************************************************************************)
(* The taker's side of one swap, driven by run_taker_swap in the same way  *)
(* as the maker's: handlers return a command and events, events are saved  *)
(* one by one, a restart continues from the command of the last one.       *)
(*                                                                         *)
(* t_pc takes the commands, the awaits inside them, and "Saving", "None",  *)
(* "Down", "Lost" as m_pc does, and "Panicked" after an unwrap() on None.  *)
(***************************************************************************)
EXTENDS SwapEnv

VARIABLES
  t_pc,          \* where run_taker_swap is
  t_next,        \* command to run once the pending events are saved
  t_pending,     \* events returned by the handler and not saved yet
  t_saved,       \* events in the database
  t_last,        \* the last of them, "NoEvent" at first
  t_started_at,  \* data.started_at
  t_maker_lock,  \* maker_payment_lock, from the maker's negotiation data
  t_reward,      \* watcher_reward: in memory only
  t_deadline     \* wait_until of the recv_swap_msg in progress

takerVars == <<t_pc, t_next, t_pending, t_saved, t_last, t_started_at,
               t_maker_lock, t_reward, t_deadline>>

TakerCommands ==
  {"Start", "Negotiate", "SendTakerFee", "WaitForMakerPayment", "ValidateMakerPayment",
   "SendTakerPayment", "WaitForTakerPaymentSpend", "SpendMakerPayment",
   "PrepareForTakerPaymentRefund", "RefundTakerPayment",
   "FinalizeTakerPaymentRefund", "Finish"}

TakerAwaits ==
  {"Negotiate.recv", "Negotiate.negotiated", "SendTakerFee.send",
   "WaitForMakerPayment.recv", "SendTakerPayment.send",
   "WaitForTakerPaymentSpend.confirm", "WaitForTakerPaymentSpend.spend"}

TakerEvents ==
  {"Started", "StartFailed", "Negotiated", "NegotiateFailed", "TakerFeeSent",
   "TakerFeeSendFailed", "TakerPaymentInstructionsReceived", "MakerPaymentReceived",
   "MakerPaymentWaitConfirmStarted", "MakerPaymentValidatedAndConfirmed",
   "MakerPaymentValidateFailed", "MakerPaymentWaitConfirmFailed", "TakerPaymentSent",
   "WatcherMessageSent", "TakerPaymentTransactionFailed", "TakerPaymentDataSendFailed",
   "TakerPaymentWaitConfirmFailed", "TakerPaymentSpent", "TakerPaymentWaitForSpendFailed",
   "MakerPaymentSpent", "MakerPaymentSpendFailed", "TakerPaymentWaitRefundStarted",
   "TakerPaymentRefundStarted", "TakerPaymentRefunded", "TakerPaymentRefundFailed",
   "TakerPaymentRefundFinished", "Finished"}

TakerTypeOK ==
  /\ t_pc \in TakerCommands \cup TakerAwaits
              \cup {"Saving", "None", "Down", "Lost", "Panicked"}
  /\ t_next \in TakerCommands \cup {"None"}
  /\ t_pending \in Seq(TakerEvents)
  /\ t_saved \subseteq TakerEvents
  /\ t_last \in t_saved \cup {"NoEvent"}
  /\ t_started_at \in Nat
  /\ t_maker_lock \in Nat
  /\ t_reward \in BOOLEAN
  /\ t_deadline \in Nat

TakerInit ==
  /\ t_pc = "Start"
  /\ t_next = "None"
  /\ t_pending = <<>>
  /\ t_saved = {}
  /\ t_last = "NoEvent"
  /\ t_started_at = 0
  /\ t_maker_lock = 0
  /\ t_reward = FALSE
  /\ t_deadline = 0

TakerPaymentLock == t_started_at + LockDuration
MakerPaymentWait == MakerPaymentConfDeadline(t_started_at)

\* A handler returns Ok((command, events)); nothing of its waits is kept.
TakerReturn(command, events) ==
  /\ t_pc' = "Saving"
  /\ t_next' = command
  /\ t_pending' = events
  /\ t_deadline' = 0
  /\ UNCHANGED <<t_saved, t_last>>

\* A handler moves on to its next await.
TakerAwait(pc, deadline) ==
  /\ t_pc' = pc
  /\ t_deadline' = deadline
  /\ UNCHANGED <<t_next, t_pending, t_saved, t_last>>

\* The return of the failures that lead to a refund of the taker payment.
TakerReturnRefund(event) ==
  TakerReturn("PrepareForTakerPaymentRefund", <<event, "TakerPaymentWaitRefundStarted">>)

TakerDataUnchanged == UNCHANGED <<t_started_at, t_maker_lock, t_reward>>

-----------------------------------------------------------------------------
(* Start, negotiation and the fee.                                         *)

TakerStart ==
  /\ t_pc = "Start"
  /\ now <= StartWindow
  /\ \/ /\ Fault
        /\ TakerReturn("Finish", <<"StartFailed">>)
        /\ UNCHANGED <<t_started_at, t_reward>>
     \/ /\ NoFault
        /\ TakerReturn("Negotiate", <<"Started">>)
        /\ t_started_at' = now
        /\ t_reward' = UseWatcherReward
  /\ ChainUnchanged
  /\ UNCHANGED <<net, t_maker_lock>>

TakerNegotiate ==
  /\ t_pc = "Negotiate"
  /\ TakerAwait("Negotiate.recv", WaitUntil(NegotiationTimeout))
  /\ NoFault
  /\ ChainUnchanged
  /\ TakerDataUnchanged
  /\ UNCHANGED net

\* The maker's data is checked and answered; maker_payment_lock is kept in memory
\* until the Negotiated event carries it.
TakerNegotiateRecv ==
  /\ t_pc = "Negotiate.recv"
  /\ \E msg \in Received("Negotiation") :
       /\ \/ /\ \/ NoFault /\ ~NegotiationDataOk(msg, t_started_at, MakerLockDuration)
                \/ Fault
             /\ TakerReturn("Finish", <<"NegotiateFailed">>)
             /\ UNCHANGED <<net, t_maker_lock>>
          \/ /\ NegotiationDataOk(msg, t_started_at, MakerLockDuration)
             /\ NoFault
             /\ Broadcast([kind |-> "NegotiationReply", started_at |-> t_started_at,
                           payment_locktime |-> TakerPaymentLock])
             /\ t_maker_lock' = msg.payment_locktime
             /\ TakerAwait("Negotiate.negotiated", WaitUntil(NegotiationTimeout))
  /\ ChainUnchanged
  /\ UNCHANGED <<t_started_at, t_reward>>

TakerNegotiated ==
  /\ t_pc = "Negotiate.negotiated"
  /\ \E msg \in Received("Negotiated") :
       /\ IF msg.ok
          THEN TakerReturn("SendTakerFee", <<"Negotiated">>)
          ELSE TakerReturn("Finish", <<"NegotiateFailed">>)
  /\ NoFault
  /\ ChainUnchanged
  /\ TakerDataUnchanged
  /\ UNCHANGED net

TakerNegotiateTimeout ==
  /\ \/ /\ t_pc = "Negotiate.recv"
        /\ now > t_deadline
     \/ /\ t_pc = "Negotiate.negotiated"
        /\ now > t_deadline
  /\ TakerReturn("Finish", <<"NegotiateFailed">>)
  /\ NoFault
  /\ ChainUnchanged
  /\ TakerDataUnchanged
  /\ UNCHANGED net

\* send_taker_fee: the clock is read first, the fee goes out later.
TakerSendFee ==
  /\ t_pc = "SendTakerFee"
  /\ \/ /\ now > PaymentSendDeadline(t_started_at)
        /\ TakerReturn("Finish", <<"TakerFeeSendFailed">>)
     \/ /\ now <= PaymentSendDeadline(t_started_at)
        /\ TakerAwait("SendTakerFee.send", 0)
  /\ NoFault
  /\ ChainUnchanged
  /\ TakerDataUnchanged
  /\ UNCHANGED net

\* No earlier fee transaction is looked for.
FeeSent == paid' = [paid EXCEPT !["taker_fee"] = @ + 1] /\ UNCHANGED <<htlc, lock>>

TakerSendFeeSend ==
  /\ t_pc = "SendTakerFee.send"
  /\ \/ /\ NoFault
        /\ FeeSent
        /\ TakerReturn("WaitForMakerPayment", <<"TakerFeeSent">>)
     \/ /\ Fault
        /\ ChainUnchanged \/ FeeSent
        /\ TakerReturn("Finish", <<"TakerFeeSendFailed">>)
  /\ TakerDataUnchanged
  /\ UNCHANGED net

-----------------------------------------------------------------------------
(* The payments.                                                           *)

TakerWaitForMakerPayment ==
  /\ t_pc = "WaitForMakerPayment"
  /\ \/ /\ Fault
        /\ TakerReturn("Finish", <<"MakerPaymentValidateFailed">>)
        /\ UNCHANGED net
     \/ /\ NoFault
        /\ Broadcast([kind |-> "TakerFee"])
        /\ TakerAwait("WaitForMakerPayment.recv", WaitUntil(FeeTimeout))
  /\ ChainUnchanged
  /\ TakerDataUnchanged

\* Faulty variant: the payment is the last of the events.
TakerMakerPaymentRecvLast ==
  /\ t_pc = "WaitForMakerPayment.recv"
  /\ Received("MakerPayment") # {}
  /\ TakerReturn("ValidateMakerPayment",
                 <<"TakerPaymentInstructionsReceived", "MakerPaymentWaitConfirmStarted",
                   "MakerPaymentReceived">>)
  /\ NoFault
  /\ ChainUnchanged
  /\ TakerDataUnchanged
  /\ UNCHANGED net

TakerMakerPaymentRecv ==
  /\ t_pc = "WaitForMakerPayment.recv"
  /\ \E msg \in Received("MakerPayment") :
       /\ \/ Fault /\ TakerReturn("Finish", <<"MakerPaymentValidateFailed">>)
          \/ /\ NoFault
             /\ TakerReturn("ValidateMakerPayment",
                            <<"TakerPaymentInstructionsReceived", "MakerPaymentReceived",
                              "MakerPaymentWaitConfirmStarted">>)
  /\ ChainUnchanged
  /\ TakerDataUnchanged
  /\ UNCHANGED net

TakerMakerPaymentRecvTimeout ==
  /\ t_pc = "WaitForMakerPayment.recv"
  /\ now > t_deadline
  /\ TakerReturn("Finish", <<"MakerPaymentValidateFailed">>)
  /\ NoFault
  /\ ChainUnchanged
  /\ TakerDataUnchanged
  /\ UNCHANGED net

\* validate_maker_payment checks the lock time the maker announced, among others.
MakerPaymentValid == lock["maker_payment"] = t_maker_lock

\* Faulty variant: zero confirmations are enough.
MakerPaymentSeenInTime == now <= MakerPaymentWait /\ OnChain("maker_payment")

\* wait_for_confirmations of the maker payment succeeds.
MakerPaymentConfirmedInTime == now <= MakerPaymentWait /\ Confirmed("maker_payment")

TakerValidateMakerPayment ==
  /\ t_pc = "ValidateMakerPayment"
  /\ "MakerPaymentReceived" \in t_saved
  /\ \/ /\ \/ NoFault /\ now > MakerPaymentWait
           \/ Fault
        /\ TakerReturn("Finish", <<"MakerPaymentWaitConfirmFailed">>)
     \/ /\ MakerPaymentConfirmedInTime
        /\ \/ /\ t_reward
              /\ Fault
              /\ TakerReturn("Finish", <<"TakerPaymentTransactionFailed">>)
           \/ /\ IF MakerPaymentValid THEN Fault ELSE NoFault
              /\ TakerReturn("Finish", <<"MakerPaymentValidateFailed">>)
           \/ /\ NoFault
              /\ MakerPaymentValid
              /\ TakerReturn("SendTakerPayment", <<"MakerPaymentValidatedAndConfirmed">>)
  /\ ChainUnchanged
  /\ TakerDataUnchanged
  /\ UNCHANGED net

\* maker_payment.unwrap() when no MakerPaymentReceived event was ever saved: the
\* swap task dies, in this process and after every restart.
TakerValidatePanics ==
  /\ t_pc = "ValidateMakerPayment"
  /\ "MakerPaymentReceived" \notin t_saved
  /\ t_pc' = "Panicked"
  /\ NoFault
  /\ ChainUnchanged
  /\ TakerDataUnchanged
  /\ UNCHANGED <<net, t_next, t_pending, t_saved, t_last, t_deadline>>

\* send_taker_payment: the clock is read first, the transaction goes out later.
TakerSendPayment ==
  /\ t_pc = "SendTakerPayment"
  /\ \/ /\ now > MakerPaymentWait
        /\ TakerReturn("Finish", <<"TakerPaymentTransactionFailed">>)
     \/ /\ now <= MakerPaymentWait
        /\ TakerAwait("SendTakerPayment.send", 0)
  /\ NoFault
  /\ ChainUnchanged
  /\ TakerDataUnchanged
  /\ UNCHANGED net

\* check_if_my_payment_sent finds the payment of an earlier attempt, or it is sent.
TakerPaymentFound ==
  IF OnChain("taker_payment")
  THEN ChainUnchanged
  ELSE SendPayment("taker_payment", TakerPaymentLock)

\* The preimages for the watchers may fail to be made; the swap goes on without.
TakerPaymentSentEvents ==
  {<<"TakerPaymentSent">>}
    \cup (IF UseWatchers THEN {<<"TakerPaymentSent", "WatcherMessageSent">>} ELSE {})

TakerSendPaymentSend ==
  /\ t_pc = "SendTakerPayment.send"
  /\ \/ /\ NoFault
        /\ TakerPaymentFound
        /\ \E events \in TakerPaymentSentEvents :
             TakerReturn("WaitForTakerPaymentSpend", events)
     \/ /\ Fault
        /\ ChainUnchanged \/ TakerPaymentFound
        /\ TakerReturn("Finish", <<"TakerPaymentTransactionFailed">>)
  /\ TakerDataUnchanged
  /\ UNCHANGED net

TakerWaitForPaymentSpend ==
  /\ t_pc = "WaitForTakerPaymentSpend"
  /\ Broadcast([kind |-> "TakerPayment"])
  /\ TakerAwait("WaitForTakerPaymentSpend.confirm", 0)
  /\ NoFault
  /\ ChainUnchanged
  /\ TakerDataUnchanged

TakerPaymentWaitConfirm ==
  /\ t_pc = "WaitForTakerPaymentSpend.confirm"
  /\ \/ /\ NoFault
        /\ now <= TakerPaymentLock
        /\ Confirmed("taker_payment")
        /\ TakerAwait("WaitForTakerPaymentSpend.spend", 0)
     \/ /\ \/ NoFault /\ now > TakerPaymentLock
           \/ Fault
        /\ TakerReturnRefund("TakerPaymentWaitConfirmFailed")
  /\ ChainUnchanged
  /\ TakerDataUnchanged
  /\ UNCHANGED net

\* Faulty variant: a refund is taken for a spend.
TakerPaymentTaken == OnChain("taker_payment") /\ ~Unclaimed("taker_payment")

\* A transaction that takes the taker payment with the secret is on its chain.
TakerPaymentSpendFound == Spent("taker_payment")

\* wait_for_htlc_tx_spend: some coins look at the chain before the clock, some after.
TakerPaymentSpendSeen ==
  /\ t_pc = "WaitForTakerPaymentSpend.spend"
  /\ TakerPaymentSpendFound
  /\ \/ NoFault /\ TakerReturn("SpendMakerPayment", <<"TakerPaymentSpent">>)
     \/ Fault /\ TakerReturn("Finish", <<"TakerPaymentWaitForSpendFailed">>)
  /\ ChainUnchanged
  /\ TakerDataUnchanged
  /\ UNCHANGED net

TakerPaymentSpendTimeout ==
  /\ t_pc = "WaitForTakerPaymentSpend.spend"
  /\ \/ NoFault /\ now > TakerPaymentLock
     \/ Fault
  /\ TakerReturnRefund("TakerPaymentWaitForSpendFailed")
  /\ ChainUnchanged
  /\ TakerDataUnchanged
  /\ UNCHANGED net

TakerSpendMakerPayment ==
  /\ t_pc = "SpendMakerPayment"
  /\ \/ /\ NoFault
        /\ Unclaimed("maker_payment")
        /\ SpendPayment("maker_payment")
        /\ TakerReturn("Finish", <<"MakerPaymentSpent">>)
     \/ /\ NoFault
        /\ ~Unclaimed("maker_payment")
        /\ ChainUnchanged
        /\ TakerReturn("Finish", <<"MakerPaymentSpendFailed">>)
     \/ /\ Fault
        /\ Unclaimed("maker_payment")
        /\ ChainUnchanged \/ SpendPayment("maker_payment")
        /\ TakerReturn("Finish", <<"MakerPaymentSpendFailed">>)
  /\ TakerDataUnchanged
  /\ UNCHANGED net

-----------------------------------------------------------------------------
(* The refund.                                                             *)

\* on_taker_payment_refund_start does nothing for any coin.
TakerPrepareForRefund ==
  /\ t_pc = "PrepareForTakerPaymentRefund"
  /\ TakerReturn("RefundTakerPayment", <<"TakerPaymentRefundStarted">>)
  /\ NoFault
  /\ ChainUnchanged
  /\ TakerDataUnchanged
  /\ UNCHANGED net

\* wait_for_htlc_refund of an auto-refundable coin.
TakerWaitAutoRefund ==
  /\ t_pc = "RefundTakerPayment"
  /\ "taker_payment" \in AutoRefundable
  /\ \/ /\ Refunded("taker_payment")
        /\ NoFault
        /\ TakerReturn("FinalizeTakerPaymentRefund", <<"TakerPaymentRefunded">>)
     \/ /\ \/ NoFault /\ (Spent("taker_payment") \/ now > TakerPaymentLock)
           \/ Fault
        /\ TakerReturn("Finish", <<"TakerPaymentRefundFailed">>)
  /\ ChainUnchanged
  /\ TakerDataUnchanged
  /\ UNCHANGED net

TakerRefundPayment ==
  /\ t_pc = "RefundTakerPayment"
  /\ "taker_payment" \notin AutoRefundable
  /\ now > TakerPaymentLock
  /\ \/ /\ NoFault
        /\ Unclaimed("taker_payment")
        /\ RefundPayment("taker_payment")
        /\ TakerReturn("FinalizeTakerPaymentRefund", <<"TakerPaymentRefunded">>)
     \/ /\ NoFault
        /\ ~Unclaimed("taker_payment")
        /\ ChainUnchanged
        /\ TakerReturn("Finish", <<"TakerPaymentRefundFailed">>)
     \/ /\ Fault
        /\ Unclaimed("taker_payment")
        /\ ChainUnchanged \/ RefundPayment("taker_payment")
        /\ TakerReturn("Finish", <<"TakerPaymentRefundFailed">>)
  /\ TakerDataUnchanged
  /\ UNCHANGED net

\* on_taker_payment_refund_success: a lightning maker payment is failed backwards.
TakerFinalizeRefund ==
  /\ t_pc = "FinalizeTakerPaymentRefund"
  /\ IF "maker_payment" \in AutoRefundable /\ Unclaimed("maker_payment")
     THEN htlc' = [htlc EXCEPT !["maker_payment"] = "refunded"] /\ UNCHANGED <<lock, paid>>
     ELSE ChainUnchanged
  /\ TakerReturn("Finish", <<"TakerPaymentRefundFinished">>)
  /\ NoFault
  /\ TakerDataUnchanged
  /\ UNCHANGED net

TakerFinish ==
  /\ t_pc = "Finish"
  /\ TakerReturn("None", <<"Finished">>)
  /\ NoFault
  /\ ChainUnchanged
  /\ TakerDataUnchanged
  /\ UNCHANGED net

-----------------------------------------------------------------------------
(* The driver: saving events, crashing, starting again.                    *)

\* The loop of run_taker_swap: one event saved and applied.
TakerSaveEvent ==
  /\ t_pc = "Saving"
  /\ t_saved' = t_saved \cup {Head(t_pending)}
  /\ t_last' = Head(t_pending)
  /\ t_pending' = Tail(t_pending)
  /\ IF Len(t_pending) = 1
     THEN t_pc' = t_next /\ t_next' = "None"
     ELSE UNCHANGED <<t_pc, t_next>>
  /\ NoFault
  /\ ChainUnchanged
  /\ TakerDataUnchanged
  /\ UNCHANGED <<net, t_deadline>>

\* Faulty variant: a payment that was never sent is refunded.
TakerRefundEventsWide ==
  {"TakerPaymentDataSendFailed", "TakerPaymentWaitForSpendFailed",
   "TakerPaymentWaitConfirmFailed", "MakerPaymentSpendFailed",
   "TakerPaymentWaitRefundStarted", "TakerPaymentTransactionFailed"}

\* Events after which get_command refunds, and after which it finishes.
TakerRefundEvents ==
  {"TakerPaymentDataSendFailed", "TakerPaymentWaitForSpendFailed",
   "TakerPaymentWaitConfirmFailed", "MakerPaymentSpendFailed",
   "TakerPaymentWaitRefundStarted"}

TakerFinishEvents ==
  {"StartFailed", "NegotiateFailed", "TakerFeeSendFailed", "MakerPaymentValidateFailed",
   "MakerPaymentWaitConfirmFailed", "TakerPaymentTransactionFailed", "MakerPaymentSpent",
   "TakerPaymentRefundFailed", "TakerPaymentRefundFinished"}

\* TakerSavedEvent::get_command.
TakerGetCommand(event) ==
  CASE event = "Started" -> "Negotiate"
    [] event = "Negotiated" -> "SendTakerFee"
    [] event = "TakerFeeSent" -> "WaitForMakerPayment"
    [] event \in {"TakerPaymentInstructionsReceived", "MakerPaymentReceived",
                  "MakerPaymentWaitConfirmStarted"} -> "ValidateMakerPayment"
    [] event = "MakerPaymentValidatedAndConfirmed" -> "SendTakerPayment"
    [] event \in {"TakerPaymentSent", "WatcherMessageSent"} -> "WaitForTakerPaymentSpend"
    [] event = "TakerPaymentSpent" -> "SpendMakerPayment"
    [] event \in TakerRefundEvents -> "PrepareForTakerPaymentRefund"
    [] event = "TakerPaymentRefundStarted" -> "RefundTakerPayment"
    [] event = "TakerPaymentRefunded" -> "FinalizeTakerPaymentRefund"
    [] event \in TakerFinishEvents -> "Finish"
    [] OTHER -> "None"

TakerRunning == t_pc \notin {"None", "Down", "Lost", "Panicked"}

\* load_from_saved refuses a swap whose first event is not Started.
TakerCrash ==
  /\ TakerRunning
  /\ crashes < MaxCrashes
  /\ crashes' = crashes + 1
  /\ t_pc' = IF "Started" \in t_saved THEN "Down" ELSE "Lost"
  /\ t_next' = "None"
  /\ t_pending' = <<>>
  /\ t_deadline' = 0
  /\ t_reward' = FALSE
  /\ t_maker_lock' = IF "Negotiated" \in t_saved THEN t_maker_lock ELSE 0
  /\ UNCHANGED <<now, htlc, lock, paid, net, faults, overdue>>
  /\ UNCHANGED <<t_saved, t_last, t_started_at>>

\* swap_kick_starts, load_from_db_by_uuid and init_msg_store.
TakerKickStart ==
  /\ t_pc = "Down"
  /\ t_pc' = TakerGetCommand(t_last)
  /\ NoFault
  /\ ChainUnchanged
  /\ UNCHANGED <<net, t_next, t_pending, t_saved, t_last, t_started_at, t_maker_lock,
                 t_reward, t_deadline>>

-----------------------------------------------------------------------------
(* recover_funds_of_swap on a finished taker swap.                         *)

\* Faulty variant: a failed send counts as nothing to recover.
TakerUnrecoverableEventsWide ==
  {"StartFailed", "NegotiateFailed", "TakerFeeSendFailed", "MakerPaymentValidateFailed",
   "TakerPaymentRefunded", "MakerPaymentSpent", "MakerPaymentWaitConfirmFailed",
   "TakerPaymentTransactionFailed"}

\* Events after which is_recoverable answers no.
TakerUnrecoverableEvents ==
  {"StartFailed", "NegotiateFailed", "TakerFeeSendFailed", "MakerPaymentValidateFailed",
   "TakerPaymentRefunded", "MakerPaymentSpent", "MakerPaymentWaitConfirmFailed"}

TakerIsRecoverable ==
  /\ "Finished" \in t_saved
  /\ t_saved \cap TakerUnrecoverableEvents = {}

\* TakerPaymentRefunded of an auto-refundable coin carries no transaction.
TakerRefundTxKnown ==
  "TakerPaymentRefunded" \in t_saved /\ "taker_payment" \notin AutoRefundable

\* Faulty variant: check_if_my_payment_sent is not asked for a payment the record misses.
TakerRecoverFundsRecorded ==
  {"Started", "Finished", "MakerPaymentReceived", "TakerPaymentSent"} \subseteq t_saved

TakerRecoverFundsAccepts ==
  /\ {"Started", "Finished", "MakerPaymentReceived"} \subseteq t_saved
  /\ ~TakerRefundTxKnown
  /\ "MakerPaymentSpent" \notin t_saved
  /\ OnChain("taker_payment")

\* The action of RecoveredSwap, or "Error".
TakerRecovery ==
  IF ~TakerRecoverFundsAccepts THEN "Error"
  ELSE IF TakerPaymentSpendFound /\ Unclaimed("maker_payment")
       THEN "SpentOtherPayment"
  ELSE IF /\ Unclaimed("taker_payment")
          /\ "taker_payment" \notin AutoRefundable
          /\ CanRefundHtlc("taker_payment")
       THEN "RefundedMyPayment"
  ELSE "Error"

\* recover_funds writes nothing to the database.
TakerRecoverFunds ==
  /\ t_pc = "None"
  /\ TakerRecovery # "Error"
  /\ IF TakerRecovery = "SpentOtherPayment"
     THEN SpendPayment("maker_payment")
     ELSE RefundPayment("taker_payment")
  /\ UNCHANGED <<now, net, faults, crashes, overdue>>
  /\ UNCHANGED takerVars

-----------------------------------------------------------------------------
TakerHandler ==
  \/ TakerStart
  \/ TakerNegotiate
  \/ TakerNegotiateRecv
  \/ TakerNegotiated
  \/ TakerNegotiateTimeout
  \/ TakerSendFee
  \/ TakerSendFeeSend
  \/ TakerWaitForMakerPayment
  \/ TakerMakerPaymentRecv
  \/ TakerMakerPaymentRecvTimeout
  \/ TakerValidateMakerPayment
  \/ TakerValidatePanics
  \/ TakerSendPayment
  \/ TakerSendPaymentSend
  \/ TakerWaitForPaymentSpend
  \/ TakerPaymentWaitConfirm
  \/ TakerPaymentSpendSeen
  \/ TakerPaymentSpendTimeout
  \/ TakerSpendMakerPayment
  \/ TakerPrepareForRefund
  \/ TakerWaitAutoRefund
  \/ TakerRefundPayment
  \/ TakerFinalizeRefund
  \/ TakerFinish
  \/ TakerSaveEvent
  \/ TakerKickStart

\* One step of the taker's swap task.
TakerStep ==
  /\ TakerHandler
  /\ overdue' = overdue \ {"taker"}
  /\ UNCHANGED <<now, crashes>>

\* The task has something to do at once, rather than something to wait for.
TakerReady ==
  CASE t_pc = "Negotiate.recv" ->
         now > t_deadline \/ Received("Negotiation") # {}
    [] t_pc = "Negotiate.negotiated" ->
         now > t_deadline \/ Received("Negotiated") # {}
    [] t_pc = "WaitForMakerPayment.recv" ->
         now > t_deadline \/ Received("MakerPayment") # {}
    [] t_pc = "ValidateMakerPayment" ->
         now > MakerPaymentWait \/ Confirmed("maker_payment")
    [] t_pc = "WaitForTakerPaymentSpend.confirm" ->
         now > TakerPaymentLock \/ Confirmed("taker_payment")
    [] t_pc = "WaitForTakerPaymentSpend.spend" ->
         now > TakerPaymentLock \/ Spent("taker_payment")
    [] t_pc = "RefundTakerPayment" ->
         \/ now > TakerPaymentLock
         \/ "taker_payment" \in AutoRefundable /\ ~Unclaimed("taker_payment")
    [] OTHER -> t_pc \notin {"None", "Lost", "Panicked"}

=============================================================================
