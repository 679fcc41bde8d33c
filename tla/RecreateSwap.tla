---------------------------- MODULE RecreateSwap ----------------------------
(***************************************************************************)
(* recreate_swap_data: a party that lost the record of a swap gets one made *)
(* from the record of the other party, imports it and kick-starts it.      *)
(*                                                                         *)
(* The call changes no state, so it is a function of a record.  It is      *)
(* evaluated at every state of AtomicSwap, that is on every record a node  *)
(* can have saved when the other one asks.                                 *)
(***************************************************************************)
EXTENDS AtomicSwapInduction

\* The order in which run_maker_swap and run_taker_swap append the events of a record
\* after Started and Negotiated.
MakerLogOrder ==
  <<"MakerPaymentInstructionsReceived", "TakerFeeValidated", "TakerFeeValidateFailed",
    "MakerPaymentSent", "MakerPaymentDataSendFailed", "MakerPaymentWaitConfirmFailed",
    "TakerPaymentReceived", "TakerPaymentWaitConfirmStarted",
    "MakerPaymentTransactionFailed", "TakerPaymentValidatedAndConfirmed",
    "TakerPaymentValidateFailed", "TakerPaymentWaitConfirmFailed", "TakerPaymentSpent",
    "TakerPaymentSpendFailed", "TakerPaymentSpendConfirmStarted",
    "TakerPaymentSpendConfirmed", "TakerPaymentSpendConfirmFailed",
    "MakerPaymentWaitRefundStarted", "MakerPaymentRefundStarted", "MakerPaymentRefunded",
    "MakerPaymentRefundFailed", "MakerPaymentRefundFinished", "Finished">>

TakerLogOrder ==
  <<"TakerFeeSent", "TakerFeeSendFailed", "TakerPaymentInstructionsReceived",
    "MakerPaymentReceived", "MakerPaymentWaitConfirmStarted",
    "MakerPaymentValidatedAndConfirmed", "MakerPaymentValidateFailed",
    "MakerPaymentWaitConfirmFailed", "TakerPaymentSent", "WatcherMessageSent",
    "TakerPaymentTransactionFailed", "TakerPaymentDataSendFailed",
    "TakerPaymentWaitConfirmFailed", "TakerPaymentSpent", "TakerPaymentWaitForSpendFailed",
    "MakerPaymentSpent", "MakerPaymentSpendFailed", "TakerPaymentWaitRefundStarted",
    "TakerPaymentRefundStarted", "TakerPaymentRefunded", "TakerPaymentRefundFailed",
    "TakerPaymentRefundFinished", "Finished">>

-----------------------------------------------------------------------------
(* convert_taker_to_maker_events and convert_maker_to_taker_events: a loop *)
(* over the events after the second, which some of them leave at once.     *)

\* The record the loop adds to: its events and the last of them.  fee is
\* taker_fee_ident, over says that the loop was left.
Unconverted ==
  [events |-> {"Started", "Negotiated"}, last |-> "Negotiated", fee |-> FALSE, over |-> FALSE]

Push(acc, events, last) == [acc EXCEPT !.events = @ \cup events \cup {last}, !.last = last]
PushLast(acc, events, last) == [Push(acc, events, last) EXCEPT !.over = TRUE]

\* Failures of the taker after which the maker has to take its payment back.
TakerFailedAfterPayment ==
  {"MakerPaymentValidateFailed", "MakerPaymentWaitConfirmFailed",
   "TakerPaymentTransactionFailed", "TakerPaymentDataSendFailed",
   "TakerPaymentWaitConfirmFailed"}

\* One round of the loop of convert_taker_to_maker_events.
ConvertTakerEvent(acc, event) ==
  IF acc.over THEN acc
  ELSE CASE event = "TakerFeeSent" -> [acc EXCEPT !.fee = TRUE]
         [] event = "TakerFeeSendFailed" -> PushLast(acc, {"TakerFeeValidateFailed"}, "Finished")
         [] event = "MakerPaymentReceived" ->
              Push([acc EXCEPT !.fee = FALSE],
                   IF acc.fee THEN {"TakerFeeValidated"} ELSE {}, "MakerPaymentSent")
         [] event \in TakerFailedAfterPayment ->
              PushLast(acc, {"TakerPaymentValidateFailed"}, "MakerPaymentWaitRefundStarted")
         [] event = "TakerPaymentSent" ->
              Push(acc, {"TakerPaymentReceived"}, "TakerPaymentWaitConfirmStarted")
         [] event = "TakerPaymentSpent" ->
              PushLast(acc, {"TakerPaymentValidatedAndConfirmed", "TakerPaymentSpent",
                             "TakerPaymentSpendConfirmStarted", "TakerPaymentSpendConfirmed"},
                       "Finished")
         [] event = "TakerPaymentWaitForSpendFailed" ->
              PushLast(acc, {"TakerPaymentSpendFailed"}, "MakerPaymentWaitRefundStarted")
         [] OTHER -> acc

\* The events of a failed search for the spend, and of a secret that is not found.
PushSpendNotFound(acc) ==
  PushLast(acc, {"TakerPaymentWaitForSpendFailed"}, "TakerPaymentWaitRefundStarted")

\* Faulty variant: the taker payment is not recorded.
ConvertMakerEventUnpaid(acc, event, extracted) ==
  IF acc.over THEN acc
  ELSE CASE event = "TakerFeeValidated" -> Push(acc, {}, "TakerFeeSent")
         [] event = "MakerPaymentSent" ->
              Push(acc, {"MakerPaymentReceived"}, "MakerPaymentWaitConfirmStarted")
         [] event = "TakerPaymentReceived" -> Push(acc, {}, "MakerPaymentValidatedAndConfirmed")
         [] event \in {"TakerPaymentValidateFailed", "TakerPaymentSpendFailed",
                       "TakerPaymentWaitConfirmFailed"} -> PushSpendNotFound(acc)
         [] OTHER -> acc

\* One round of the loop of convert_maker_to_taker_events; extracted is the outcome of
\* extract_secret.
ConvertMakerEvent(acc, event, extracted) ==
  IF acc.over THEN acc
  ELSE CASE event = "TakerFeeValidated" -> Push(acc, {}, "TakerFeeSent")
         [] event \in {"TakerFeeValidateFailed", "MakerPaymentTransactionFailed",
                       "MakerPaymentDataSendFailed", "MakerPaymentWaitConfirmFailed"} ->
              PushLast(acc, {"MakerPaymentValidateFailed"}, "Finished")
         [] event = "MakerPaymentSent" ->
              Push(acc, {"MakerPaymentReceived"}, "MakerPaymentWaitConfirmStarted")
         [] event = "TakerPaymentReceived" ->
              Push(acc, {"MakerPaymentValidatedAndConfirmed"}, "TakerPaymentSent")
         [] event \in {"TakerPaymentValidateFailed", "TakerPaymentSpendFailed",
                       "TakerPaymentWaitConfirmFailed"} -> PushSpendNotFound(acc)
         [] event = "TakerPaymentSpent" ->
              IF extracted THEN PushLast(acc, {}, "TakerPaymentSpent") ELSE PushSpendNotFound(acc)
         [] OTHER -> acc

-----------------------------------------------------------------------------
(* The record of the other side.                                           *)

\* The first two events are Started and Negotiated, or the call fails.
IsNegotiated(saved) == {"Started", "Negotiated"} \subseteq saved

\* recreate_maker_swap, from the taker's record: the loop has read the events that are
\* among the first i of the order.
RecreateMakerSwap(saved) ==
  LET converted[i \in 0..Len(TakerLogOrder)] ==
        IF i = 0 THEN Unconverted
        ELSE IF TakerLogOrder[i] \notin saved THEN converted[i - 1]
        ELSE ConvertTakerEvent(converted[i - 1], TakerLogOrder[i])
  IN  converted[Len(TakerLogOrder)]

\* recreate_taker_swap, from the maker's record; the maker coin is active.
RecreateTakerSwap(saved, extracted) ==
  LET converted[i \in 0..Len(MakerLogOrder)] ==
        IF i = 0 THEN Unconverted
        ELSE IF MakerLogOrder[i] \notin saved THEN converted[i - 1]
        ELSE ConvertMakerEvent(converted[i - 1], MakerLogOrder[i], extracted)
  IN  converted[Len(MakerLogOrder)]

-----------------------------------------------------------------------------
(* What a recreated record is good for.                                    *)

\* A maker that kick-starts a record made from the taker's finds on the chains what
\* its record says and in its record what the next handler unwraps, and if its record
\* is finished then it has no payment left to claim.  The exception is a taker that
\* gave up before it heard of the maker payment: the record sends the maker to refund
\* a payment the record does not have.
RecreatedMakerSound ==
  LET record == RecreateMakerSwap(t_saved)
      missing == "MakerPaymentValidateFailed" \in t_saved
                   /\ "MakerPaymentReceived" \notin t_saved
  IN  IsNegotiated(t_saved) =>
        /\ \A event \in record.events : MakerEventBacked(event)
        /\ MakerRequires(MakerGetCommand(record.last)) \subseteq record.events \/ missing
        /\ record.last = "Finished" => ~OnChain("maker_payment") \/ Spent("taker_payment")

\* The same for a taker and the maker's record.  The exceptions are a maker that gave
\* up waiting for the taker payment, whose record sends the taker to refund a payment
\* the record does not have; and a maker that could not announce its payment again
\* after a restart, confirm it, or estimate the watcher reward, whose record finishes
\* the taker's swap although the taker may have paid.
RecreatedTakerSound ==
  \A extracted \in BOOLEAN :
    LET record == RecreateTakerSwap(m_saved, extracted)
        missing == "TakerPaymentValidateFailed" \in m_saved
                     /\ "TakerPaymentReceived" \notin m_saved
        abandoned == \/ "MakerPaymentDataSendFailed" \in m_saved
                     \/ "MakerPaymentWaitConfirmFailed" \in m_saved
                     \/ {"TakerPaymentReceived", "MakerPaymentTransactionFailed"}
                          \subseteq m_saved
    IN  IsNegotiated(m_saved) =>
          /\ \A event \in record.events : TakerEventBacked(event)
          /\ TakerRequires(TakerGetCommand(record.last)) \subseteq record.events \/ missing
          /\ record.last = "Finished" => ~OnChain("taker_payment") \/ abandoned

\* Either side can go on with a record made from the other's, whenever it is made.
RecreatedSwapSound == RecreatedMakerSound /\ RecreatedTakerSound

-----------------------------------------------------------------------------
(* What the two records say about each other, beyond IndInv.               *)

\* The events of the batch being saved, and the record once it is.
MakerBatch == {m_pending[n] : n \in 1..Len(m_pending)}
TakerBatch == {t_pending[n] : n \in 1..Len(t_pending)}
MakerRecord == m_saved \cup MakerBatch
TakerRecord == t_saved \cup TakerBatch

\* A maker whose last event is the fee has not tried to pay, and one that failed to pay
\* after it had paid failed at the taker payment.
MakerRecordInv ==
  /\ m_last = "TakerFeeValidated" =>
       m_saved \cap {"MakerPaymentSent", "MakerPaymentTransactionFailed"} = {}
  /\ "TakerFeeValidated" \in MakerBatch =>
       MakerRecord \cap {"MakerPaymentSent", "MakerPaymentTransactionFailed"} = {}
  /\ {"MakerPaymentSent", "MakerPaymentTransactionFailed"} \subseteq MakerRecord =>
       "TakerPaymentReceived" \in m_saved
  /\ MakerRecord \cap {"TakerPaymentWaitConfirmFailed", "TakerPaymentSpendFailed"} # {} =>
       "TakerPaymentReceived" \in m_saved

\* A taker that did not come to the fee has not sent it, one that failed to send it never
\* did, and one that failed after validate_maker_payment began knew the payment.
TakerRecordInv ==
  /\ t_last \in {"Started", "Negotiated"} => "TakerFeeSent" \notin t_saved
  /\ TakerBatch \cap {"Started", "Negotiated"} # {} => "TakerFeeSent" \notin TakerRecord
  /\ ~({"TakerFeeSent", "TakerFeeSendFailed"} \subseteq TakerRecord)
  /\ TakerRecord \cap {"MakerPaymentWaitConfirmFailed", "TakerPaymentTransactionFailed"} # {} =>
       "MakerPaymentReceived" \in t_saved

\* A node announces what it has in its record, and the other one records what it heard.
AnnouncedInv ==
  /\ \A msg \in net : /\ msg.kind = "TakerFee" => "TakerFeeSent" \in t_saved
                      /\ msg.kind = "MakerPayment" => "MakerPaymentSent" \in m_saved
  /\ "TakerFeeValidated" \in MakerRecord => "TakerFeeSent" \in t_saved
  /\ "MakerPaymentReceived" \in TakerRecord => "MakerPaymentSent" \in m_saved

\* With IndInv inductive, and enough for RecreatedSwapSound.
RecordInv == MakerRecordInv /\ TakerRecordInv /\ AnnouncedInv

=============================================================================
