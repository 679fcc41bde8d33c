-------------------------- MODULE SwapTimingProofs --------------------------
(***************************************************************************)
(* What holds of the swap only because the clock is watched: the secret is *)
(* out before the taker payment can be refunded, and nobody ends with both *)
(* payments.  The argument counts ticks, so it needs that nobody is later  *)
(* than a tick and that the lock duration is long compared with one; both  *)
(* are hypotheses of the theorems.                                         *)
(***************************************************************************)
EXTENDS AtomicSwapProofs, WatchedSwapInduction

\* Zenon is the quicker of the two provers here, SMT the one that knows numbers and records.
USE ZenonT(30), SMTT(30)

-----------------------------------------------------------------------------
(* What the maker's record says.                                           *)

\* An event of the record or of the batch keeps its promise.
LEMMA LoggedBacked ==
  ASSUME Maker, NEW event, MakerLogged(event)
  PROVE  MakerEventBacked(event)
BY DEF Maker, MakerSide, MakerLogInv, MakerEventOK, MakerLogged

\* A handler returns one event.
LEMMA LoggedOne ==
  ASSUME NEW event, NEW command, NEW a, MakerReturn(command, <<a>>), MakerLogged(event)'
  PROVE  event \in m_saved \/ event = a
BY SMT DEF MakerReturn, MakerLogged

\* A handler returns two events.
LEMMA LoggedTwo ==
  ASSUME NEW event, NEW command, NEW a, NEW b, MakerReturn(command, <<a, b>>),
         MakerLogged(event)'
  PROVE  event \in m_saved \/ event = a \/ event = b
BY SMT DEF MakerReturn, MakerLogged

\* A save moves an event from the batch to the record.
LEMMA LoggedSave ==
  ASSUME MakerSide, NEW event, MakerSaveEvent, MakerLogged(event)'
  PROVE  MakerLogged(event)
<1>1. m_pending \in Seq(MakerEvents) /\ m_pending # <<>>
  BY DEF MakerSide, MakerControlTypeOK, MakerControlInv, MakerSaveEvent
<1>2. CASE event \in m_saved'
  BY SMT, <1>1, <1>2 DEF MakerLogged, MakerSaveEvent, MakerSaved
<1>3. ASSUME NEW n \in 1..Len(m_pending'), m_pending'[n] = event PROVE MakerLogged(event)
  BY <1>1, <1>3, UptoTail DEF MakerLogged, MakerSaveEvent
<1>. QED  BY <1>2, <1>3 DEF MakerLogged

\* Nothing of the batch changes.
LEMMA LoggedSame ==
  ASSUME NEW event, UNCHANGED m_saved, m_pending' = m_pending \/ m_pending' = <<>>,
         MakerLogged(event)'
  PROVE  MakerLogged(event)
BY SMT DEF MakerLogged

\* negotiate() has checked the taker's clock and lock time, and keeps the lock time.
MakerAgrees ==
  /\ m_pc = "Negotiate.recv"
  /\ \E msg \in Received("NegotiationReply") :
       /\ NegotiationDataOk(msg, m_started_at, LockDuration)
       /\ m_taker_lock' = msg.payment_locktime
  /\ UNCHANGED m_started_at

\* Who logs the three events the argument is about: negotiate(), wait_for_taker_payment on a
\* message, and validate_taker_payment after it has checked the lock time on the chain.
MakerLogs(event) ==
  \/ MakerLogged(event)
  \/ event = "Negotiated" /\ MakerAgrees
  \/ /\ event = "TakerPaymentReceived" /\ Received("TakerPayment") # {}
     /\ m_pc = "WaitForTakerPayment.recv"
  \/ /\ event = "TakerPaymentValidatedAndConfirmed" /\ m_pc = "ValidateTakerPayment"
     /\ TakerPaymentValid /\ ChainUnchanged /\ MakerDataUnchanged

AgreedEvents == {"Negotiated", "TakerPaymentReceived", "TakerPaymentValidatedAndConfirmed"}

\* Every handler of the maker logs one of the three only as said above.
LEMMA MakerHandlerLogs ==
  ASSUME MakerSide, MakerHandler, NEW event \in AgreedEvents, MakerLogged(event)'
  PROVE  MakerLogs(event)
<1>. USE DEF MakerLogs, AgreedEvents
<1>1. CASE event \in m_saved
  BY <1>1 DEF MakerLogged
<1>2. CASE \/ MakerStart \/ MakerNegotiateTimeout \/ MakerWaitTakerFeeRecv
           \/ MakerWaitTakerFeeTimeout \/ MakerSendPaymentSend
  BY <1>1, <1>2, LoggedOne, LoggedTwo
  DEF MakerStart, MakerNegotiateTimeout, MakerNegotiateFailed, MakerWaitTakerFeeRecv,
      MakerWaitTakerFeeTimeout, MakerSendPaymentSend
<1>3. CASE MakerNegotiateRecv
  BY <1>1, <1>3, LoggedOne DEF MakerNegotiateRecv, MakerNegotiateFailed, MakerAgrees
<1>4. CASE MakerTakerPaymentRecv
  BY <1>1, <1>4, LoggedTwo DEF MakerTakerPaymentRecv, MakerReturnRefund
<1>5. CASE MakerValidateTakerPayment
  BY <1>1, <1>5, LoggedOne, LoggedTwo DEF MakerValidateTakerPayment, MakerReturnRefund
<1>6. CASE \/ MakerNegotiate \/ MakerWaitTakerFee \/ MakerKickStart
  BY <1>6, LoggedSame
  DEF MakerNegotiate, MakerWaitTakerFee, MakerKickStart, MakerAwait
<1>7. CASE \/ MakerSendPayment \/ MakerWaitForTakerPayment \/ MakerPaymentWaitConfirm
           \/ MakerSpendTakerPayment
  BY <1>1, <1>7, LoggedOne, LoggedTwo, LoggedSame
  DEF MakerSendPayment, MakerWaitForTakerPayment, MakerPaymentWaitConfirm,
      MakerSpendTakerPayment, MakerAwait, MakerReturnRefund
<1>8. CASE \/ MakerTakerPaymentRecvTimeout \/ MakerSpendTakerPaymentSend
           \/ MakerConfirmTakerPaymentSpend \/ MakerPrepareForRefund
  BY <1>1, <1>8, LoggedOne, LoggedTwo
  DEF MakerTakerPaymentRecvTimeout, MakerSpendTakerPaymentSend,
      MakerConfirmTakerPaymentSpend, MakerPrepareForRefund, MakerReturnRefund
<1>9. CASE \/ MakerWaitAutoRefund \/ MakerRefundPayment \/ MakerFinalizeRefund \/ MakerFinish
  BY <1>1, <1>9, LoggedOne
  DEF MakerWaitAutoRefund, MakerRefundPayment, MakerFinalizeRefund, MakerFinish
<1>10. CASE MakerSaveEvent
  BY <1>10, LoggedSave
<1>. QED  BY <1>2, <1>3, <1>4, <1>5, <1>6, <1>7, <1>8, <1>9, <1>10 DEF MakerHandler

-----------------------------------------------------------------------------
(* Starts and lock times.                                                  *)

\* started_at is set by start() alone, taker_payment_lock by negotiate() alone.
LEMMA MakerHandlerTimes ==
  ASSUME MakerHandler
  PROVE  /\ m_pc # "Start" => UNCHANGED m_started_at
         /\ UNCHANGED m_taker_lock \/ MakerAgrees
<1>. USE DEF MakerDataUnchanged
<1>1. CASE \/ MakerStart \/ MakerNegotiate \/ MakerNegotiateRecv \/ MakerNegotiateTimeout
           \/ MakerWaitTakerFee \/ MakerWaitTakerFeeRecv \/ MakerWaitTakerFeeTimeout
           \/ MakerSendPayment \/ MakerSendPaymentSend \/ MakerWaitForTakerPayment
  BY <1>1
  DEF MakerStart, MakerNegotiate, MakerNegotiateRecv, MakerNegotiateTimeout,
      MakerNegotiateFailed, MakerAgrees, MakerWaitTakerFee, MakerWaitTakerFeeRecv,
      MakerWaitTakerFeeTimeout, MakerSendPayment, MakerSendPaymentSend,
      MakerWaitForTakerPayment
<1>2. CASE \/ MakerPaymentWaitConfirm \/ MakerTakerPaymentRecv \/ MakerTakerPaymentRecvTimeout
           \/ MakerValidateTakerPayment \/ MakerSpendTakerPayment
           \/ MakerSpendTakerPaymentSend \/ MakerConfirmTakerPaymentSpend
  BY <1>2
  DEF MakerPaymentWaitConfirm, MakerTakerPaymentRecv, MakerTakerPaymentRecvTimeout,
      MakerValidateTakerPayment, MakerSpendTakerPayment, MakerSpendTakerPaymentSend,
      MakerConfirmTakerPaymentSpend
<1>3. CASE \/ MakerPrepareForRefund \/ MakerWaitAutoRefund \/ MakerRefundPayment
           \/ MakerFinalizeRefund \/ MakerFinish \/ MakerSaveEvent \/ MakerKickStart
  BY <1>3
  DEF MakerPrepareForRefund, MakerWaitAutoRefund, MakerRefundPayment,
      MakerFinalizeRefund, MakerFinish, MakerSaveEvent, MakerKickStart
<1>. QED  BY <1>1, <1>2, <1>3 DEF MakerHandler

\* Before the negotiation is over the record has none of the later events.
LEMMA MakerYoung ==
  ASSUME Maker, m_pc \in {"Start", "Negotiate.recv"}
  PROVE  /\ m_saved \subseteq MakerEarly
         /\ m_pending = <<>>
         /\ m_pc = "Start" => m_saved = {}
<1>1. m_pending = <<>>
  BY DEF Maker, MakerSide, MakerControlInv
<1>2. m_pc = "Start" => m_saved = {}
  BY DEF Maker, MakerOrderInv, LogOrdered
<1>3. m_pc = "Negotiate.recv" => m_saved \subseteq MakerEarly
  BY MakerPcOrder DEF Maker, MakerEarlyPcs, MakerCommands, MakerAwaits
<1>. QED  BY <1>1, <1>2, <1>3

\* So once the chains show the maker payment, or the taker payment is validated, the
\* times of the maker's record stand.
LEMMA MakerTimesStand ==
  ASSUME World, Maker, MakerHandler
  PROVE  /\ OnChain("maker_payment") => UNCHANGED m_started_at
         /\ MakerLogged("TakerPaymentValidatedAndConfirmed")
              => UNCHANGED <<m_started_at, m_taker_lock>>
         /\ MakerLogged("Negotiated") => UNCHANGED <<m_started_at, m_taker_lock>> \/ MakerAgrees
<1>1. OnChain("maker_payment") => m_pc # "Start"
  BY MakerYoung DEF World, ChainInv
<1>2. MakerLogged("TakerPaymentValidatedAndConfirmed")
        => m_pc \notin {"Start", "Negotiate.recv"}
  BY SMT, MakerYoung DEF MakerLogged, MakerEarly
<1>3. MakerLogged("Negotiated") => m_pc # "Start"
  BY SMT, MakerYoung DEF MakerLogged, MakerEarly
<1>. QED  BY <1>1, <1>2, <1>3, MakerHandlerTimes DEF MakerAgrees

\* What two starts and the taker's lock time have to do with each other.
CloseLocks ==
  /\ m_started_at + LockDuration <= m_taker_lock + MaxStartedAtDiff
  /\ m_taker_lock <= m_started_at + LockDuration + MaxStartedAtDiff

\* The checks of negotiate() give just that.
LEMMA NegotiatedLocks ==
  ASSUME World, Maker, MakerAgrees
  PROVE  CloseLocks'
<1>1. PICK msg \in Received("NegotiationReply") :
        /\ NegotiationDataOk(msg, m_started_at, LockDuration)
        /\ m_taker_lock' = msg.payment_locktime
  BY DEF MakerAgrees
<1>2. UNCHANGED m_started_at
  BY DEF MakerAgrees
<1>3. msg \in SwapMsg /\ msg.kind = "NegotiationReply"
  BY <1>1 DEF Received, World, EnvDataTypeOK
<1>4. msg.started_at \in Nat /\ msg.payment_locktime \in Nat
  BY <1>3, NegotiationMessageNat
<1>5. m_started_at \in Nat
  BY DEF Maker, MakerDataTypeOK
<1>. QED  BY SMT, <1>1, <1>2, <1>4, <1>5, LockAssumption DEF NegotiationDataOk, CloseLocks

\* A step of the maker's task keeps the lock times as they were agreed on.
LEMMA MakerStepAgreed ==
  ASSUME World, Maker, AgreedInv, MakerHandler, UNCHANGED takerVars
  PROVE  AgreedInv'
<1>1. MakerChainMove
  BY MakerHandlerChain
<1>2. lock \in [Payments -> Nat] /\ htlc \in [Payments -> HtlcStates]
  BY DEF World, ChainTypeOK
<1>3. ASSUME MakerLogged("Negotiated")' PROVE CloseLocks'
  <2>1. MakerLogs("Negotiated")
    BY <1>3, MakerHandlerLogs DEF Maker, AgreedEvents
  <2>2. CASE MakerAgrees
    BY <2>2, NegotiatedLocks
  <2>3. CASE MakerLogged("Negotiated") /\ UNCHANGED <<m_started_at, m_taker_lock>>
    BY <2>3 DEF AgreedInv, CloseLocks
  <2>. QED  BY <2>1, <2>2, <2>3, MakerTimesStand DEF MakerLogs
<1>4. lock'["taker_payment"] = lock["taker_payment"]
  BY <1>1, <1>2 DEF MakerChainMove, ChainUnchanged, SendPayment, Claimed, SpendPayment,
                    Returned, Payments
<1>5. ASSUME MakerLogged("TakerPaymentValidatedAndConfirmed")'
      PROVE  lock'["taker_payment"] = m_taker_lock'
  <2>1. MakerLogs("TakerPaymentValidatedAndConfirmed")
    BY <1>5, MakerHandlerLogs DEF Maker, AgreedEvents
  <2>2. CASE MakerLogged("TakerPaymentValidatedAndConfirmed")
    BY <1>4, <2>2, MakerTimesStand DEF AgreedInv
  <2>3. CASE TakerPaymentValid /\ MakerDataUnchanged
    BY <1>4, <2>3 DEF TakerPaymentValid, MakerDataUnchanged
  <2>. QED  BY <2>1, <2>2, <2>3 DEF MakerLogs
<1>6. OnChain("maker_payment")' => lock'["maker_payment"] = MakerPaymentLock'
  <2>1. CASE OnChain("maker_payment")
    <3>1. lock'["maker_payment"] = lock["maker_payment"]
      BY <1>1, <1>2, <2>1 DEF MakerChainMove, ChainUnchanged, Claimed, SpendPayment,
                              Returned, Payments
    <3>. QED  BY <2>1, <3>1, MakerTimesStand DEF AgreedInv, MakerPaymentLock
  <2>2. CASE ~OnChain("maker_payment") /\ OnChain("maker_payment")'
    <3>1. m_pc = "SendPayment.send" /\ SendPayment("maker_payment", MakerPaymentLock)
      BY <1>1, <1>2, <2>2 DEF MakerChainMove, ChainUnchanged, Claimed, SpendPayment,
                              Returned, Payments, OnChain, Unclaimed
    <3>2. UNCHANGED m_started_at
      BY <3>1, MakerHandlerTimes
    <3>. QED  BY <1>2, <3>1, <3>2 DEF SendPayment, MakerPaymentLock, Payments
  <2>. QED  BY <2>1, <2>2
<1>7. OnChain("taker_payment")' => lock'["taker_payment"] = TakerPaymentLock'
  <2>1. OnChain("taker_payment")' => OnChain("taker_payment")
    BY <1>1, <1>2 DEF MakerChainMove, ChainUnchanged, SendPayment, Claimed, SpendPayment,
                      Returned, Payments, OnChain, Unclaimed
  <2>. QED  BY <1>4, <2>1 DEF AgreedInv, TakerPaymentLock, takerVars
<1>. QED  BY <1>3, <1>5, <1>6, <1>7 DEF AgreedInv, CloseLocks

\* The record with the validated taker payment has the negotiation in it.
LEMMA ValidatedRequires ==
  ASSUME Maker, "TakerPaymentValidatedAndConfirmed" \in m_saved
  PROVE  {"Negotiated", "TakerPaymentReceived"} \subseteq m_saved
BY MakerCommandTable, MakerRequiresTable DEF Maker, MakerSide, MakerLogInv, MakerEventOK

\* A crash keeps what the record says.
LEMMA MakerCrashAgreed ==
  ASSUME World, Maker, AgreedInv, MakerCrash, UNCHANGED takerVars
  PROVE  AgreedInv'
<1>1. UNCHANGED <<m_saved, m_started_at, lock, htlc>> /\ m_pending' = <<>>
  BY DEF MakerCrash
<1>2. \A event : MakerLogged(event)' => event \in m_saved /\ MakerLogged(event)
  BY SMT, <1>1 DEF MakerLogged
<1>3. "Negotiated" \in m_saved => m_taker_lock' = m_taker_lock
  BY DEF MakerCrash
<1>4. "TakerPaymentValidatedAndConfirmed" \in m_saved => "Negotiated" \in m_saved
  BY ValidatedRequires
<1>5. UNCHANGED t_started_at
  BY DEF takerVars
<1>. QED
  BY <1>1, <1>2, <1>3, <1>4, <1>5
  DEF AgreedInv, MakerPaymentLock, TakerPaymentLock, OnChain

\* What a step that is not one of the maker's task does to the chains.
OtherMove ==
  \/ ChainUnchanged
  \/ FeeSent
  \/ /\ t_pc = "SendTakerPayment.send"
     /\ ~OnChain("taker_payment")
     /\ SendPayment("taker_payment", TakerPaymentLock)
  \/ Spent("taker_payment") /\ Claimed("maker_payment")
  \/ Returned("taker_payment")
  \/ Returned("maker_payment") /\ (now > lock["maker_payment"] \/ Refunded("taker_payment"))
  \/ \E p \in Payments : Mined(p)

\* It leaves the maker's side of the agreement alone, and publishes no secret.
LEMMA OtherMoveAgreed ==
  ASSUME World, Maker, Taker, AgreedInv, OtherMove, UNCHANGED makerVars,
         t_pc # "Start" => UNCHANGED t_started_at
  PROVE  AgreedInv' /\ (SecretPublic' => SecretPublic)
<1>1. lock \in [Payments -> Nat] /\ htlc \in [Payments -> HtlcStates]
  BY DEF World, ChainTypeOK
<1>. USE DEF OtherMove, ChainUnchanged, FeeSent, SendPayment, Claimed, SpendPayment, Returned,
             Mined, Payments
<1>2. SecretPublic' => SecretPublic
  BY <1>1 DEF SecretPublic, Spent, OnChain, Unclaimed
<1>3. lock'["maker_payment"] = lock["maker_payment"]
  BY <1>1
<1>4. OnChain("maker_payment")' => OnChain("maker_payment")
  BY <1>1 DEF OnChain, Unclaimed
<1>5. OnChain("taker_payment") => lock'["taker_payment"] = lock["taker_payment"]
  BY <1>1
<1>6. OnChain("taker_payment") => t_pc # "Start"
  BY DEF World, ChainInv, Taker, TakerOrderInv, LogOrdered
<1>7. OnChain("taker_payment")' => lock'["taker_payment"] = TakerPaymentLock'
  <2>1. CASE OnChain("taker_payment")
    BY <1>5, <1>6, <2>1 DEF AgreedInv, TakerPaymentLock
  <2>2. CASE ~OnChain("taker_payment") /\ OnChain("taker_payment")'
    <3>1. t_pc = "SendTakerPayment.send" /\ SendPayment("taker_payment", TakerPaymentLock)
      BY <1>1, <2>2 DEF OnChain, Unclaimed, Spent
    <3>. QED  BY <1>1, <3>1 DEF TakerPaymentLock
  <2>. QED  BY <2>1, <2>2
<1>8. \A event : MakerLogged(event)' <=> MakerLogged(event)
  BY DEF MakerLogged, makerVars
<1>9. MakerLogged("TakerPaymentValidatedAndConfirmed") => OnChain("taker_payment")
  BY LoggedBacked DEF MakerEventBacked, Confirmed, OnChain
<1>10. UNCHANGED <<m_started_at, m_taker_lock>>
  BY DEF makerVars
<1>. QED
  BY <1>2, <1>3, <1>4, <1>5, <1>7, <1>8, <1>9, <1>10 DEF AgreedInv, MakerPaymentLock

-----------------------------------------------------------------------------
(* Whose steps are OtherMoves.                                             *)

\* The taker's.
LEMMA TakerOtherMove ==
  ASSUME World, Taker, TakerStep \/ TakerCrash \/ TakerRecoverFunds
  PROVE  OtherMove
<1>. USE DEF OtherMove
<1>1. CASE TakerStep
  BY <1>1, TakerHandlerChain DEF TakerStep, TakerChainMove, Taker
<1>2. CASE TakerCrash
  BY <1>2 DEF TakerCrash, ChainUnchanged
<1>3. CASE TakerRecoverFunds
  BY <1>3
  DEF TakerRecoverFunds, TakerRecovery, TakerPaymentSpendFound, RefundPayment, Returned,
      Claimed
<1>. QED  BY <1>1, <1>2, <1>3

\* The maker's recover_funds: it never finds the maker payment spent and the taker
\* payment not.
LEMMA MakerRecoverMove ==
  ASSUME World, MakerRecoverFunds
  PROVE  OtherMove
<1>1. ~(Spent("maker_payment") /\ Unclaimed("taker_payment"))
  BY DEF World, ChainInv, Spent, Unclaimed
<1>. QED
  BY <1>1
  DEF OtherMove, MakerRecoverFunds, MakerRecovery, RefundPayment, Returned, CanRefundHtlc

\* Blocks, and lightning nodes that give an expired payment back.
LEMMA ChainOtherMove ==
  ASSUME World, Chain
  PROVE  OtherMove
<1>1. ASSUME NEW p \in Payments, Mine(p) PROVE Mined(p)
  BY <1>1 DEF Mine, Mined, World, ChainTypeOK
<1>2. ASSUME NEW p \in Payments, AutoRefund(p) PROVE Returned(p) /\ now > lock[p]
  BY <1>2 DEF AutoRefund, Returned, CanRefundHtlc
<1>. QED  BY <1>1, <1>2 DEF Chain, OtherMove, Payments

\* The watchers'.
LEMMA WatcherOtherMove ==
  ASSUME Watched, NEW w \in Watchers, WatcherMoves(w)
  PROVE  OtherMove
BY WatcherChainMove DEF OtherMove, Watched

-----------------------------------------------------------------------------
(* The secret.                                                             *)

\* spend_taker_payment comes to its send only by a look at the clock.
LEMMA MakerHandlerSend ==
  ASSUME MakerSide, MakerHandler, m_pc' = "SpendTakerPayment.send"
  PROVE  m_pc = "SpendTakerPayment" /\ ~SpendTooLate /\ MakerDataUnchanged
<1>. USE DEF MakerReturn, MakerAwait
<1>1. CASE MakerSpendTakerPayment
  BY <1>1 DEF MakerSpendTakerPayment, MakerReturnRefund
<1>2. CASE \/ MakerStart \/ MakerNegotiate \/ MakerNegotiateRecv \/ MakerNegotiateTimeout
           \/ MakerWaitTakerFee \/ MakerWaitTakerFeeRecv \/ MakerWaitTakerFeeTimeout
           \/ MakerSendPayment \/ MakerSendPaymentSend \/ MakerWaitForTakerPayment
  BY <1>2
  DEF MakerStart, MakerNegotiate, MakerNegotiateRecv, MakerNegotiateTimeout,
      MakerNegotiateFailed, MakerWaitTakerFee, MakerWaitTakerFeeRecv,
      MakerWaitTakerFeeTimeout, MakerSendPayment, MakerSendPaymentSend,
      MakerWaitForTakerPayment, MakerReturnRefund
<1>3. CASE \/ MakerPaymentWaitConfirm \/ MakerTakerPaymentRecv \/ MakerTakerPaymentRecvTimeout
           \/ MakerValidateTakerPayment \/ MakerSpendTakerPaymentSend
           \/ MakerConfirmTakerPaymentSpend
  BY <1>3
  DEF MakerPaymentWaitConfirm, MakerTakerPaymentRecv, MakerTakerPaymentRecvTimeout,
      MakerValidateTakerPayment, MakerSpendTakerPaymentSend,
      MakerConfirmTakerPaymentSpend, MakerReturnRefund
<1>4. CASE \/ MakerPrepareForRefund \/ MakerWaitAutoRefund \/ MakerRefundPayment
           \/ MakerFinalizeRefund \/ MakerFinish
  BY <1>4
  DEF MakerPrepareForRefund, MakerWaitAutoRefund, MakerRefundPayment,
      MakerFinalizeRefund, MakerFinish
<1>5. CASE MakerSaveEvent \/ MakerKickStart
  <2>1. "SpendTakerPayment.send" \notin MakerCommands \cup {"None"}
    BY DEF MakerCommands
  <2>2. m_next \in MakerCommands \cup {"None"}
    BY DEF MakerSide, MakerControlTypeOK
  <2>. QED  BY <1>5, <2>1, <2>2, MakerGetCommandType DEF MakerSaveEvent, MakerKickStart
<1>. QED  BY <1>1, <1>2, <1>3, <1>4, <1>5 DEF MakerHandler

\* A step of the maker's task: only the send in spend_taker_payment publishes.
LEMMA MakerStepSecret ==
  ASSUME World, Maker, SecretInv, MakerStep, UNCHANGED takerVars
  PROVE  /\ SecretInv'
         /\ ~SecretPublic /\ SecretPublic' => m_pc = "SpendTakerPayment.send"
<1>1. MakerHandler /\ UNCHANGED now /\ "maker" \notin overdue'
  BY DEF MakerStep
<1>2. AgreedInv'
  BY <1>1, MakerStepAgreed DEF SecretInv
<1>3. ASSUME m_pc' = "SpendTakerPayment.send"
      PROVE  Turn("maker")' <= TakerPaymentSpendDeadline(m_started_at)'
  <2>1. now <= TakerPaymentSpendDeadline(m_started_at) /\ UNCHANGED m_started_at
    <3>1. ~SpendTooLate /\ UNCHANGED m_started_at
      BY <1>1, <1>3, MakerHandlerSend DEF Maker, MakerDataUnchanged
    <3>2. m_started_at \in Nat /\ now \in Nat
      BY DEF Maker, MakerDataTypeOK, World, EnvDataTypeOK
    <3>. QED  BY SMT, <3>1, <3>2, LockAssumption DEF SpendTooLate, TakerPaymentSpendDeadline
  <2>. QED  BY <1>1, <2>1 DEF Turn, TakerPaymentSpendDeadline
<1>4. ~SecretPublic /\ SecretPublic' => m_pc = "SpendTakerPayment.send"
  <2>1. MakerChainMove
    BY <1>1, MakerHandlerChain
  <2>. QED
    BY <2>1 DEF MakerChainMove, ChainUnchanged, SendPayment, Returned, SecretPublic, Spent,
                Payments, World, ChainTypeOK
<1>. QED  BY <1>2, <1>3, <1>4 DEF SecretInv

\* A crash of the maker.
LEMMA MakerCrashSecret ==
  ASSUME World, Maker, SecretInv, MakerCrash, UNCHANGED takerVars
  PROVE  SecretInv' /\ (SecretPublic' => SecretPublic)
<1>1. m_pc' # "SpendTakerPayment.send" /\ UNCHANGED htlc
  BY DEF MakerCrash
<1>. QED  BY <1>1, MakerCrashAgreed DEF SecretInv, SecretPublic, Spent

\* A step of anyone else.
LEMMA OtherSecret ==
  ASSUME World, Maker, Taker, SecretInv, OtherMove, UNCHANGED makerVars,
         t_pc # "Start" => UNCHANGED t_started_at,
         UNCHANGED now, "maker" \in overdue' <=> "maker" \in overdue
  PROVE  SecretInv' /\ (SecretPublic' => SecretPublic)
<1>1. AgreedInv' /\ (SecretPublic' => SecretPublic)
  BY OtherMoveAgreed DEF SecretInv
<1>2. Turn("maker")' = Turn("maker") /\ UNCHANGED <<m_pc, m_started_at>>
  BY DEF Turn, makerVars
<1>. QED  BY <1>1, <1>2 DEF SecretInv, TakerPaymentSpendDeadline

\* The clock moves on: a maker that is about to send has to do so before the next tick.
LEMMA TickSecret ==
  ASSUME World, Maker, Taker, SecretInv, ChainUnchanged, UNCHANGED makerVars,
         UNCHANGED takerVars, Synchronous, "maker" \notin overdue,
         now' = now + 1, overdue' = Outstanding
  PROVE  SecretInv' /\ (SecretPublic' => SecretPublic)
<1>1. AgreedInv' /\ (SecretPublic' => SecretPublic)
  BY OtherMoveAgreed DEF SecretInv, OtherMove, takerVars
<1>2. ASSUME m_pc' = "SpendTakerPayment.send" PROVE Turn("maker")' = now
  <2>1. "maker" \in overdue'
    BY <1>2 DEF Outstanding, MakerReady, makerVars
  <2>. QED  BY SMT, <2>1 DEF Turn, World, EnvDataTypeOK
<1>3. Turn("maker") = now /\ UNCHANGED <<m_pc, m_started_at>>
  BY DEF Turn, makerVars
<1>. QED  BY <1>1, <1>2, <1>3 DEF SecretInv, TakerPaymentSpendDeadline

\* What the maker knows when it sends: the clock is at most a tick past its deadline,
\* and both lock times are as agreed.
LEMMA SendInTime ==
  ASSUME World, Maker, SecretInv, m_pc = "SpendTakerPayment.send"
  PROVE  /\ now <= m_started_at + (LockDuration * 4) \div 5 + 1
         /\ "TakerPaymentReceived" \in m_saved
         /\ lock["taker_payment"] = m_taker_lock /\ OnChain("taker_payment")
         /\ CloseLocks
<1>1. {"Negotiated", "TakerPaymentReceived", "TakerPaymentValidatedAndConfirmed"}
        \subseteq m_saved
  BY MakerPaths DEF Maker
<1>2. now <= m_started_at + (LockDuration * 4) \div 5 + 1
  <2>1. now \in Nat /\ m_started_at \in Nat
    BY DEF World, EnvDataTypeOK, Maker, MakerDataTypeOK
  <2>2. Turn("maker") <= TakerPaymentSpendDeadline(m_started_at)
    BY DEF SecretInv
  <2>. QED  BY SMT, <2>1, <2>2, LockAssumption DEF Turn, TakerPaymentSpendDeadline
<1>3. \A event \in m_saved : MakerLogged(event)
  BY DEF MakerLogged
<1>4. OnChain("taker_payment")
  BY <1>1, <1>3, LoggedBacked DEF MakerEventBacked
<1>. QED  BY <1>1, <1>2, <1>3, <1>4 DEF SecretInv, AgreedInv, CloseLocks

\* So the taker payment cannot be refunded yet.
LEMMA PublishedInTime ==
  ASSUME DeadlineHasSlack, World, Maker, SecretInv, m_pc = "SpendTakerPayment.send"
  PROVE  now <= lock["taker_payment"]
<1>1. now \in Nat /\ m_started_at \in Nat /\ m_taker_lock \in Nat
  BY DEF World, EnvDataTypeOK, Maker, MakerDataTypeOK
<1>. QED  BY SMT, <1>1, SendInTime, LockAssumption DEF CloseLocks, DeadlineHasSlack

\* What every step of the swap does to the secret.
SecretStep ==
  /\ SecretInv'
  /\ ~SecretPublic /\ SecretPublic' => m_pc = "SpendTakerPayment.send"

\* The maker's node.
LEMMA MakerSecretStep ==
  ASSUME World, Maker, Taker, SecretInv, MakerStep \/ MakerCrash \/ MakerRecoverFunds,
         UNCHANGED takerVars
  PROVE  SecretStep
<1>1. CASE MakerStep
  BY <1>1, MakerStepSecret DEF SecretStep
<1>2. CASE MakerCrash
  BY <1>2, MakerCrashSecret DEF SecretStep
<1>3. CASE MakerRecoverFunds
  BY <1>3, MakerRecoverMove, OtherSecret DEF SecretStep, MakerRecoverFunds, takerVars
<1>. QED  BY <1>1, <1>2, <1>3

\* The taker's node.
LEMMA TakerSecretStep ==
  ASSUME World, Maker, Taker, SecretInv, TakerStep \/ TakerCrash \/ TakerRecoverFunds,
         UNCHANGED makerVars
  PROVE  SecretStep
<1>1. OtherMove
  BY TakerOtherMove
<1>2. t_pc # "Start" => UNCHANGED t_started_at
  BY TakerStartsOnce
<1>3. UNCHANGED now /\ ("maker" \in overdue' <=> "maker" \in overdue)
  BY DEF TakerStep, TakerCrash, TakerRecoverFunds
<1>. QED  BY <1>1, <1>2, <1>3, OtherSecret DEF SecretStep

\* The chains.
LEMMA ChainSecretStep ==
  ASSUME World, Maker, Taker, SecretInv, Chain, UNCHANGED <<makerVars, takerVars>>
  PROVE  SecretStep
<1>1. UNCHANGED now /\ ("maker" \in overdue' <=> "maker" \in overdue)
  BY DEF Chain, Mine, AutoRefund, Payments
<1>. QED  BY <1>1, ChainOtherMove, OtherSecret DEF SecretStep, takerVars

\* Nothing is agreed on at first.
LEMMA SecretInit == Init => SecretInv
<1>1. SUFFICES ASSUME Init PROVE SecretInv
  OBVIOUS
<1>2. \A event : ~MakerLogged(event)
  BY SMT, <1>1 DEF Init, MakerInit, MakerLogged
<1>. QED
  BY <1>1, <1>2 DEF Init, MakerInit, EnvInit, SecretInv, AgreedInv, OnChain, Payments

\* Every step of the swap without watchers.
LEMMA SecretNext ==
  ASSUME Synchronous, IndInv, SecretInv, [Next]_vars
  PROVE  SecretStep
<1>1. World /\ Maker /\ Taker
  BY IndInvParts
<1>2. CASE (MakerStep \/ MakerCrash \/ MakerRecoverFunds) /\ UNCHANGED takerVars
  BY <1>1, <1>2, MakerSecretStep
<1>3. CASE (TakerStep \/ TakerCrash \/ TakerRecoverFunds) /\ UNCHANGED makerVars
  BY <1>1, <1>3, TakerSecretStep
<1>4. CASE Chain /\ UNCHANGED <<makerVars, takerVars>>
  BY <1>1, <1>4, ChainSecretStep
<1>5. CASE Tick /\ UNCHANGED <<makerVars, takerVars>>
  BY <1>1, <1>5, TickSecret DEF Tick, ChainUnchanged, SecretStep
<1>6. CASE UNCHANGED vars
  BY <1>1, <1>6, OtherSecret DEF vars, envVars, OtherMove, ChainUnchanged, SecretStep, takerVars
<1>. QED  BY <1>2, <1>3, <1>4, <1>5, <1>6 DEF Next

\* The lock times on the chains are the agreed ones, and the send follows the look at
\* the clock within a tick.
THEOREM SecretInvariance ==
  ASSUME Synchronous
  PROVE  Spec => []SecretInv
<1>1. IndInv /\ SecretInv /\ [Next]_vars => SecretInv'
  BY SecretNext DEF SecretStep
<1>. QED  BY <1>1, SecretInit, Invariance, PTL DEF Spec

\* The maker's secret reaches the taker coin's chain only while the taker payment cannot
\* be refunded: spend_taker_payment's look at the clock is enough, although the
\* transaction goes out later, when nobody is later than a tick and a fifth of the lock
\* duration covers that tick and the difference between the two starts.
THEOREM SecretOutInTime ==
  ASSUME DeadlineHasSlack
  PROVE  Spec => SecretInTime
<1>1. Synchronous
  BY DEF DeadlineHasSlack
<1>2. IndInv /\ SecretInv /\ [Next]_vars
        => [~SecretPublic /\ SecretPublic' => now <= lock["taker_payment"]]_vars
  BY <1>1, SecretNext, PublishedInTime, IndInvParts DEF SecretStep
<1>3. Spec => []SecretInv
  BY <1>1, SecretInvariance
<1>. QED  BY <1>2, <1>3, Invariance, PTL DEF Spec, SecretInTime

-----------------------------------------------------------------------------
(* A long lock.                                                            *)

\* What the hypothesis says about the lock durations.
LEMMA LongLock ==
  ASSUME LockIsLong
  PROVE  /\ DeadlineHasSlack
         /\ (LockDuration * 4) \div 5 + 2 + MaxStartedAtDiff <= LockDuration
         /\ MakerLockDuration >= LockDuration + MaxStartedAtDiff + 4
         /\ (LockDuration * 3) \div 2 >= LockDuration
<1>1. StepsOfTaker * (MaxCrashes + 1) >= 6
  BY SMT, BoundAssumption DEF StepsOfTaker
<1>2. StepsOfTaker * (MaxCrashes + 1) \in Int
  BY SMT, BoundAssumption DEF StepsOfTaker
<1>. QED
  BY SMT, <1>1, <1>2, LockAssumption
  DEF LockIsLong, DeadlineHasSlack, MakerLockDuration, MultiplierHalves

\* Once the secret is public the maker payment stays locked longer than the taker's.
LEMMA LocksApart ==
  ASSUME LockIsLong, World, Maker, Taker, AgreedInv, SecretPublic
  PROVE  /\ lock["taker_payment"] = TakerPaymentLock
         /\ TakerPaymentLock + 4 <= lock["maker_payment"]
<1>1. {"Negotiated", "TakerPaymentValidatedAndConfirmed"} \subseteq m_saved
  BY ValidatedRequires DEF World, ChainInv
<1>2. OnChain("taker_payment") /\ OnChain("maker_payment")
  BY DEF World, ChainInv, SecretPublic, Spent, OnChain, Confirmed
<1>3. \A event \in m_saved : MakerLogged(event)
  BY DEF MakerLogged
<1>4. /\ m_taker_lock <= m_started_at + LockDuration + MaxStartedAtDiff
      /\ lock["taker_payment"] = m_taker_lock
      /\ lock["taker_payment"] = TakerPaymentLock
      /\ lock["maker_payment"] = m_started_at + MakerLockDuration
  BY <1>1, <1>2, <1>3 DEF AgreedInv, MakerPaymentLock
<1>5. m_started_at \in Nat /\ m_taker_lock \in Nat
  BY DEF Maker, MakerDataTypeOK
<1>. QED  BY SMT, <1>4, <1>5, LongLock, LockAssumption, MakerLockDurationNat

\* A maker payment that left its lock in time was spent.
LEMMA NotReturned ==
  ASSUME LockIsLong, World, Maker, Taker, AgreedInv, ReturnInv, SecretPublic,
         now <= TakerPaymentLock + 3
  PROVE  Unclaimed("maker_payment") \/ Spent("maker_payment")
<1>1. ~Refunded("taker_payment")
  BY DEF SecretPublic, Spent, Refunded
<1>2. now \in Nat /\ TakerPaymentLock \in Nat /\ lock["maker_payment"] \in Nat
  BY SMT, LockAssumption
  DEF World, EnvDataTypeOK, ChainTypeOK, Payments, Taker, TakerDataTypeOK, TakerPaymentLock
<1>3. ~Refunded("maker_payment")
  BY SMT, <1>1, <1>2, LocksApart DEF ReturnInv
<1>4. OnChain("maker_payment")
  BY DEF World, ChainInv, SecretPublic, Spent, OnChain, Confirmed
<1>. QED
  BY <1>3, <1>4 DEF OnChain, Unclaimed, Spent, Refunded, World, ChainTypeOK, HtlcStates, Payments

-----------------------------------------------------------------------------
(* The taker follows the spend.                                            *)

\* The last event of a taker that waits for the spend, or has seen it.
LEMMA FollowerLast ==
  ASSUME Taker
  PROVE  /\ t_pc \in {"WaitForTakerPaymentSpend", "WaitForTakerPaymentSpend.confirm",
                      "WaitForTakerPaymentSpend.spend"}
              => t_last \in {"TakerPaymentSent", "WatcherMessageSent"}
         /\ t_pc = "SpendMakerPayment" => t_last = "TakerPaymentSpent"
<1>1. ASSUME t_pc \in {"WaitForTakerPaymentSpend", "WaitForTakerPaymentSpend.confirm",
                       "WaitForTakerPaymentSpend.spend", "SpendMakerPayment"}
      PROVE  TakerGetCommand(t_last) = TakerCommandAt(t_pc)
  BY <1>1 DEF Taker, TakerSide, TakerControlInv, TakerGoesOn, TakerCommandAt, TakerCommands,
              TakerAwaits
<1>. QED
  BY <1>1 DEF TakerCommandAt, TakerGetCommand, TakerRefundEvents, TakerFinishEvents

\* The number of steps, place by place.
LEMMA StepsLeftTable ==
  /\ t_pc = "SpendMakerPayment" => TakerStepsLeft = 1
  /\ t_pc = "Saving" /\ t_pending = <<"TakerPaymentSpent">> => TakerStepsLeft = 2
  /\ t_pc = "Down" /\ t_last = "TakerPaymentSpent" => TakerStepsLeft = 2
  /\ t_pc = "WaitForTakerPaymentSpend.spend" => TakerStepsLeft = 3
  /\ t_pc = "WaitForTakerPaymentSpend.confirm" => TakerStepsLeft = 4
  /\ t_pc = "WaitForTakerPaymentSpend" => TakerStepsLeft = 5
  /\ t_pc = "Saving" /\ t_pending = <<"WatcherMessageSent">> => TakerStepsLeft = 6
  /\ t_pc = "Down" /\ t_last \in {"TakerPaymentSent", "WatcherMessageSent"}
       => TakerStepsLeft = 6
  /\ TakerStepsLeft \in 1..6
<1>1. <<"WatcherMessageSent">> # <<"TakerPaymentSpent">>
  BY SMT
<1>. QED  BY SMT, <1>1 DEF TakerStepsLeft, StepsOfTaker

\* The same for the next state.
LEMMA StepsLeftTableNext ==
  /\ t_pc' = "SpendMakerPayment" => TakerStepsLeft' = 1
  /\ t_pc' = "Saving" /\ t_pending' = <<"TakerPaymentSpent">> => TakerStepsLeft' = 2
  /\ t_pc' = "Down" /\ t_last' = "TakerPaymentSpent" => TakerStepsLeft' = 2
  /\ t_pc' = "WaitForTakerPaymentSpend.spend" => TakerStepsLeft' = 3
  /\ t_pc' = "WaitForTakerPaymentSpend.confirm" => TakerStepsLeft' = 4
  /\ t_pc' = "WaitForTakerPaymentSpend" => TakerStepsLeft' = 5
  /\ TakerStepsLeft' \in 1..6
<1>1. <<"WatcherMessageSent">> # <<"TakerPaymentSpent">>
  BY SMT
<1>. QED  BY SMT, <1>1 DEF TakerStepsLeft, StepsOfTaker

\* No errors happen when there is no budget for them.
LEMMA NoFaults ==
  ASSUME World, MaxFaults = 0
  PROVE  ~Fault
BY SMT DEF World, EnvDataTypeOK, Fault

\* Where a handler takes a taker that follows the spend: a step closer to the maker
\* payment, unless it is late or the maker payment is gone.
FollowsOn ==
  \/ TakerFollows' /\ TakerStepsLeft' + 1 = TakerStepsLeft
  \/ now > TakerPaymentLock
  \/ Spent("maker_payment")'
  \/ t_pc = "SpendMakerPayment" /\ ~Unclaimed("maker_payment")

\* Every handler does so.
LEMMA TakerHandlerFollows ==
  ASSUME World, Taker, MaxFaults = 0, TakerFollows, TakerHandler
  PROVE  FollowsOn
<1>. USE NoFaults DEF FollowsOn
<1>1. CASE TakerWaitForPaymentSpend
  <2>1. t_pc = "WaitForTakerPaymentSpend" /\ t_pc' = "WaitForTakerPaymentSpend.confirm"
    BY <1>1 DEF TakerWaitForPaymentSpend, TakerAwait
  <2>2. TakerFollows'
    BY <2>1 DEF TakerFollows
  <2>. QED  BY SMT, <2>1, <2>2, StepsLeftTable, StepsLeftTableNext
<1>2. CASE TakerPaymentWaitConfirm
  <2>1. \/ now > TakerPaymentLock
        \/ /\ t_pc = "WaitForTakerPaymentSpend.confirm"
           /\ t_pc' = "WaitForTakerPaymentSpend.spend"
    BY <1>2 DEF TakerPaymentWaitConfirm, TakerAwait
  <2>2. CASE /\ t_pc = "WaitForTakerPaymentSpend.confirm"
             /\ t_pc' = "WaitForTakerPaymentSpend.spend"
    <3>1. TakerFollows'
      BY <2>2 DEF TakerFollows
    <3>. QED  BY SMT, <2>2, <3>1, StepsLeftTable, StepsLeftTableNext
  <2>. QED  BY <2>1, <2>2
<1>3. CASE TakerPaymentSpendSeen
  <2>1. /\ t_pc = "WaitForTakerPaymentSpend.spend" /\ t_pc' = "Saving"
        /\ t_pending' = <<"TakerPaymentSpent">>
        /\ t_last' \in {"TakerPaymentSent", "WatcherMessageSent"}
    BY <1>3, FollowerLast DEF TakerPaymentSpendSeen, TakerReturn
  <2>2. TakerFollows'
    BY <2>1 DEF TakerFollows
  <2>. QED  BY SMT, <2>1, <2>2, StepsLeftTable, StepsLeftTableNext
<1>4. CASE TakerPaymentSpendTimeout
  BY <1>4 DEF TakerPaymentSpendTimeout
<1>5. CASE TakerSpendMakerPayment
  <2>1. \/ t_pc = "SpendMakerPayment" /\ ~Unclaimed("maker_payment")
        \/ SpendPayment("maker_payment")
    BY <1>5 DEF TakerSpendMakerPayment
  <2>. QED  BY <2>1 DEF SpendPayment, Spent, World, ChainTypeOK, Payments
<1>6. CASE TakerSaveEvent
  <2>1. \/ t_pending = <<"WatcherMessageSent">>
        \/ t_pending = <<"TakerPaymentSpent">>
    BY <1>6 DEF TakerSaveEvent, TakerFollows
  <2>2. Len(t_pending) = 1 /\ t_pc = "Saving"
    BY SMT, <1>6, <2>1 DEF TakerSaveEvent
  <2>3. t_pc' = t_next /\ TakerGoesOn(t_next, t_pending[1])
    BY <1>6, <2>2 DEF TakerSaveEvent, Taker, TakerSide, TakerControlInv
  <2>4. CASE t_pending = <<"WatcherMessageSent">>
    <3>1. t_pc' = "WaitForTakerPaymentSpend"
      BY SMT, <2>3, <2>4, TakerCommandTable DEF TakerGoesOn, TakerAbandons
    <3>2. TakerFollows'
      BY <3>1 DEF TakerFollows
    <3>. QED  BY SMT, <2>2, <2>4, <3>1, <3>2, StepsLeftTable, StepsLeftTableNext
  <2>5. CASE t_pending = <<"TakerPaymentSpent">>
    <3>1. t_pc' = "SpendMakerPayment"
      BY SMT, <2>3, <2>5, TakerCommandTable DEF TakerGoesOn, TakerAbandons
    <3>2. TakerFollows'
      BY <3>1 DEF TakerFollows
    <3>. QED  BY SMT, <2>2, <2>5, <3>1, <3>2, StepsLeftTable, StepsLeftTableNext
  <2>. QED  BY <2>1, <2>4, <2>5
<1>7. CASE TakerKickStart
  <2>1. t_pc = "Down" /\ t_pc' = TakerGetCommand(t_last)
    BY <1>7 DEF TakerKickStart
  <2>2. CASE t_last \in {"TakerPaymentSent", "WatcherMessageSent"}
    <3>1. t_pc' = "WaitForTakerPaymentSpend"
      BY <2>1, <2>2, TakerCommandTable
    <3>2. TakerFollows'
      BY <3>1 DEF TakerFollows
    <3>. QED  BY SMT, <2>1, <2>2, <3>1, <3>2, StepsLeftTable, StepsLeftTableNext
  <2>3. CASE t_last = "TakerPaymentSpent"
    <3>1. t_pc' = "SpendMakerPayment"
      BY <2>1, <2>3, TakerCommandTable
    <3>2. TakerFollows'
      BY <3>1 DEF TakerFollows
    <3>3. TakerStepsLeft = 2 /\ TakerStepsLeft' = 1
      BY <2>1, <2>3, <3>1, StepsLeftTable, StepsLeftTableNext
    <3>. QED  BY SMT, <3>2, <3>3
  <2>4. t_last \in {"TakerPaymentSent", "WatcherMessageSent", "TakerPaymentSpent"}
    BY <2>1 DEF TakerFollows
  <2>. QED  BY <2>2, <2>3, <2>4
<1>8. CASE \/ TakerStart \/ TakerNegotiate \/ TakerNegotiateRecv \/ TakerNegotiated
           \/ TakerNegotiateTimeout \/ TakerSendFee \/ TakerSendFeeSend
           \/ TakerWaitForMakerPayment \/ TakerMakerPaymentRecv
           \/ TakerMakerPaymentRecvTimeout
  BY <1>8
  DEF TakerStart, TakerNegotiate, TakerNegotiateRecv, TakerNegotiated,
      TakerNegotiateTimeout, TakerSendFee, TakerSendFeeSend, TakerWaitForMakerPayment,
      TakerMakerPaymentRecv, TakerMakerPaymentRecvTimeout, TakerFollows
<1>9. CASE \/ TakerValidateMakerPayment \/ TakerValidatePanics \/ TakerSendPayment
           \/ TakerSendPaymentSend \/ TakerPrepareForRefund \/ TakerWaitAutoRefund
           \/ TakerRefundPayment \/ TakerFinalizeRefund \/ TakerFinish
  BY <1>9
  DEF TakerValidateMakerPayment, TakerValidatePanics, TakerSendPayment,
      TakerSendPaymentSend, TakerPrepareForRefund, TakerWaitAutoRefund,
      TakerRefundPayment, TakerFinalizeRefund, TakerFinish, TakerFollows
<1>. QED
  BY <1>1, <1>2, <1>3, <1>4, <1>5, <1>6, <1>7, <1>8, <1>9 DEF TakerHandler

-----------------------------------------------------------------------------
(* The taker's patience.                                                   *)

\* A batch of other events, or the one of send_taker_payment.
LEMMA BatchOfOne ==
  ASSUME NEW a, t_pending' = <<a>>
  PROVE  SentBatch'
BY SMT DEF SentBatch

\* Two events, neither of which is TakerPaymentSent.
LEMMA BatchOfTwo ==
  ASSUME NEW a, NEW b, t_pending' = <<a, b>>, "TakerPaymentSent" \notin {a, b}
  PROVE  SentBatch'
BY SMT DEF SentBatch

\* A handler's batch.
LEMMA TakerHandlerBatch ==
  ASSUME TakerSide, SentBatch, TakerHandler
  PROVE  SentBatch'
<1>. USE DEF TakerReturn, TakerAwait, TakerReturnRefund
<1>1. CASE \/ TakerStart \/ TakerNegotiate \/ TakerNegotiateRecv \/ TakerNegotiated
           \/ TakerNegotiateTimeout \/ TakerSendFee \/ TakerSendFeeSend
           \/ TakerWaitForMakerPayment \/ TakerMakerPaymentRecvTimeout
  <2>1. t_pending' = t_pending \/ \E a : t_pending' = <<a>>
    BY <1>1
    DEF TakerStart, TakerNegotiate, TakerNegotiateRecv, TakerNegotiated,
        TakerNegotiateTimeout, TakerSendFee, TakerSendFeeSend, TakerWaitForMakerPayment,
        TakerMakerPaymentRecvTimeout
  <2>. QED  BY <2>1, BatchOfOne DEF SentBatch
<1>2. CASE TakerMakerPaymentRecv
  <2>1. \/ \E a : t_pending' = <<a>>
        \/ t_pending' = <<"TakerPaymentInstructionsReceived", "MakerPaymentReceived",
                          "MakerPaymentWaitConfirmStarted">>
    BY <1>2 DEF TakerMakerPaymentRecv
  <2>2. CASE t_pending' = <<"TakerPaymentInstructionsReceived", "MakerPaymentReceived",
                            "MakerPaymentWaitConfirmStarted">>
    BY SMT, <2>2 DEF SentBatch
  <2>. QED  BY <2>1, <2>2, BatchOfOne
<1>3. CASE TakerSendPaymentSend
  <2>1. \/ \E a : t_pending' = <<a>>
        \/ t_pending' = <<"TakerPaymentSent", "WatcherMessageSent">>
    BY <1>3 DEF TakerSendPaymentSend, TakerPaymentSentEvents
  <2>2. CASE t_pending' = <<"TakerPaymentSent", "WatcherMessageSent">>
    BY SMT, <2>2 DEF SentBatch
  <2>. QED  BY <2>1, <2>2, BatchOfOne
<1>4. CASE \/ TakerValidateMakerPayment \/ TakerValidatePanics \/ TakerSendPayment
           \/ TakerWaitForPaymentSpend \/ TakerPaymentSpendSeen \/ TakerSpendMakerPayment
  <2>1. t_pending' = t_pending \/ \E a : t_pending' = <<a>>
    BY <1>4
    DEF TakerValidateMakerPayment, TakerValidatePanics, TakerSendPayment,
        TakerWaitForPaymentSpend, TakerPaymentSpendSeen, TakerSpendMakerPayment
  <2>. QED  BY <2>1, BatchOfOne DEF SentBatch
<1>5. CASE TakerPaymentWaitConfirm \/ TakerPaymentSpendTimeout
  <2>1. \/ t_pending' = t_pending
        \/ \E a \in {"TakerPaymentWaitConfirmFailed", "TakerPaymentWaitForSpendFailed"} :
             t_pending' = <<a, "TakerPaymentWaitRefundStarted">>
    BY <1>5 DEF TakerPaymentWaitConfirm, TakerPaymentSpendTimeout
  <2>. QED  BY SMT, <2>1, BatchOfTwo DEF SentBatch
<1>6. CASE \/ TakerPrepareForRefund \/ TakerWaitAutoRefund \/ TakerRefundPayment
           \/ TakerFinalizeRefund \/ TakerFinish \/ TakerKickStart
  <2>1. t_pending' = t_pending \/ \E a : t_pending' = <<a>>
    BY <1>6
    DEF TakerPrepareForRefund, TakerWaitAutoRefund, TakerRefundPayment,
        TakerFinalizeRefund, TakerFinish, TakerKickStart
  <2>. QED  BY <2>1, BatchOfOne DEF SentBatch
<1>7. CASE TakerSaveEvent
  <2>1. t_pending \in Seq(TakerEvents) /\ t_pending # <<>> /\ t_pending' = Tail(t_pending)
    BY <1>7 DEF TakerSaveEvent, TakerSide, TakerControlTypeOK, TakerControlInv
  <2>2. \A n \in 1..Len(Tail(t_pending)) :
          Tail(t_pending)[n] = t_pending[n + 1] /\ n + 1 \in 1..Len(t_pending)
    BY <2>1, UptoTail
  <2>3. \A n \in 1..Len(Tail(t_pending)) : n + 1 # 1
    BY SMT
  <2>. QED  BY <2>1, <2>2, <2>3 DEF SentBatch
<1>. QED  BY <1>1, <1>2, <1>3, <1>4, <1>5, <1>6, <1>7 DEF TakerHandler

\* Only a save adds to the record.
LEMMA TakerHandlerSaves ==
  ASSUME TakerHandler, t_saved' # t_saved
  PROVE  TakerSaveEvent
<1>. USE DEF TakerReturn, TakerAwait, TakerReturnRefund
<1>1. CASE \/ TakerStart \/ TakerNegotiate \/ TakerNegotiateRecv \/ TakerNegotiated
           \/ TakerNegotiateTimeout \/ TakerSendFee \/ TakerSendFeeSend
           \/ TakerWaitForMakerPayment \/ TakerMakerPaymentRecv
           \/ TakerMakerPaymentRecvTimeout
  BY <1>1
  DEF TakerStart, TakerNegotiate, TakerNegotiateRecv, TakerNegotiated,
      TakerNegotiateTimeout, TakerSendFee, TakerSendFeeSend, TakerWaitForMakerPayment,
      TakerMakerPaymentRecv, TakerMakerPaymentRecvTimeout
<1>2. CASE \/ TakerValidateMakerPayment \/ TakerValidatePanics \/ TakerSendPayment
           \/ TakerSendPaymentSend \/ TakerWaitForPaymentSpend \/ TakerPaymentWaitConfirm
           \/ TakerPaymentSpendSeen \/ TakerPaymentSpendTimeout
  BY <1>2
  DEF TakerValidateMakerPayment, TakerValidatePanics, TakerSendPayment,
      TakerSendPaymentSend, TakerWaitForPaymentSpend, TakerPaymentWaitConfirm,
      TakerPaymentSpendSeen, TakerPaymentSpendTimeout
<1>3. CASE \/ TakerSpendMakerPayment \/ TakerPrepareForRefund \/ TakerWaitAutoRefund
           \/ TakerRefundPayment \/ TakerFinalizeRefund \/ TakerFinish \/ TakerKickStart
  BY <1>3
  DEF TakerSpendMakerPayment, TakerPrepareForRefund, TakerWaitAutoRefund,
      TakerRefundPayment, TakerFinalizeRefund, TakerFinish, TakerKickStart
<1>. QED  BY <1>1, <1>2, <1>3 DEF TakerHandler

\* Once TakerPaymentSent is saved the taker waits for the spend.
LEMMA TakerSentFollows ==
  ASSUME Taker, SentBatch, TakerHandler,
         "TakerPaymentSent" \notin t_saved, "TakerPaymentSent" \in t_saved'
  PROVE  TakerFollows'
<1>1. TakerSaveEvent
  BY TakerHandlerSaves
<1>2. t_pending \in Seq(TakerEvents) /\ t_pending # <<>>
  BY <1>1 DEF TakerSaveEvent, Taker, TakerSide, TakerControlTypeOK, TakerControlInv
<1>3. Head(t_pending) = "TakerPaymentSent"
  BY <1>1 DEF TakerSaveEvent
<1>4. t_pending[1] = "TakerPaymentSent" /\ 1 \in 1..Len(t_pending)
  BY SMT, <1>2, <1>3
<1>5. CASE t_pending = <<"TakerPaymentSent">>
  <2>1. Len(t_pending) = 1
    BY SMT, <1>5
  <2>2. t_pc' = t_next /\ TakerGoesOn(t_next, "TakerPaymentSent")
    BY <1>1, <1>4, <2>1 DEF TakerSaveEvent, Taker, TakerSide, TakerControlInv
  <2>3. t_pc' = "WaitForTakerPaymentSpend"
    BY <2>2, TakerCommandTable DEF TakerGoesOn, TakerAbandons
  <2>. QED  BY <2>3 DEF TakerFollows
<1>6. CASE t_pending = <<"TakerPaymentSent", "WatcherMessageSent">>
  <2>1. Len(t_pending) # 1 /\ Tail(t_pending) = <<"WatcherMessageSent">>
    BY SMT, <1>6
  <2>2. /\ t_pc' = "Saving" /\ t_last' = "TakerPaymentSent"
        /\ t_pending' = <<"WatcherMessageSent">>
    BY <1>1, <1>3, <2>1 DEF TakerSaveEvent
  <2>. QED  BY <2>2 DEF TakerFollows
<1>. QED  BY <1>4, <1>5, <1>6 DEF SentBatch

\* The maker never speaks for the taker.
LEMMA MakerHandlerSpeech ==
  ASSUME MakerHandler, NEW msg \in net', msg.kind = "TakerPayment"
  PROVE  msg \in net
<1>. USE DEF Broadcast
<1>1. CASE \/ MakerNegotiate \/ MakerNegotiateRecv \/ MakerNegotiateTimeout
           \/ MakerWaitTakerFee \/ MakerWaitForTakerPayment
  BY SMT, <1>1
  DEF MakerNegotiate, MakerNegotiateRecv, MakerNegotiateTimeout, MakerNegotiateFailed,
      MakerWaitTakerFee, MakerWaitForTakerPayment
<1>2. CASE \/ MakerStart \/ MakerWaitTakerFeeRecv \/ MakerWaitTakerFeeTimeout
           \/ MakerSendPayment \/ MakerSendPaymentSend \/ MakerPaymentWaitConfirm
           \/ MakerTakerPaymentRecv \/ MakerTakerPaymentRecvTimeout
           \/ MakerValidateTakerPayment
  BY <1>2
  DEF MakerStart, MakerWaitTakerFeeRecv, MakerWaitTakerFeeTimeout, MakerSendPayment,
      MakerSendPaymentSend, MakerPaymentWaitConfirm, MakerTakerPaymentRecv,
      MakerTakerPaymentRecvTimeout, MakerValidateTakerPayment
<1>3. CASE \/ MakerSpendTakerPayment \/ MakerSpendTakerPaymentSend
           \/ MakerConfirmTakerPaymentSpend \/ MakerPrepareForRefund \/ MakerWaitAutoRefund
           \/ MakerRefundPayment \/ MakerFinalizeRefund \/ MakerFinish \/ MakerSaveEvent
           \/ MakerKickStart
  BY <1>3
  DEF MakerSpendTakerPayment, MakerSpendTakerPaymentSend, MakerConfirmTakerPaymentSpend,
      MakerPrepareForRefund, MakerWaitAutoRefund, MakerRefundPayment, MakerFinalizeRefund,
      MakerFinish, MakerSaveEvent, MakerKickStart
<1>. QED  BY <1>1, <1>2, <1>3 DEF MakerHandler

\* The taker tells the maker of its payment only in wait_for_taker_payment_spend.
LEMMA TakerHandlerSpeech ==
  ASSUME TakerHandler, NEW msg \in net', msg.kind = "TakerPayment"
  PROVE  msg \in net \/ t_pc = "WaitForTakerPaymentSpend"
<1>. USE DEF Broadcast
<1>1. CASE TakerNegotiateRecv \/ TakerWaitForMakerPayment \/ TakerWaitForPaymentSpend
  BY SMT, <1>1 DEF TakerNegotiateRecv, TakerWaitForMakerPayment, TakerWaitForPaymentSpend
<1>2. CASE \/ TakerStart \/ TakerNegotiate \/ TakerNegotiated \/ TakerNegotiateTimeout
           \/ TakerSendFee \/ TakerSendFeeSend \/ TakerMakerPaymentRecv
           \/ TakerMakerPaymentRecvTimeout \/ TakerValidateMakerPayment
           \/ TakerValidatePanics
  BY <1>2
  DEF TakerStart, TakerNegotiate, TakerNegotiated, TakerNegotiateTimeout, TakerSendFee,
      TakerSendFeeSend, TakerMakerPaymentRecv, TakerMakerPaymentRecvTimeout,
      TakerValidateMakerPayment, TakerValidatePanics
<1>3. CASE \/ TakerSendPayment \/ TakerSendPaymentSend \/ TakerPaymentWaitConfirm
           \/ TakerPaymentSpendSeen \/ TakerPaymentSpendTimeout \/ TakerSpendMakerPayment
           \/ TakerPrepareForRefund \/ TakerWaitAutoRefund \/ TakerRefundPayment
           \/ TakerFinalizeRefund \/ TakerFinish \/ TakerSaveEvent \/ TakerKickStart
  BY <1>3
  DEF TakerSendPayment, TakerSendPaymentSend, TakerPaymentWaitConfirm,
      TakerPaymentSpendSeen, TakerPaymentSpendTimeout, TakerSpendMakerPayment,
      TakerPrepareForRefund, TakerWaitAutoRefund, TakerRefundPayment,
      TakerFinalizeRefund, TakerFinish, TakerSaveEvent, TakerKickStart
<1>. QED  BY <1>1, <1>2, <1>3 DEF TakerHandler

\* What the taker's side of the invariant makes of a step that is not the taker's.
LEMMA PatientFrame ==
  ASSUME World, Taker, PatientInv, UNCHANGED takerVars, Grows, now' \in Nat, now <= now',
         \A msg \in net' : msg.kind = "TakerPayment" => msg \in net,
         MakerLogged("TakerPaymentReceived")' =>
           \/ MakerLogged("TakerPaymentReceived")
           \/ Received("TakerPayment") # {}
  PROVE  PatientInv'
<1>1. UNCHANGED <<t_pc, t_pending, t_saved, t_last, t_started_at>>
  BY DEF takerVars
<1>2. TakerFollows' <=> TakerFollows
  BY <1>1 DEF TakerFollows
<1>3. SentBatch'
  BY <1>1 DEF PatientInv, SentBatch
<1>4. now > TakerPaymentLock => now' > TakerPaymentLock'
  <2>1. TakerPaymentLock \in Nat /\ now \in Nat /\ TakerPaymentLock' = TakerPaymentLock
    BY SMT, <1>1, LockAssumption
    DEF Taker, TakerDataTypeOK, TakerPaymentLock, World, EnvDataTypeOK
  <2>. QED  BY SMT, <2>1
<1>5. Spent("maker_payment") => Spent("maker_payment")'
  BY DEF Grows, Payments
<1>6. MakerLogged("TakerPaymentReceived")' => "TakerPaymentSent" \in t_saved
  BY DEF PatientInv, Received
<1>. QED  BY <1>1, <1>2, <1>3, <1>4, <1>5, <1>6 DEF PatientInv

\* A step of the maker's node.
LEMMA MakerPatient ==
  ASSUME World, Maker, Taker, PatientInv, Grows, UNCHANGED takerVars,
         MakerStep \/ MakerCrash \/ MakerRecoverFunds
  PROVE  PatientInv'
<1>1. UNCHANGED now /\ now \in Nat /\ now <= now'
  BY SMT DEF MakerStep, MakerCrash, MakerRecoverFunds, World, EnvDataTypeOK
<1>2. \A msg \in net' : msg.kind = "TakerPayment" => msg \in net
  BY MakerHandlerSpeech DEF MakerStep, MakerCrash, MakerRecoverFunds
<1>3. MakerLogged("TakerPaymentReceived")' =>
        MakerLogged("TakerPaymentReceived") \/ Received("TakerPayment") # {}
  <2>1. CASE MakerStep
    BY <2>1, MakerHandlerLogs DEF MakerStep, Maker, AgreedEvents, MakerLogs
  <2>2. CASE MakerCrash \/ MakerRecoverFunds
    BY <2>2, LoggedSame DEF MakerCrash, MakerRecoverFunds, makerVars
  <2>. QED  BY <2>1, <2>2
<1>. QED  BY <1>1, <1>2, <1>3, PatientFrame

\* A taker that has paid has started, once and for all.
LEMMA SentStarted ==
  ASSUME Taker, TakerStep \/ TakerCrash \/ TakerRecoverFunds, t_saved # {}
  PROVE  UNCHANGED t_started_at /\ TakerPaymentLock' = TakerPaymentLock
<1>1. t_pc # "Start"
  BY DEF Taker, TakerOrderInv, LogOrdered
<1>. QED  BY <1>1, TakerStartsOnce DEF TakerPaymentLock

\* A taker about to spend the maker payment has the secret from the chain.
LEMMA SpenderKnows ==
  ASSUME Taker, t_pc = "SpendMakerPayment"
  PROVE  SecretPublic
BY TakerPaths DEF Taker, TakerSide, TakerLogInv, TakerEventOK, TakerEventBacked, SecretPublic

\* A step of the taker's task.
LEMMA TakerStepPatient ==
  ASSUME LockIsLong, World, Maker, Taker, AgreedInv, ReturnInv, PatientInv, Grows,
         TakerStep, UNCHANGED makerVars
  PROVE  PatientInv'
<1>1. TakerHandler /\ UNCHANGED now
  BY DEF TakerStep
<1>2. t_saved \subseteq t_saved'
  BY DEF Grows
<1>3. \A msg \in net' : msg.kind = "TakerPayment" => "TakerPaymentSent" \in t_saved'
  BY <1>1, <1>2, TakerHandlerSpeech, TakerPaths DEF PatientInv, Taker
<1>4. MakerLogged("TakerPaymentReceived")' => "TakerPaymentSent" \in t_saved'
  BY <1>2, LoggedSame DEF PatientInv, makerVars
<1>5. SentBatch'
  BY <1>1, TakerHandlerBatch DEF PatientInv, Taker
<1>6. ASSUME "TakerPaymentSent" \in t_saved'
      PROVE  TakerFollows' \/ now' > TakerPaymentLock' \/ Spent("maker_payment")'
  <2>1. CASE "TakerPaymentSent" \notin t_saved
    BY <1>1, <1>6, <2>1, TakerSentFollows DEF PatientInv
  <2>2. CASE "TakerPaymentSent" \in t_saved
    <3>1. TakerPaymentLock' = TakerPaymentLock
      BY <2>2, SentStarted
    <3>2. CASE now > TakerPaymentLock
      BY <1>1, <3>1, <3>2
    <3>3. CASE Spent("maker_payment")
      BY <3>3 DEF Grows, Payments
    <3>4. CASE TakerFollows /\ ~(now > TakerPaymentLock) /\ ~Spent("maker_payment")
      <4>1. FollowsOn
        BY <1>1, <3>4, TakerHandlerFollows DEF LockIsLong
      <4>2. ~(t_pc = "SpendMakerPayment" /\ ~Unclaimed("maker_payment"))
        <5>1. now \in Nat /\ TakerPaymentLock \in Nat
          BY SMT, LockAssumption
          DEF World, EnvDataTypeOK, Taker, TakerDataTypeOK, TakerPaymentLock
        <5>2. now <= TakerPaymentLock + 3
          BY SMT, <3>4, <5>1
        <5>. QED  BY <3>4, <5>2, SpenderKnows, NotReturned
      <4>. QED  BY <3>4, <4>1, <4>2 DEF FollowsOn
    <3>. QED  BY <2>2, <3>2, <3>3, <3>4 DEF PatientInv
  <2>. QED  BY <2>1, <2>2
<1>. QED  BY <1>3, <1>4, <1>5, <1>6 DEF PatientInv

\* A follower whose node goes down follows on once it is up again.
LEMMA FollowerFalls ==
  ASSUME Taker, TakerFollows, t_pc # "Saving" \/ t_last \in {"TakerPaymentSent", "WatcherMessageSent"},
         t_pc' = "Down", UNCHANGED t_last
  PROVE  TakerFollows'
BY FollowerLast DEF TakerFollows

\* The taker's node goes down, for a moment or for long.
LEMMA TakerDownPatient ==
  ASSUME Taker, PatientInv, Grows, TakerCrash \/ TakerLeaves, UNCHANGED makerVars
  PROVE  PatientInv'
<1>1. /\ UNCHANGED <<now, net, htlc, t_saved, t_last, t_started_at>>
      /\ t_pending' = <<>>
  BY DEF TakerCrash, TakerLeaves, envVars, Taker, TakerSide, TakerControlInv
<1>2. SentBatch'
  BY SMT, <1>1 DEF SentBatch
<1>3. "TakerPaymentSent" \in t_saved => t_pc' = "Down"
  <2>1. "TakerPaymentSent" \in t_saved => "Started" \in t_saved
    BY TakerCommandTable
    DEF Taker, TakerSide, TakerLogInv, TakerEventOK, TakerRequires
  <2>. QED  BY <2>1 DEF TakerCrash, TakerLeaves
<1>4. "TakerPaymentSent" \in t_saved /\ TakerFollows => TakerFollows'
  BY <1>1, <1>3, FollowerFalls DEF TakerFollows
<1>5. MakerLogged("TakerPaymentReceived")' => MakerLogged("TakerPaymentReceived")
  BY LoggedSame DEF makerVars
<1>. QED  BY <1>1, <1>2, <1>4, <1>5 DEF PatientInv, Spent, TakerPaymentLock

-----------------------------------------------------------------------------
(* The way back of the maker payment.                                      *)

\* A lock time stands once the payment is out.
LEMMA ReturnStays ==
  ASSUME World, ReturnInv, Grows, now' \in Nat, now <= now', Refunded("maker_payment"),
         OnChain("maker_payment") => lock'["maker_payment"] = lock["maker_payment"]
  PROVE  now' > lock'["maker_payment"] \/ Refunded("taker_payment")'
<1>1. lock'["maker_payment"] = lock["maker_payment"]
  BY DEF Refunded, OnChain
<1>2. now \in Nat /\ lock["maker_payment"] \in Nat
  BY DEF World, EnvDataTypeOK, ChainTypeOK, Payments
<1>3. CASE now > lock["maker_payment"]
  BY SMT, <1>1, <1>2, <1>3
<1>4. CASE Refunded("taker_payment")
  BY <1>4 DEF Grows, Payments
<1>. QED  BY <1>3, <1>4 DEF ReturnInv

\* Everyone but the maker gives it back only as ReturnInv says.
LEMMA OtherReturn ==
  ASSUME World, ReturnInv, Grows, OtherMove, now' \in Nat, now <= now'
  PROVE  ReturnInv'
<1>1. lock \in [Payments -> Nat] /\ htlc \in [Payments -> HtlcStates]
  BY DEF World, ChainTypeOK
<1>2. lock'["maker_payment"] = lock["maker_payment"]
  BY <1>1 DEF OtherMove, ChainUnchanged, FeeSent, SendPayment, Claimed, SpendPayment, Returned,
              Mined, Payments
<1>3. \/ Refunded("maker_payment")' => Refunded("maker_payment")
      \/ now > lock["maker_payment"]
      \/ Refunded("taker_payment")
  BY <1>1 DEF OtherMove, ChainUnchanged, FeeSent, SendPayment, Claimed, SpendPayment, Returned,
              Mined, Payments, Refunded
<1>4. CASE Refunded("maker_payment")
  BY <1>2, <1>4, ReturnStays DEF ReturnInv
<1>5. CASE now > lock["maker_payment"]
  <2>1. now \in Nat /\ lock["maker_payment"] \in Nat
    BY DEF World, EnvDataTypeOK, ChainTypeOK, Payments
  <2>2. now' > lock'["maker_payment"]
    BY SMT, <1>2, <1>5, <2>1
  <2>. QED  BY <2>2 DEF ReturnInv
<1>6. CASE Refunded("taker_payment")
  BY <1>6 DEF ReturnInv, Grows, Payments
<1>. QED  BY <1>3, <1>4, <1>5, <1>6 DEF ReturnInv

\* A step of the maker: its refund waits for the lock time it chose itself.
LEMMA MakerReturnStep ==
  ASSUME World, Maker, AgreedInv, ReturnInv, Grows, MakerStep
  PROVE  ReturnInv'
<1>1. MakerChainMove /\ UNCHANGED now
  BY MakerHandlerChain DEF MakerStep
<1>2. lock \in [Payments -> Nat] /\ htlc \in [Payments -> HtlcStates] /\ now \in Nat
  BY DEF World, ChainTypeOK, EnvDataTypeOK
<1>3. OnChain("maker_payment") => lock'["maker_payment"] = lock["maker_payment"]
  BY <1>1, <1>2 DEF MakerChainMove, ChainUnchanged, SendPayment, Claimed, SpendPayment,
                    Returned, Payments
<1>4. CASE Refunded("maker_payment")
  <2>1. now' \in Nat /\ now <= now'
    BY SMT, <1>1, <1>2
  <2>. QED  BY <1>3, <1>4, <2>1, ReturnStays DEF ReturnInv
<1>5. CASE ~Refunded("maker_payment") /\ Refunded("maker_payment")'
  <2>1. Returned("maker_payment") /\ now > MakerPaymentLock
    BY <1>1, <1>2, <1>5
    DEF MakerChainMove, ChainUnchanged, SendPayment, Claimed, SpendPayment, Returned,
        Payments, Refunded
  <2>2. OnChain("maker_payment")
    BY <2>1 DEF Returned, Unclaimed, OnChain
  <2>. QED  BY <1>1, <1>3, <2>1, <2>2 DEF ReturnInv, AgreedInv
<1>. QED  BY <1>4, <1>5 DEF ReturnInv

-----------------------------------------------------------------------------
(* The taker gets there in time.                                           *)

\* The numbers the argument is about.
LEMMA TimingTypes ==
  ASSUME World, Taker
  PROVE  /\ now \in Nat /\ crashes \in Nat /\ MaxCrashes \in Nat /\ TakerPaymentLock \in Nat
         /\ TakerStepsLeft \in 1..6 /\ StepsOfTaker = 6
         /\ now - 1 <= Turn("taker") /\ Turn("taker") <= now /\ Turn("taker") \in Int
<1>1. now \in Nat /\ crashes \in Nat /\ MaxCrashes \in Nat /\ t_started_at \in Nat
  BY BoundAssumption DEF World, EnvDataTypeOK, Taker, TakerDataTypeOK
<1>2. TakerPaymentLock \in Nat
  BY SMT, <1>1, LockAssumption DEF TakerPaymentLock
<1>3. now - 1 <= Turn("taker") /\ Turn("taker") <= now /\ Turn("taker") \in Int
  BY SMT, <1>1 DEF Turn
<1>. QED  BY <1>1, <1>2, <1>3, StepsLeftTable DEF StepsOfTaker

\* A step that is not the taker's, does not move the clock and publishes nothing.
LEMMA InTimeFrame ==
  ASSUME World, Taker, TakerInTime, Grows, UNCHANGED takerVars, UNCHANGED <<now, away>>,
         "taker" \in overdue' <=> "taker" \in overdue,
         crashes' = crashes \/ (crashes < MaxCrashes /\ crashes' = crashes + 1),
         SecretPublic' => SecretPublic
  PROVE  TakerInTime'
<1>1. UNCHANGED <<t_pc, t_pending, t_last, t_started_at>>
  BY DEF takerVars
<1>2. (TakerFollows' <=> TakerFollows) /\ UNCHANGED <<TakerStepsLeft, TakerPaymentLock>>
  BY <1>1 DEF TakerFollows, TakerStepsLeft, TakerPaymentLock
<1>3. Turn("taker")' = Turn("taker")
  BY DEF Turn
<1>4. /\ crashes <= MaxCrashes => crashes' <= MaxCrashes
      /\ Turn("taker") + TakerStepsLeft + StepsOfTaker * (MaxCrashes - crashes)
           <= TakerPaymentLock
         => Turn("taker")' + TakerStepsLeft' + StepsOfTaker * (MaxCrashes - crashes')
              <= TakerPaymentLock'
  <2>. HIDE DEF Turn, TakerStepsLeft, TakerPaymentLock, StepsOfTaker
  <2>. QED  BY SMT, <1>2, <1>3, TimingTypes
<1>5. Spent("maker_payment") => Spent("maker_payment")'
  BY DEF Grows, Payments
<1>6. StepsOfTaker' = StepsOfTaker
  BY DEF StepsOfTaker
<1>. QED  BY <1>2, <1>4, <1>5, <1>6 DEF TakerInTime

\* The moment the secret leaves the maker's node: its deadline lies so far before the
\* taker's lock time that all the crashes left do not keep the taker from the payment.
LEMMA SecretLeaves ==
  ASSUME LockIsLong, World, Maker, Taker, SecretInv, PatientInv,
         m_pc = "SpendTakerPayment.send"
  PROVE  /\ now + StepsOfTaker * (MaxCrashes + 1) <= TakerPaymentLock
         /\ TakerFollows \/ Spent("maker_payment")
<1>1. /\ now <= m_started_at + (LockDuration * 4) \div 5 + 1
      /\ lock["taker_payment"] = m_taker_lock /\ OnChain("taker_payment")
      /\ CloseLocks
      /\ MakerLogged("TakerPaymentReceived")
  BY SendInTime DEF MakerLogged
<1>2. m_taker_lock = TakerPaymentLock
  BY <1>1 DEF SecretInv, AgreedInv
<1>3. m_started_at \in Nat /\ m_taker_lock \in Nat
  BY DEF Maker, MakerDataTypeOK
<1>4. now + StepsOfTaker * (MaxCrashes + 1) <= m_taker_lock
  <2>1. StepsOfTaker * (MaxCrashes + 1) \in Nat
    BY SMT, TimingTypes
  <2>. QED
    BY SMT, <1>1, <1>3, <2>1, TimingTypes, LockAssumption DEF LockIsLong, CloseLocks
<1>5. ~(now > TakerPaymentLock)
  BY SMT, <1>2, <1>4, TimingTypes
<1>. QED  BY <1>1, <1>2, <1>4, <1>5 DEF PatientInv

\* The maker publishes it.
LEMMA MakerPublishes ==
  ASSUME LockIsLong, World, Maker, Taker, SecretInv, PatientInv, TakerInTime, Grows,
         MakerStep, UNCHANGED takerVars, UNCHANGED away, m_pc = "SpendTakerPayment.send"
  PROVE  TakerInTime'
<1>1. UNCHANGED <<t_pc, t_pending, t_last, t_started_at, now, crashes>>
  BY DEF takerVars, MakerStep
<1>2. (TakerFollows' <=> TakerFollows) /\ UNCHANGED <<TakerStepsLeft, TakerPaymentLock>>
  BY <1>1 DEF TakerFollows, TakerStepsLeft, TakerPaymentLock
<1>3. Turn("taker")' = Turn("taker")
  BY <1>1 DEF Turn, MakerStep
<1>4. Turn("taker")' + TakerStepsLeft' + StepsOfTaker * (MaxCrashes - crashes')
        <= TakerPaymentLock'
  BY SMT, <1>1, <1>2, <1>3, TimingTypes, SecretLeaves
<1>5. Spent("maker_payment") => Spent("maker_payment")'
  BY DEF Grows, Payments
<1>6. StepsOfTaker' = StepsOfTaker
  BY DEF StepsOfTaker
<1>. QED  BY <1>1, <1>2, <1>4, <1>5, <1>6, SecretLeaves DEF TakerInTime

\* Without the maker's send nothing is published by a step of the taker's node.
LEMMA TakerKeepsSecret ==
  ASSUME World, Maker, Taker, AgreedInv, UNCHANGED makerVars,
         TakerStep \/ TakerCrash \/ TakerRecoverFunds
  PROVE  SecretPublic' => SecretPublic
BY TakerOtherMove, OtherMoveAgreed, TakerStartsOnce

\* The taker's own step brings it closer.
LEMMA TakerStepInTime ==
  ASSUME LockIsLong, World, Maker, Taker, AgreedInv, ReturnInv, TakerInTime, Grows,
         TakerStep, UNCHANGED makerVars, UNCHANGED away
  PROVE  TakerInTime'
<1>1. TakerHandler /\ UNCHANGED <<now, crashes>> /\ "taker" \notin overdue'
  BY DEF TakerStep
<1>2. SecretPublic' => SecretPublic
  BY TakerKeepsSecret
<1>3. Spent("maker_payment") => Spent("maker_payment")'
  BY DEF Grows, Payments
<1>4. ASSUME SecretPublic, TakerFollows, ~Spent("maker_payment"),
             Turn("taker") + TakerStepsLeft + StepsOfTaker * (MaxCrashes - crashes)
               <= TakerPaymentLock,
             crashes <= MaxCrashes
      PROVE  \/ Spent("maker_payment")'
             \/ /\ TakerFollows'
                /\ Turn("taker")' + TakerStepsLeft' + StepsOfTaker * (MaxCrashes - crashes')
                     <= TakerPaymentLock'
  <2>1. now <= TakerPaymentLock
    BY SMT, <1>4, TimingTypes
  <2>2. ~(now > TakerPaymentLock) /\ now <= TakerPaymentLock + 3
    BY SMT, <2>1, TimingTypes
  <2>3. Unclaimed("maker_payment")
    BY <1>4, <2>2, NotReturned
  <2>4. Spent("maker_payment")' \/ (TakerFollows' /\ TakerStepsLeft' + 1 = TakerStepsLeft)
    BY <1>1, <1>4, <2>2, <2>3, TakerHandlerFollows DEF FollowsOn, LockIsLong
  <2>5. TakerPaymentLock' = TakerPaymentLock
    BY <1>4, TakerStartsOnce DEF TakerFollows, TakerPaymentLock
  <2>6. Turn("taker")' = now
    BY <1>1 DEF Turn
  <2>7. TakerStepsLeft' + 1 = TakerStepsLeft =>
          Turn("taker")' + TakerStepsLeft' + StepsOfTaker * (MaxCrashes - crashes')
            <= TakerPaymentLock'
    BY SMT, <1>1, <1>4, <2>5, <2>6, TimingTypes, StepsLeftTableNext
  <2>. QED  BY <2>4, <2>7
<1>5. StepsOfTaker' = StepsOfTaker
  BY DEF StepsOfTaker
<1>. QED  BY <1>1, <1>2, <1>3, <1>4, <1>5 DEF TakerInTime

\* A crash costs it at most the six steps that are put aside for it.
LEMMA TakerCrashInTime ==
  ASSUME World, Taker, TakerInTime, Grows, TakerCrash, UNCHANGED away
  PROVE  TakerInTime'
<1>1. /\ UNCHANGED <<now, overdue, htlc, t_last, t_started_at>>
      /\ crashes < MaxCrashes /\ crashes' = crashes + 1
      /\ "Started" \in t_saved => t_pc' = "Down"
  BY DEF TakerCrash
<1>2. TakerFollows => TakerFollows'
  <2>1. TakerFollows => "Started" \in t_saved
    <3>1. ASSUME t_pending \in {<<"WatcherMessageSent">>, <<"TakerPaymentSpent">>}
          PROVE  "Started" \in t_saved
      <4>1. /\ t_pending[1] \in {"WatcherMessageSent", "TakerPaymentSpent"}
            /\ 1 \in 1..Len(t_pending)
            /\ Upto(t_saved, t_pending, 1) \subseteq t_saved \cup {t_pending[1]}
        BY SMT, <3>1 DEF Upto
      <4>. QED
        BY <4>1, TakerCommandTable
        DEF Taker, TakerSide, TakerLogInv, TakerEventOK, TakerRequires
    <3>. QED  BY <3>1, TakerPaths DEF TakerFollows, Taker, TakerOrderInv
  <2>. QED  BY <1>1, <2>1, FollowerFalls DEF TakerFollows
<1>3. Turn("taker")' = Turn("taker") /\ TakerPaymentLock' = TakerPaymentLock
  BY <1>1 DEF Turn, TakerPaymentLock
<1>4. /\ crashes' <= MaxCrashes
      /\ Turn("taker") + TakerStepsLeft + StepsOfTaker * (MaxCrashes - crashes)
           <= TakerPaymentLock
         => Turn("taker")' + TakerStepsLeft' + StepsOfTaker * (MaxCrashes - crashes')
              <= TakerPaymentLock'
  BY SMT, <1>1, <1>3, TimingTypes, StepsLeftTableNext
<1>5. StepsOfTaker' = StepsOfTaker
  BY DEF StepsOfTaker
<1>. QED  BY <1>1, <1>2, <1>4, <1>5 DEF TakerInTime, Spent, SecretPublic

\* The clock: a follower of a public spend has something to do at every tick.
LEMMA TickInTime ==
  ASSUME World, Taker, TakerInTime, Synchronous, WatchedTick
  PROVE  TakerInTime'
<1>1. /\ UNCHANGED takerVars /\ UNCHANGED <<htlc, crashes, away>>
      /\ now' = now + 1 /\ overdue' = Outstanding /\ overdue \subseteq Unhurried
  BY DEF WatchedTick
<1>2. UNCHANGED <<t_pc, t_pending, t_last, t_started_at>>
  BY <1>1 DEF takerVars
<1>3. (TakerFollows' <=> TakerFollows) /\ UNCHANGED <<TakerStepsLeft, TakerPaymentLock>>
  BY <1>2 DEF TakerFollows, TakerStepsLeft, TakerPaymentLock
<1>4. ASSUME SecretPublic, ~away, TakerFollows
      PROVE  Turn("taker")' = Turn("taker")
  <2>1. TakerReady
    BY <1>4 DEF TakerReady, TakerFollows, SecretPublic, Spent, Confirmed
  <2>2. "taker" \in overdue'
    BY <1>1, <2>1 DEF Outstanding
  <2>3. "taker" \notin overdue
    BY <1>1, <1>4 DEF Unhurried
  <2>. QED  BY SMT, <1>1, <2>2, <2>3, TimingTypes DEF Turn
<1>5. (SecretPublic' <=> SecretPublic) /\ (Spent("maker_payment")' <=> Spent("maker_payment"))
  BY <1>1 DEF SecretPublic, Spent
<1>6. StepsOfTaker' = StepsOfTaker
  BY DEF StepsOfTaker
<1>. QED  BY <1>1, <1>3, <1>4, <1>5, <1>6 DEF TakerInTime

-----------------------------------------------------------------------------
(* So does a watcher that watches.                                         *)

\* The numbers again.
LEMMA WatcherTypes ==
  ASSUME World, Taker, NEW w \in Watchers
  PROVE  /\ now \in Nat /\ TakerPaymentLock \in Nat
         /\ now - 1 <= WatcherTurn(w) /\ WatcherTurn(w) <= now /\ WatcherTurn(w) \in Int
BY SMT, TimingTypes DEF WatcherTurn

\* A step of somebody else, the clock excepted, that publishes nothing.
LEMMA WatcherFrame ==
  ASSUME World, Taker, NEW w \in Watchers, WatcherInTime(w), Watched, Grows,
         w_pc'[w] = w_pc[w], UNCHANGED now, w \in w_overdue' <=> w \in w_overdue,
         t_pc # "Start" => UNCHANGED t_started_at,
         SecretPublic' => SecretPublic
  PROVE  WatcherInTime(w)'
<1>1. WatcherTurn(w)' = WatcherTurn(w)
  BY DEF WatcherTurn
<1>2. w_pc[w] \in WatcherStates => TakerPaymentLock' = TakerPaymentLock
  BY DEF Watched, Told, TakerPaymentLock
<1>3. Spent("maker_payment") \/ Refunded("taker_payment") =>
        Spent("maker_payment")' \/ Refunded("taker_payment")'
  BY DEF Grows, Payments
<1>. QED  BY <1>1, <1>2, <1>3 DEF WatcherInTime, WatcherStates

\* The maker publishes the secret.
LEMMA WatcherPublished ==
  ASSUME LockIsLong, World, Maker, Taker, SecretInv, PatientInv, Grows,
         NEW w \in Watchers, WatcherInTime(w),
         m_pc = "SpendTakerPayment.send", UNCHANGED <<now, w_pc, w_overdue, t_started_at>>
  PROVE  WatcherInTime(w)'
<1>1. now < TakerPaymentLock /\ ~(now > TakerPaymentLock)
  BY SMT, SecretLeaves, TimingTypes
<1>2. WatcherTurn(w)' = WatcherTurn(w) /\ TakerPaymentLock' = TakerPaymentLock
  BY DEF WatcherTurn, TakerPaymentLock
<1>3. WatcherTurn(w) < TakerPaymentLock
  BY SMT, <1>1, WatcherTypes
<1>4. Spent("maker_payment") \/ Refunded("taker_payment") =>
        Spent("maker_payment")' \/ Refunded("taker_payment")'
  BY DEF Grows, Payments
<1>. QED  BY <1>1, <1>2, <1>3, <1>4 DEF WatcherInTime

\* The clock.
LEMMA WatcherTick ==
  ASSUME World, Taker, Watched, NEW w \in Watchers, WatcherInTime(w), Synchronous, WatchedTick
  PROVE  WatcherInTime(w)'
<1>1. /\ UNCHANGED <<htlc, w_pc, w_started_at, t_started_at>>
      /\ now' = now + 1 /\ w_overdue = {}
      /\ w \in w_overdue' <=> WatcherReady(w)
  BY DEF WatchedTick, takerVars
<1>2. WatcherTurn(w) = now /\ TakerPaymentLock' = TakerPaymentLock
  BY <1>1 DEF WatcherTurn, TakerPaymentLock
<1>3. WatcherReady(w) => WatcherTurn(w)' = now
  BY SMT, <1>1, WatcherTypes DEF WatcherTurn
<1>4. w_pc[w] = "WaitForTakerPaymentSpend" /\ SecretPublic => WatcherReady(w)
  BY DEF WatcherReady, SecretPublic, Spent, Unclaimed
<1>5. w_pc[w] = "SpendMakerPayment" => WatcherReady(w)
  BY DEF WatcherReady, WatcherStates
<1>6. w_pc[w] = "WaitForTakerPaymentSpend.maker_spend"
        => WatcherReady(w) \/ now <= TakerPaymentLock
  <2>1. w_pc[w] = "WaitForTakerPaymentSpend.maker_spend"
          => WatcherReady(w) \/ ~(now > TakerPaymentLock)
    BY DEF WatcherReady, WaitForMakerPaymentSpendDeadline, Watched, WatcherKnows,
           WatcherStates, TakerPaymentLock
  <2>. QED  BY SMT, <2>1, WatcherTypes
<1>7. WatcherTurn(w)' <= now + 1 /\ (now > TakerPaymentLock => now' > TakerPaymentLock)
  BY SMT, <1>1, WatcherTypes DEF WatcherTurn
<1>8. now <= TakerPaymentLock => WatcherTurn(w)' <= TakerPaymentLock + 1
  <2>1. WatcherTurn(w)' \in Int
    BY SMT, <1>1, WatcherTypes DEF WatcherTurn
  <2>. QED  BY SMT, <1>7, <2>1, WatcherTypes
<1>9. /\ SecretPublic' <=> SecretPublic
      /\ Spent("maker_payment")' <=> Spent("maker_payment")
      /\ Refunded("taker_payment")' <=> Refunded("taker_payment")
  BY <1>1 DEF SecretPublic, Spent, Refunded
<1>. QED  BY <1>1, <1>2, <1>3, <1>4, <1>5, <1>6, <1>7, <1>8, <1>9 DEF WatcherInTime

\* The start and the end of a watch.
LEMMA WatcherOut ==
  ASSUME NEW w \in Watchers,
         w_pc'[w] \in {"Idle", "Failed", "ValidateTakerFee", "ValidateTakerPayment"}
  PROVE  WatcherInTime(w)'
BY DEF WatcherInTime

\* The watcher's own step.
LEMMA WatcherOwnStep ==
  ASSUME LockIsLong, World, Taker, Watched, NEW w \in Watchers, WatcherInTime(w),
         WatcherMoves(w)
  PROVE  WatcherInTime(w)'
<1>1. UNCHANGED now /\ TakerPaymentLock' = TakerPaymentLock /\ w_pc \in [Watchers -> WatcherStates \cup WatcherStopped]
  BY DEF WatcherMoves, WatcherStep, WatcherSpawn, WatcherCrash, takerVars, TakerPaymentLock,
         Watched, WatcherTypeOK
<1>2. ASSUME NEW state, ChangeState(w, state) PROVE w_pc'[w] = state
  BY <1>1, <1>2 DEF ChangeState
<1>3. ASSUME WatcherStep(w) PROVE WatcherTurn(w)' = now
  BY <1>1, <1>3 DEF WatcherStep, WatcherTurn
<1>4. ASSUME w_pc[w] \in WatcherStates
      PROVE  /\ TakerLocktime(w) = TakerPaymentLock
             /\ WaitForMakerPaymentSpendDeadline(w) = TakerPaymentLock
             /\ RefundStartTime(w) >= TakerPaymentLock
             /\ TakerPaymentSpendDeadline(w_started_at[w]) < TakerPaymentLock
             /\ RefundStartTime(w) \in Nat /\ TakerPaymentSpendDeadline(w_started_at[w]) \in Nat
  <2>1. w_started_at[w] = t_started_at /\ t_started_at \in Nat
    BY <1>4 DEF Watched, WatcherKnows, Taker, TakerDataTypeOK
  <2>. QED
    BY SMT, <2>1, LongLock, LockAssumption
    DEF TakerLocktime, WaitForMakerPaymentSpendDeadline, RefundStartTime,
        TakerPaymentSpendDeadline, TakerPaymentLock
<1>5. CASE WatcherSpawn(w) \/ WatcherCrash(w)
  <2>1. w_pc'[w] \in {"Idle", "ValidateTakerFee"}
    BY <1>1, <1>2, <1>5 DEF WatcherSpawn, SpawnTakerSwapWatcher, WatcherCrash
  <2>. QED  BY <2>1, WatcherOut
<1>6. CASE WatcherStep(w)
  <2>0. WatcherTurn(w)' = now /\ now - 1 <= WatcherTurn(w) /\ WatcherTurn(w) <= now
    BY <1>3, <1>6, WatcherTypes
  <2>1. CASE WatcherValidateTakerFee(w)
    <3>1. w_pc'[w] \in {"Failed", "ValidateTakerPayment"}
      BY <1>2, <2>1 DEF WatcherValidateTakerFee
    <3>. QED  BY <3>1, WatcherOut
  <2>2. CASE WatcherValidateTakerPayment(w)
    <3>1. w_pc[w] \in WatcherStates
      BY <2>2 DEF WatcherValidateTakerPayment, WatcherStates
    <3>2. \/ w_pc'[w] = "Failed"
          \/ w_pc'[w] = "WaitForTakerPaymentSpend" /\ ~WatcherWaitsTooLong(w)
      BY <1>2, <2>2 DEF WatcherValidateTakerPayment
    <3>3. ~WatcherWaitsTooLong(w) => now < TakerPaymentLock
      BY SMT, <1>4, <3>1, WatcherTypes DEF WatcherWaitsTooLong
    <3>. QED  BY <1>1, <2>0, <3>2, <3>3, WatcherOut DEF WatcherInTime
  <2>3. CASE WatcherFindsSpend(w)
    <3>1. WatcherTurn(w) < TakerPaymentLock
      BY <2>3 DEF WatcherFindsSpend, WatcherSpendFound, WatcherInTime, SecretPublic
    <3>2. now <= TakerPaymentLock + 1 /\ now <= TakerPaymentLock + 2
      BY SMT, <2>0, <3>1, WatcherTypes
    <3>3. w_pc'[w] \in {"WaitForTakerPaymentSpend.maker_spend", "SpendMakerPayment", "Failed"}
      BY <1>2, <2>3 DEF WatcherFindsSpend
    <3>. QED  BY <1>1, <2>0, <3>2, <3>3 DEF WatcherInTime
  <2>4. CASE WatcherFindsRefund(w)
    <3>1. w_pc'[w] = "Finished" /\ Refunded("taker_payment")'
      BY <1>2, <2>4 DEF WatcherFindsRefund, ChainUnchanged, Refunded
    <3>. QED  BY <3>1 DEF WatcherInTime
  <2>5. CASE WatcherWaitedLongEnough(w)
    <3>1. w_pc[w] = "WaitForTakerPaymentSpend" /\ now > RefundStartTime(w)
      BY <2>5 DEF WatcherWaitedLongEnough
    <3>2. now > TakerPaymentLock
      BY SMT, <1>4, <3>1, WatcherTypes DEF WatcherStates
    <3>3. ~SecretPublic
      <4>1. ~(WatcherTurn(w) < TakerPaymentLock)
        BY SMT, <2>0, <3>2, WatcherTypes
      <4>. QED  BY <3>1, <4>1 DEF WatcherInTime
    <3>4. w_pc'[w] = "RefundTakerPayment" /\ ~SecretPublic'
      BY <1>2, <2>5, <3>3 DEF WatcherWaitedLongEnough, ChainUnchanged, SecretPublic, Spent
    <3>. QED  BY <1>1, <3>2, <3>4 DEF WatcherInTime
  <2>6. CASE WatcherWaitsForMakerSpend(w)
    <3>1. WatcherTurn(w) <= TakerPaymentLock + 1
      BY <2>6 DEF WatcherWaitsForMakerSpend, WatcherInTime
    <3>2. now <= TakerPaymentLock + 2
      BY SMT, <2>0, <3>1, WatcherTypes
    <3>3. \/ w_pc'[w] = "Finished" /\ Spent("maker_payment")'
          \/ w_pc'[w] \in {"SpendMakerPayment", "Failed"}
      BY <1>2, <2>6 DEF WatcherWaitsForMakerSpend, ChainUnchanged, Spent
    <3>. QED  BY <1>1, <2>0, <3>2, <3>3 DEF WatcherInTime
  <2>7. CASE WatcherSpendMakerPayment(w)
    <3>1. SpendPayment("maker_payment") => Spent("maker_payment")'
      BY DEF SpendPayment, Spent, World, ChainTypeOK, Payments
    <3>2. \/ w_pc'[w] = "Finished" /\ Spent("maker_payment")'
          \/ w_pc'[w] = "Failed"
      BY <1>2, <2>7, <3>1 DEF WatcherSpendMakerPayment
    <3>. QED  BY <3>2 DEF WatcherInTime
  <2>8. CASE WatcherRefundTakerPayment(w)
    <3>1. RefundPayment("taker_payment") => Refunded("taker_payment")'
      BY DEF RefundPayment, Refunded, World, ChainTypeOK, Payments
    <3>2. \/ w_pc'[w] = "Finished" /\ Refunded("taker_payment")'
          \/ w_pc'[w] = "Failed"
      BY <1>2, <2>8, <3>1 DEF WatcherRefundTakerPayment
    <3>. QED  BY <3>2 DEF WatcherInTime
  <2>. QED
    BY <1>6, <2>1, <2>2, <2>3, <2>4, <2>5, <2>6, <2>7, <2>8 DEF WatcherStep, WatcherState
<1>. QED  BY <1>5, <1>6 DEF WatcherMoves

\* A step of one watcher, as another one sees it.
LEMMA WatcherOtherStep ==
  ASSUME Watched, NEW w \in Watchers, WatcherMoves(w), NEW v \in Watchers, v # w
  PROVE  w_pc'[v] = w_pc[v] /\ (v \in w_overdue' <=> v \in w_overdue)
<1>1. w_pc'[v] = w_pc[v]
  BY WatcherControl DEF Watched, WatcherTypeOK
<1>2. v \in w_overdue' <=> v \in w_overdue
  BY DEF WatcherMoves, WatcherStep, WatcherSpawn, WatcherCrash
<1>. QED  BY <1>1, <1>2

\* A watcher's errors and crashes come from the common budget.
LEMMA WatcherBudget ==
  ASSUME NEW w \in Watchers, WatcherMoves(w)
  PROVE  crashes' = crashes \/ (crashes < MaxCrashes /\ crashes' = crashes + 1)
BY DEF WatcherMoves, WatcherStep, WatcherSpawn, WatcherCrash, WatcherState, WatcherFault,
       NoWatcherFault, SpawnTakerSwapWatcher, WatcherValidateTakerFee,
       WatcherValidateTakerPayment, WatcherFindsSpend, WatcherFindsRefund,
       WatcherWaitedLongEnough, WatcherWaitsForMakerSpend, WatcherSpendMakerPayment,
       WatcherRefundTakerPayment

-----------------------------------------------------------------------------
(* All of it together.                                                     *)

Timely ==
  /\ SecretInv
  /\ PatientInv
  /\ ReturnInv
  /\ TakerInTime
  /\ \A w \in Watchers : WatcherInTime(w)

\* The logs and the chains only grow.
LEMMA WatchedGrows ==
  ASSUME World, Maker, Taker, Watched, [WatchedNext]_watchedVars
  PROVE  Grows
<1>1. WatchedInv
  BY WatchedInvParts
<1>2. ChainStep
  BY <1>1, WatchedNextInv
<1>3. m_saved \subseteq m_saved' /\ t_saved \subseteq t_saved'
  <2>. USE DEF makerVars, takerVars
  <2>1. CASE MakerMoves
    BY <2>1, MakerHandlerLog DEF MakerMoves, MakerStep, MakerCrash, MakerRecoverFunds
  <2>2. CASE TakerMoves
    BY <2>2, TakerHandlerLog DEF TakerMoves, TakerStep, TakerCrash, TakerRecoverFunds
  <2>3. CASE TakerLeaves
    BY <2>3 DEF TakerLeaves
  <2>4. CASE \E w \in Watchers : WatcherMoves(w)
    BY <2>4 DEF WatcherMoves
  <2>5. CASE ChainMoves \/ WatchedTick
    BY <2>5 DEF ChainMoves, WatchedTick
  <2>6. CASE UNCHANGED watchedVars
    BY <2>6 DEF watchedVars, vars
  <2>. QED  BY <2>1, <2>2, <2>3, <2>4, <2>5, <2>6 DEF WatchedNext
<1>. QED  BY <1>2, <1>3, StepGrows

\* A move on the chains that changes nothing about either swap and not the clock.
LEMMA QuietMove ==
  ASSUME World, Maker, Taker, Watched, Timely, Grows, OtherMove,
         UNCHANGED makerVars, UNCHANGED takerVars, UNCHANGED <<now, net, away>>,
         \A a \in {"maker", "taker"} : a \in overdue' <=> a \in overdue,
         crashes' = crashes \/ (crashes < MaxCrashes /\ crashes' = crashes + 1)
  PROVE  /\ SecretInv' /\ PatientInv' /\ ReturnInv' /\ TakerInTime'
         /\ \A w \in Watchers :
              w_pc'[w] = w_pc[w] /\ (w \in w_overdue' <=> w \in w_overdue)
                => WatcherInTime(w)'
<1>1. t_pc # "Start" => UNCHANGED t_started_at
  BY DEF takerVars
<1>2. SecretInv' /\ (SecretPublic' => SecretPublic)
  BY <1>1, OtherSecret DEF Timely
<1>3. now' \in Nat /\ now <= now'
  BY SMT DEF World, EnvDataTypeOK
<1>4. MakerLogged("TakerPaymentReceived")' => MakerLogged("TakerPaymentReceived")
  BY LoggedSame DEF makerVars
<1>5. PatientInv'
  BY <1>3, <1>4, PatientFrame DEF Timely
<1>6. ReturnInv'
  BY <1>3, OtherReturn DEF Timely
<1>7. TakerInTime'
  BY <1>2, InTimeFrame DEF Timely
<1>8. ASSUME NEW w \in Watchers, w_pc'[w] = w_pc[w], w \in w_overdue' <=> w \in w_overdue
      PROVE  WatcherInTime(w)'
  BY <1>1, <1>2, <1>8, WatcherFrame DEF Timely
<1>. QED  BY <1>2, <1>5, <1>6, <1>7, <1>8

\* The maker's node.
LEMMA MakerMovesTimely ==
  ASSUME LockIsLong, World, Maker, Taker, Watched, Timely, Grows, MakerMoves
  PROVE  Timely'
<1>1. /\ UNCHANGED takerVars /\ UNCHANGED <<w_pc, w_overdue, away>>
      /\ UNCHANGED t_started_at
  BY DEF MakerMoves, watcherVars, takerVars
<1>2. SecretStep
  BY <1>1, MakerSecretStep DEF Timely, MakerMoves
<1>3. PatientInv'
  BY <1>1, MakerPatient DEF Timely, MakerMoves
<1>4. CASE MakerRecoverFunds
  <2>1. /\ UNCHANGED makerVars /\ UNCHANGED <<now, net, crashes, overdue>>
    BY <1>4 DEF MakerRecoverFunds
  <2>. QED  BY <1>1, <1>4, <2>1, MakerRecoverMove, QuietMove DEF Timely
<1>5. CASE MakerStep \/ MakerCrash
  <2>1. /\ UNCHANGED now
        /\ "taker" \in overdue' <=> "taker" \in overdue
        /\ crashes' = crashes \/ (crashes < MaxCrashes /\ crashes' = crashes + 1)
    BY <1>5 DEF MakerStep, MakerCrash
  <2>2. now' \in Nat /\ now <= now'
    BY SMT, <2>1 DEF World, EnvDataTypeOK
  <2>3. ReturnInv'
    <3>1. CASE MakerStep
      BY <3>1, MakerReturnStep DEF Timely, SecretInv
    <3>2. CASE MakerCrash
      BY <2>2, <3>2, OtherReturn DEF MakerCrash, OtherMove, ChainUnchanged, Timely
    <3>. QED  BY <1>5, <3>1, <3>2
  <2>4. CASE MakerStep /\ m_pc = "SpendTakerPayment.send"
    BY <1>1, <1>2, <1>3, <2>1, <2>3, <2>4, MakerPublishes, WatcherPublished
    DEF Timely, SecretStep
  <2>5. CASE SecretPublic' => SecretPublic
    BY <1>1, <1>2, <1>3, <2>1, <2>3, <2>5, InTimeFrame, WatcherFrame DEF Timely, SecretStep
  <2>6. MakerCrash => (SecretPublic' => SecretPublic)
    BY DEF MakerCrash, SecretPublic, Spent
  <2>. QED  BY <1>2, <1>5, <2>4, <2>5, <2>6 DEF SecretStep
<1>. QED  BY <1>4, <1>5 DEF MakerMoves

\* The taker's node.
LEMMA TakerMovesTimely ==
  ASSUME LockIsLong, World, Maker, Taker, Watched, Timely, Grows, TakerMoves
  PROVE  Timely'
<1>1. UNCHANGED makerVars /\ UNCHANGED <<w_pc, w_overdue, away>>
  BY DEF TakerMoves
<1>2. UNCHANGED now /\ now' \in Nat /\ now <= now'
  BY SMT DEF TakerMoves, TakerStep, TakerCrash, TakerRecoverFunds, World, EnvDataTypeOK
<1>3. SecretInv'
  BY <1>1, TakerSecretStep DEF Timely, TakerMoves, SecretStep
<1>4. ReturnInv'
  BY <1>2, TakerOtherMove, OtherReturn DEF Timely, TakerMoves
<1>5. SecretPublic' => SecretPublic
  BY <1>1, TakerKeepsSecret DEF Timely, TakerMoves, SecretInv
<1>6. \A w \in Watchers : WatcherInTime(w)'
  BY <1>1, <1>2, <1>5, TakerStartsOnce, WatcherFrame DEF Timely, TakerMoves
<1>7. PatientInv' /\ TakerInTime'
  <2>1. CASE TakerStep
    BY <1>1, <2>1, TakerStepPatient, TakerStepInTime DEF Timely, SecretInv
  <2>2. CASE TakerCrash
    BY <1>1, <2>2, TakerDownPatient, TakerCrashInTime DEF Timely
  <2>3. CASE TakerRecoverFunds
    <3>1. UNCHANGED takerVars /\ UNCHANGED <<now, net, crashes, overdue>>
      BY <2>3 DEF TakerRecoverFunds
    <3>. QED  BY <1>1, <2>3, <3>1, TakerOtherMove, QuietMove
  <2>. QED  BY <2>1, <2>2, <2>3 DEF TakerMoves
<1>. QED  BY <1>3, <1>4, <1>6, <1>7 DEF Timely

\* The taker's node goes away for long.
LEMMA TakerLeavesTimely ==
  ASSUME World, Maker, Taker, Watched, Timely, Grows, TakerLeaves
  PROVE  Timely'
<1>1. /\ UNCHANGED makerVars /\ UNCHANGED <<w_pc, w_overdue, t_started_at>> /\ away' = TRUE
      /\ UNCHANGED <<now, htlc, lock, paid, crashes, overdue>>
  BY DEF TakerLeaves, envVars, watcherVars
<1>2. now' \in Nat /\ now <= now'
  BY SMT, <1>1 DEF World, EnvDataTypeOK
<1>3. OtherMove
  BY <1>1 DEF OtherMove, ChainUnchanged
<1>4. SecretInv' /\ (SecretPublic' => SecretPublic)
  BY <1>1, <1>3, OtherSecret DEF Timely
<1>5. PatientInv'
  BY <1>1, TakerDownPatient DEF Timely
<1>6. ReturnInv'
  BY <1>2, <1>3, OtherReturn DEF Timely
<1>7. TakerInTime'
  BY <1>1 DEF Timely, TakerInTime
<1>8. \A w \in Watchers : WatcherInTime(w)'
  BY <1>1, <1>4, WatcherFrame DEF Timely
<1>. QED  BY <1>4, <1>5, <1>6, <1>7, <1>8 DEF Timely

\* A watcher.
LEMMA WatcherMovesTimely ==
  ASSUME LockIsLong, World, Maker, Taker, Watched, Timely, Grows,
         NEW w \in Watchers, WatcherMoves(w)
  PROVE  Timely'
<1>1. /\ UNCHANGED makerVars /\ UNCHANGED takerVars
      /\ UNCHANGED <<now, net, away, overdue>>
  BY DEF WatcherMoves, WatcherStep, WatcherSpawn, WatcherCrash
<1>2. /\ SecretInv' /\ PatientInv' /\ ReturnInv' /\ TakerInTime'
      /\ \A v \in Watchers :
           w_pc'[v] = w_pc[v] /\ (v \in w_overdue' <=> v \in w_overdue) => WatcherInTime(v)'
  BY <1>1, WatcherOtherMove, WatcherBudget, QuietMove
<1>3. ASSUME NEW v \in Watchers, v # w PROVE WatcherInTime(v)'
  BY <1>2, <1>3, WatcherOtherStep
<1>4. WatcherInTime(w)'
  BY WatcherOwnStep DEF Timely
<1>. QED  BY <1>2, <1>3, <1>4 DEF Timely

\* The chains, and steps that change nothing.
LEMMA ChainMovesTimely ==
  ASSUME World, Maker, Taker, Watched, Timely, Grows, ChainMoves \/ UNCHANGED watchedVars
  PROVE  Timely'
<1>1. /\ UNCHANGED makerVars /\ UNCHANGED takerVars
      /\ UNCHANGED <<now, net, away, crashes, w_pc, w_overdue>>
      /\ \A a \in {"maker", "taker"} : a \in overdue' <=> a \in overdue
  BY DEF ChainMoves, Chain, Mine, AutoRefund, Payments, watchedVars, vars, envVars, watcherVars
<1>2. OtherMove
  <2>1. CASE ChainMoves
    BY <2>1, ChainOtherMove DEF ChainMoves
  <2>2. CASE UNCHANGED watchedVars
    BY <2>2 DEF OtherMove, ChainUnchanged, watchedVars, vars, envVars
  <2>. QED  BY <2>1, <2>2
<1>. QED  BY <1>1, <1>2, QuietMove DEF Timely

\* The clock.
LEMMA TickTimely ==
  ASSUME Synchronous, World, Maker, Taker, Watched, Timely, Grows, WatchedTick
  PROVE  Timely'
<1>1. /\ UNCHANGED makerVars /\ UNCHANGED takerVars /\ UNCHANGED net /\ ChainUnchanged
      /\ now' = now + 1 /\ overdue' = Outstanding /\ "maker" \notin overdue
  BY DEF WatchedTick, ChainUnchanged, Unhurried
<1>2. now' \in Nat /\ now <= now'
  BY SMT, <1>1 DEF World, EnvDataTypeOK
<1>3. SecretInv'
  BY <1>1, TickSecret DEF Timely
<1>4. MakerLogged("TakerPaymentReceived")' => MakerLogged("TakerPaymentReceived")
  BY <1>1, LoggedSame DEF makerVars
<1>5. PatientInv'
  BY <1>1, <1>2, <1>4, PatientFrame DEF Timely
<1>6. ReturnInv'
  BY <1>1, <1>2, OtherReturn DEF Timely, OtherMove
<1>. QED  BY <1>3, <1>5, <1>6, TickInTime, WatcherTick DEF Timely

\* Every step of the watched swap keeps the timing.
LEMMA InTimeNext ==
  ASSUME LockIsLong, InTimeInv, [WatchedNext]_watchedVars
  PROVE  InTimeInv'
<1>1. World /\ Maker /\ Taker /\ Watched /\ Timely /\ Synchronous
  BY WatchedInvParts DEF InTimeInv, Timely, LockIsLong
<1>2. Grows
  BY <1>1, WatchedGrows
<1>3. Timely'
  <2>1. CASE MakerMoves
    BY <1>1, <1>2, <2>1, MakerMovesTimely
  <2>2. CASE TakerMoves
    BY <1>1, <1>2, <2>2, TakerMovesTimely
  <2>3. CASE TakerLeaves
    BY <1>1, <1>2, <2>3, TakerLeavesTimely
  <2>4. CASE \E w \in Watchers : WatcherMoves(w)
    BY <1>1, <1>2, <2>4, WatcherMovesTimely
  <2>5. CASE ChainMoves \/ UNCHANGED watchedVars
    BY <1>1, <1>2, <2>5, ChainMovesTimely
  <2>6. CASE WatchedTick
    BY <1>1, <1>2, <2>6, TickTimely
  <2>. QED  BY <2>1, <2>2, <2>3, <2>4, <2>5, <2>6 DEF WatchedNext
<1>4. WatchedInv'
  BY WatchedNextInv DEF InTimeInv
<1>. QED  BY <1>3, <1>4 DEF InTimeInv, Timely

\* Nothing has happened at first.
LEMMA InTimeInit == WatchedInit => InTimeInv
<1>1. SUFFICES ASSUME WatchedInit PROVE InTimeInv
  OBVIOUS
<1>2. WatchedInv /\ SecretInv
  BY <1>1, WatchedInitInv, SecretInit DEF WatchedInit
<1>3. \A p \in Payments : ~Spent(p) /\ ~Refunded(p)
  BY <1>1 DEF WatchedInit, Init, EnvInit, Spent, Refunded
<1>4. net = {} /\ t_saved = {} /\ t_pending = <<>> /\ crashes = 0
  BY <1>1 DEF WatchedInit, Init, EnvInit, TakerInit
<1>5. ~MakerLogged("TakerPaymentReceived")
  BY SMT, <1>1 DEF WatchedInit, Init, MakerInit, MakerLogged
<1>6. PatientInv
  <2>1. SentBatch
    BY SMT, <1>4 DEF SentBatch
  <2>. QED  BY <1>4, <1>5, <2>1 DEF PatientInv
<1>7. TakerInTime
  <2>1. crashes <= MaxCrashes
    BY SMT, <1>4, BoundAssumption
  <2>. QED  BY <1>3, <2>1 DEF TakerInTime, SecretPublic, Payments
<1>8. \A w \in Watchers : WatcherInTime(w)
  BY <1>1 DEF WatchedInit, WatcherInit, WatcherInTime
<1>. QED  BY <1>2, <1>3, <1>6, <1>7, <1>8 DEF InTimeInv, ReturnInv, Payments

\* The timing of the watched swap: while no call fails, nobody is later than a tick and
\* the lock is long enough, the taker and every watcher that watches are always so many
\* ticks away from the taker's lock time as they still need to reach the maker payment.
THEOREM InTimeInvariance ==
  ASSUME LockIsLong
  PROVE  WatchedSpec => []InTimeInv
<1>1. InTimeInv /\ [WatchedNext]_watchedVars => InTimeInv'
  BY InTimeNext
<1>. QED  BY <1>1, InTimeInit, PTL DEF WatchedSpec

\* What the timing says about the payments.
LEMMA InTimeNotOneSided ==
  ASSUME LockIsLong, InTimeInv
  PROVE  WatchedNotOneSided
<1>1. World /\ Maker /\ Taker /\ Watched
  BY WatchedInvParts DEF InTimeInv
<1>2. ~(Spent("maker_payment") /\ Refunded("taker_payment"))
  BY <1>1 DEF World, ChainInv, Spent, Refunded
<1>3. SUFFICES ASSUME SecretPublic, Refunded("maker_payment"),
                      ~away \/ \E w \in Watchers : Watching(w)
               PROVE  FALSE
  BY <1>2 DEF WatchedNotOneSided, NotOneSided, SecretPublic
<1>4. ~Spent("maker_payment") /\ ~Refunded("taker_payment")
  BY <1>3 DEF Spent, Refunded, SecretPublic
<1>5. ~(now <= TakerPaymentLock + 3)
  BY <1>1, <1>3, <1>4, NotReturned DEF InTimeInv, SecretInv, Unclaimed, Refunded
<1>6. CASE ~away
  <2>1. /\ crashes <= MaxCrashes
        /\ Turn("taker") + TakerStepsLeft + StepsOfTaker * (MaxCrashes - crashes)
             <= TakerPaymentLock
    BY <1>3, <1>4, <1>6 DEF InTimeInv, TakerInTime
  <2>. QED  BY SMT, <1>1, <1>5, <2>1, TimingTypes
<1>7. ASSUME NEW w \in Watchers, Watching(w) PROVE FALSE
  <2>1. WatcherInTime(w)
    BY DEF InTimeInv
  <2>2. \/ WatcherTurn(w) < TakerPaymentLock
        \/ WatcherTurn(w) <= TakerPaymentLock + 1
        \/ WatcherTurn(w) <= TakerPaymentLock + 2
    BY <1>3, <1>4, <1>7, <2>1 DEF Watching, WatcherInTime, WatcherStates
  <2>. QED  BY SMT, <1>1, <1>5, <2>2, WatcherTypes
<1>. QED  BY <1>3, <1>6, <1>7

\* No one ends with both payments.  The taker reaches the maker payment before the maker
\* may take it back however the steps of the nodes and the crashes between them fall, and
\* with the taker's node down for any time a watcher that validated the payment does.
THEOREM NobodyEndsWithBoth ==
  ASSUME LockIsLong
  PROVE  WatchedSpec => []WatchedNotOneSided
<1>1. InTimeInv => WatchedNotOneSided
  BY InTimeNotOneSided
<1>. QED  BY <1>1, InTimeInvariance, PTL

\* The steps of the watched swap and the secret.
LEMMA WatchedSecretNext ==
  ASSUME Synchronous, WatchedInv, SecretInv, [WatchedNext]_watchedVars
  PROVE  SecretStep
<1>1. World /\ Maker /\ Taker /\ Watched
  BY WatchedInvParts
<1>2. CASE MakerMoves
  BY <1>1, <1>2, MakerSecretStep DEF MakerMoves
<1>3. CASE TakerMoves
  BY <1>1, <1>3, TakerSecretStep DEF TakerMoves
<1>4. CASE TakerLeaves
  <2>1. UNCHANGED makerVars /\ UNCHANGED <<t_started_at, now, overdue>> /\ OtherMove
    BY <1>4 DEF TakerLeaves, envVars, OtherMove, ChainUnchanged
  <2>. QED  BY <1>1, <2>1, OtherSecret DEF SecretStep
<1>5. ASSUME NEW w \in Watchers, WatcherMoves(w) PROVE SecretStep
  <2>1. UNCHANGED makerVars /\ UNCHANGED <<t_started_at, now, overdue>>
    BY <1>5 DEF WatcherMoves, WatcherStep, WatcherSpawn, WatcherCrash, takerVars
  <2>. QED  BY <1>1, <1>5, <2>1, WatcherOtherMove, OtherSecret DEF SecretStep
<1>6. CASE ChainMoves
  BY <1>1, <1>6, ChainSecretStep DEF ChainMoves
<1>7. CASE WatchedTick
  <2>1. "maker" \notin overdue
    BY <1>7 DEF WatchedTick, Unhurried
  <2>. QED  BY <1>1, <1>7, <2>1, TickSecret DEF WatchedTick, ChainUnchanged, SecretStep
<1>8. CASE UNCHANGED watchedVars
  BY <1>1, <1>8, OtherSecret
  DEF watchedVars, vars, envVars, OtherMove, ChainUnchanged, SecretStep, takerVars
<1>. QED  BY <1>2, <1>3, <1>4, <1>5, <1>6, <1>7, <1>8 DEF WatchedNext

\* The secret is out in time with any number of watchers, and with the taker away.
THEOREM WatchedSecretOutInTime ==
  ASSUME DeadlineHasSlack
  PROVE  WatchedSpec => SecretInTime
<1>1. Synchronous
  BY DEF DeadlineHasSlack
<1>2. WatchedInv /\ SecretInv /\ [WatchedNext]_watchedVars => SecretInv'
  BY <1>1, WatchedSecretNext DEF SecretStep
<1>3. WatchedInit => SecretInv
  BY SecretInit DEF WatchedInit
<1>4. WatchedInv /\ SecretInv /\ [WatchedNext]_watchedVars
        => [~SecretPublic /\ SecretPublic' => now <= lock["taker_payment"]]_vars
  BY <1>1, WatchedSecretNext, PublishedInTime, WatchedInvParts DEF SecretStep
<1>. QED  BY <1>2, <1>3, <1>4, WatchedInvariance, PTL DEF WatchedSpec, SecretInTime

\* The watchers and an absent taker leave the safety of the swap as it is: nobody pays
\* twice, the databases never claim what the chains do not show, each payment waits for
\* what it depends on, every unwrap finds its transaction, a restart continues where the
\* swap stood, and recover_funds finds what a finished swap left behind.
THEOREM WatchedSafety == WatchedSpec => [](SwapSafety /\ NotStranded)
<1>1. WatchedInv => SwapSafety /\ NotStranded
  BY InvSafety, IndInvParts, MakerRecovers, TakerRecovers DEF WatchedInv, NotStranded
<1>. QED  BY <1>1, WatchedInvariance, PTL

=============================================================================
